SPECIFICATION Spec
CONSTANTS
  Tickets <- AuctionTickets
  References = {0, 7}
  Grid = 3
  MaxOrders = 4
INVARIANTS
  ClearingIsOptimal
  UncrossingFair
