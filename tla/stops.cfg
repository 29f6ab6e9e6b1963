SPECIFICATION FairSpec
CONSTANTS
  MaxOrders = 4
  MaxClock = 4
  OrderId = {1, 2, 3, 4}
  Owner = {"m1"}
  Price <- ThreeTicks
  Tick <- ThreeTicks
  Tickets <- StopTickets
  Amendments <- NoAmendments
  IdOf <- UniqueIds
INVARIANTS
  OnePlace
  DueStopsAreNew
PROPERTIES
  NoZombieFills
  CanceledNeverTriggers
  CallsReturn
