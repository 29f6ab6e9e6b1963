SPECIFICATION FairSpec
CONSTANTS
  MaxOrders = 4
  MaxClock = 4
  OrderId = {1, 2, 3, 4}
  Owner = {"m1"}
  Price <- TwoTicks
  Tick <- TwoTicks
  Tickets <- IcebergTickets
  Amendments <- NoAmendments
  IdOf <- UniqueIds
PROPERTIES
  CallsReturn
