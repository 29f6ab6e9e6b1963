SPECIFICATION FairSpec
CONSTANTS
  MaxOrders = 4
  MaxClock = 4
  OrderId = {1, 2, 3, 4}
  Owner = {"a", "b"}
  Price <- TwoTicks
  Tick <- TwoTicks
  Tickets <- AmendTickets
  Amendments <- SomeAmendments
  IdOf <- UniqueIds
INVARIANTS
  BookIndexed
  VolumesNeverExceed
  FilledWithinQuantity
  NoPreventableSelfTrade
PROPERTIES
  PriceTimePriority
  SweepLeavesNothing
  CallsReturn
