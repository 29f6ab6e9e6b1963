SPECIFICATION Spec
CONSTANTS
  MaxOrders = 4
  MaxClock = 4
  OrderId = {1, 2, 3, 4}
  Owner = {"m1"}
  Price <- TwoTicks
  Tick <- TwoTicks
  Tickets <- BookTickets
  Amendments <- NoAmendments
  IdOf <- UniqueIds
INVARIANTS
  BookUncrossed
  VolumesAddUp
  VolumesCoverRemaining
  FillsAreTrades
  EngineInv
PROPERTIES
  TradesWithinLimits
  FokRefusedOnlyIfShort
