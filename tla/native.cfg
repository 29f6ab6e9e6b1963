SPECIFICATION Spec
CONSTANTS
  LastTick = 4
  Tick <- Ticks
  Arena <- Middle
  Tickets <- NativeTickets
  Amendments <- SomeAmendments
  ChunkSize = 2
  MaxCalls = 5
INVARIANTS
  PoolConserved
  IndexFindsResting
  BestIsBest
PROPERTIES
  ArenaPriority
