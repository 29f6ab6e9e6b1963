SPECIFICATION Spec
CONSTANTS
  Owner = {"a", "b"}
  Symbol = {"X"}
  Capital = 1200
  MaxPosition = 3
  MaxGross = 1000
  MaxDailyLoss = 120
  DrawdownPct = 15
  BandPct = 50
  HaltDuration = 1
  Tickets <- VenueTickets
  Amendments <- SomeAmendments
  Cash <- InDebt
  Endowments <- Start
  MaxCalls = 4
INVARIANTS
  ExposuresAgree
  MoneyConserved
  KilledRestNothing
PROPERTIES
  KilledPositionsFrozen
