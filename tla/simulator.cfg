SPECIFICATION Spec
CONSTANTS
  Top = 3
  Base = 2
  Depth = 1
  TimeStep = 1
  NetIn <- Lossy
  Gateway <- Fast
  Engine <- Fast
  Levels = 10
  ImbalancePct = 30
  HalfSpreads = {2}
  CrashLots = 2
  Jump = 1
  NewsDepth = 1
  HaltTicks = 2
  ThresholdPct = 50
  Sessions = {"AUCTION"}
  MaxEvents = 1
  MaxLots = 3
INVARIANTS
  OneQuotePerSide
  DeviantMarketHalts
PROPERTIES
  QuotesArrive
