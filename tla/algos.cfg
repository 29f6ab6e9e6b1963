SPECIFICATION Spec
CONSTANTS
  VolumeWeights <- Profiles
  ShortfallWeights <- FrontLoaded
  Total = 12
  Slices = 4
  Interval = 2
  ParticipationPct = 60
  MaxSlice = 3
  ThresholdPct = 30
  Pegging = TRUE
  Market <- Markets
INVARIANTS
  NeverAheadOfSchedule
PROPERTIES
  Completes
