SPECIFICATION Spec
CONSTANTS
  Venue <- ThreeVenues
  MakerFee <- Makers
  TakerFee <- Takers
  SplitAbove = 2
  Snapshots <- SomeSnapshots
  Parents <- SomeParents
INVARIANTS
  ChildrenAddUp
  SweepsCheapest
