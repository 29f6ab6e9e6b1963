SPECIFICATION Spec
CONSTANTS
  Levels = {"bid", "ask"}
  Members = {"a", "b", "c"}
  Initial = 1
  Batch = 2
  MaxNodes = 3
INVARIANTS
  LinksMirror
  NodesConserved
  EntriesFindNodes
PROPERTIES
  StrictFifo
