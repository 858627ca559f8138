CONSTANTS
  BlockSize = 2
  Blocks = 3
  Sets <- SetCounts
  Assoc <- Ways
  Values = {0, 1}
  Loads <- SomeLoads
  Stores <- SomeStores
  Images <- Restored
SPECIFICATION Spec
INVARIANT CleanMatchesBelow
PROPERTY RefinesFlat
