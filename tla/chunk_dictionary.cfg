SPECIFICATION Spec
CONSTANTS
  Words = {"a"}
  AnchorTexts = {"a", "b"}
  Keys <- AllKeys
  Locations <- AllLocations
  HashFunctions <- AllHashes
  HashValues = {0, 1, 4}
  InitialSize = 4
  Letters <- SomeLetters
  SyncCells = 5
  HeaderCells = 2
  MaxLocation = 3
  MaxAnchors = 2
  MaxTokens = 2
INVARIANTS TableSound ChunkSound
PROPERTY ImplementsDictionary
CHECK_DEADLOCK FALSE
