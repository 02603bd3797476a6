SPECIFICATION Spec
CONSTANTS
  c1 = c1
  c2 = c2
  c3 = c3
  Connections = {c1, c2, c3}
  Workloads <- AllWorkloads
  AnyQuery = AnyQuery
  Alphabet <- AnyCharacter
  TreeOf <- TreeOfReceived
  Compiling <- Compiles
  Failing <- RankingMayFail
  NoTree <- NoTuple
  Skipped <- Blank
  BufferSize = 24
  Threads = 2
  NUM_THREADS = 2
  Descriptors = 4
  MaxLine = 3
INVARIANTS TypeOK ParsedAsMeant WordsInOrder DownOnlyFor
PROPERTY ClosedEventually
CHECK_DEADLOCK FALSE
