SPECIFICATION Spec
CONSTANTS
  Chunks <- ManyChunks
  Trees <- AllQueries
  Skipped = {" "}
  MaxBody = 2
  MaxDocuments = 2
  Floor <- TwoLevels
  SYNCTABLESIZE = 2
  Unset = {0, 100}
  Highest = 100
  Null = Null
  NaN = NaN
  Ranks = {1, 2, NaN}
  MaxResults = 2
INVARIANTS
  TypeOK
  AnswersAdvance ResultsBestAndLast
  AnswersHoldTheirPost
  FaultsOnlyWhere
  AnswersMatchUnaliased
  MissesOnlySyncPosts
CHECK_DEADLOCK FALSE
