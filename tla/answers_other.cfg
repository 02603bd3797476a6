SPECIFICATION Spec
CONSTANTS
  Chunks <- SixDocumentChunks
  Trees <- BothWords
  Skipped = {" "}
  MaxBody = 2
  MaxDocuments = 2
  Floor <- TwoLevels
  SYNCTABLESIZE = 2
  Unset = {0}
  Highest = 100
  Null = Null
  NaN = NaN
  Ranks = {1}
  MaxResults = 2
INVARIANTS
  AnswersMatch
CHECK_DEADLOCK FALSE
