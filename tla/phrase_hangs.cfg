SPECIFICATION Spec
CONSTANTS
  Chunks <- ThreeWordChunks
  Trees <- LongPhrase
  Skipped = {" "}
  MaxBody = 4
  MaxDocuments = 2
  Floor <- TwoLevels
  SYNCTABLESIZE = 2
  Unset = {0}
  Highest = 100
  Null = Null
  NaN = NaN
  Ranks = {1}
  MaxResults = 2
INVARIANTS
  SearchEnds
CHECK_DEADLOCK FALSE
