SPECIFICATION FairSpec
CONSTANTS
  i1 = i1
  i2 = i2
  w1 = w1
  w2 = w2
  w3 = w3
  c1 = c1
  c2 = c2
  c3 = c3
  q1 = q1
  q2 = q2
  a = a
  b = b
  d = d
  e = e
  NoUrl = NoUrl
  NaN = NaN
  None = None
  Indexes = {i1}
  Workers = {w1, w2, w3}
  theIndex = i1
  indexOf <- OneIndex
  Chunks = {c1, c2, c3}
  chunkFileNames <- ThreeFiles
  K = 2
  Urls <- AllUrls
  Queries = {q1, q2}
  Found <- FoundTies
  Unrankable <- KillsWithQ2
  MaxSearches = 1
  MaxSpurious = 1
CHECK_DEADLOCK FALSE
INVARIANTS
  TypeOK
  FirstSearchRanksOnce
  TopTenIsBest
PROPERTIES
  ImplementsSearchAnswer
  PushedIsRanked
