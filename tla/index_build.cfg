SPECIFICATION Spec
CONSTANTS
  x = x
  y = y
  t = t
  u1 = u1
  u2 = u2
  u3 = u3
  Corpora <- SmallCorpora
  Urls = {u1, u2, u3}
  Words = {x, y}
  AnchorTexts = {t}
  MAX_LOCATION = 4
  MAX_UNIQUE_WORDS = 2
  MaxChunks = 4
  MaxRuns = 3
INVARIANTS
  TypeOK
  ListsIncrease
  LocationsExact
  AnchorsExact
  EveryDocumentIndexed
  ChunkBounded
  DoneIsComplete
  AcceptedPartials
CHECK_DEADLOCK FALSE
