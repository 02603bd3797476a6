SPECIFICATION Spec
CONSTANTS
  Locations <- SmallLocations
  MaxLocation = 9
  MaxPosts = 4
  SYNCTABLESIZE = 4
  Floor <- PowersOfTwo
  Null = Null
INVARIANTS
  TypeOK
  SyncTableComplete
  DocumentBounds
PROPERTIES
  EndDocSeekFirst
  WordSeekSkipsAtMostOne
CHECK_DEADLOCK FALSE
