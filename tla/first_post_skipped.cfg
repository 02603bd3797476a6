SPECIFICATION Spec
CONSTANTS
  Locations <- SmallLocations
  MaxLocation = 9
  MaxPosts = 4
  SYNCTABLESIZE = 4
  Floor <- PowersOfTwo
  Null = Null
PROPERTY
  WordSeekFirst
CHECK_DEADLOCK FALSE
