SPECIFICATION Spec
CONSTANTS
  Width16 = 65536
  PageLimit = 5
INVARIANTS
  TypeOK
  OneNodePerPage ReleasedNotInUse
  ReleasedOnce
  NoPageLost
PROPERTIES
  GrowsOnlyWhenFull
  AllocatorSpec
