SPECIFICATION ConstellationSpec
CONSTANTS
  Sat = {s1, s2, s3}
  Dist = {1, 2, 3}
  MAXDIST = 2
  MaxMove = 1
  CheckCount = 2
  PoolSize = 7
  IslCount = 1
  MaxLinks = 7
INVARIANTS
  OnOneList
  Listed
  PairsStay
  Settles
PROPERTIES
  NearestTaken
