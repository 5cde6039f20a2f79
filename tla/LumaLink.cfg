SPECIFICATION FairSpec
CONSTANTS
  p1 = p1
  p2 = p2
  p3 = p3
  None = None
  Photos <- ThreePhotos
  Size <- ThreeSizes
  MaxUpdates = 3
INVARIANTS PhotosHandedOver M5Closed
PROPERTIES ReactionsApart NeverDeaf
CHECK_DEADLOCK FALSE
