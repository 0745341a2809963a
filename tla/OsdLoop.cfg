\* The OSD loop, its home point and its picture.
SPECIFICATION Spec
CONSTANTS
  Coords <- MCCoords
  Altitudes <- MCAltitudes
  FixTypes <- MCFixTypes
  Tolerance = 1
  StableCalls = 2
  MaxBatch = 1
  FifoCap = 1
  ReadCmds = 2
INVARIANTS
  TypeOK
PROPERTIES
  ImplementsHomePosition
  DistanceIsOfThisPicture
  PictureKeepsUp
  AltitudeGetsLocked
