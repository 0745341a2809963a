\* The picture "during flight".
SPECIFICATION Spec
CONSTANTS
  Coords <- MCPoint
  Altitudes <- MCAltitudes
  FixTypes <- MCFixTypes
  Tolerance = 1
  StableCalls = 2
  MaxBatch = 1
  FifoCap = 1
  ReadCmds = 2
PROPERTY
  PictureNeverFreezes
