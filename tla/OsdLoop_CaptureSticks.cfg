\* 'h' for "capturing your take-off point".
SPECIFICATION Spec
CONSTANTS
  Coords <- MCCoords
  Altitudes <- MCAltitudes
  FixTypes <- MCFixTypes
  Tolerance = 1
  StableCalls = 2
  MaxBatch = 1
  FifoCap = 1
  ReadCmds = 2
PROPERTY
  CaptureSticks
