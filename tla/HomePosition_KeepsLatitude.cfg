\* Latitude and longitude of GPS_RAW_INT.
SPECIFICATION Spec
CONSTANTS
  Coords <- MCCoords
  Altitudes <- MCAltitudes
  FixTypes <- MCFixTypes
  Tolerance = 1
  StableCalls = 3
PROPERTY
  KeepsLatitude
