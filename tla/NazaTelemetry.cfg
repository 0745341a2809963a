SPECIFICATION ConverterSpec
CONSTANTS
  W = 3
  Header1 = 1
  Header2 = 2
  Lengths <- MCLengths
  BufSize = 2
  None <- MCNone
  Gps = 2
  Compass = 0
  Second = 2
  MaxSets = 1
INVARIANTS
  OneMessageAfterTheEnd
PROPERTIES
  HeartbeatsKeepComing
