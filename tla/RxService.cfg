SPECIFICATION Spec
CONSTANTS
  Capacity = 2
  MaxCrashes = 2
  MaxKeys = 3
INVARIANTS
  OneOsd
PROPERTIES
  VideoComesBack
