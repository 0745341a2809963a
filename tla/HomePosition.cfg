\* The home point on its own: every order of messages, calls and resets.
SPECIFICATION Spec
CONSTANTS
  Coords <- MCCoords
  Altitudes <- MCAltitudes
  FixTypes <- MCFixTypes
  Tolerance = 1
  StableCalls = 3
INVARIANTS
  TypeOK
  CounterIsWindow
  FlagsAgree
PROPERTIES
  LocksFromStableWindow
  ImplementsHomeLock
