\* Frames on a disturbed line, and through it every stream of bytes.
SPECIFICATION StreamSpec
CONSTANTS
  W = 5
  Header1 = 1
  Header2 = 2
  Lengths <- MCLengths
  BufSize = 2
  None <- MCNone
INVARIANTS
  TypeOK
  WritesInBuffer
  WholePayload
PROPERTIES
  ImplementsFrameReceiver
  IntactFrameIsReturned
  Resynchronises
