\* Frames on a disturbed line.
SPECIFICATION StreamSpec
CONSTANTS
  W = 3
  STX = 2
  BufSize = 4
  Counts = 2
  Sums <- MCSums
  SumInit = 8
  Accumulate <- MCAccumulate
  Low <- MCLow
  High <- MCHigh
  Extra <- MCExtra
  Messages <- MCMessages
  SysId0 = 1
  CompId0 = 0
  MaxFrames = 4
  MaxDisturbances = 2
INVARIANTS
  TypeOK
  WritesInBuffer
  WholeMessage
  SettlesWithinOneFrame
  OneByteCostsOneMessage
PROPERTIES
  ImplementsReceiver
  IntactFrameIsReturned
CHECK_DEADLOCK FALSE
