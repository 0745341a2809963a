SPECIFICATION Spec
CONSTANTS
  Hands = {g, h}
  g = g
  h = h
  MaxFlips = 2
  MaxMoves = 2
  MaxReboots = 1
\* Everything may have been done.
CHECK_DEADLOCK FALSE
INVARIANTS
  SameFlipsAgree
  NeverTogether
PROPERTIES
  FollowsSwitch
