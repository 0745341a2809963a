\* Every message of every dialect, between builds and dialects.
SPECIFICATION Spec
CONSTANTS
  Known <- MCKnown
  Seeds <- MCSeeds
  Pairs <- MCPairs
  First <- MCFirst
  MaxPackings = 2
  BufferBytes = 264
INVARIANTS
  NothingStaleIsSent
  DecodedAsPacked
  SeedsTellMessagesApart
  KnownIsAccepted
CHECK_DEADLOCK FALSE
