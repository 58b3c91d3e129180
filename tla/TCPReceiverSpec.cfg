\* Data reordered, repeated and cut by the window; the FIN, repeated SYNs and ACKs
\* in any order too; an initial sequence number in the lower half of the space,
\* where an ACK that overtakes the SYN does no harm.
CONSTANTS
  Round = 22
  Word = 128
  Capacity = 3
  PeerIsn = 5
  StreamLen = 24
  MaxSegment = 3
  Lag = 2
  EarlyFin = TRUE
  LateSyn = TRUE
  AckBeforeSyn = TRUE
SPECIFICATION Spec
INVARIANTS InOrder CheckpointExact AckExact UnwrapIsNearest FinAckedOnlyWhenComplete
CHECK_DEADLOCK FALSE
