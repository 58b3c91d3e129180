\* Segments of up to 2 bytes, a buffer of 3 and a stream of 4 bytes that crosses
\* the wrap; windows closed, of one byte and open; a timeout of 2 ticks.
CONSTANTS
  Round = 16
  Word = 64
  MaxPayload = 2
  RetxTimeout = 2
  UIntRange = 16
  Isn = 14
  SendCapacity = 3
  StreamLen = 4
  Windows = {0, 1, 3}
  Milliseconds = {1, 3}
  MaxRetx = 1
  MaxRto = 4
SPECIFICATION Spec
INVARIANTS EverythingCovered FinIsLast TimersInOrder
PROPERTIES WithinWindow RetransmitsFirstMissing
CHECK_DEADLOCK FALSE
