\* Two bytes each way through pipes and send buffers of one; the first timeout gives up.
CONSTANTS
  Round = 16
  Word = 64
  UInt16Max = 8
  MaxPayload = 1
  RetxTimeout = 1
  UIntRange = 8
  RecvCapacity = 2
  SendCapacity = 1
  LingerFactor = 2
  MaxRetxAttempts = 0
  PipeSize = 1
  OwnerLen = 2
  PeerLen = 2
  MaxInbox = 1
  PeerWindow = 1
  TickMs = 1
SPECIFICATION Spec
INVARIANTS BetweenOwnerAndConnection EofExplained DiesOnlyByReset
PROPERTIES OfficialSteps CallsReturn
CHECK_DEADLOCK FALSE
