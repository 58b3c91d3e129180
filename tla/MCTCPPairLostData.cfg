\* One segment is lost.
CONSTANTS
  Client = Client
  Server = Server
  Round = 16
  Word = 64
  UInt16Max = 8
  Isn <- MCIsn
  Openers = {Client}
  MaxPayload = 1
  RetxTimeout = 1
  UIntRange = 8
  RecvCapacity = 2
  SendCapacity = 2
  LingerFactor = 3
  MaxRetxAttempts = 2
  StreamLen <- ShortStreams
  MayLose = TRUE
  MayRepeat = FALSE
  MayReorder = FALSE
  MaxFaults = 1
  MaxInFlight = 4
  PromptNetwork = TRUE
  PromptApps = TRUE
SPECIFICATION Spec
INVARIANTS CleanClose
CHECK_DEADLOCK FALSE
