\* No faults, clocks slower than the network and the applications; either end or
\* both may open.
CONSTANTS
  Client = Client
  Server = Server
  Round = 16
  Word = 64
  UInt16Max = 8
  Isn <- MCIsn
  Openers = {Client, Server}
  MaxPayload = 2
  RetxTimeout = 1
  UIntRange = 8
  RecvCapacity = 5
  SendCapacity = 2
  LingerFactor = 3
  MaxRetxAttempts = 2
  StreamLen <- LongStreams
  MayLose = FALSE
  MayRepeat = FALSE
  MayReorder = FALSE
  MaxFaults = 0
  MaxInFlight = 6
  PromptNetwork = TRUE
  PromptApps = TRUE
SPECIFICATION Spec
INVARIANTS CleanClose
PROPERTIES BothFinish
CHECK_DEADLOCK FALSE
