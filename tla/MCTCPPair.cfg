\* One segment lost, repeated or overtaken, and clocks that may run arbitrarily
\* faster than the network: any segment may be retransmitted before it is
\* answered, any number of times, and an end may give up.
CONSTANTS
  Client = Client
  Server = Server
  Round = 16
  Word = 64
  UInt16Max = 8
  Isn <- MCIsn
  Openers = {Client}
  MaxPayload = 1
  RetxTimeout = 1
  UIntRange = 8
  RecvCapacity = 1
  SendCapacity = 1
  LingerFactor = 2
  MaxRetxAttempts = 1
  StreamLen <- ShortStreams
  MayLose = TRUE
  MayRepeat = TRUE
  MayReorder = TRUE
  MaxFaults = 1
  MaxInFlight = 3
  PromptNetwork = FALSE
  PromptApps = TRUE
SPECIFICATION Spec
INVARIANTS StreamsIntact DoneMeansDelivered
CHECK_DEADLOCK FALSE
