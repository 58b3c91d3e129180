\* Four datagrams, each any of the traffic, with the fewest rounds that suffice.
CONSTANTS
  AddressBits = 5
  IPs <- MCIPs
  Eths <- MCEths
  Broadcast = Broadcast
  Datagrams = {}
  CacheTime = 30000
  CooldownTime = 5000
  Rounds = 6
  MaxSends = 4
SPECIFICATION Spec
INVARIANTS NoCheckThrows NeverTwice 
CHECK_DEADLOCK FALSE
