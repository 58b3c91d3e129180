\* Two interfaces, tables of up to three routes in every order, two datagrams.
CONSTANTS
  AddressBits = 2
  IPs <- MCIPs
  Eths = {portEth, neighbourEth}
  Broadcast = Broadcast
  Datagrams <- MCDatagrams
  CacheTime = 3
  CooldownTime = 2
  Ports = 2
  PortEth = portEth
  NeighbourEth = neighbourEth
  PortIp = 0
  Offered <- MCOffered
  Neighbours = {1, 3}
  Ttls = {0, 1, 2}
  MaxTtl = 2
  Dsts = {3}
  MaxRoutes = 3
  MaxDatagrams = 2
SPECIFICATION Spec
INVARIANTS LongestFound ForwardedOnce
CHECK_DEADLOCK FALSE
