\* Two segments of any hosts, or one and a damaged copy of it; one segment written.
CONSTANTS
  IPs <- MCIPs
  Eths <- MCEths
  Broadcast <- MCBroadcast
  Datagrams = {}
  CacheTime = 2
  CooldownTime = 1
  Server <- MCServer
  Hosts <- MCHosts
  FirstHost <- HostA
  OtherPort = 9091
  NicEth <- MCNicEth
  RouterEth <- MCRouterEth
  RouterIp <- MCRouterIp
  HostSegs <- MCHostSegs
  ServerSegs <- MCServerSegs
  Flips = {1, 16}
  MaxPackets = 2
  MaxWrites = 1
SPECIFICATION Spec
INVARIANTS GotWhatWasSent BoundBySyn HeardByPeerOnly
CHECK_DEADLOCK FALSE
