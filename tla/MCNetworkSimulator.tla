------------------------- MODULE MCNetworkSimulator -------------------------
(* NetworkSimulator with enough rounds for a datagram to cross it.           *)
EXTENDS NetworkSimulator

MCIPs == 0 .. 31
MCEths == {EthOf(ip) : ip \in IPs}
=============================================================================
