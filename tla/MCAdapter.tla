----------------------------- MODULE MCAdapter -----------------------------
(* AdapterSpec with two hosts that share a port and two that share an        *)
(* address, and segments of each sort.                                       *)
EXTENDS AdapterSpec

MCServer == [ip |-> <<2560, 1>>, port |-> 9090]
HostA == [ip |-> <<2560, 2>>, port |-> 1024]
HostB == [ip |-> <<49320, 2>>, port |-> 1024]
HostC == [ip |-> <<2560, 2>>, port |-> 65535]
MCHosts == {HostA, HostB, HostC}

MCRouterIp == <<2560, 254>>
MCIPs == {MCServer.ip, MCRouterIp}
MCNicEth == <<2, 0, 0, 0, 0, 1>>
MCRouterEth == <<2, 0, 0, 0, 255, 2>>
MCEths == {MCNicEth, MCRouterEth}
MCBroadcast == [i \in 1 .. 6 |-> 255]

Syn ==
  [header |-> [NewTCPHeader EXCEPT !.syn = TRUE, !.seqno = <<65535, 65535>>, !.win = 65535],
   payload |-> <<>>]
Reset == [Syn EXCEPT !.header.rst = TRUE]
Data ==
  [header |-> [NewTCPHeader EXCEPT !.ack = TRUE, !.fin = TRUE, !.ackno = <<32768, 0>>],
   payload |-> <<0, 255, 128>>]

MCHostSegs == {Syn, Reset, Data}
MCServerSegs == {Data}
=============================================================================
