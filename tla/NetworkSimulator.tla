-------------------------- MODULE NetworkSimulator --------------------------
(***************************************************************************)
(* apps/network_simulator.cc: six hosts on the networks of one router, who *)
(* send each other datagrams one at a time, and a check, after many rounds *)
(* of routing and of exchanging frames, that each came where it should.    *)
(* The addresses are shortened to five bits, so that the prefixes keep     *)
(* their order, their nesting and the gaps between them:                   *)
(*   000xx  10.0.0.0/8           100xx  143.195.0.0/17                     *)
(*   0010x  172.16.0.0/16        1010x  143.195.128.0/18                   *)
(*   010xx  192.168.0.0/24       10110  143.195.192.0/19                   *)
(*   011xx  198.178.229.0/24     110xx  128.30.0.0/16                      *)
(***************************************************************************)
EXTENDS Router, FiniteSets
LOCAL INSTANCE SequencesExt
LOCAL INSTANCE FiniteSetsExt

CONSTANTS
  Rounds,    \* 256
  MaxSends   \* bound of the model: datagrams sent

ASSUME SimulatorAssumption ==
  /\ Rounds \in Nat /\ MaxSends \in Nat
  /\ AddressBits = 5

\* The interfaces of the router, in the order in which they are added.
PortNames == <<"default", "eth0", "eth1", "eth2", "uun3", "hs4", "mit5">>
PortIps == <<30, 1, 4, 9, 13, 18, 25>>
Port(name) == CHOOSE i \in DOMAIN PortNames : PortNames[i] = name

\* The hosts: their address and that of their next hop.
HostIp ==
  [applesauce |-> 2, default_router |-> 31, cherrypie |-> 10, hs_router |-> 17,
   dm42 |-> 14, dm43 |-> 15]
HostNextHop ==
  [applesauce |-> 1, default_router |-> 0, cherrypie |-> 9, hs_router |-> 0,
   dm42 |-> 13, dm43 |-> 13]
HostNames == DOMAIN HostIp

\* Ethernet addresses are random, and different.
EthOf(ip) == <<"eth", ip>>

Table ==
  LET Route(prefix, len, hop, port) ==
        [prefix |-> prefix, len |-> len, hop |-> hop, interface |-> Port(port)]
  IN  << Route(0, 0, HostIp.default_router, "default"),
         Route(0, 3, Direct, "eth0"), Route(4, 4, Direct, "eth1"),
         Route(8, 3, Direct, "eth2"), Route(12, 3, Direct, "uun3"),
         Route(16, 3, HostIp.hs_router, "hs4"), Route(20, 4, HostIp.hs_router, "hs4"),
         Route(22, 5, HostIp.hs_router, "hs4"), Route(25, 3, 24, "mit5") >>

\* simulate_physical_connections: what is on the wire of each port.
Wires ==
  [default |-> <<"default_router">>, eth0 |-> <<"applesauce">>, eth2 |-> <<"cherrypie">>,
   hs4 |-> <<"hs_router">>, uun3 |-> <<"dm42", "dm43">>]

Nobody == "nobody"

\* The traffic of network_simulator(), and some more: who sends to which address, with
\* which time to live, and who is to receive it.
Traffic ==
  LET From(host, dst, ttl, to) == [host |-> host, dst |-> dst, ttl |-> ttl, to |-> to]
  IN  { From("applesauce", HostIp.cherrypie, 3, "cherrypie"),
        From("cherrypie", HostIp.applesauce, 3, "applesauce"),
        From("applesauce", 29, 3, "default_router"),
        From("applesauce", 21, 3, "hs_router"),
        From("cherrypie", 22, 3, "hs_router"),
        From("cherrypie", 23, 3, "default_router"),
        From("dm42", HostIp.dm43, 3, "dm43"),
        From("applesauce", 29, 1, Nobody), From("applesauce", 29, 0, Nobody),
        From("dm43", 26, 3, Nobody), From("cherrypie", 5, 3, Nobody),
        From("dm43", HostIp.applesauce, 2, "applesauce") }

VARIABLES
  router,    \* the Router
  hosts,     \* of each host the interface and the datagrams it expects
  left,      \* rounds of simulate() to go, or Idle
  sends,     \* datagrams sent so far
  failed     \* whether a check has thrown

vars == <<router, hosts, left, sends, failed>>

Idle == -1

Init ==
  /\ router = [NewRouter([i \in DOMAIN PortNames |->
                            NewInterface(EthOf(PortIps[i]), PortIps[i])])
                 EXCEPT !.table = FoldLeft(AddRoute, <<>>, Table)]
  /\ hosts = [h \in HostNames |->
                [port |-> [ni |-> NewInterface(EthOf(HostIp[h]), HostIp[h]),
                           datagramsOut |-> <<>>],
                 expecting |-> <<>>]]
  /\ left = Idle
  /\ sends = 0
  /\ failed = FALSE
-----------------------------------------------------------------------------
\* Host::send_to and, for the receiver, Host::expect.
SendTo(t) ==
  LET dgram == [number |-> sends + 1, dst |-> t.dst, ttl |-> t.ttl]
      sent  == [hosts EXCEPT ![t.host].port.ni = SendDatagram(@, dgram, HostNextHop[t.host])]
  IN  /\ left = Idle /\ ~ failed /\ sends < MaxSends
      /\ sends' = sends + 1
      /\ hosts' = IF t.to = Nobody THEN sent
                  ELSE [sent EXCEPT ![t.to].expecting =
                          Append(@, [dgram EXCEPT !.ttl = @ - 1])]
      /\ left' = Rounds
      /\ UNCHANGED <<router, failed>>

ClearedWholly(port, before) == [port EXCEPT !.ni.framesOut = <<>>]  \* faulty variant

\* clear: the frames that were queued when the exchange began are taken off.
Cleared(port, before) ==
  [port EXCEPT !.ni.framesOut = SubSeq(@, Len(before.ni.framesOut) + 1, Len(@))]

\* exchange_frames: every one of the ports on a wire receives what the others had
\* queued, in their order.
Exchange(ports) ==
  [i \in DOMAIN ports |->
     LET others == FlattenSeq([j \in DOMAIN ports |->
                     IF j = i THEN <<>> ELSE ports[j].ni.framesOut])
     IN  Cleared(FoldLeft(RecvAsync, ports[i], others), ports[i])]

\* The ports on the wire of the router's port w, and the places of hosts there.
OnWire(r, w) ==
  <<r.ports[Port(w)]>> \o [i \in DOMAIN Wires[w] |-> hosts[Wires[w][i]].port]

\* A round of simulate(): route, then an exchange on every wire.
SimulateRound ==
  LET routed   == RouteAll(router)
      exchanged == [w \in DOMAIN Wires |-> Exchange(OnWire(routed, w))]
      WireOf(h) == CHOOSE w \in DOMAIN Wires : \E i \in DOMAIN Wires[w] : Wires[w][i] = h
      Place(h)  == CHOOSE i \in DOMAIN Wires[WireOf(h)] : Wires[WireOf(h)][i] = h
  IN  /\ left > 0
      /\ router' = [routed EXCEPT !.ports = [i \in DOMAIN @ |->
                      IF PortNames[i] \in DOMAIN Wires THEN exchanged[PortNames[i]][1]
                      ELSE @[i]]]
      /\ hosts' = [h \in HostNames |->
                     [hosts[h] EXCEPT !.port = exchanged[WireOf(h)][Place(h) + 1]]]
      /\ left' = left - 1
      /\ UNCHANGED <<sends, failed>>

\* Host::check: each datagram received must be expected, and nothing else be.
CheckOne(acc, dgram) ==
  LET found == {i \in DOMAIN acc.expecting : acc.expecting[i] = dgram} IN
  IF found = {} THEN [acc EXCEPT !.unexpected = TRUE]
  ELSE [acc EXCEPT !.expecting = RemoveAt(@, CHOOSE i \in found : \A j \in found : i <= j)]

CheckFails(h) ==
  LET all == FoldLeft(CheckOne, [expecting |-> hosts[h].expecting, unexpected |-> FALSE],
                      hosts[h].port.datagramsOut)
  IN  all.unexpected \/ all.expecting # <<>>

\* The end of simulate().
Check ==
  /\ left = 0
  /\ failed' = \E h \in HostNames : CheckFails(h)
  /\ hosts' = [h \in HostNames |->
                 [hosts[h] EXCEPT !.port.datagramsOut = <<>>, !.expecting = <<>>]]
  /\ left' = Idle
  /\ UNCHANGED <<router, sends>>

Next == (\E t \in Traffic : SendTo(t)) \/ SimulateRound \/ Check

Spec == Init /\ [][Next]_vars
-----------------------------------------------------------------------------
\* Every datagram comes to the host it is meant for, and to no other, whatever the
\* interfaces have learnt, asked for and given up on before: no check throws
\* (network_simulator.cc:130-147, 249-258).
NoCheckThrows == ~ failed

\* How often datagram n waits for an address, is in a queued frame, or handed up.
CopiesAt(n, port) ==
  LET frames == port.ni.framesOut
      up     == port.datagramsOut
  IN  Cardinality({<<hop, i>> \in IPs \X (1 .. MaxSends) :
                     /\ i \in DOMAIN port.ni.pending[hop]
                     /\ port.ni.pending[hop][i].number = n})
      + Cardinality({i \in DOMAIN frames :
                       ~ CarriesARP(frames[i]) /\ frames[i].dgram.number = n})
      + Cardinality({i \in DOMAIN up : up[i].number = n})

\* A datagram is never in two places, although frames are given to everyone on a wire
\* and broadcast, and stay in the queue while they are delivered
\* (network_simulator.cc:158-205, router.cc:72-81).
NeverTwice ==
  \A n \in 1 .. sends :
    MapThenSumSet(LAMBDA i : CopiesAt(n, router.ports[i]), DOMAIN router.ports)
      + MapThenSumSet(LAMBDA h : CopiesAt(n, hosts[h].port), HostNames) <= 1

\* Whoever is on a wire.
Linked ==
  {router.ports[Port(w)] : w \in DOMAIN Wires} \cup {hosts[h].port : h \in HostNames}

=============================================================================
