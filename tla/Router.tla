------------------------------- MODULE Router -------------------------------
(***************************************************************************)
(* router.hh / router.cc: network interfaces that hand up datagrams        *)
(* asynchronously, and a routing table scanned in the order in which the   *)
(* routes were added.  An address is a number of AddressBits bits; a       *)
(* datagram is a record with the destination and the time to live.         *)
(***************************************************************************)
EXTENDS NetworkInterface

CONSTANT AddressBits   \* 32

\* 1 << n
Pow2[n \in 0 .. AddressBits] == IF n = 0 THEN 1 ELSE 2 * Pow2[n - 1]

ASSUME RouterAssumption ==
  /\ AddressBits \in Nat
  /\ IPs = 0 .. Pow2[AddressBits] - 1

Direct == -1   \* no next hop: the network is attached to the router

Routes(interfaces) ==
  [prefix : IPs, len : 0 .. AddressBits, hop : IPs \cup {Direct}, interface : interfaces]

\* An AsyncNetworkInterface: an interface and the datagrams it has handed up.
NewRouter(interfaces) ==
  [ports |-> [i \in 1 .. Len(interfaces) |->
                [ni |-> interfaces[i], datagramsOut |-> <<>>]],
   table |-> <<>>]

\* AsyncNetworkInterface::recv_frame(frame)
RecvAsync(port, frame) ==
  [port EXCEPT !.ni = RecvFrame(@, frame),
               !.datagramsOut = IF HandsUp(port.ni, frame)
                                THEN Append(@, frame.dgram) ELSE @]
-----------------------------------------------------------------------------
\* add_route: a route for a prefix already in the table only replaces its next
\* hop.
AddRoute(table, route) ==
  LET same == {i \in DOMAIN table :
                 table[i].prefix = route.prefix /\ table[i].len = route.len}
  IN  IF same = {} THEN Append(table, route)
      ELSE [table EXCEPT ![CHOOSE i \in same : \A j \in same : i <= j].hop = route.hop]

\* dst >> (32 - len) == prefix >> (32 - len)
SamePrefix(route, dst) ==
  LET low == Pow2[AddressBits - route.len]
  IN  dst \div low = route.prefix \div low

TakesAnyDefault(route, dst, max) ==  \* faulty variant
  route.len = 0 \/ (SamePrefix(route, dst) /\ route.len >= max)

\* Whether a route replaces the one found so far, of length max.  A default route
\* counts only as long as max is 0; the shift by 32 bits that the code makes for it
\* otherwise is of no consequence, since len >= max is then false.
Takes(route, dst, max) ==
  IF route.len = 0 THEN max = 0
  ELSE SamePrefix(route, dst) /\ route.len >= max

NoRoute == <<>>

\* One turn of the scan, which ends at a direct route.
Look(found, route, dst) ==
  IF found.done \/ ~ Takes(route, dst, found.max) THEN found
  ELSE [max |-> route.len, route |-> route, done |-> route.hop = Direct]

\* The route found.
Chosen(table, dst) ==
  LET found[i \in 0 .. Len(table)] ==
        IF i = 0 THEN [max |-> 0, route |-> NoRoute, done |-> FALSE]
        ELSE Look(found[i - 1], table[i], dst)
  IN  found[Len(table)].route
-----------------------------------------------------------------------------
Expires(dgram) == dgram.ttl <= 1

\* route_one_datagram(dgram)
RouteOneDatagram(router, dgram) ==
  LET route == Chosen(router.table, dgram.dst)
      hop   == IF route.hop = Direct THEN dgram.dst ELSE route.hop
      sent  == [dgram EXCEPT !.ttl = @ - 1]
  IN  IF Expires(dgram) \/ route = NoRoute THEN router
      ELSE [router EXCEPT !.ports[route.interface].ni = SendDatagram(@, sent, hop)]

HandedUpKept(port) == port  \* faulty variant
HandedUpTaken(port) == [port EXCEPT !.datagramsOut = <<>>]

\* The loop of route() over the datagrams of interface i.
RouteQueue(router, i) ==
  LET queue == router.ports[i].datagramsOut
      routed[k \in 0 .. Len(queue)] ==
        IF k = 0 THEN router ELSE RouteOneDatagram(routed[k - 1], queue[k])
  IN  [routed[Len(queue)] EXCEPT !.ports[i] = HandedUpTaken(@)]

\* route(): every interface's datagrams in turn.
RouteAll(router) ==
  LET passed[i \in 0 .. Len(router.ports)] ==
        IF i = 0 THEN router ELSE RouteQueue(passed[i - 1], i)
  IN  passed[Len(router.ports)]
=============================================================================
