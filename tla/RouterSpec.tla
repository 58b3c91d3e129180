----------------------------- MODULE RouterSpec -----------------------------
(***************************************************************************)
(* A router whose owner adds routes at any time, and whose interfaces      *)
(* receive datagrams and the ARP messages of neighbours.  The owner takes  *)
(* the queued frames after every call and calls route() when it likes      *)
(* (apps/network_simulator.cc), so that datagrams of several interfaces    *)
(* may be waiting.                                                         *)
(***************************************************************************)
EXTENDS Router

CONSTANTS
  Ports,          \* number of interfaces
  PortEth,        \* the Ethernet address of each, and of their one neighbour
  NeighbourEth,
  PortIp,         \* their IP address, which no datagram is sent to
  Offered,        \* the routes the owner may add
  Neighbours,     \* addresses that answer ARP requests
  Ttls,           \* times to live of arriving datagrams
  Dsts,           \* their destinations
  MaxTtl,         \* 255
  MaxRoutes,      \* bounds of the model: routes in the table,
  MaxDatagrams    \* datagrams that arrive

ASSUME RouterSpecAssumption ==
  /\ Ports \in Nat /\ MaxRoutes \in Nat /\ MaxDatagrams \in Nat
  /\ PortEth \in Eths /\ NeighbourEth \in Eths \ {PortEth}
  /\ Offered \subseteq Routes(1 .. Ports)
  /\ PortIp \in IPs /\ Neighbours \subseteq IPs /\ Dsts \subseteq IPs
  /\ MaxTtl \in Nat /\ Ttls \subseteq 0 .. MaxTtl
  /\ Datagrams = [number : 1 .. MaxDatagrams, dst : IPs,
                  ttl : 0 .. MaxTtl, came : 0 .. MaxTtl]

VARIABLES
  router,    \* the Router
  arrived,   \* datagrams that have arrived; came is the ttl each came with
  sent       \* history: the frames that each port has sent

vars == <<router, arrived, sent>>

\* The router with the frames of the last call taken off.
Taken == [router EXCEPT !.ports = [i \in DOMAIN @ |-> [@[i] EXCEPT !.ni.framesOut = <<>>]]]

Record == sent' = [i \in 1 .. Ports |-> sent[i] \o router'.ports[i].ni.framesOut]

Init ==
  /\ router = NewRouter([i \in 1 .. Ports |-> NewInterface(PortEth, PortIp)])
  /\ arrived = 0
  /\ sent = [i \in 1 .. Ports |-> <<>>]

Add(route) ==
  /\ Len(AddRoute(router.table, route)) <= MaxRoutes
  /\ router' = [Taken EXCEPT !.table = AddRoute(@, route)]
  /\ UNCHANGED <<arrived, sent>>

\* A datagram comes in on port i.
Arrive(i, dst, ttl) ==
  LET dgram == [number |-> arrived + 1, dst |-> dst, ttl |-> ttl, came |-> ttl] IN
  /\ arrived < MaxDatagrams
  /\ arrived' = arrived + 1
  /\ router' = [Taken EXCEPT !.ports[i] =
                   RecvAsync(@, IPv4Frame(NeighbourEth, PortEth, dgram))]
  /\ UNCHANGED sent

\* The neighbour with address ip makes itself known on port i.
Hear(i, ip) ==
  /\ router' = [Taken EXCEPT !.ports[i] =
                   RecvAsync(@, ARPFrame(NeighbourEth, PortEth,
                     [opcode |-> Replies, senderEth |-> NeighbourEth,
                      senderIp |-> ip, targetIp |-> PortIp]))]
  /\ Record
  /\ UNCHANGED arrived

Route ==
  /\ router' = RouteAll(Taken)
  /\ Record
  /\ UNCHANGED arrived

Next ==
  \/ \E route \in Offered : Add(route)
  \/ \E i \in 1 .. Ports, dst \in Dsts, ttl \in Ttls : Arrive(i, dst, ttl)
  \/ \E i \in 1 .. Ports, ip \in Neighbours : Hear(i, ip)
  \/ Route

Spec == Init /\ [][Next]_vars
-----------------------------------------------------------------------------
\* The high bits of the destination that a route names are those of its prefix.
Matches(route, dst) ==
  \A b \in AddressBits - route.len .. AddressBits - 1 :
    (dst \div Pow2[b]) % 2 = (route.prefix \div Pow2[b]) % 2

Matching(dst) == {i \in DOMAIN router.table : Matches(router.table[i], dst)}

\* "the route with the longest prefix_length that matches the datagram's
\* destination address" (router.hh:48-50), whatever the order in which the routes
\* were added: a route is found if one matches, it is the longest, and only one
\* to an attached network hides a longer one that comes after it
\* (router.cc:49-64).
LongestFound ==
  \A dst \in IPs :
    LET route == Chosen(router.table, dst) IN
    IF Matching(dst) = {} THEN route = NoRoute
    ELSE \E i \in Matching(dst) :
           /\ route = router.table[i]
           /\ \A j \in Matching(dst) :
                router.table[j].len > route.len => route.hop = Direct /\ i < j

\* Where datagrams are, for each port: handed up by it, waiting for the answer of
\* a hop, sent in a frame.
Held ==
  [in   |-> [i \in 1 .. Ports |-> router.ports[i].datagramsOut],
   wait |-> [i \in 1 .. Ports |-> router.ports[i].ni.pending],
   out  |-> sent]

In == -1
Out == -2
Lines == IPs \cup {In, Out}

\* The positions of a line with a datagram.
Filled(held, i, line) ==
  CASE line = In  -> DOMAIN held.in[i]
    [] line = Out -> {k \in DOMAIN held.out[i] : ~ CarriesARP(held.out[i][k])}
    [] OTHER      -> DOMAIN held.wait[i][line]

Places(held) ==
  UNION {{[port |-> i, line |-> line, pos |-> k] : k \in Filled(held, i, line)} :
           i \in 1 .. Ports, line \in Lines}

At(held, p) ==
  CASE p.line = In  -> held.in[p.port][p.pos]
    [] p.line = Out -> held.out[p.port][p.pos].dgram
    [] OTHER        -> held.wait[p.port][p.line][p.pos]

\* No datagram is in two places or leaves twice; each that has been routed has aged
\* by one hop and is not dead, and has been given to a port that a route for its
\* destination names (router.cc:44-81).
ForwardedOnce ==
  LET places == Places(Held) IN
  /\ \A p, q \in places : p # q => At(Held, p).number # At(Held, q).number
  /\ \A p \in places :
       LET dgram == At(Held, p) IN
       p.line # In =>
         /\ dgram.ttl = dgram.came - 1 /\ dgram.ttl > 0
         /\ \E i \in Matching(dgram.dst) : router.table[i].interface = p.port
=============================================================================
