---------------------------- MODULE AdapterSpec ----------------------------
(***************************************************************************)
(* A datagram adapter of each kind among several hosts that send TCP       *)
(* segments to it and to others, over a network that repeats, reorders,    *)
(* loses and damages packets.  It listens, or is connected to a host.      *)
(* The hosts write and read what they send and get with adapters of their  *)
(* own, behind a router when the adapter has an Ethernet device.           *)
(***************************************************************************)
EXTENDS Adapters, FiniteSets

CONSTANTS
  Server,        \* its address [ip, port]
  Hosts,         \* those of the others, [ip, port]
  FirstHost,     \* the one it is connected to, if it does not listen
  OtherPort,     \* a port of the server that is not its own
  NicEth, RouterEth, RouterIp,   \* a TAP adapter and its next hop
  HostSegs,      \* segments of the hosts, without port numbers
  ServerSegs,    \* segments of the adapter's connection
  Flips,         \* what a damaged byte is off by
  MaxPackets,    \* bounds of the model: segments of the hosts and damaged
  MaxWrites      \* packets together, and segments written

ASSUME AdapterAssumption ==
  /\ FirstHost \in Hosts /\ Server \notin Hosts
  /\ {NicEth, RouterEth} \subseteq Eths /\ RouterIp \in IPs
  /\ Broadcast = [i \in 1 .. 6 |-> 255]
  /\ Flips \subseteq 1 .. 255
  /\ {MaxPackets, MaxWrites} \subseteq Nat

VARIABLES
  a,         \* the adapter
  listened,  \* whether it began by listening
  net,       \* packets that reach it, with the address UDP reports
  sent,      \* history: the segments of the hosts,
  got,       \* those the adapter has handed to its connection,
  wrote,     \* and those the connection has written
  faults     \* packets damaged so far

vars == <<a, listened, net, sent, got, wrote, faults>>

Kinds == {"udp", "tun", "tap"}

Init ==
  /\ listened \in BOOLEAN
  /\ \E kind \in Kinds :
       a = NewAdapter(kind,
             IF listened THEN [Server EXCEPT !.ip = AnyIp] ELSE Server,
             IF listened THEN [ip |-> AnyIp, port |-> 0] ELSE FirstHost,
             listened, NewInterface(NicEth, Server.ip), RouterIp)
  /\ net = {} /\ sent = {} /\ got = {}
  /\ wrote = <<>> /\ faults = 0
-----------------------------------------------------------------------------
\* The adapter that a host uses towards the given address.
HostAdapter(h, to) ==
  NewAdapter(a.kind, h, to, FALSE, NewInterface(RouterEth, RouterIp), Server.ip)

\* What it sends, as it comes to the adapter.
PacketFrom(h, to, seg) ==
  CASE a.kind = "udp" -> WriteUDP(HostAdapter(h, to), seg).out[1].bytes
    [] a.kind = "tun" -> WriteTun(HostAdapter(h, to), seg).out[1].bytes
    [] a.kind = "tap" ->
         FrameBytes(IPv4Frame(RouterEth, NicEth, Wrap(HostAdapter(h, to), seg)))

HostSends(h, port, seg) ==
  LET to == [Server EXCEPT !.port = port]
      s  == [from |-> h, to |-> to, seg |-> seg]
  IN  /\ Cardinality(sent) + faults < MaxPackets /\ s \notin sent
      /\ a.kind = "udp" => port = Server.port
      /\ sent' = sent \cup {s}
      /\ net' = net \cup {[from |-> h, bytes |-> PacketFrom(h, to, seg)]}
      /\ UNCHANGED <<a, listened, got, wrote, faults>>

\* The next hop says who it is, asked or not.
RouterSpeaks ==
  /\ a.kind = "tap"
  /\ net' = net \cup {[from |-> FirstHost, bytes |-> FrameBytes(
               ARPFrame(RouterEth, NicEth,
                 [opcode |-> Replies, senderEth |-> RouterEth, senderIp |-> RouterIp,
                  targetIp |-> Server.ip]))]}
  /\ UNCHANGED <<a, listened, sent, got, wrote, faults>>

\* IP datagrams may be damaged; UDP and Ethernet have checksums of their own.
Faulty(p) ==
  /\ a.kind = "tun" /\ Cardinality(sent) + faults < MaxPackets
  /\ net' = net \cup {p}
  /\ faults' = faults + 1
  /\ UNCHANGED <<a, listened, sent, got, wrote>>

Damage ==
  \E p \in net, flip \in Flips : \E i \in DOMAIN p.bytes :
    Faulty([p EXCEPT !.bytes[i] = (@ + flip) % 256])

Truncate == \E p \in net : \E n \in 0 .. Len(p.bytes) - 1 :
  Faulty([p EXCEPT !.bytes = SubSeq(@, 1, n)])
-----------------------------------------------------------------------------
\* The adapter's own operations, each dropped perhaps by a LossyFdAdapter.
ReadOutcome(p) ==
  CASE a.kind = "udp" -> ReadUDP(a, p.from, p.bytes)
    [] a.kind = "tun" -> ReadTun(a, p.bytes)
    [] a.kind = "tap" -> ReadTap(a, p.bytes)

\* A packet may be read again.
Read(p, drop) ==
  LET outcome == AfterLossyRead(ReadOutcome(p), drop) IN
  /\ a' = outcome.a
  /\ got' = got \cup outcome.segs
  /\ UNCHANGED <<listened, net, sent, wrote, faults>>

\* A connection writes once it has heard of a peer.
WriteSeg(seg, drop) ==
  LET written ==
        CASE a.kind = "udp" -> WriteUDP(a, seg)
          [] a.kind = "tun" -> WriteTun(a, seg)
          [] a.kind = "tap" -> WriteTap(a, seg)
  IN  /\ ~ a.listening /\ Len(wrote) < MaxWrites
      /\ a' = AfterLossyWrite(a, written, drop)
      /\ wrote' = Append(wrote, seg)
      /\ UNCHANGED <<listened, net, sent, got, faults>>

Tick ==
  /\ a.kind = "tap"
  /\ a' = TickTap(a, CooldownTime)
  /\ UNCHANGED <<listened, net, sent, got, wrote, faults>>

Next ==
  \/ \E h \in Hosts, port \in {Server.port, OtherPort}, seg \in HostSegs :
       HostSends(h, port, seg)
  \/ RouterSpeaks
  \/ Damage
  \/ Truncate
  \/ \E p \in net, drop \in BOOLEAN : Read(p, drop)
  \/ \E seg \in ServerSegs, drop \in BOOLEAN : WriteSeg(seg, drop)
  \/ Tick

Spec == Init /\ [][Next]_vars
-----------------------------------------------------------------------------
SameSegment(s, t) == SameHeader(s.header, t.header) /\ s.payload = t.payload

\* What the connection gets is what the host it talks to has sent to it, bit by bit,
\* whatever single byte of a datagram was damaged on the way
\* (tcp_over_ip.cc:26-71, fd_adapter.cc:21-46).
GotWhatWasSent ==
  \A seg \in got : \E s \in sent :
    /\ s.from = a.destination /\ s.to.port = a.source.port
    /\ SameSegment(s.seg, seg)

\* An adapter that has listened is bound to a host that has sent it a SYN, and
\* answers from the address which that host has written to (tcp_over_ip.cc:54-63,
\* fd_adapter.cc:36-43).
BoundBySyn ==
  listened /\ ~ a.listening =>
    \E s \in sent :
      /\ s.from = a.destination /\ Opens(s.seg.header) /\ s.to.port = a.source.port
      /\ a.kind # "udp" => s.to = a.source

\* The segments a host gets when it reads what the adapter has put out.
HeardBy(h, packet) ==
  CASE a.kind = "udp" ->
         IF packet.to = h THEN ReadUDP(HostAdapter(h, Server), Server, packet.bytes).segs
         ELSE {}
    [] a.kind = "tun" -> ReadTun(HostAdapter(h, Server), packet.bytes).segs
    [] a.kind = "tap" -> ReadTap(HostAdapter(h, Server), packet.bytes).segs

IsARP(packet) == \E f \in FramesIn(packet.bytes) : CarriesARP(f)

\* Whatever the adapter puts out, but an ARP frame, the host it is bound to reads as
\* a segment that the connection has written, and no other host takes it for one of
\* its own (wrap_tcp_in_ip, tcp_over_ip.cc:75-90, send_pending and the serialisers).
HeardByPeerOnly ==
  \A i \in DOMAIN a.out :
    \/ a.kind = "tap" /\ IsARP(a.out[i])
    \/ \A h \in Hosts :
         IF h = a.destination
         THEN \E seg \in HeardBy(h, a.out[i]) : \E j \in DOMAIN wrote :
                SameSegment(seg, wrote[j])
         ELSE HeardBy(h, a.out[i]) = {}
=============================================================================
