-------------------------- MODULE NetworkInterface --------------------------
(***************************************************************************)
(* network_interface.hh / network_interface.cc: an Ethernet interface that *)
(* resolves next hops by ARP.  The code keeps the clock and the time of    *)
(* every entry of cache and cooldown; only the difference is read, held    *)
(* here as the time each entry has left.  The multimap pending is the      *)
(* queue of datagrams for each hop.  target_ethernet_address, which        *)
(* recv_frame never reads, is left out.                                    *)
(***************************************************************************)
EXTENDS Integers, Sequences

CONSTANTS
  IPs,           \* uint32_t addresses
  Eths,          \* EthernetAddress values of stations
  Broadcast,     \* ETHERNET_BROADCAST
  Datagrams,     \* InternetDatagram values
  CacheTime,     \* 30000 ms
  CooldownTime   \* 5000 ms

ASSUME InterfaceAssumption ==
  /\ Broadcast \notin Eths
  /\ CacheTime \in Nat \ {0}
  /\ CooldownTime \in Nat \ {0}

Requests == "request"
Replies == "reply"

ARPMessages ==
  [opcode : {Requests, Replies}, senderEth : Eths, senderIp : IPs, targetIp : IPs]

ARPFrames == [src : Eths, dst : Eths \cup {Broadcast}, arp : ARPMessages]
IPv4Frames == [src : Eths, dst : Eths \cup {Broadcast}, dgram : Datagrams]
Frames == ARPFrames \cup IPv4Frames

CarriesARP(frame) == "arp" \in DOMAIN frame

ARPFrame(src, dst, arp) == [src |-> src, dst |-> dst, arp |-> arp]
IPv4Frame(src, dst, dgram) == [src |-> src, dst |-> dst, dgram |-> dgram]

NewInterface(eth, ip) ==
  [eth |-> eth, ip |-> ip, framesOut |-> <<>>,
   cache |-> <<>>, cooldown |-> <<>>, pending |-> [hop \in IPs |-> <<>>]]

\* The map m with value v under key k.
With(m, k, v) == [x \in DOMAIN m \cup {k} |-> IF x = k THEN v ELSE m[x]]

Queue(ni, frames) == [ni EXCEPT !.framesOut = @ \o frames]
-----------------------------------------------------------------------------
ARPRequest(ni, hop) ==
  ARPFrame(ni.eth, Broadcast,
    [opcode |-> Requests, senderEth |-> ni.eth, senderIp |-> ni.ip, targetIp |-> hop])

AskWithoutCooldown(ni, dgram, hop) ==  \* faulty variant
  [Queue(ni, <<ARPRequest(ni, hop)>>) EXCEPT !.pending[hop] = Append(@, dgram)]

\* The hop is asked for and the datagram waits for the answer.
Ask(ni, dgram, hop) ==
  [Queue(ni, <<ARPRequest(ni, hop)>>) EXCEPT
     !.pending[hop] = Append(@, dgram),
     !.cooldown = With(@, hop, CooldownTime)]

\* send_datagram(dgram, next_hop): while a request for the hop is fresh and
\* unanswered, further datagrams for it are dropped.
SendDatagram(ni, dgram, hop) ==
  IF hop \in DOMAIN ni.cache
  THEN Queue(ni, <<IPv4Frame(ni.eth, ni.cache[hop].eth, dgram)>>)
  ELSE IF hop \in DOMAIN ni.cooldown THEN ni
  ELSE Ask(ni, dgram, hop)
-----------------------------------------------------------------------------
LearnOnce(ni, arp) ==  \* faulty variant
  IF arp.senderIp \in DOMAIN ni.cache THEN ni
  ELSE [ni EXCEPT !.cache = With(@, arp.senderIp, [eth |-> arp.senderEth, left |-> CacheTime])]

\* The sender's addresses are learnt from every request and reply.
Learn(ni, arp) ==
  [ni EXCEPT !.cache = With(@, arp.senderIp, [eth |-> arp.senderEth, left |-> CacheTime])]

Waiting(ni, arp) ==
  LET dgrams == ni.pending[arp.senderIp]
  IN  [i \in 1 .. Len(dgrams) |-> IPv4Frame(ni.eth, arp.senderEth, dgrams[i])]

FlushOnReply(ni, arp) ==  \* faulty variant
  IF arp.opcode = Replies
  THEN [Queue(ni, Waiting(ni, arp)) EXCEPT !.pending[arp.senderIp] = <<>>] ELSE ni
FlushAndKeep(ni, arp) == Queue(ni, Waiting(ni, arp))  \* faulty variant

\* What has waited for the sender's address is sent.
Flush(ni, arp) ==
  [Queue(ni, Waiting(ni, arp)) EXCEPT !.pending[arp.senderIp] = <<>>]

\* A request for this interface's own address is answered.
Answer(ni, frame) ==
  IF frame.arp.opcode = Requests /\ frame.arp.targetIp = ni.ip
  THEN Queue(ni, <<ARPFrame(ni.eth, frame.src,
         [opcode |-> Replies, senderEth |-> ni.eth, senderIp |-> ni.ip,
          targetIp |-> frame.arp.senderIp])>>)
  ELSE ni

IsFor(ni, frame) == frame.dst \in {ni.eth, Broadcast}

\* recv_frame(frame): the interface afterwards; frames of another type, or that
\* do not parse, change nothing.
RecvFrame(ni, frame) ==
  IF IsFor(ni, frame) /\ CarriesARP(frame)
  THEN Answer(Flush(Learn(ni, frame.arp), frame.arp), frame)
  ELSE ni

\* Its return value: a datagram is handed up.
HandsUp(ni, frame) == IsFor(ni, frame) /\ ~ CarriesARP(frame)
-----------------------------------------------------------------------------
CacheAfterStrict(ni, ms) ==  \* faulty variant
  [ip \in {x \in DOMAIN ni.cache : ni.cache[x].left >= ms} |->
     [ni.cache[ip] EXCEPT !.left = @ - ms]]

CacheAfter(ni, ms) ==
  [ip \in {x \in DOMAIN ni.cache : ni.cache[x].left > ms} |->
     [ni.cache[ip] EXCEPT !.left = @ - ms]]

CooldownAfter(ni, ms) ==
  [ip \in {x \in DOMAIN ni.cooldown : ni.cooldown[x] > ms} |-> ni.cooldown[ip] - ms]

\* tick(ms)
TickInterface(ni, ms) ==
  [ni EXCEPT !.cache = CacheAfter(ni, ms), !.cooldown = CooldownAfter(ni, ms)]
=============================================================================
