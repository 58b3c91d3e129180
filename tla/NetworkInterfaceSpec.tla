------------------------ MODULE NetworkInterfaceSpec ------------------------
(***************************************************************************)
(* One interface, an owner that hands it datagrams, and neighbours whose   *)
(* ARP messages say anything: requests and replies that nobody asked for,  *)
(* the same IP address at changing Ethernet addresses, frames for others.  *)
(* The owner takes the queued frames after every call (the loops of        *)
(* apps/network_simulator.cc and the TAP adapter do), so framesOut holds   *)
(* what the last call queued.                                              *)
(***************************************************************************)
EXTENDS NetworkInterface, FiniteSets

CONSTANTS
  MyEth, MyIp,     \* constructor arguments
  Milliseconds,    \* arguments of tick
  MaxDatagrams     \* bound of the model: datagrams handed over

ASSUME InterfaceSpecAssumption ==
  /\ MyEth \in Eths /\ MyIp \in IPs
  /\ Milliseconds \subseteq Nat \ {0}
  /\ MaxDatagrams \in Nat
  /\ Datagrams = [number : 1 .. MaxDatagrams, hop : IPs]

VARIABLES
  ni,      \* the NetworkInterface
  given,   \* datagrams handed over so far; each is its number and its hop
  heard,   \* history: what the last ARP message from each address said, how old
  asked,   \* history: time since the last request for each address, if any
  gone     \* history: numbers of the datagrams taken by the owner, by hop

vars == <<ni, given, heard, asked, gone>>

\* The std::maps from some of the addresses to S.
Maps(S) == UNION {[D -> S] : D \in SUBSET IPs}

Taken == [ni EXCEPT !.framesOut = <<>>]

\* The frames with datagrams for hop that the last call has queued, the numbers of
\* those, and of those that wait for its address.
FramesTo(hop) ==
  {i \in DOMAIN ni.framesOut :
     ~ CarriesARP(ni.framesOut[i]) /\ ni.framesOut[i].dgram.hop = hop}
NumbersTo(hop) == {ni.framesOut[i].dgram.number : i \in FramesTo(hop)}
WaitingFor(hop) == {ni.pending[hop][i].number : i \in DOMAIN ni.pending[hop]}

RequestsFor(frames) ==
  {frames[i].arp.targetIp : i \in {j \in DOMAIN frames :
      CarriesARP(frames[j]) /\ frames[j].arp.opcode = Requests}}

TakeFrames == gone' = [hop \in IPs |-> gone[hop] \cup NumbersTo(hop)]

Record ==
  /\ TakeFrames
  /\ asked' = [ip \in DOMAIN asked \cup RequestsFor(ni'.framesOut) |->
                 IF ip \in RequestsFor(ni'.framesOut) THEN 0 ELSE asked[ip]]

Init ==
  /\ ni = NewInterface(MyEth, MyIp)
  /\ given = 0
  /\ heard = <<>>
  /\ asked = <<>>
  /\ gone = [hop \in IPs |-> {}]

Send(hop) ==
  /\ given < MaxDatagrams
  /\ given' = given + 1
  /\ ni' = SendDatagram(Taken, [number |-> given', hop |-> hop], hop)
  /\ Record
  /\ UNCHANGED heard

HearARP(frame) ==
  /\ ni' = RecvFrame(Taken, frame)
  /\ heard' = IF IsFor(ni, frame)
              THEN With(heard, frame.arp.senderIp, [eth |-> frame.arp.senderEth, age |-> 0])
              ELSE heard
  /\ Record
  /\ UNCHANGED given

\* Times older than both limits are all the same.
Aged(age, ms) ==
  LET oldest == CacheTime + CooldownTime
  IN  IF age + ms <= oldest THEN age + ms ELSE oldest

Tick(ms) ==
  /\ ni' = TickInterface(Taken, ms)
  /\ heard' = [ip \in DOMAIN heard |-> [heard[ip] EXCEPT !.age = Aged(@, ms)]]
  /\ asked' = [ip \in DOMAIN asked |-> Aged(asked[ip], ms)]
  /\ TakeFrames
  /\ UNCHANGED given

Next ==
  \/ \E hop \in IPs \ {MyIp} : Send(hop)
  \/ \E arp \in {m \in ARPMessages : m.senderEth # MyEth /\ m.senderIp # MyIp},
        dst \in Eths \cup {Broadcast} :
       HearARP(ARPFrame(arp.senderEth, dst, arp))
  \/ \E ms \in Milliseconds : Tick(ms)

Spec == Init /\ [][Next]_vars
-----------------------------------------------------------------------------
Interfaces ==
  [eth : {MyEth}, ip : {MyIp}, framesOut : Seq(Frames),
   cache : Maps([eth : Eths, left : 1 .. CacheTime]),
   cooldown : Maps(1 .. CooldownTime),
   pending : [IPs -> Seq(Datagrams)]]

\* Every entry of the two maps has time left (tick erases those that have none,
\* network_interface.cc:116-129).
TypeOK ==
  /\ ni \in Interfaces
  /\ given \in 0 .. MaxDatagrams

\* No datagram waits for an address that is known: whichever message brought it,
\* and whatever has expired and been asked for again in between, what waited has
\* been sent (network_interface.cc:46-58, 85-94).
NoneWaitsForKnown == \A ip \in DOMAIN ni.cache : ni.pending[ip] = <<>>

\* A datagram leaves for the Ethernet address last heard of for its hop, and never
\* on word as old as the cache time: "active mappings last 30 seconds"
\* (src/sponge/tests/net_interface.cc:180; network_interface.cc:38-44, 81-94, 117).
SentOnFreshWord ==
  \A i \in DOMAIN ni.framesOut :
    LET frame == ni.framesOut[i] IN
    ~ CarriesARP(frame) =>
      /\ frame.dgram.hop \in DOMAIN heard
      /\ frame.dst = heard[frame.dgram.hop].eth
      /\ heard[frame.dgram.hop].age < CacheTime

AskedInTime ==
  \A ip \in RequestsFor(ni'.framesOut) :
    /\ ip \in DOMAIN asked => asked[ip] >= CooldownTime
    /\ ip \in DOMAIN heard => heard[ip].age >= CacheTime

\* An address is asked for again only when the cooldown is over and no fresh
\* word of it has come, whatever came, expired and was sent in between
\* (network_interface.cc:38-58, 123-129).
RequestsSpaced == [][AskedInTime]_vars

Before(earlier, later) == \A m \in earlier, n \in later : m < n

InOrderTo(hop) ==
  LET frames == ni.framesOut
      dgrams == ni.pending[hop]
  IN  /\ Before(gone[hop], NumbersTo(hop))
      /\ Before(gone[hop] \cup NumbersTo(hop), WaitingFor(hop))
      /\ \A i, j \in FramesTo(hop) :
           i < j => frames[i].dgram.number < frames[j].dgram.number
      /\ \A i, j \in DOMAIN dgrams : i < j => dgrams[i].number < dgrams[j].number

\* For each hop, what the owner has taken, what is queued for it and what waits are
\* in the order in which they were handed over, and none is there twice
\* (network_interface.cc:57, 86-94).
InOrderAndOnce == \A hop \in IPs : InOrderTo(hop)
=============================================================================
