----------------------- MODULE NetworkInterfaceProofs -----------------------
(***************************************************************************)
(* For every set of addresses and every pair of times, an interface sends  *)
(* a datagram only on fresh word of its hop, holds none back for an        *)
(* address that it knows, spaces its requests, and lets the datagrams of a *)
(* hop leave in their order and once.                                      *)
(***************************************************************************)
EXTENDS NetworkInterfaceSpec, SequenceTheorems, TLAPS

Entries == [eth : Eths, left : 1 .. CacheTime]
Words == [eth : Eths, age : 0 .. CacheTime + CooldownTime]

\* Putting a value into a map of a type keeps the type.
LEMMA WithInMaps ==
  ASSUME NEW S, NEW m \in Maps(S), NEW k \in IPs, NEW v \in S
  PROVE  With(m, k, v) \in Maps(S)
<1>1. PICK D \in SUBSET IPs : m \in [D -> S]
  BY DEF Maps
<1>2. With(m, k, v) \in [D \cup {k} -> S]
  BY <1>1 DEF With
<1>3. D \cup {k} \in SUBSET IPs
  BY <1>1
<1> QED
  BY <1>2, <1>3 DEF Maps

\* A map restricted to some of its keys.
LEMMA InMaps ==
  ASSUME NEW S, NEW D \in SUBSET IPs, NEW f \in [D -> S]
  PROVE  f \in Maps(S)
  BY DEF Maps

\* The two kinds of frame can be told apart.
LEMMA FrameKinds ==
  /\ \A f \in ARPFrames : CarriesARP(f)
  /\ \A f \in IPv4Frames : ~ CarriesARP(f)
<1>1. ASSUME NEW f \in ARPFrames PROVE CarriesARP(f)
  BY DEF ARPFrames, CarriesARP
<1>2. ASSUME NEW f \in IPv4Frames PROVE ~ CarriesARP(f)
  BY DEF IPv4Frames, CarriesARP
<1> QED
  BY <1>1, <1>2
-----------------------------------------------------------------------------
(***************************************************************************)
(* What each step does to the fields of an interface.                      *)
(***************************************************************************)
\* The fields of an interface have their types.
LEMMA Fields ==
  ASSUME NEW i \in Interfaces
  PROVE  /\ i.eth = MyEth /\ i.ip = MyIp
         /\ i.framesOut \in Seq(Frames)
         /\ i.cache \in Maps(Entries)
         /\ i.cooldown \in Maps(1 .. CooldownTime)
         /\ i.pending \in [IPs -> Seq(Datagrams)]
  BY DEF Interfaces, Entries

\* Queueing frames.
LEMMA QueueFields ==
  ASSUME NEW i \in Interfaces, NEW frames \in Seq(Frames)
  PROVE  /\ Queue(i, frames) \in Interfaces
         /\ Queue(i, frames).framesOut = i.framesOut \o frames
         /\ Queue(i, frames).cache = i.cache
         /\ Queue(i, frames).pending = i.pending
<1>1. i.framesOut \o frames \in Seq(Frames)
  BY Fields
<1> QED
  BY <1>1 DEF Queue, Interfaces

\* The owner takes the frames.
LEMMA TakenFields ==
  ASSUME ni \in Interfaces
  PROVE  /\ Taken \in Interfaces
         /\ Taken.framesOut = <<>>
         /\ Taken.cache = ni.cache
         /\ Taken.pending = ni.pending
<1>1. <<>> \in Seq(Frames)
  OBVIOUS
<1> QED
  BY <1>1 DEF Taken, Interfaces

\* Asking for a hop.
LEMMA AskFields ==
  ASSUME NEW i \in Interfaces, NEW hop \in IPs, NEW dgram \in Datagrams
  PROVE  /\ Ask(i, dgram, hop) \in Interfaces
         /\ ARPRequest(i, hop) \in ARPFrames
         /\ Ask(i, dgram, hop).framesOut = i.framesOut \o <<ARPRequest(i, hop)>>
         /\ Ask(i, dgram, hop).cache = i.cache
         /\ Ask(i, dgram, hop).pending =
              [i.pending EXCEPT ![hop] = Append(i.pending[hop], dgram)]
<1> DEFINE q == Queue(i, <<ARPRequest(i, hop)>>)
           pending == [i.pending EXCEPT ![hop] = Append(i.pending[hop], dgram)]
           cooldown == With(i.cooldown, hop, CooldownTime)
<1>1. ARPRequest(i, hop) \in ARPFrames
  BY Fields, InterfaceSpecAssumption DEF ARPRequest, ARPFrame, ARPFrames, ARPMessages
<1>2. /\ q \in Interfaces
      /\ q.framesOut = i.framesOut \o <<ARPRequest(i, hop)>>
      /\ q.cache = i.cache /\ q.pending = i.pending
  <2>1. <<ARPRequest(i, hop)>> \in Seq(Frames)
    BY <1>1 DEF Frames
  <2> HIDE DEF q
  <2> QED
    BY <2>1, QueueFields DEF q
<1>3. q.cooldown = i.cooldown
  BY DEF Queue, Interfaces
<1>4. pending \in [IPs -> Seq(Datagrams)]
  BY Fields
<1>5. cooldown \in Maps(1 .. CooldownTime)
  <2>1. i.cooldown \in Maps(1 .. CooldownTime) /\ CooldownTime \in 1 .. CooldownTime
    BY Fields, InterfaceAssumption
  <2> QED
    BY <2>1, WithInMaps
<1>6. Ask(i, dgram, hop) = [q EXCEPT !.pending = pending, !.cooldown = cooldown]
  BY <1>2, <1>3 DEF Ask
<1> HIDE DEF q, pending, cooldown
<1> QED
  BY <1>1, <1>2, <1>4, <1>5, <1>6 DEF Interfaces, pending

\* Learning the addresses of a message's sender.
LEMMA LearnFields ==
  ASSUME NEW i \in Interfaces, NEW arp \in ARPMessages
  PROVE  /\ Learn(i, arp) \in Interfaces
         /\ Learn(i, arp).framesOut = i.framesOut
         /\ Learn(i, arp).pending = i.pending
         /\ Learn(i, arp).cache =
              With(i.cache, arp.senderIp, [eth |-> arp.senderEth, left |-> CacheTime])
<1> DEFINE entry == [eth |-> arp.senderEth, left |-> CacheTime]
           cache == With(i.cache, arp.senderIp, entry)
<1>1. cache \in Maps(Entries)
  <2>1. arp.senderIp \in IPs /\ entry \in Entries
    BY InterfaceAssumption DEF ARPMessages, Entries
  <2> QED
    BY <2>1, Fields, WithInMaps
<1>2. Learn(i, arp) = [i EXCEPT !.cache = cache]
  BY DEF Learn
<1> HIDE DEF cache, entry
<1> QED
  BY <1>1, <1>2 DEF Interfaces, Entries, cache, entry

\* The frames in which what has waited leaves.
LEMMA WaitingFrames ==
  ASSUME NEW i \in Interfaces, NEW arp \in ARPMessages
  PROVE  /\ Waiting(i, arp) \in Seq(Frames)
         /\ Len(Waiting(i, arp)) = Len(i.pending[arp.senderIp])
         /\ \A k \in 1 .. Len(i.pending[arp.senderIp]) :
              /\ Waiting(i, arp)[k] \in IPv4Frames
              /\ Waiting(i, arp)[k].dst = arp.senderEth
              /\ Waiting(i, arp)[k].dgram = i.pending[arp.senderIp][k]
<1> DEFINE dgrams == i.pending[arp.senderIp]
<1>1. dgrams \in Seq(Datagrams) /\ arp.senderEth \in Eths /\ i.eth \in Eths
  BY Fields, InterfaceSpecAssumption DEF ARPMessages
<1>2. Waiting(i, arp) =
        [k \in 1 .. Len(dgrams) |-> [src |-> i.eth, dst |-> arp.senderEth, dgram |-> dgrams[k]]]
  BY DEF Waiting, IPv4Frame
<1> HIDE DEF dgrams
<1>3. ASSUME NEW k \in 1 .. Len(dgrams)
      PROVE  [src |-> i.eth, dst |-> arp.senderEth, dgram |-> dgrams[k]] \in IPv4Frames
  BY <1>1 DEF IPv4Frames
<1>4. \A k \in 1 .. Len(dgrams) :
        /\ Waiting(i, arp)[k] \in IPv4Frames
        /\ Waiting(i, arp)[k].dst = arp.senderEth
        /\ Waiting(i, arp)[k].dgram = dgrams[k]
  BY <1>2, <1>3
<1>5. Waiting(i, arp) \in [1 .. Len(dgrams) -> Frames]
  BY <1>2, <1>3 DEF Frames
<1>6. Len(dgrams) \in Nat
  BY <1>1
<1>7. Waiting(i, arp) \in Seq(Frames) /\ Len(Waiting(i, arp)) = Len(dgrams)
  BY <1>5, <1>6
<1> QED
  BY <1>4, <1>7 DEF dgrams

\* Sending what has waited.
LEMMA FlushFields ==
  ASSUME NEW i \in Interfaces, NEW arp \in ARPMessages
  PROVE  /\ Flush(i, arp) \in Interfaces
         /\ Flush(i, arp).framesOut = i.framesOut \o Waiting(i, arp)
         /\ Flush(i, arp).cache = i.cache
         /\ Flush(i, arp).pending = [i.pending EXCEPT ![arp.senderIp] = <<>>]
<1> DEFINE q == Queue(i, Waiting(i, arp))
           pending == [i.pending EXCEPT ![arp.senderIp] = <<>>]
<1>1. /\ q \in Interfaces
      /\ q.framesOut = i.framesOut \o Waiting(i, arp)
      /\ q.cache = i.cache /\ q.pending = i.pending
  <2>1. Waiting(i, arp) \in Seq(Frames)
    BY WaitingFrames
  <2> QED
    BY <2>1, QueueFields
<1>2. pending \in [IPs -> Seq(Datagrams)]
  <2>1. i.pending \in [IPs -> Seq(Datagrams)] /\ <<>> \in Seq(Datagrams)
    BY Fields
  <2> QED
    BY <2>1
<1>3. Flush(i, arp) = [q EXCEPT !.pending = pending]
  BY <1>1 DEF Flush
<1> HIDE DEF q, pending
<1> QED
  BY <1>1, <1>2, <1>3 DEF Interfaces, pending

\* Answering a request, or not.
LEMMA AnswerFields ==
  ASSUME NEW i \in Interfaces, NEW frame \in ARPFrames
  PROVE  /\ Answer(i, frame) \in Interfaces
         /\ Answer(i, frame).cache = i.cache
         /\ Answer(i, frame).pending = i.pending
         /\ \E frames \in Seq(ARPFrames) : Answer(i, frame).framesOut = i.framesOut \o frames
<1> DEFINE reply == ARPFrame(i.eth, frame.src,
             [opcode |-> Replies, senderEth |-> i.eth, senderIp |-> i.ip,
              targetIp |-> frame.arp.senderIp])
<1>1. reply \in ARPFrames
  BY Fields, InterfaceSpecAssumption DEF ARPFrame, ARPFrames, ARPMessages
<1>2. CASE Answer(i, frame) = Queue(i, <<reply>>)
  <2>1. <<reply>> \in Seq(ARPFrames) /\ <<reply>> \in Seq(Frames)
    BY <1>1 DEF Frames
  <2> HIDE DEF reply
  <2>2. /\ Queue(i, <<reply>>) \in Interfaces
        /\ Queue(i, <<reply>>).framesOut = i.framesOut \o <<reply>>
        /\ Queue(i, <<reply>>).cache = i.cache
        /\ Queue(i, <<reply>>).pending = i.pending
    BY <2>1, QueueFields
  <2> QED
    BY <1>2, <2>1, <2>2
<1>3. CASE Answer(i, frame) = i
  <2>1. i.framesOut = i.framesOut \o <<>> /\ <<>> \in Seq(ARPFrames)
    BY Fields
  <2> QED
    BY <1>3, <2>1
<1> QED
  BY <1>2, <1>3 DEF Answer

\* The clock: every entry that is kept has lost as much time.
LEMMA TickFields ==
  ASSUME NEW i \in Interfaces, NEW ms \in Nat \ {0}
  PROVE  /\ TickInterface(i, ms) \in Interfaces
         /\ TickInterface(i, ms).framesOut = i.framesOut
         /\ TickInterface(i, ms).pending = i.pending
         /\ TickInterface(i, ms).cache = CacheAfter(i, ms)
         /\ \A ip \in DOMAIN CacheAfter(i, ms) :
              /\ ip \in DOMAIN i.cache
              /\ i.cache[ip] \in Entries
              /\ i.cache[ip].left > ms
              /\ CacheAfter(i, ms)[ip].eth = i.cache[ip].eth
              /\ CacheAfter(i, ms)[ip].left = i.cache[ip].left - ms
<1> DEFINE C == {x \in DOMAIN i.cache : i.cache[x].left > ms}
           K == {x \in DOMAIN i.cooldown : i.cooldown[x] > ms}
<1>1. /\ DOMAIN i.cache \in SUBSET IPs
      /\ \A x \in DOMAIN i.cache : i.cache[x] \in Entries
  BY Fields DEF Maps
<1>2. /\ DOMAIN i.cooldown \in SUBSET IPs
      /\ \A x \in DOMAIN i.cooldown : i.cooldown[x] \in 1 .. CooldownTime
  BY Fields DEF Maps
<1>3. ASSUME NEW x \in C
      PROVE  /\ [i.cache[x] EXCEPT !.left = i.cache[x].left - ms] \in Entries
             /\ [i.cache[x] EXCEPT !.left = i.cache[x].left - ms].eth = i.cache[x].eth
             /\ [i.cache[x] EXCEPT !.left = i.cache[x].left - ms].left = i.cache[x].left - ms
  <2>1. i.cache[x] \in Entries /\ i.cache[x].left > ms
    BY <1>1
  <2> QED
    BY <2>1, InterfaceAssumption DEF Entries
<1>4. CacheAfter(i, ms) = [x \in C |-> [i.cache[x] EXCEPT !.left = i.cache[x].left - ms]]
  BY DEF CacheAfter
<1>5. CacheAfter(i, ms) \in Maps(Entries)
  <2>1. C \in SUBSET IPs
    BY <1>1
  <2>2. CacheAfter(i, ms) \in [C -> Entries]
    BY <1>3, <1>4
  <2> HIDE DEF C
  <2> QED
    BY <2>1, <2>2, InMaps
<1>6. CooldownAfter(i, ms) \in Maps(1 .. CooldownTime)
  <2>1. K \in SUBSET IPs
    BY <1>2
  <2>2. CooldownAfter(i, ms) \in [K -> 1 .. CooldownTime]
    BY <1>2, InterfaceAssumption DEF CooldownAfter
  <2> HIDE DEF K
  <2> QED
    BY <2>1, <2>2, InMaps
<1>7. /\ TickInterface(i, ms) \in Interfaces
      /\ TickInterface(i, ms).framesOut = i.framesOut
      /\ TickInterface(i, ms).pending = i.pending
      /\ TickInterface(i, ms).cache = CacheAfter(i, ms)
  BY <1>5, <1>6 DEF TickInterface, Interfaces, Entries
<1>8. DOMAIN CacheAfter(i, ms) = C
  BY <1>4
<1> QED
  BY <1>1, <1>3, <1>4, <1>7, <1>8
-----------------------------------------------------------------------------
\* What is cached is the last word heard, and the time it has left is what that
\* word is short of the cache time; what waits for a hop is for that hop.
IInv ==
  /\ TypeOK
  /\ NoneWaitsForKnown
  /\ SentOnFreshWord
  /\ heard \in Maps(Words)
  /\ \A ip \in DOMAIN ni.cache :
       /\ ip \in DOMAIN heard
       /\ ni.cache[ip].eth = heard[ip].eth
       /\ ni.cache[ip].left + heard[ip].age = CacheTime
  /\ \A hop \in IPs : \A i \in 1 .. Len(ni.pending[hop]) : ni.pending[hop][i].hop = hop

LEMMA InitIInv == Init => IInv
<1> SUFFICES ASSUME Init PROVE IInv
  OBVIOUS
<1> USE InterfaceAssumption, InterfaceSpecAssumption
<1>1. ni = [eth |-> MyEth, ip |-> MyIp, framesOut |-> <<>>,
            cache |-> <<>>, cooldown |-> <<>>, pending |-> [hop \in IPs |-> <<>>]]
  BY DEF Init, NewInterface
<1>2. \A S : <<>> \in Maps(S)
  <2>1. ASSUME NEW S PROVE <<>> \in [{} -> S]
    OBVIOUS
  <2> QED
    BY <2>1, InMaps
<1>3. TypeOK
  BY <1>1, <1>2 DEF TypeOK, Interfaces, Init
<1>4. DOMAIN ni.cache = {}
  BY <1>1
<1> QED
  BY <1>1, <1>2, <1>3, <1>4 DEF IInv, NoneWaitsForKnown, SentOnFreshWord, Init

\* send_datagram: the frame goes to the cached address, or a request goes out for
\* an address that is not cached and the datagram waits for it.
LEMMA SendKeepsIInv == ASSUME IInv, NEW hop \in IPs, Send(hop) PROVE IInv'
<1> DEFINE dgram == [number |-> given', hop |-> hop]
<1>1. /\ ni' = SendDatagram(Taken, dgram, hop)
      /\ heard' = heard
      /\ given' \in 0 .. MaxDatagrams
      /\ dgram \in Datagrams
      /\ dgram.hop = hop
  BY InterfaceSpecAssumption DEF Send, IInv, TypeOK
<1>2. ni \in Interfaces
  BY DEF IInv, TypeOK
<1>3. /\ Taken \in Interfaces
      /\ Taken.framesOut = <<>>
      /\ Taken.cache = ni.cache
      /\ Taken.pending = ni.pending
  BY <1>2, TakenFields
<1> HIDE DEF dgram
<1>4. CASE hop \in DOMAIN ni.cache
  <2> DEFINE frame == IPv4Frame(Taken.eth, Taken.cache[hop].eth, dgram)
  <2>1. ni.cache[hop] \in Entries /\ Taken.eth \in Eths
    BY <1>2, <1>3, <1>4, Fields, InterfaceSpecAssumption DEF Maps
  <2>2. frame \in IPv4Frames /\ frame.dgram = dgram /\ frame.dst = ni.cache[hop].eth
    BY <1>1, <1>3, <2>1 DEF IPv4Frame, IPv4Frames, Entries
  <2>3. ni' = Queue(Taken, <<frame>>)
    BY <1>1, <1>3, <1>4 DEF SendDatagram
  <2> HIDE DEF frame
  <2>4. <<frame>> \in Seq(Frames)
    BY <2>2 DEF Frames
  <2>5. /\ ni' \in Interfaces
        /\ ni'.framesOut = <<frame>>
        /\ ni'.cache = ni.cache /\ ni'.pending = ni.pending
    <3>1. /\ Queue(Taken, <<frame>>) \in Interfaces
          /\ Queue(Taken, <<frame>>).framesOut = Taken.framesOut \o <<frame>>
          /\ Queue(Taken, <<frame>>).cache = Taken.cache
          /\ Queue(Taken, <<frame>>).pending = Taken.pending
      BY <1>3, <2>4, QueueFields
    <3>2. <<>> \o <<frame>> = <<frame>>
      OBVIOUS
    <3> QED
      BY <1>3, <2>3, <3>1, <3>2
  <2>6. heard[hop] \in Words
    BY <1>4 DEF IInv, Maps
  <2>7. hop \in DOMAIN heard /\ frame.dst = heard[hop].eth /\ heard[hop].age < CacheTime
    BY <1>4, <2>1, <2>2, <2>6, InterfaceAssumption DEF IInv, Entries, Words
  <2>8. SentOnFreshWord'
    BY <1>1, <2>2, <2>5, <2>7 DEF SentOnFreshWord
  <2> QED
    BY <1>1, <2>5, <2>8 DEF IInv, TypeOK, NoneWaitsForKnown
<1>5. CASE hop \notin DOMAIN ni.cache /\ hop \in DOMAIN Taken.cooldown
  <2>1. ni' = Taken
    BY <1>1, <1>3, <1>5 DEF SendDatagram
  <2>2. SentOnFreshWord'
    BY <1>3, <2>1 DEF SentOnFreshWord
  <2> QED
    BY <1>1, <1>3, <2>1, <2>2 DEF IInv, TypeOK, NoneWaitsForKnown
<1>6. CASE hop \notin DOMAIN ni.cache /\ hop \notin DOMAIN Taken.cooldown
  <2> DEFINE frame == ARPRequest(Taken, hop)
  <2>1. ni' = Ask(Taken, dgram, hop)
    BY <1>1, <1>3, <1>6 DEF SendDatagram
  <2>2. /\ ni' \in Interfaces
        /\ frame \in ARPFrames
        /\ ni'.framesOut = <<>> \o <<frame>>
        /\ ni'.cache = ni.cache
        /\ ni'.pending = [ni.pending EXCEPT ![hop] = Append(ni.pending[hop], dgram)]
    <3>1. /\ Ask(Taken, dgram, hop) \in Interfaces
          /\ frame \in ARPFrames
          /\ Ask(Taken, dgram, hop).framesOut = Taken.framesOut \o <<frame>>
          /\ Ask(Taken, dgram, hop).cache = Taken.cache
          /\ Ask(Taken, dgram, hop).pending =
               [Taken.pending EXCEPT ![hop] = Append(Taken.pending[hop], dgram)]
      <4>1. dgram \in Datagrams /\ hop \in IPs /\ Taken \in Interfaces
        BY <1>1, <1>3
      <4> HIDE DEF dgram
      <4> QED
        BY <4>1, AskFields
    <3> QED
      BY <1>3, <2>1, <3>1
  <2>3. CarriesARP(frame)
    BY <2>2, FrameKinds
  <2> HIDE DEF frame
  <2>4. ni'.framesOut = <<frame>>
    BY <2>2
  <2>5. SentOnFreshWord'
    BY <2>3, <2>4 DEF SentOnFreshWord
  <2>6. ni.pending \in [IPs -> Seq(Datagrams)] /\ DOMAIN ni.cache \subseteq IPs
    BY <1>2, Fields DEF Maps
  <2>7. NoneWaitsForKnown'
    BY <1>6, <2>2, <2>6 DEF IInv, NoneWaitsForKnown
  <2>8. ASSUME NEW h \in IPs, NEW k \in 1 .. Len(ni'.pending[h])
        PROVE  ni'.pending[h][k].hop = h
    <3>1. CASE h = hop
      <4>1. ni'.pending[h] = Append(ni.pending[h], dgram) /\ ni.pending[h] \in Seq(Datagrams)
        BY <2>2, <2>6, <3>1
      <4> QED
        BY <1>1, <2>8, <3>1, <4>1 DEF IInv
    <3>2. CASE h # hop
      <4>1. ni'.pending[h] = ni.pending[h]
        BY <2>2, <2>6, <3>2
      <4> QED
        BY <2>8, <4>1 DEF IInv
    <3> QED
      BY <3>1, <3>2
  <2> QED
    BY <1>1, <2>2, <2>5, <2>7, <2>8 DEF IInv, TypeOK
<1> QED
  BY <1>4, <1>5, <1>6

\* recv_frame: the sender becomes known and nothing waits for it any more.
LEMMA HearKeepsIInv == ASSUME IInv, NEW frame \in ARPFrames, HearARP(frame) PROVE IInv'
<1> DEFINE arp == frame.arp
           ip == arp.senderIp
           word == [eth |-> arp.senderEth, age |-> 0]
<1>1. /\ ni' = RecvFrame(Taken, frame)
      /\ heard' = IF IsFor(ni, frame) THEN With(heard, ip, word) ELSE heard
      /\ given' = given
  BY DEF HearARP
<1>2. arp \in ARPMessages /\ ip \in IPs /\ arp.senderEth \in Eths /\ CarriesARP(frame)
  BY FrameKinds DEF ARPFrames, ARPMessages
<1>3. ni \in Interfaces
  BY DEF IInv, TypeOK
<1>4. /\ Taken \in Interfaces
      /\ Taken.framesOut = <<>>
      /\ Taken.cache = ni.cache
      /\ Taken.pending = ni.pending
  BY <1>3, TakenFields
<1>5. IsFor(Taken, frame) <=> IsFor(ni, frame)
  BY <1>3, <1>4, Fields DEF IsFor
<1>6. CASE ~ IsFor(ni, frame)
  <2>1. ni' = Taken /\ heard' = heard
    BY <1>1, <1>5, <1>6 DEF RecvFrame
  <2>2. SentOnFreshWord'
    BY <1>4, <2>1 DEF SentOnFreshWord
  <2> QED
    BY <1>1, <1>4, <2>1, <2>2 DEF IInv, TypeOK, NoneWaitsForKnown
<1>7. CASE IsFor(ni, frame)
  <2> DEFINE learnt == Learn(Taken, arp)
             flushed == Flush(learnt, arp)
             entry == [eth |-> arp.senderEth, left |-> CacheTime]
             waited == Waiting(learnt, arp)
  <2>1. ni' = Answer(flushed, frame) /\ heard' = With(heard, ip, word)
    BY <1>1, <1>2, <1>5, <1>7 DEF RecvFrame
  <2> HIDE DEF arp, ip, word, entry, learnt, flushed, waited
  <2>2. /\ learnt \in Interfaces
        /\ learnt.framesOut = <<>>
        /\ learnt.pending = ni.pending
        /\ learnt.cache = With(ni.cache, ip, entry)
    <3>1. /\ Learn(Taken, arp) \in Interfaces
          /\ Learn(Taken, arp).framesOut = Taken.framesOut
          /\ Learn(Taken, arp).pending = Taken.pending
          /\ Learn(Taken, arp).cache =
               With(Taken.cache, arp.senderIp, [eth |-> arp.senderEth, left |-> CacheTime])
      BY <1>2, <1>4, LearnFields
    <3> QED
      BY <1>4, <3>1 DEF learnt, ip, entry
  <2>3. /\ waited \in Seq(Frames)
        /\ Len(waited) = Len(ni.pending[ip])
        /\ \A k \in 1 .. Len(waited) :
             /\ waited[k] \in IPv4Frames
             /\ waited[k].dst = arp.senderEth
             /\ waited[k].dgram = ni.pending[ip][k]
    <3>1. /\ Waiting(learnt, arp) \in Seq(Frames)
          /\ Len(Waiting(learnt, arp)) = Len(learnt.pending[arp.senderIp])
          /\ \A k \in 1 .. Len(learnt.pending[arp.senderIp]) :
               /\ Waiting(learnt, arp)[k] \in IPv4Frames
               /\ Waiting(learnt, arp)[k].dst = arp.senderEth
               /\ Waiting(learnt, arp)[k].dgram = learnt.pending[arp.senderIp][k]
      BY <1>2, <2>2, WaitingFrames
    <3> QED
      BY <2>2, <3>1 DEF waited, ip
  <2>4. /\ flushed \in Interfaces
        /\ flushed.framesOut = <<>> \o waited
        /\ flushed.pending = [ni.pending EXCEPT ![ip] = <<>>]
        /\ flushed.cache = With(ni.cache, ip, entry)
    <3>1. /\ Flush(learnt, arp) \in Interfaces
          /\ Flush(learnt, arp).framesOut = learnt.framesOut \o Waiting(learnt, arp)
          /\ Flush(learnt, arp).cache = learnt.cache
          /\ Flush(learnt, arp).pending = [learnt.pending EXCEPT ![arp.senderIp] = <<>>]
      BY <1>2, <2>2, FlushFields
    <3> QED
      BY <2>2, <3>1 DEF flushed, waited, ip
  <2>5. PICK frames \in Seq(ARPFrames) : Answer(flushed, frame).framesOut = flushed.framesOut \o frames
    BY <2>4, AnswerFields
  <2>6. /\ ni' \in Interfaces
        /\ ni'.framesOut = waited \o frames
        /\ ni'.pending = [ni.pending EXCEPT ![ip] = <<>>]
        /\ ni'.cache = With(ni.cache, ip, entry)
    <3>1. <<>> \o waited = waited
      BY <2>3
    <3>2. /\ Answer(flushed, frame) \in Interfaces
          /\ Answer(flushed, frame).pending = flushed.pending
          /\ Answer(flushed, frame).cache = flushed.cache
      BY <2>4, AnswerFields
    <3> QED
      BY <2>1, <2>4, <2>5, <3>1, <3>2
  <2>7. entry \in Entries /\ word \in Words
    BY <1>2, InterfaceAssumption DEF Entries, Words, entry, word
  <2>8. /\ heard' \in Maps(Words)
        /\ DOMAIN heard' = DOMAIN heard \cup {ip}
        /\ heard'[ip] = word
        /\ \A x \in DOMAIN heard : x # ip => heard'[x] = heard[x]
    <3>1. heard \in Maps(Words) /\ ip \in IPs /\ word \in Words
      BY <1>2, <2>7 DEF IInv
    <3>2. With(heard, ip, word) \in Maps(Words)
      BY <3>1, WithInMaps
    <3> QED
      BY <2>1, <3>2 DEF With
  <2>9. /\ DOMAIN ni'.cache = DOMAIN ni.cache \cup {ip}
        /\ ni'.cache[ip] = entry
        /\ \A x \in DOMAIN ni.cache : x # ip => ni'.cache[x] = ni.cache[x]
    BY <2>6 DEF With
  <2>10. ni.pending \in [IPs -> Seq(Datagrams)] /\ DOMAIN ni.cache \subseteq IPs
    BY <1>3, Fields DEF Maps
  <2>11. NoneWaitsForKnown'
    BY <1>2, <2>6, <2>9, <2>10 DEF IInv, NoneWaitsForKnown
  <2>12. SentOnFreshWord'
    <3> SUFFICES ASSUME NEW k \in DOMAIN ni'.framesOut, ~ CarriesARP(ni'.framesOut[k])
                 PROVE  /\ ni'.framesOut[k].dgram.hop \in DOMAIN heard'
                        /\ ni'.framesOut[k].dst = heard'[ni'.framesOut[k].dgram.hop].eth
                        /\ heard'[ni'.framesOut[k].dgram.hop].age < CacheTime
      BY DEF SentOnFreshWord
    <3>1. CASE k \in 1 .. Len(waited)
      <4>1. ni'.framesOut[k] = waited[k]
        BY <2>3, <2>6, <3>1
      <4>2. ni.pending[ip][k].hop = ip
        BY <1>2, <2>3, <3>1 DEF IInv
      <4>3. ni'.framesOut[k].dgram.hop = ip /\ ni'.framesOut[k].dst = arp.senderEth
        BY <2>3, <3>1, <4>1, <4>2
      <4> QED
        BY <2>8, <4>3, InterfaceAssumption DEF word
    <3>2. CASE k \notin 1 .. Len(waited)
      <4>1. Len(waited \o frames) = Len(waited) + Len(frames) /\ k \in 1 .. Len(waited \o frames)
        <5>1. waited \in Seq(Frames) /\ frames \in Seq(Frames)
          BY <2>3 DEF Frames
        <5>2. Len(waited \o frames) = Len(waited) + Len(frames)
          BY <5>1
        <5>3. DOMAIN (waited \o frames) = 1 .. Len(waited \o frames)
          BY <5>1
        <5> QED
          BY <2>6, <5>2, <5>3
      <4>2. ni'.framesOut[k] = frames[k - Len(waited)] /\ k - Len(waited) \in 1 .. Len(frames)
        BY <2>3, <2>6, <3>2, <4>1
      <4>3. ni'.framesOut[k] \in ARPFrames
        BY <4>2
      <4> QED
        BY <4>3, FrameKinds
    <3> QED
      BY <3>1, <3>2
  <2>13. ASSUME NEW x \in DOMAIN ni'.cache
         PROVE  /\ x \in DOMAIN heard'
                /\ ni'.cache[x].eth = heard'[x].eth
                /\ ni'.cache[x].left + heard'[x].age = CacheTime
    <3>1. CASE x = ip
      BY <2>8, <2>9, <3>1, InterfaceAssumption DEF word, entry
    <3>2. CASE x # ip
      <4>1. x \in DOMAIN ni.cache /\ ni'.cache[x] = ni.cache[x]
        BY <2>9, <2>13, <3>2
      <4>2. x \in DOMAIN heard /\ heard'[x] = heard[x]
        BY <2>8, <3>2, <4>1 DEF IInv
      <4> QED
        BY <2>8, <4>1, <4>2 DEF IInv
    <3> QED
      BY <3>1, <3>2
  <2>14. ASSUME NEW h \in IPs, NEW k \in 1 .. Len(ni'.pending[h])
         PROVE  ni'.pending[h][k].hop = h
    <3>1. ni'.pending[h] = <<>> \/ ni'.pending[h] = ni.pending[h]
      BY <2>6, <2>10
    <3> QED
      BY <2>14, <3>1 DEF IInv
  <2> QED
    BY <1>1, <2>6, <2>8, <2>11, <2>12, <2>13, <2>14 DEF IInv, TypeOK
<1> QED
  BY <1>6, <1>7

\* tick: what is kept in the cache is as old as the word it came with.
LEMMA TickKeepsIInv == ASSUME IInv, NEW ms \in Nat \ {0}, Tick(ms) PROVE IInv'
<1>1. /\ ni' = TickInterface(Taken, ms)
      /\ heard' = [ip \in DOMAIN heard |-> [heard[ip] EXCEPT !.age = Aged(heard[ip].age, ms)]]
      /\ given' = given
  BY DEF Tick
<1>2. ni \in Interfaces
  BY DEF IInv, TypeOK
<1>3. /\ Taken \in Interfaces
      /\ Taken.framesOut = <<>>
      /\ Taken.cache = ni.cache
      /\ Taken.pending = ni.pending
  BY <1>2, TakenFields
<1>4. /\ ni' \in Interfaces
      /\ ni'.framesOut = <<>>
      /\ ni'.pending = ni.pending
      /\ \A ip \in DOMAIN ni'.cache :
           /\ ip \in DOMAIN ni.cache
           /\ ni.cache[ip] \in Entries
           /\ ni.cache[ip].left > ms
           /\ ni'.cache[ip].eth = ni.cache[ip].eth
           /\ ni'.cache[ip].left = ni.cache[ip].left - ms
  BY <1>1, <1>3, TickFields
<1>5. ASSUME NEW ip \in DOMAIN heard
      PROVE  /\ heard[ip] \in Words
             /\ heard'[ip] \in Words
             /\ heard'[ip].eth = heard[ip].eth
             /\ heard'[ip].age = Aged(heard[ip].age, ms)
  <2>1. heard[ip] \in Words
    BY <1>5 DEF IInv, Maps
  <2>2. Aged(heard[ip].age, ms) \in 0 .. CacheTime + CooldownTime
    BY <2>1, InterfaceAssumption DEF Aged, Words
  <2> QED
    BY <1>1, <1>5, <2>1, <2>2 DEF Words
<1>6. DOMAIN heard' = DOMAIN heard /\ heard' \in Maps(Words)
  <2>1. heard' \in [DOMAIN heard -> Words]
    BY <1>1, <1>5
  <2>2. DOMAIN heard \in SUBSET IPs
    BY DEF IInv, Maps
  <2> QED
    BY <1>1, <2>1, <2>2, InMaps
<1>7. ASSUME NEW ip \in DOMAIN ni'.cache
      PROVE  /\ ip \in DOMAIN heard'
             /\ ni'.cache[ip].eth = heard'[ip].eth
             /\ ni'.cache[ip].left + heard'[ip].age = CacheTime
  <2>1. /\ ip \in DOMAIN heard
        /\ ni.cache[ip].eth = heard[ip].eth
        /\ ni.cache[ip].left + heard[ip].age = CacheTime
    BY <1>4, <1>7 DEF IInv
  <2>2. Aged(heard[ip].age, ms) = heard[ip].age + ms
    BY <1>4, <1>5, <1>7, <2>1, InterfaceAssumption DEF Aged, Words, Entries
  <2> QED
    BY <1>4, <1>5, <1>6, <1>7, <2>1, <2>2, InterfaceAssumption DEF Words, Entries
<1>8. SentOnFreshWord' /\ NoneWaitsForKnown'
  BY <1>4 DEF SentOnFreshWord, NoneWaitsForKnown, IInv
<1>9. TypeOK'
  BY <1>1, <1>4 DEF IInv, TypeOK
<1>10. \A hop \in IPs : \A i \in 1 .. Len(ni'.pending[hop]) : ni'.pending[hop][i].hop = hop
  BY <1>4 DEF IInv
<1>11. /\ heard' \in Maps(Words)
       /\ \A ip \in DOMAIN ni'.cache :
            /\ ip \in DOMAIN heard'
            /\ ni'.cache[ip].eth = heard'[ip].eth
            /\ ni'.cache[ip].left + heard'[ip].age = CacheTime
  BY <1>6, <1>7
<1> QED
  BY ONLY <1>8, <1>9, <1>10, <1>11 DEF IInv

\* Every step keeps the invariant.
LEMMA NextKeepsIInv == IInv /\ [Next]_vars => IInv'
<1> SUFFICES ASSUME IInv, [Next]_vars PROVE IInv'
  OBVIOUS
<1>1. ASSUME NEW hop \in IPs, Send(hop) PROVE IInv'
  BY <1>1, SendKeepsIInv
<1>2. ASSUME NEW arp \in ARPMessages, NEW dst \in Eths \cup {Broadcast},
             HearARP(ARPFrame(arp.senderEth, dst, arp))
      PROVE  IInv'
  <2>1. ARPFrame(arp.senderEth, dst, arp) \in ARPFrames
    BY DEF ARPFrame, ARPFrames, ARPMessages
  <2> QED
    BY <1>2, <2>1, HearKeepsIInv
<1>3. ASSUME NEW ms \in Milliseconds, Tick(ms) PROVE IInv'
  BY <1>3, TickKeepsIInv, InterfaceSpecAssumption
<1>4. CASE UNCHANGED vars
  BY <1>4 DEF vars, IInv, TypeOK, NoneWaitsForKnown, SentOnFreshWord
<1> QED
  BY <1>1, <1>2, <1>3, <1>4 DEF Next
-----------------------------------------------------------------------------
\* An interface keeps its type, and every entry of its maps has time left.
THEOREM TypeCorrect == Spec => []TypeOK
<1>1. IInv => TypeOK
  BY DEF IInv
<1> QED
  BY <1>1, InitIInv, NextKeepsIInv, PTL DEF Spec

\* Nothing waits for an address that is known (send_datagram and recv_frame).
THEOREM NoneEverWaitsForKnown == Spec => []NoneWaitsForKnown
<1>1. IInv => NoneWaitsForKnown
  BY DEF IInv
<1> QED
  BY <1>1, InitIInv, NextKeepsIInv, PTL DEF Spec

\* A datagram leaves only on the last word of its hop, younger than the cache time.
THEOREM AlwaysSentOnFreshWord == Spec => []SentOnFreshWord
<1>1. IInv => SentOnFreshWord
  BY DEF IInv
<1> QED
  BY <1>1, InitIInv, NextKeepsIInv, PTL DEF Spec
-----------------------------------------------------------------------------
(***************************************************************************)
(* Requests.  Which addresses the frames of a call ask for, and what it    *)
(* does to the cooldown map.                                               *)
(***************************************************************************)
IsRequest(f) == CarriesARP(f) /\ f.arp.opcode = Requests

LEMMA RequestsAre ==
  ASSUME NEW frames
  PROVE  RequestsFor(frames) =
           {frames[k].arp.targetIp : k \in {j \in DOMAIN frames : IsRequest(frames[j])}}
  BY DEF RequestsFor, IsRequest

\* Where no frame asks, nothing is asked for.
LEMMA NoRequests ==
  ASSUME NEW frames, \A k \in DOMAIN frames : ~ IsRequest(frames[k])
  PROVE  RequestsFor(frames) = {}
  BY RequestsAre

\* Requests in frames that are queued behind none that ask.
LEMMA RequestsBehind ==
  ASSUME NEW a \in Seq(Frames), NEW b \in Seq(Frames),
         \A k \in DOMAIN a : ~ IsRequest(a[k]), \A k \in DOMAIN b : ~ IsRequest(b[k])
  PROVE  \A k \in DOMAIN (a \o b) : ~ IsRequest((a \o b)[k])
<1> SUFFICES ASSUME NEW k \in DOMAIN (a \o b)
             PROVE  \/ \E j \in DOMAIN a : (a \o b)[k] = a[j]
                    \/ \E j \in DOMAIN b : (a \o b)[k] = b[j]
  OBVIOUS
<1>1. DOMAIN (a \o b) = 1 .. Len(a) + Len(b) /\ DOMAIN a = 1 .. Len(a)
      /\ DOMAIN b = 1 .. Len(b) /\ Len(a) \in Nat /\ Len(b) \in Nat
  OBVIOUS
<1>2. CASE k <= Len(a)
  <2>1. k \in DOMAIN a /\ (a \o b)[k] = a[k]
    BY <1>1, <1>2
  <2> QED
    BY <2>1
<1>3. CASE k > Len(a)
  <2>1. k - Len(a) \in DOMAIN b /\ (a \o b)[k] = b[k - Len(a)]
    BY <1>1, <1>3
  <2> QED
    BY <2>1
<1> QED
  BY <1>1, <1>2, <1>3

\* Only Ask touches the cooldown map, besides the clock.
LEMMA CooldownFields ==
  ASSUME NEW i \in Interfaces
  PROVE  /\ \A frames : Queue(i, frames).cooldown = i.cooldown
         /\ \A arp : Learn(i, arp).cooldown = i.cooldown
         /\ \A arp : Flush(i, arp).cooldown = i.cooldown
         /\ \A frame : Answer(i, frame).cooldown = i.cooldown
         /\ \A dgram, hop : Ask(i, dgram, hop).cooldown = With(i.cooldown, hop, CooldownTime)
         /\ \A ms : TickInterface(i, ms).cooldown = CooldownAfter(i, ms)
<1>1. \A frames : Queue(i, frames).cooldown = i.cooldown
  BY DEF Queue, Interfaces
<1>2. \A arp : Learn(i, arp).cooldown = i.cooldown
  BY DEF Learn, Interfaces
<1>3. \A arp : Flush(i, arp).cooldown = i.cooldown
  BY <1>1 DEF Flush, Queue, Interfaces
<1>4. \A frame : Answer(i, frame).cooldown = i.cooldown
  BY <1>1 DEF Answer
<1>5. \A dgram, hop : Ask(i, dgram, hop).cooldown = With(i.cooldown, hop, CooldownTime)
  BY DEF Ask, Queue, Interfaces
<1>6. \A ms : TickInterface(i, ms).cooldown = CooldownAfter(i, ms)
  BY DEF TickInterface, Interfaces
<1> QED
  BY <1>1, <1>2, <1>3, <1>4, <1>5, <1>6

LEMMA TakenCooldown ==
  ASSUME ni \in Interfaces
  PROVE  Taken.cooldown = ni.cooldown
  BY DEF Taken, Interfaces

\* Sending asks only for a hop that is neither cached nor cooling down.
LEMMA SendAsks ==
  ASSUME IInv, NEW hop \in IPs, Send(hop)
  PROVE  /\ ni'.cache = ni.cache
         /\ \/ RequestsFor(ni'.framesOut) = {} /\ ni'.cooldown = ni.cooldown
            \/ /\ RequestsFor(ni'.framesOut) = {hop}
               /\ ni'.cooldown = With(ni.cooldown, hop, CooldownTime)
               /\ hop \notin DOMAIN ni.cache /\ hop \notin DOMAIN ni.cooldown
<1> DEFINE dgram == [number |-> given', hop |-> hop]
<1>1. ni' = SendDatagram(Taken, dgram, hop) /\ dgram \in Datagrams
  BY InterfaceSpecAssumption DEF Send, IInv, TypeOK
<1>2. ni \in Interfaces
  BY DEF IInv, TypeOK
<1>3. /\ Taken \in Interfaces /\ Taken.framesOut = <<>>
      /\ Taken.cache = ni.cache /\ Taken.cooldown = ni.cooldown
  BY <1>2, TakenFields, TakenCooldown
<1> HIDE DEF dgram
<1>4. CASE hop \in DOMAIN ni.cache
  <2> DEFINE frame == IPv4Frame(Taken.eth, Taken.cache[hop].eth, dgram)
  <2>1. ni.cache[hop] \in Entries /\ Taken.eth \in Eths
    BY <1>2, <1>3, <1>4, Fields, InterfaceSpecAssumption DEF Maps
  <2>2. frame \in IPv4Frames
    BY <1>1, <1>3, <2>1 DEF IPv4Frame, IPv4Frames, Entries
  <2>3. ni' = Queue(Taken, <<frame>>)
    BY <1>1, <1>3, <1>4 DEF SendDatagram
  <2> HIDE DEF frame
  <2>4. <<frame>> \in Seq(Frames) /\ ~ IsRequest(frame)
    BY <2>2, FrameKinds DEF Frames, IsRequest
  <2>5. ni'.framesOut = <<frame>> /\ ni'.cache = ni.cache
    <3>1. /\ Queue(Taken, <<frame>>).framesOut = Taken.framesOut \o <<frame>>
          /\ Queue(Taken, <<frame>>).cache = Taken.cache
      BY <1>3, <2>4, QueueFields
    <3>2. <<>> \o <<frame>> = <<frame>>
      OBVIOUS
    <3> QED
      BY <1>3, <2>3, <3>1, <3>2
  <2>6. ni'.cooldown = ni.cooldown
    BY <1>3, <2>3, CooldownFields
  <2>7. RequestsFor(ni'.framesOut) = {}
    BY <2>4, <2>5, NoRequests
  <2> QED
    BY <2>5, <2>6, <2>7
<1>5. CASE hop \notin DOMAIN ni.cache /\ hop \in DOMAIN Taken.cooldown
  <2>1. ni' = Taken
    BY <1>1, <1>3, <1>5 DEF SendDatagram
  <2>2. RequestsFor(<<>>) = {}
    BY NoRequests
  <2> QED
    BY <1>3, <2>1, <2>2
<1>6. CASE hop \notin DOMAIN ni.cache /\ hop \notin DOMAIN Taken.cooldown
  <2> DEFINE frame == ARPRequest(Taken, hop)
  <2>1. ni' = Ask(Taken, dgram, hop)
    BY <1>1, <1>3, <1>6 DEF SendDatagram
  <2>2. /\ frame \in ARPFrames
        /\ ni'.framesOut = <<>> \o <<frame>>
        /\ ni'.cache = ni.cache
    <3>1. /\ frame \in ARPFrames
          /\ Ask(Taken, dgram, hop).framesOut = Taken.framesOut \o <<frame>>
          /\ Ask(Taken, dgram, hop).cache = Taken.cache
      <4>1. dgram \in Datagrams /\ hop \in IPs /\ Taken \in Interfaces
        BY <1>1, <1>3
      <4> QED
        BY <4>1, AskFields
    <3> QED
      BY <1>3, <2>1, <3>1
  <2>3. IsRequest(frame) /\ frame.arp.targetIp = hop
    BY <2>2, FrameKinds DEF IsRequest, ARPRequest, ARPFrame
  <2> HIDE DEF frame
  <2>4. ni'.framesOut = <<frame>>
    BY <2>2
  <2>5. RequestsFor(<<frame>>) = {hop}
    <3>1. {j \in DOMAIN <<frame>> : IsRequest(<<frame>>[j])} = {1}
      BY <2>3
    <3> QED
      BY <2>3, <3>1, RequestsAre
  <2>6. ni'.cooldown = With(ni.cooldown, hop, CooldownTime)
    BY <1>3, <2>1, CooldownFields
  <2> QED
    BY <1>3, <1>6, <2>2, <2>4, <2>5, <2>6
<1> QED
  BY <1>4, <1>5, <1>6

\* Hearing never asks.
LEMMA HearAsksNothing ==
  ASSUME IInv, NEW frame \in ARPFrames, HearARP(frame)
  PROVE  /\ RequestsFor(ni'.framesOut) = {}
         /\ ni'.cooldown = ni.cooldown
         /\ DOMAIN ni'.cache = IF IsFor(ni, frame)
                               THEN DOMAIN ni.cache \cup {frame.arp.senderIp}
                               ELSE DOMAIN ni.cache
<1> DEFINE arp == frame.arp
<1>1. ni' = RecvFrame(Taken, frame)
  BY DEF HearARP
<1>2. arp \in ARPMessages /\ CarriesARP(frame)
  BY FrameKinds DEF ARPFrames
<1>3. ni \in Interfaces
  BY DEF IInv, TypeOK
<1>4. /\ Taken \in Interfaces /\ Taken.framesOut = <<>>
      /\ Taken.cache = ni.cache /\ Taken.cooldown = ni.cooldown
  BY <1>3, TakenFields, TakenCooldown
<1>5. IsFor(Taken, frame) <=> IsFor(ni, frame)
  BY <1>3, <1>4, Fields DEF IsFor
<1>6. CASE ~ IsFor(ni, frame)
  <2>1. ni' = Taken
    BY <1>1, <1>5, <1>6 DEF RecvFrame
  <2>2. RequestsFor(<<>>) = {}
    BY NoRequests
  <2> QED
    BY <1>4, <1>6, <2>1, <2>2
<1>7. CASE IsFor(ni, frame)
  <2> DEFINE learnt == Learn(Taken, arp)
             flushed == Flush(learnt, arp)
             waited == Waiting(learnt, arp)
             reply == ARPFrame(flushed.eth, frame.src,
                        [opcode |-> Replies, senderEth |-> flushed.eth,
                         senderIp |-> flushed.ip, targetIp |-> arp.senderIp])
  <2>1. ni' = Answer(flushed, frame)
    BY <1>1, <1>2, <1>5, <1>7 DEF RecvFrame
  <2>2. ni' = flushed \/ ni' = Queue(flushed, <<reply>>)
    BY <2>1 DEF Answer
  <2>3. reply = [src |-> flushed.eth, dst |-> frame.src,
                 arp |-> [opcode |-> Replies, senderEth |-> flushed.eth,
                          senderIp |-> flushed.ip, targetIp |-> arp.senderIp]]
    BY DEF ARPFrame
  <2> HIDE DEF arp, learnt
  <2>4. /\ learnt \in Interfaces
        /\ learnt.framesOut = <<>> /\ learnt.cooldown = ni.cooldown
        /\ DOMAIN learnt.cache = DOMAIN ni.cache \cup {arp.senderIp}
    <3>1. /\ Learn(Taken, arp) \in Interfaces
          /\ Learn(Taken, arp).framesOut = Taken.framesOut
          /\ Learn(Taken, arp).cache =
               With(Taken.cache, arp.senderIp, [eth |-> arp.senderEth, left |-> CacheTime])
          /\ Learn(Taken, arp).cooldown = Taken.cooldown
      BY <1>2, <1>4, LearnFields, CooldownFields
    <3> QED
      BY <1>4, <3>1 DEF learnt, With
  <2>5. /\ waited \in Seq(Frames)
        /\ \A k \in DOMAIN waited : ~ IsRequest(waited[k])
    <3>1. /\ waited \in Seq(Frames)
          /\ Len(waited) = Len(learnt.pending[arp.senderIp])
          /\ \A k \in 1 .. Len(learnt.pending[arp.senderIp]) : waited[k] \in IPv4Frames
      BY <1>2, <2>4, WaitingFrames
    <3> HIDE DEF waited
    <3> QED
      BY <3>1, FrameKinds DEF IsRequest
  <2>6. /\ flushed \in Interfaces
        /\ flushed.framesOut = <<>> \o waited
        /\ flushed.cache = learnt.cache /\ flushed.cooldown = ni.cooldown
    BY <1>2, <2>4, FlushFields, CooldownFields
  <2> HIDE DEF waited, flushed
  <2>7. flushed.framesOut = waited
    BY <2>5, <2>6
  <2>8. reply \in ARPFrames /\ ~ IsRequest(reply)
    <3>1. reply \in ARPFrames
      BY <1>2, <2>3, <2>6, Fields, InterfaceSpecAssumption
         DEF ARPFrames, ARPMessages, arp
    <3>2. reply.arp.opcode = Replies
      BY <2>3
    <3> QED
      BY <3>1, <3>2 DEF IsRequest, Replies, Requests
  <2> HIDE DEF reply
  <2>9. <<reply>> \in Seq(Frames) /\ \A k \in DOMAIN <<reply>> : ~ IsRequest(<<reply>>[k])
    BY <2>8 DEF Frames
  <2>10. /\ Queue(flushed, <<reply>>).framesOut = waited \o <<reply>>
         /\ Queue(flushed, <<reply>>).cache = flushed.cache
         /\ Queue(flushed, <<reply>>).cooldown = flushed.cooldown
    BY <2>6, <2>7, <2>9, QueueFields, CooldownFields
  <2>11. \A k \in DOMAIN (waited \o <<reply>>) : ~ IsRequest((waited \o <<reply>>)[k])
    BY ONLY <2>5, <2>9, RequestsBehind
  <2>12. RequestsFor(ni'.framesOut) = {}
    BY <2>2, <2>5, <2>7, <2>10, <2>11, NoRequests
  <2> QED
    BY <1>7, <2>2, <2>4, <2>6, <2>10, <2>12 DEF arp
<1> QED
  BY <1>6, <1>7

\* An address asked for within the cooldown time is cooling down, for as long as is
\* left of that time, and an address of which word is fresh is cached.
SpacedInv ==
  /\ asked \in Maps(0 .. CacheTime + CooldownTime)
  /\ \A ip \in DOMAIN asked : asked[ip] < CooldownTime =>
       /\ ip \in DOMAIN ni.cooldown
       /\ ni.cooldown[ip] + asked[ip] >= CooldownTime
  /\ \A ip \in DOMAIN heard : heard[ip].age < CacheTime => ip \in DOMAIN ni.cache

LEMMA InitSpaced == Init => SpacedInv
<1> SUFFICES ASSUME Init PROVE SpacedInv
  OBVIOUS
<1>1. asked = <<>> /\ heard = <<>>
  BY DEF Init
<1>2. <<>> \in [{} -> 0 .. CacheTime + CooldownTime]
  OBVIOUS
<1>3. asked \in Maps(0 .. CacheTime + CooldownTime)
  BY <1>1, <1>2, InMaps
<1> QED
  BY <1>1, <1>3 DEF SpacedInv

\* asked after a step in which time stands still.
LEMMA RecordAsked ==
  ASSUME SpacedInv, Record
  PROVE  /\ DOMAIN asked' = DOMAIN asked \cup RequestsFor(ni'.framesOut)
         /\ \A ip \in DOMAIN asked' :
              asked'[ip] = IF ip \in RequestsFor(ni'.framesOut) THEN 0 ELSE asked[ip]
  BY DEF Record

LEMMA SendKeepsSpaced == ASSUME IInv, SpacedInv, NEW hop \in IPs, Send(hop) PROVE SpacedInv'
<1> DEFINE R == RequestsFor(ni'.framesOut)
<1>1. /\ DOMAIN asked' = DOMAIN asked \cup R
      /\ \A ip \in DOMAIN asked' : asked'[ip] = IF ip \in R THEN 0 ELSE asked[ip]
      /\ asked' = [ip \in DOMAIN asked \cup R |-> IF ip \in R THEN 0 ELSE asked[ip]]
      /\ heard' = heard
  BY RecordAsked DEF Send, Record
<1>2. /\ ni'.cache = ni.cache
      /\ \/ R = {} /\ ni'.cooldown = ni.cooldown
         \/ R = {hop} /\ ni'.cooldown = With(ni.cooldown, hop, CooldownTime)
  BY SendAsks
<1> HIDE DEF R
<1>3. asked' \in Maps(0 .. CacheTime + CooldownTime)
  <2>1. PICK D \in SUBSET IPs : asked \in [D -> 0 .. CacheTime + CooldownTime]
    BY DEF SpacedInv, Maps
  <2>2. D \cup R \in SUBSET IPs
    BY <1>2
  <2>3. asked' \in [D \cup R -> 0 .. CacheTime + CooldownTime]
    BY <1>1, <2>1, InterfaceAssumption
  <2> QED
    BY <2>2, <2>3, InMaps
<1>4. ASSUME NEW ip \in DOMAIN asked', asked'[ip] < CooldownTime
      PROVE  ip \in DOMAIN ni'.cooldown /\ ni'.cooldown[ip] + asked'[ip] >= CooldownTime
  <2>1. CASE ip \in R
    <3>1. ip = hop /\ asked'[ip] = 0 /\ ni'.cooldown = With(ni.cooldown, hop, CooldownTime)
      BY <1>1, <1>2, <1>4, <2>1
    <3> QED
      BY <3>1, InterfaceAssumption DEF With
  <2>2. CASE ip \notin R
    <3>1. ip \in DOMAIN asked /\ asked'[ip] = asked[ip]
      BY <1>1, <1>4, <2>2
    <3>2. ip \in DOMAIN ni.cooldown /\ ni.cooldown[ip] + asked[ip] >= CooldownTime
      BY <1>4, <3>1 DEF SpacedInv
    <3>3. ip \in DOMAIN ni'.cooldown /\ ni'.cooldown[ip] = ni.cooldown[ip]
      BY <1>2, <2>2, <3>2 DEF With
    <3> QED
      BY <3>1, <3>2, <3>3
  <2> QED
    BY <2>1, <2>2
<1> QED
  BY <1>1, <1>2, <1>3, <1>4 DEF SpacedInv

LEMMA HearKeepsSpaced ==
  ASSUME IInv, SpacedInv, NEW frame \in ARPFrames, HearARP(frame)
  PROVE  SpacedInv'
<1>1. /\ RequestsFor(ni'.framesOut) = {} /\ ni'.cooldown = ni.cooldown
      /\ DOMAIN ni'.cache = IF IsFor(ni, frame)
                            THEN DOMAIN ni.cache \cup {frame.arp.senderIp}
                            ELSE DOMAIN ni.cache
  BY HearAsksNothing
<1>2. heard' = IF IsFor(ni, frame)
               THEN With(heard, frame.arp.senderIp, [eth |-> frame.arp.senderEth, age |-> 0])
               ELSE heard
  BY DEF HearARP
<1>3. asked' = asked
  <2>1. DOMAIN asked' = DOMAIN asked /\ \A ip \in DOMAIN asked' : asked'[ip] = asked[ip]
    BY <1>1, RecordAsked DEF HearARP
  <2>2. asked' = [ip \in DOMAIN asked' |-> asked'[ip]]
    BY DEF HearARP, Record
  <2>3. asked = [ip \in DOMAIN asked |-> asked[ip]]
    BY DEF SpacedInv, Maps
  <2> QED
    BY <2>1, <2>2, <2>3
<1>4. ASSUME NEW ip \in DOMAIN heard', heard'[ip].age < CacheTime
      PROVE  ip \in DOMAIN ni'.cache
  BY <1>1, <1>2, <1>4 DEF With, SpacedInv
<1> QED
  BY <1>1, <1>3, <1>4 DEF SpacedInv

\* The clock: what is forgotten is no longer fresh.
LEMMA TickKeepsSpaced ==
  ASSUME IInv, SpacedInv, NEW ms \in Nat \ {0}, Tick(ms)
  PROVE  SpacedInv'
<1>1. /\ ni' = TickInterface(Taken, ms)
      /\ heard' = [ip \in DOMAIN heard |-> [heard[ip] EXCEPT !.age = Aged(heard[ip].age, ms)]]
      /\ asked' = [ip \in DOMAIN asked |-> Aged(asked[ip], ms)]
  BY DEF Tick
<1>2. ni \in Interfaces
  BY DEF IInv, TypeOK
<1>3. /\ Taken \in Interfaces
      /\ Taken.cache = ni.cache /\ Taken.cooldown = ni.cooldown
  BY <1>2, TakenFields, TakenCooldown
<1>4. /\ ni'.cache = CacheAfter(ni, ms) /\ ni'.cooldown = CooldownAfter(ni, ms)
  BY <1>1, <1>3, TickFields, CooldownFields DEF CacheAfter, CooldownAfter
<1>5. ASSUME NEW ip \in DOMAIN asked
      PROVE  /\ asked[ip] \in 0 .. CacheTime + CooldownTime
             /\ asked'[ip] \in 0 .. CacheTime + CooldownTime
             /\ asked'[ip] < CooldownTime => asked'[ip] = asked[ip] + ms
  <2>1. asked[ip] \in 0 .. CacheTime + CooldownTime /\ asked'[ip] = Aged(asked[ip], ms)
    BY <1>1, <1>5 DEF SpacedInv, Maps
  <2> QED
    BY <2>1, InterfaceAssumption DEF Aged
<1>6. asked' \in Maps(0 .. CacheTime + CooldownTime)
  <2>1. DOMAIN asked \in SUBSET IPs
    BY DEF SpacedInv, Maps
  <2>2. asked' \in [DOMAIN asked -> 0 .. CacheTime + CooldownTime]
    BY <1>1, <1>5
  <2> QED
    BY <2>1, <2>2, InMaps
<1>7. ASSUME NEW ip \in DOMAIN asked', asked'[ip] < CooldownTime
      PROVE  ip \in DOMAIN ni'.cooldown /\ ni'.cooldown[ip] + asked'[ip] >= CooldownTime
  <2>1. ip \in DOMAIN asked
    BY <1>1, <1>7
  <2>2. /\ asked[ip] \in Nat /\ asked'[ip] = asked[ip] + ms /\ asked[ip] < CooldownTime
    BY <1>5, <1>7, <2>1, InterfaceAssumption
  <2>3. ip \in DOMAIN ni.cooldown /\ ni.cooldown[ip] + asked[ip] >= CooldownTime
    BY <2>1, <2>2 DEF SpacedInv
  <2>4. ni.cooldown[ip] \in Nat
    BY <1>2, <2>3, Fields, InterfaceAssumption DEF Maps
  <2>5. ni.cooldown[ip] > ms
    BY <1>7, <2>2, <2>3, <2>4, InterfaceAssumption
  <2>6. ip \in DOMAIN ni'.cooldown /\ ni'.cooldown[ip] = ni.cooldown[ip] - ms
    BY <1>4, <2>3, <2>5 DEF CooldownAfter
  <2> QED
    BY <2>2, <2>3, <2>4, <2>6, InterfaceAssumption
<1>8. ASSUME NEW ip \in DOMAIN heard', heard'[ip].age < CacheTime
      PROVE  ip \in DOMAIN ni'.cache
  <2>1. ip \in DOMAIN heard
    BY <1>1, <1>8
  <2>2. heard[ip] \in Words
    BY <2>1 DEF IInv, Maps
  <2>3. heard'[ip].age = Aged(heard[ip].age, ms)
    BY <1>1, <2>1, <2>2 DEF Words
  <2>4. heard[ip].age \in Nat /\ heard[ip].age + ms < CacheTime
    BY <1>8, <2>2, <2>3, InterfaceAssumption DEF Words, Aged
  <2>5. ip \in DOMAIN ni.cache
    BY <2>1, <2>4, InterfaceAssumption DEF SpacedInv
  <2>6. ni.cache[ip].left + heard[ip].age = CacheTime
    BY <2>5 DEF IInv
  <2>7. ni.cache[ip].left \in Nat
    BY <1>2, <2>5, Fields, InterfaceAssumption DEF Maps, Entries
  <2>8. ni.cache[ip].left > ms
    BY <2>4, <2>6, <2>7, InterfaceAssumption
  <2> QED
    BY <1>4, <2>5, <2>8 DEF CacheAfter
<1> QED
  BY <1>6, <1>7, <1>8 DEF SpacedInv

LEMMA NextKeepsSpaced == IInv /\ SpacedInv /\ [Next]_vars => SpacedInv'
<1> SUFFICES ASSUME IInv, SpacedInv, [Next]_vars PROVE SpacedInv'
  OBVIOUS
<1>1. ASSUME NEW hop \in IPs, Send(hop) PROVE SpacedInv'
  BY <1>1, SendKeepsSpaced
<1>2. ASSUME NEW arp \in ARPMessages, NEW dst \in Eths \cup {Broadcast},
             HearARP(ARPFrame(arp.senderEth, dst, arp))
      PROVE  SpacedInv'
  <2>1. ARPFrame(arp.senderEth, dst, arp) \in ARPFrames
    BY DEF ARPFrame, ARPFrames, ARPMessages
  <2> QED
    BY <1>2, <2>1, HearKeepsSpaced
<1>3. ASSUME NEW ms \in Milliseconds, Tick(ms) PROVE SpacedInv'
  BY <1>3, TickKeepsSpaced, InterfaceSpecAssumption
<1>4. CASE UNCHANGED vars
  BY <1>4 DEF vars, SpacedInv
<1> QED
  BY <1>1, <1>2, <1>3, <1>4 DEF Next

\* A step asks only for what is neither cooling down nor freshly heard of.
LEMMA StepsAskInTime == IInv /\ SpacedInv /\ [Next]_vars => [AskedInTime]_vars
<1> SUFFICES ASSUME IInv, SpacedInv, Next PROVE AskedInTime
  BY DEF vars
<1>1. ASSUME NEW hop \in IPs, Send(hop) PROVE AskedInTime
  <2> SUFFICES ASSUME RequestsFor(ni'.framesOut) = {hop},
                      hop \notin DOMAIN ni.cache, hop \notin DOMAIN ni.cooldown
               PROVE  AskedInTime
    BY <1>1, SendAsks DEF AskedInTime
  <2>1. hop \in DOMAIN asked => asked[hop] >= CooldownTime
    <3> SUFFICES ASSUME hop \in DOMAIN asked PROVE asked[hop] >= CooldownTime
      OBVIOUS
    <3>1. asked[hop] \in Nat /\ ~ (asked[hop] < CooldownTime)
      BY InterfaceAssumption DEF SpacedInv, Maps
    <3> QED
      BY <3>1, InterfaceAssumption
  <2>2. hop \in DOMAIN heard => heard[hop].age >= CacheTime
    <3> SUFFICES ASSUME hop \in DOMAIN heard PROVE heard[hop].age >= CacheTime
      OBVIOUS
    <3>1. heard[hop].age \in Nat /\ ~ (heard[hop].age < CacheTime)
      BY InterfaceAssumption DEF SpacedInv, IInv, Maps, Words
    <3> QED
      BY <3>1, InterfaceAssumption
  <2> QED
    BY <2>1, <2>2 DEF AskedInTime
<1>2. ASSUME NEW arp \in ARPMessages, NEW dst \in Eths \cup {Broadcast},
             HearARP(ARPFrame(arp.senderEth, dst, arp))
      PROVE  AskedInTime
  <2>1. ARPFrame(arp.senderEth, dst, arp) \in ARPFrames
    BY DEF ARPFrame, ARPFrames, ARPMessages
  <2> QED
    BY <1>2, <2>1, HearAsksNothing DEF AskedInTime
<1>3. ASSUME NEW ms \in Milliseconds, Tick(ms) PROVE AskedInTime
  <2>1. ni' = TickInterface(Taken, ms) /\ ms \in Nat \ {0} /\ ni \in Interfaces
    BY <1>3, InterfaceSpecAssumption DEF Tick, IInv, TypeOK
  <2>2. ni'.framesOut = <<>>
    BY <2>1, TakenFields, TickFields
  <2>3. RequestsFor(<<>>) = {}
    BY NoRequests
  <2> QED
    BY <2>2, <2>3 DEF AskedInTime
<1> QED
  BY <1>1, <1>2, <1>3 DEF Next

\* Requests for an address are at least the cooldown apart, and there is none while
\* word of it is fresh (send_datagram and tick).
THEOREM RequestsAreSpaced == Spec => RequestsSpaced
<1>1. Init => IInv /\ SpacedInv
  BY InitIInv, InitSpaced
<1>2. (IInv /\ SpacedInv) /\ [Next]_vars => (IInv /\ SpacedInv)'
  BY NextKeepsIInv, NextKeepsSpaced
<1>3. (IInv /\ SpacedInv) /\ [Next]_vars => [AskedInTime]_vars
  BY StepsAskInTime
<1> QED
  BY <1>1, <1>2, <1>3, PTL DEF Spec, RequestsSpaced
-----------------------------------------------------------------------------
(***************************************************************************)
(* Datagrams.  Where those of each hop are before and after a call.        *)
(***************************************************************************)
\* send_datagram: the datagram is the only one queued, and none waits for its hop;
\* or it is dropped; or it waits behind the others.
LEMMA SendMoves ==
  ASSUME IInv, NEW hop \in IPs, Send(hop)
  PROVE  LET dgram == [number |-> given', hop |-> hop] IN
         \/ /\ \E f \in IPv4Frames : ni'.framesOut = <<f>> /\ f.dgram = dgram
            /\ ni'.pending = ni.pending /\ ni.pending[hop] = <<>>
         \/ ni'.framesOut = <<>> /\ ni'.pending = ni.pending
         \/ /\ \E f \in ARPFrames : ni'.framesOut = <<f>>
            /\ ni'.pending = [ni.pending EXCEPT ![hop] = Append(ni.pending[hop], dgram)]
<1> DEFINE dgram == [number |-> given', hop |-> hop]
<1>1. ni' = SendDatagram(Taken, dgram, hop) /\ dgram \in Datagrams
  BY InterfaceSpecAssumption DEF Send, IInv, TypeOK
<1>2. ni \in Interfaces
  BY DEF IInv, TypeOK
<1>3. /\ Taken \in Interfaces /\ Taken.framesOut = <<>>
      /\ Taken.cache = ni.cache /\ Taken.pending = ni.pending
  BY <1>2, TakenFields
<1> HIDE DEF dgram
<1>4. CASE hop \in DOMAIN ni.cache
  <2> DEFINE frame == IPv4Frame(Taken.eth, Taken.cache[hop].eth, dgram)
  <2>1. ni.cache[hop] \in Entries /\ Taken.eth \in Eths
    BY <1>2, <1>3, <1>4, Fields, InterfaceSpecAssumption DEF Maps
  <2>2. frame \in IPv4Frames /\ frame.dgram = dgram
    BY <1>1, <1>3, <2>1 DEF IPv4Frame, IPv4Frames, Entries
  <2>3. ni' = Queue(Taken, <<frame>>)
    BY <1>1, <1>3, <1>4 DEF SendDatagram
  <2> HIDE DEF frame
  <2>4. <<frame>> \in Seq(Frames)
    BY <2>2 DEF Frames
  <2>5. /\ Queue(Taken, <<frame>>).framesOut = Taken.framesOut \o <<frame>>
        /\ Queue(Taken, <<frame>>).pending = Taken.pending
    BY <1>3, <2>4, QueueFields
  <2>6. <<>> \o <<frame>> = <<frame>>
    OBVIOUS
  <2>7. ni'.framesOut = <<frame>> /\ ni'.pending = ni.pending
    BY <1>3, <2>3, <2>5, <2>6
  <2>8. ni.pending[hop] = <<>>
    BY <1>4 DEF IInv, NoneWaitsForKnown
  <2> QED
    BY <2>2, <2>7, <2>8 DEF dgram
<1>5. CASE hop \notin DOMAIN ni.cache /\ hop \in DOMAIN Taken.cooldown
  <2>1. ni' = Taken
    BY <1>1, <1>3, <1>5 DEF SendDatagram
  <2> QED
    BY <1>3, <2>1
<1>6. CASE hop \notin DOMAIN ni.cache /\ hop \notin DOMAIN Taken.cooldown
  <2> DEFINE frame == ARPRequest(Taken, hop)
             after == Ask(Taken, dgram, hop)
  <2>1. ni' = after
    BY <1>1, <1>3, <1>6 DEF SendDatagram
  <2>2. /\ frame \in ARPFrames
        /\ after.framesOut = Taken.framesOut \o <<frame>>
        /\ after.pending = [Taken.pending EXCEPT ![hop] = Append(Taken.pending[hop], dgram)]
    <3>1. \A i \in Interfaces, d \in Datagrams :
            /\ ARPRequest(i, hop) \in ARPFrames
            /\ Ask(i, d, hop).framesOut = i.framesOut \o <<ARPRequest(i, hop)>>
            /\ Ask(i, d, hop).pending = [i.pending EXCEPT ![hop] = Append(i.pending[hop], d)]
      BY AskFields
    <3> QED
      BY <1>1, <1>3, <3>1
  <2> HIDE DEF after
  <2> HIDE DEF frame
  <2>3. <<>> \o <<frame>> = <<frame>>
    OBVIOUS
  <2>4. ni'.framesOut = <<frame>>
    <3>1. ni'.framesOut = Taken.framesOut \o <<frame>>
      BY <2>1, <2>2
    <3> QED
      BY <1>3, <2>3, <3>1
  <2>5. ni'.pending = [ni.pending EXCEPT ![hop] = Append(ni.pending[hop], dgram)]
    BY <1>3, <2>1, <2>2
  <2> QED
    BY <2>2, <2>4, <2>5 DEF dgram
<1> QED
  BY <1>4, <1>5, <1>6

\* recv_frame: what has waited for the sender is queued, in its order, and ARP
\* frames may follow; or nothing is queued.
LEMMA HearMoves ==
  ASSUME IInv, NEW frame \in ARPFrames, HearARP(frame)
  PROVE  LET ip == frame.arp.senderIp IN
         \/ ni'.framesOut = <<>> /\ ni'.pending = ni.pending
         \/ \E w \in Seq(IPv4Frames), arps \in Seq(ARPFrames) :
              /\ ni'.framesOut = w \o arps
              /\ Len(w) = Len(ni.pending[ip])
              /\ \A k \in 1 .. Len(w) : w[k].dgram = ni.pending[ip][k]
              /\ ni'.pending = [ni.pending EXCEPT ![ip] = <<>>]
<1> DEFINE arp == frame.arp
           ip == arp.senderIp
<1>1. ni' = RecvFrame(Taken, frame)
  BY DEF HearARP
<1>2. arp \in ARPMessages /\ ip \in IPs /\ CarriesARP(frame)
  BY FrameKinds DEF ARPFrames, ARPMessages
<1>3. ni \in Interfaces
  BY DEF IInv, TypeOK
<1>4. /\ Taken \in Interfaces /\ Taken.framesOut = <<>> /\ Taken.pending = ni.pending
  BY <1>3, TakenFields
<1>5. CASE ~ IsFor(Taken, frame)
  BY <1>1, <1>4, <1>5 DEF RecvFrame
<1>6. CASE IsFor(Taken, frame)
  <2> DEFINE learnt == Learn(Taken, arp)
             waited == Waiting(learnt, arp)
             flushed == Flush(learnt, arp)
  <2>1. ni' = Answer(flushed, frame)
    BY <1>1, <1>2, <1>6 DEF RecvFrame
  <2> HIDE DEF arp, ip, learnt, flushed, waited
  <2>2. learnt \in Interfaces /\ learnt.framesOut = <<>> /\ learnt.pending = ni.pending
    BY <1>2, <1>4, LearnFields DEF learnt
  <2>3. /\ waited \in Seq(Frames)
        /\ Len(waited) = Len(ni.pending[ip])
        /\ \A k \in 1 .. Len(waited) : waited[k] \in IPv4Frames /\ waited[k].dgram = ni.pending[ip][k]
    <3>1. /\ Waiting(learnt, arp) \in Seq(Frames)
          /\ Len(Waiting(learnt, arp)) = Len(learnt.pending[arp.senderIp])
          /\ \A k \in 1 .. Len(learnt.pending[arp.senderIp]) :
               /\ Waiting(learnt, arp)[k] \in IPv4Frames
               /\ Waiting(learnt, arp)[k].dgram = learnt.pending[arp.senderIp][k]
      BY <1>2, <2>2, WaitingFrames
    <3> QED
      BY <2>2, <3>1 DEF waited, ip
  <2>4. /\ flushed \in Interfaces
        /\ flushed.framesOut = <<>> \o waited
        /\ flushed.pending = [ni.pending EXCEPT ![ip] = <<>>]
    <3>1. /\ Flush(learnt, arp) \in Interfaces
          /\ Flush(learnt, arp).framesOut = learnt.framesOut \o Waiting(learnt, arp)
          /\ Flush(learnt, arp).pending = [learnt.pending EXCEPT ![arp.senderIp] = <<>>]
      BY <1>2, <2>2, FlushFields
    <3> QED
      BY <2>2, <3>1 DEF flushed, waited, ip
  <2>5. PICK arps \in Seq(ARPFrames) : Answer(flushed, frame).framesOut = flushed.framesOut \o arps
    BY <2>4, AnswerFields
  <2>6. Answer(flushed, frame).pending = flushed.pending
    BY <2>4, AnswerFields
  <2>7. waited \in Seq(IPv4Frames) /\ <<>> \o waited = waited
    BY <2>3
  <2> QED
    BY <2>1, <2>3, <2>4, <2>5, <2>6, <2>7 DEF ip, arp
<1> QED
  BY <1>5, <1>6

\* No number is greater than that of the last datagram handed over.
OrderAt(hop) ==
  /\ gone[hop] \subseteq 1 .. given
  /\ NumbersTo(hop) \subseteq 1 .. given
  /\ WaitingFor(hop) \subseteq 1 .. given
  /\ InOrderTo(hop)
OrderInv == \A hop \in IPs : OrderAt(hop)

\* A hop for which nothing is queued, and for which the same datagrams wait.
LEMMA QuietHop ==
  ASSUME IInv, NEW h \in IPs, OrderAt(h), TakeFrames, given' \in Nat, given' >= given,
         FramesTo(h)' = {}, ni'.pending[h] = ni.pending[h]
  PROVE  OrderAt(h)'
<1>1. gone'[h] = gone[h] \cup NumbersTo(h)
  BY DEF TakeFrames
<1>2. NumbersTo(h)' = {} /\ WaitingFor(h)' = WaitingFor(h)
  BY DEF NumbersTo, WaitingFor
<1>3. given \in Nat
  BY DEF IInv, TypeOK
<1> QED
  BY <1>1, <1>2, <1>3 DEF OrderAt, InOrderTo, Before

LEMMA SendKeepsOrder ==
  ASSUME IInv, OrderInv, NEW hop \in IPs, Send(hop)
  PROVE  OrderInv'
<1> DEFINE dgram == [number |-> given', hop |-> hop]
<1> SUFFICES ASSUME NEW h \in IPs PROVE OrderAt(h)'
  BY DEF OrderInv
<1>1. /\ OrderAt(h) /\ TakeFrames /\ given \in Nat /\ given' = given + 1
      /\ ni.pending \in [IPs -> Seq(Datagrams)]
  BY Fields DEF OrderInv, Send, Record, IInv, TypeOK
<1>2. \/ /\ \E f \in IPv4Frames : ni'.framesOut = <<f>> /\ f.dgram = dgram
         /\ ni'.pending = ni.pending /\ ni.pending[hop] = <<>>
      \/ ni'.framesOut = <<>> /\ ni'.pending = ni.pending
      \/ /\ \E f \in ARPFrames : ni'.framesOut = <<f>>
         /\ ni'.pending = [ni.pending EXCEPT ![hop] = Append(ni.pending[hop], dgram)]
  BY SendMoves
<1>3. dgram.number = given' /\ dgram.hop = hop
  OBVIOUS
<1>4. gone'[h] = gone[h] \cup NumbersTo(h)
  BY <1>1 DEF TakeFrames
<1> HIDE DEF dgram
<1>5. CASE FramesTo(h)' = {} /\ ni'.pending[h] = ni.pending[h]
  BY <1>1, <1>5, QuietHop
<1>6. ASSUME h # hop PROVE FramesTo(h)' = {} /\ ni'.pending[h] = ni.pending[h]
  BY <1>1, <1>2, <1>3, <1>6, FrameKinds DEF FramesTo
<1>7. ASSUME NEW f \in IPv4Frames, ni'.framesOut = <<f>>, f.dgram = dgram, h = hop,
             ni'.pending = ni.pending, ni.pending[hop] = <<>>
      PROVE  OrderAt(h)'
  <2>1. FramesTo(h)' = {1} /\ ni'.framesOut[1] = f
    BY <1>3, <1>7, FrameKinds DEF FramesTo
  <2>2. NumbersTo(h)' = {given'}
    BY <1>3, <1>7, <2>1 DEF NumbersTo
  <2>3. WaitingFor(h)' = {} /\ DOMAIN ni'.pending[h] = {}
    BY <1>7 DEF WaitingFor
  <2> QED
    BY <1>1, <1>4, <2>1, <2>2, <2>3 DEF OrderAt, InOrderTo, Before
<1>8. ASSUME NEW f \in ARPFrames, ni'.framesOut = <<f>>, h = hop,
             ni'.pending = [ni.pending EXCEPT ![hop] = Append(ni.pending[hop], dgram)]
      PROVE  OrderAt(h)'
  <2>1. FramesTo(h)' = {} /\ NumbersTo(h)' = {}
    BY <1>8, FrameKinds DEF FramesTo, NumbersTo
  <2> DEFINE q == ni.pending[h]
  <2>2. q \in Seq(Datagrams) /\ ni'.pending[h] = Append(q, dgram)
    BY <1>1, <1>8
  <2>3. /\ DOMAIN ni'.pending[h] = 1 .. Len(q) + 1 /\ DOMAIN q = 1 .. Len(q) /\ Len(q) \in Nat
        /\ \A i \in 1 .. Len(q) : ni'.pending[h][i] = q[i]
        /\ ni'.pending[h][Len(q) + 1] = dgram
    BY <2>2
  <2> HIDE DEF q
  <2>4. \A i \in 1 .. Len(q) : q[i].number \in WaitingFor(h)
    BY <2>3 DEF WaitingFor, q
  <2>5. \A i \in DOMAIN ni'.pending[h] :
          ni'.pending[h][i].number \in WaitingFor(h) \cup {given'}
    BY <1>3, <2>3, <2>4
  <2>6. WaitingFor(h)' \subseteq WaitingFor(h) \cup {given'}
    BY <2>5 DEF WaitingFor
  <2>7. \A i, j \in DOMAIN ni'.pending[h] :
          i < j => ni'.pending[h][i].number < ni'.pending[h][j].number
    <3>1. SUFFICES ASSUME NEW i \in DOMAIN ni'.pending[h], NEW j \in DOMAIN ni'.pending[h], i < j
                   PROVE  ni'.pending[h][i].number < ni'.pending[h][j].number
      OBVIOUS
    <3>2. i \in 1 .. Len(q) /\ ni'.pending[h][i] = q[i] /\ q[i].number \in 1 .. given
      BY <1>1, <2>3, <2>4, <3>1 DEF OrderAt
    <3>3. CASE j = Len(q) + 1
      BY <1>1, <1>3, <2>3, <3>2, <3>3
    <3>4. CASE j \in 1 .. Len(q)
      <4>1. q[i].number < q[j].number
        BY <1>1, <2>3, <3>1, <3>2, <3>4 DEF OrderAt, InOrderTo, q
      <4> QED
        BY <2>3, <3>2, <3>4, <4>1
    <3> QED
      BY <2>3, <3>3, <3>4
  <2> QED
    BY <1>1, <1>4, <2>1, <2>6, <2>7 DEF OrderAt, InOrderTo, Before
<1> QED
  BY <1>2, <1>5, <1>6, <1>7, <1>8, FrameKinds DEF FramesTo

LEMMA HearKeepsOrder ==
  ASSUME IInv, OrderInv, NEW frame \in ARPFrames, HearARP(frame)
  PROVE  OrderInv'
<1> DEFINE ip == frame.arp.senderIp
<1> SUFFICES ASSUME NEW h \in IPs PROVE OrderAt(h)'
  BY DEF OrderInv
<1>1. /\ OrderAt(h) /\ TakeFrames /\ given \in Nat /\ given' = given
      /\ ni.pending \in [IPs -> Seq(Datagrams)] /\ ip \in IPs
  BY Fields DEF OrderInv, HearARP, Record, IInv, TypeOK, ARPFrames, ARPMessages
<1>2. \/ ni'.framesOut = <<>> /\ ni'.pending = ni.pending
      \/ \E w \in Seq(IPv4Frames), arps \in Seq(ARPFrames) :
           /\ ni'.framesOut = w \o arps
           /\ Len(w) = Len(ni.pending[ip])
           /\ \A k \in 1 .. Len(w) : w[k].dgram = ni.pending[ip][k]
           /\ ni'.pending = [ni.pending EXCEPT ![ip] = <<>>]
  BY HearMoves
<1>3. gone'[h] = gone[h] \cup NumbersTo(h)
  BY <1>1 DEF TakeFrames
<1> HIDE DEF ip
<1>4. CASE FramesTo(h)' = {} /\ ni'.pending[h] = ni.pending[h]
  BY <1>1, <1>4, QuietHop
<1>5. ASSUME ni'.framesOut = <<>>, ni'.pending = ni.pending
      PROVE  FramesTo(h)' = {} /\ ni'.pending[h] = ni.pending[h]
  BY <1>5 DEF FramesTo
<1>6. ASSUME NEW w \in Seq(IPv4Frames), NEW arps \in Seq(ARPFrames),
             ni'.framesOut = w \o arps,
             Len(w) = Len(ni.pending[ip]),
             \A k \in 1 .. Len(w) : w[k].dgram = ni.pending[ip][k],
             ni'.pending = [ni.pending EXCEPT ![ip] = <<>>]
      PROVE  OrderAt(h)'
  <2> DEFINE q == ni.pending[ip]
  <2>1. q \in Seq(Datagrams) /\ DOMAIN q = 1 .. Len(w) /\ Len(w) \in Nat
    BY <1>1, <1>6
  <2>2. \A i \in DOMAIN q : q[i].hop = ip
    BY <1>1, <2>1, <1>6 DEF IInv
  <2>3. /\ DOMAIN ni'.framesOut = 1 .. Len(w) + Len(arps) /\ Len(arps) \in Nat
        /\ \A k \in 1 .. Len(w) : ni'.framesOut[k] = w[k]
        /\ \A k \in Len(w) + 1 .. Len(w) + Len(arps) : ni'.framesOut[k] = arps[k - Len(w)]
    <3>1. /\ w \in Seq(Frames) /\ arps \in Seq(Frames)
          /\ Len(w) \in Nat /\ Len(arps) \in Nat
      BY <1>6 DEF Frames
    <3>2. /\ w \o arps \in Seq(Frames)
          /\ Len(w \o arps) = Len(w) + Len(arps)
          /\ \A k \in 1 .. Len(w) + Len(arps) :
               (w \o arps)[k] = IF k <= Len(w) THEN w[k] ELSE arps[k - Len(w)]
      BY <3>1, ConcatProperties
    <3> DEFINE frames == w \o arps
    <3>3. frames \in Seq(Frames) /\ ni'.framesOut = frames
      BY <1>6, <3>2
    <3> HIDE DEF frames
    <3>4. DOMAIN frames = 1 .. Len(frames)
      BY <3>3
    <3>5. /\ Len(frames) = Len(w) + Len(arps)
          /\ \A k \in 1 .. Len(w) : frames[k] = w[k]
          /\ \A k \in Len(w) + 1 .. Len(w) + Len(arps) : frames[k] = arps[k - Len(w)]
      BY <3>1, <3>2 DEF frames
    <3> QED
      BY <3>1, <3>3, <3>4, <3>5
  <2>4. \A k \in DOMAIN ni'.framesOut : ~ CarriesARP(ni'.framesOut[k]) => k \in DOMAIN q
    <3>1. SUFFICES ASSUME NEW k \in DOMAIN ni'.framesOut, k \notin 1 .. Len(w)
                   PROVE  CarriesARP(ni'.framesOut[k])
      BY <2>1
    <3>2. k \in Len(w) + 1 .. Len(w) + Len(arps) /\ k - Len(w) \in 1 .. Len(arps)
      BY <2>1, <2>3, <3>1
    <3>3. arps[k - Len(w)] \in ARPFrames
      BY <3>2
    <3> QED
      BY <2>3, <3>2, <3>3, FrameKinds
  <2>5. \A k \in DOMAIN q :
          /\ k \in DOMAIN ni'.framesOut /\ ~ CarriesARP(ni'.framesOut[k])
          /\ ni'.framesOut[k].dgram = q[k]
    BY <1>6, <2>1, <2>3, FrameKinds
  <2>6. CASE h # ip
    <3>1. FramesTo(h)' = {}
      BY <2>2, <2>4, <2>5, <2>6 DEF FramesTo
    <3>2. ni'.pending[h] = ni.pending[h]
      BY <1>1, <1>6, <2>6
    <3> QED
      BY <1>4, <3>1, <3>2
  <2>7. CASE h = ip
    <3>1. FramesTo(h)' = DOMAIN q
      BY <2>2, <2>4, <2>5, <2>7 DEF FramesTo
    <3>2. NumbersTo(h)' \subseteq WaitingFor(h)
      BY <2>5, <2>7, <3>1 DEF NumbersTo, WaitingFor
    <3>3. DOMAIN ni'.pending[h] = {} /\ WaitingFor(h)' = {}
      BY <1>1, <1>6, <2>7 DEF WaitingFor
    <3>4. \A i, j \in FramesTo(h)' :
            i < j => ni'.framesOut[i].dgram.number < ni'.framesOut[j].dgram.number
      BY <1>1, <2>5, <2>7, <3>1 DEF OrderAt, InOrderTo
    <3> QED
      BY <1>1, <1>3, <3>2, <3>3, <3>4 DEF OrderAt, InOrderTo, Before
  <2> QED
    BY <2>6, <2>7
<1> QED
  BY <1>2, <1>4, <1>5, <1>6

LEMMA TickKeepsOrder ==
  ASSUME IInv, OrderInv, NEW ms \in Nat \ {0}, Tick(ms)
  PROVE  OrderInv'
<1> SUFFICES ASSUME NEW h \in IPs PROVE OrderAt(h)'
  BY DEF OrderInv
<1>1. /\ OrderAt(h) /\ TakeFrames /\ given \in Nat /\ given' = given
      /\ ni' = TickInterface(Taken, ms) /\ ni \in Interfaces
  BY DEF OrderInv, Tick, IInv, TypeOK
<1>2. Taken \in Interfaces /\ Taken.framesOut = <<>> /\ Taken.pending = ni.pending
  BY <1>1, TakenFields
<1>3. ni'.framesOut = <<>> /\ ni'.pending = ni.pending
  BY <1>1, <1>2, TickFields
<1>4. FramesTo(h)' = {}
  BY <1>3 DEF FramesTo
<1> QED
  BY <1>1, <1>3, <1>4, QuietHop

LEMMA InitOrder == Init => OrderInv
<1> SUFFICES ASSUME Init, NEW hop \in IPs PROVE OrderAt(hop)
  BY DEF OrderInv
<1>1. ni.framesOut = <<>> /\ ni.pending[hop] = <<>> /\ gone[hop] = {}
  BY DEF Init, NewInterface
<1>2. FramesTo(hop) = {} /\ NumbersTo(hop) = {} /\ WaitingFor(hop) = {}
  BY <1>1 DEF FramesTo, NumbersTo, WaitingFor
<1> QED
  BY <1>1, <1>2 DEF OrderAt, InOrderTo, Before

LEMMA NextKeepsOrder == IInv /\ OrderInv /\ [Next]_vars => OrderInv'
<1> SUFFICES ASSUME IInv, OrderInv, [Next]_vars PROVE OrderInv'
  OBVIOUS
<1>1. ASSUME NEW hop \in IPs, Send(hop) PROVE OrderInv'
  BY <1>1, SendKeepsOrder
<1>2. ASSUME NEW arp \in ARPMessages, NEW dst \in Eths \cup {Broadcast},
             HearARP(ARPFrame(arp.senderEth, dst, arp))
      PROVE  OrderInv'
  <2>1. ARPFrame(arp.senderEth, dst, arp) \in ARPFrames
    BY DEF ARPFrame, ARPFrames, ARPMessages
  <2> QED
    BY <1>2, <2>1, HearKeepsOrder
<1>3. ASSUME NEW ms \in Milliseconds, Tick(ms) PROVE OrderInv'
  BY <1>3, TickKeepsOrder, InterfaceSpecAssumption
<1>4. CASE UNCHANGED vars
  BY <1>4 DEF vars, OrderInv, OrderAt, InOrderTo, FramesTo, NumbersTo, WaitingFor
<1> QED
  BY <1>1, <1>2, <1>3, <1>4 DEF Next

\* Datagrams for one hop leave in the order in which they came, none of them twice,
\* also those that had to wait (send_datagram and recv_frame).
THEOREM LeaveInOrderAndOnce == Spec => []InOrderAndOnce
<1>1. Init => IInv /\ OrderInv
  BY InitIInv, InitOrder
<1>2. (IInv /\ OrderInv) /\ [Next]_vars => (IInv /\ OrderInv)'
  BY NextKeepsIInv, NextKeepsOrder
<1>3. OrderInv => InOrderAndOnce
  BY DEF OrderInv, OrderAt, InOrderAndOnce
<1> QED
  BY <1>1, <1>2, <1>3, PTL DEF Spec
=============================================================================
