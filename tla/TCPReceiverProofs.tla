-------------------------- MODULE TCPReceiverProofs --------------------------
(***************************************************************************)
(* For every capacity, initial sequence number and stream, over any number *)
(* of wraps of the sequence numbers, and whatever the network repeats,     *)
(* drops and reorders, a receiver places every segment where the peer      *)
(* meant it.  The one arrival left out is an ACK that overtakes the SYN,   *)
(* after which the code does not (tcp_receiver.cc:19).                     *)
(***************************************************************************)
EXTENDS TCPReceiverSpec, SharedLemmas

Receivers ==
  [reassembler : Reassemblers(Capacity, StreamLen), isn : RawValues, cp : Nat,
   status : {LISTEN, SYN_RECV, FIN_RECV}]

\* The segment the checkpoint comes from started no farther from the next byte
\* wanted than this.
NearWindow ==
  /\ at >= rcv.reassembler.unasb - (Capacity + Lag)
  /\ at <= rcv.reassembler.unasb + Capacity

\* What got says is what the reassembler has taken in.
GotIsTakenIn ==
  /\ got \subseteq Positions
  /\ \A i \in 0 .. StreamLen - 1 : i + 1 \in got <=> i \in TakenIn(rcv.reassembler)

\* The peer's FIN has been taken in.
FinGot == FinPosition \in got

\* status tells whether the SYN and the FIN have come.
StatusIsRight ==
  /\ 0 \notin got => got = {} /\ rcv.status = LISTEN
  /\ 0 \in got => rcv.isn = PeerIsn /\ rcv.status \in {SYN_RECV, FIN_RECV}
  /\ rcv.status = FIN_RECV => FinGot
  /\ FinGot /\ ~ late => rcv.status = FIN_RECV

IInv ==
  /\ rcv \in Receivers
  /\ late \in BOOLEAN
  /\ Sound(rcv.reassembler, Capacity, StreamLen, FinGot)
  /\ rcv.cp = at
  /\ at \in 0 .. StreamLen
  /\ NearWindow
  /\ GotIsTakenIn
  /\ StatusIsRight

\* What the theorems assume: no index comes within two rounds of 2^64, and no ACK
\* overtakes the SYN.
Ordinary ==
  /\ StreamLen + 2 * Round <= Word
  /\ ~ AckBeforeSyn

LEMMA ConstantFacts ==
  /\ Capacity \in Nat /\ StreamLen \in Nat /\ MaxSegment \in Nat /\ Lag \in Nat
  /\ PeerIsn \in RawValues
  /\ 2 * (Lag + 2 * Capacity + 2) < Round
  /\ Bounds(Capacity, StreamLen)
  /\ Round \in Nat \ {0, 1} /\ Word \in Nat
  BY ReceiverAssumption, WidthAssumption DEF Bounds

LEMMA InitIInv == Init => IInv
<1> SUFFICES ASSUME Init PROVE IInv
  OBVIOUS
<1>1. /\ rcv = [reassembler |-> NewReassembler(Capacity), isn |-> 0, cp |-> 0,
                status |-> LISTEN]
      /\ got = {} /\ at = 0 /\ late = FALSE
  BY DEF Init, NewReceiver
<1> DEFINE q == NewReassembler(Capacity)
<1>2. Sound(q, Capacity, StreamLen, FALSE)
  BY ConstantFacts, NewIsSound
<1>3. q.unasb = 0 /\ DOMAIN q.stored = {}
  BY DEF NewReassembler
<1>4. q \in Reassemblers(Capacity, StreamLen)
  BY <1>2 DEF Sound
<1> HIDE DEF q
<1>5. rcv.reassembler = q /\ rcv.status = LISTEN /\ rcv.cp = 0
  BY <1>1 DEF q
<1>6. rcv \in Receivers
  BY <1>1, <1>4, ConstantFacts DEF Receivers, RawValues, q
<1>7. FinGot = FALSE
  BY <1>1 DEF FinGot
<1>8. NearWindow /\ at \in 0 .. StreamLen
  BY <1>1, <1>3, <1>5, ConstantFacts DEF NearWindow
<1>9. GotIsTakenIn
  BY <1>1, <1>3, <1>5 DEF GotIsTakenIn, TakenIn
<1>10. StatusIsRight
  BY <1>1, <1>5, <1>7 DEF StatusIsRight, LISTEN, FIN_RECV
<1> QED
  BY <1>1, <1>2, <1>5, <1>6, <1>7, <1>8, <1>9, <1>10 DEF IInv
-----------------------------------------------------------------------------
\* The fields of the reassembler that the steps need, one by one.
LEMMA ReassemblerFields ==
  ASSUME IInv
  PROVE  /\ rcv.reassembler \in Reassemblers(Capacity, StreamLen)
         /\ rcv.reassembler.unasb \in 0 .. StreamLen
         /\ Limit(rcv.reassembler) \in Nat
         /\ Limit(rcv.reassembler) >= rcv.reassembler.unasb
         /\ Limit(rcv.reassembler) <= rcv.reassembler.unasb + Capacity
         /\ rcv.reassembler.unasb \notin TakenIn(rcv.reassembler)
<1> DEFINE q == rcv.reassembler
<1>1. Sound(q, Capacity, StreamLen, FinGot)
  BY DEF IInv
<1>2. /\ q.unasb \in 0 .. StreamLen /\ q.out.rem \in 0 .. Capacity
      /\ Limit(q) = q.unasb + q.out.rem
      /\ DOMAIN q.stored \subseteq Window(q, StreamLen)
      /\ Capacity \in Nat /\ StreamLen \in Nat
  BY ONLY <1>1, Fields
<1>3. q \in Reassemblers(Capacity, StreamLen)
  BY <1>1 DEF Sound
<1> HIDE DEF q
<1>4. q.unasb \notin DOMAIN q.stored
  BY <1>2 DEF Window
<1>5. q.unasb \notin TakenIn(q)
  BY <1>2, <1>4 DEF TakenIn
<1> QED
  BY <1>2, <1>3, <1>5 DEF q

\* A segment with data is placed where the peer meant it: the position it starts
\* at is less than half a round from the checkpoint.
LEMMA IndexIsExact ==
  ASSUME Ordinary, IInv, 0 \in got, NEW from \in 0 .. StreamLen,
         from \in rcv.reassembler.unasb - Lag .. Limit(rcv.reassembler),
         NEW seg, seg.seqno = Wrap(from + 1, PeerIsn)
  PROVE  Index(rcv, seg) = from
<1> DEFINE u == rcv.reassembler.unasb
<1>1. rcv.isn = PeerIsn /\ rcv.cp = at /\ at \in 0 .. StreamLen
  BY DEF IInv, StatusIsRight
<1>2. /\ u \in Nat /\ Limit(rcv.reassembler) \in Nat
      /\ Limit(rcv.reassembler) <= u + Capacity
      /\ at >= u - (Capacity + Lag) /\ at <= u + Capacity
  BY ReassemblerFields DEF IInv, NearWindow
<1> HIDE DEF u
<1>3. from >= u - Lag /\ from <= u + Capacity
  <2>1. from \in u - Lag .. Limit(rcv.reassembler)
    BY DEF u
  <2> QED
    BY <2>1, <1>2, ConstantFacts
<1>4. /\ from + 1 \in Nat /\ at \in Nat /\ at + 2 * Round <= Word
      /\ 2 * Distance(from + 1, at) < Round
  BY <1>1, <1>2, <1>3, ConstantFacts DEF Ordinary, Distance
<1>5. Unwrap(Wrap(from + 1, PeerIsn), PeerIsn, at) = from + 1
  BY ONLY <1>4, ConstantFacts, UnwrapInvertsWrap
<1>6. SizeT(from + 1 - 1) = from
  BY ConstantFacts DEF SizeT, Ordinary
<1> QED
  BY <1>1, <1>5, <1>6 DEF Index

\* The data of a segment: the reassembler gets the excerpt at its place.
LEMMA DataKeepsIInv ==
  ASSUME Ordinary, IInv, Data
  PROVE  IInv'
<1> DEFINE q == rcv.reassembler
<1>1. PICK from \in 0 .. StreamLen, len \in 0 .. MaxSegment, fin \in BOOLEAN :
        /\ 0 \in got
        /\ from + len <= StreamLen
        /\ from \in q.unasb - Lag .. Limit(q)
        /\ fin => from + len = StreamLen
        /\ rcv' = Receive(rcv, DataSegment(from, len, fin))
        /\ got' = got \cup {i + 1 : i \in {j \in from .. from + len - 1 : j < Limit(q)}}
                      \cup (IF fin THEN {FinPosition} ELSE {})
        /\ at' = from
        /\ late' = late
  BY DEF Data, FirstUnasb
<1> DEFINE seg == DataSegment(from, len, fin)
           p == Pushed(q, from, len, fin)
<1>2. /\ seg.syn = FALSE /\ seg.fin = fin /\ seg.payload = Excerpt(from, len)
      /\ seg.seqno = Wrap(from + 1, PeerIsn)
  BY DEF DataSegment, EmptySegment
<1>3. Index(rcv, seg) = from
  BY <1>1, <1>2, IndexIsExact
<1>4. /\ rcv \in Receivers /\ rcv.isn = PeerIsn /\ rcv.status \in {SYN_RECV, FIN_RECV}
  BY <1>1 DEF IInv, StatusIsRight
<1> HIDE DEF seg
<1>5. Place(rcv, seg) = [rcv EXCEPT !.cp = from]
  BY <1>2, <1>3 DEF Place
<1>6. rcv' = [[rcv EXCEPT !.cp = from] EXCEPT
               !.status = IF fin THEN FIN_RECV ELSE @,
               !.reassembler = PushSubstring(@, Excerpt(from, len), from, fin)]
  <2> DEFINE placed == [rcv EXCEPT !.cp = from]
  <2>1. placed.status # LISTEN /\ placed.cp = from
    BY <1>4 DEF Receivers, LISTEN, SYN_RECV, FIN_RECV
  <2> HIDE DEF placed
  <2>2. rcv' = [placed EXCEPT
                 !.status = IF fin THEN FIN_RECV ELSE @,
                 !.reassembler = PushSubstring(@, Excerpt(from, len), placed.cp, fin)]
    BY <1>1, <1>2, <1>5, <2>1 DEF Receive, seg, placed
  <2> QED
    BY <2>1, <2>2 DEF placed
<1>7. /\ from \in Nat /\ len \in Nat /\ fin \in BOOLEAN
      /\ from + len <= StreamLen
      /\ fin => from + len = StreamLen
      /\ Sound(q, Capacity, StreamLen, FinGot)
      /\ q.unasb \in Nat /\ Limit(q) \in Nat /\ Limit(q) <= q.unasb + Capacity
  BY <1>1, ConstantFacts, ReassemblerFields DEF IInv
<1> HIDE DEF q
<1>8. /\ Sound(p, Capacity, StreamLen, FinGot \/ fin)
      /\ p.unasb \in q.unasb .. Limit(q)
      /\ TakenIn(p) = TakenIn(q) \cup {j \in from .. from + len - 1 : j < Limit(q)}
  BY ONLY <1>7, PushIsSound
<1>9. p = PushSubstring(q, Excerpt(from, len), from, fin)
  BY DEF Pushed
<1> HIDE DEF p
<1>10. /\ rcv' \in Receivers
       /\ rcv'.reassembler = p /\ rcv'.cp = from /\ rcv'.isn = PeerIsn
       /\ rcv'.status = IF fin THEN FIN_RECV ELSE rcv.status
  <2>1. p \in Reassemblers(Capacity, StreamLen)
    BY <1>8 DEF Sound
  <2> QED
    BY <1>4, <1>6, <1>7, <1>9, <2>1 DEF Receivers, q
<1>11. FinGot' = (FinGot \/ fin)
  <2>1. FinPosition \notin {i + 1 : i \in {j \in from .. from + len - 1 : j < Limit(q)}}
    BY ONLY <1>7, ConstantFacts DEF FinPosition
  <2> QED
    BY <1>1, <2>1 DEF FinGot, q
<1>12. Sound(p, Capacity, StreamLen, FinGot')
  BY <1>8, <1>11
<1>13. NearWindow'
  BY <1>1, <1>7, <1>8, <1>10, ConstantFacts DEF NearWindow, q
<1>14. GotIsTakenIn'
  <2>1. GotIsTakenIn
    BY DEF IInv
  <2>2. \A i \in 0 .. StreamLen - 1 : i + 1 \in got' <=> i \in TakenIn(p)
    BY <1>1, <1>7, <1>8, <2>1, ConstantFacts DEF GotIsTakenIn, FinPosition, q
  <2>3. /\ got \subseteq Positions
        /\ FinPosition \in Positions
        /\ {i + 1 : i \in {j \in from .. from + len - 1 : j < Limit(q)}} \subseteq Positions
    <3>1. got \subseteq Positions
      BY <2>1 DEF GotIsTakenIn
    <3>2. FinPosition \in Positions
      BY ConstantFacts DEF Positions, FinPosition
    <3>3. \A i \in from .. from + len - 1 : i + 1 \in Positions
      BY ONLY <1>7, ConstantFacts DEF Positions, FinPosition
    <3> QED
      BY <3>1, <3>2, <3>3
  <2>4. got' \subseteq Positions
    BY <1>1, <2>3 DEF q
  <2> QED
    BY <1>10, <2>2, <2>4 DEF GotIsTakenIn, Positions, FinPosition
<1>15. StatusIsRight'
  <2>1. StatusIsRight
    BY DEF IInv
  <2> QED
    BY <1>1, <1>4, <1>10, <1>11, <2>1 DEF StatusIsRight, SYN_RECV, FIN_RECV
<1> QED
  BY <1>1, <1>10, <1>12, <1>13, <1>14, <1>15 DEF IInv

\* A SYN, the first or a repeated one: an empty excerpt is pushed, which assembles
\* nothing, and ends the stream if there is nothing in it.
LEMMA SynKeepsIInv ==
  ASSUME Ordinary, IInv, Syn
  PROVE  IInv'
<1> DEFINE q == rcv.reassembler
           fin == (StreamLen = 0)
           p == Pushed(q, at, 0, fin)
<1>1. /\ SynSegment.syn = TRUE /\ SynSegment.fin = fin
      /\ SynSegment.payload = Excerpt(at, 0) /\ SynSegment.seqno = PeerIsn
  BY DEF SynSegment, EmptySegment, Excerpt
<1>2. /\ rcv' = Receive(rcv, SynSegment)
      /\ got' = got \cup {0} \cup (IF fin THEN {FinPosition} ELSE {})
      /\ late' = (late \/ FinGot)
      /\ at' = at
  BY <1>1 DEF Syn, FinGot
<1>3. rcv \in Receivers /\ rcv.cp = at /\ at \in 0 .. StreamLen
  BY DEF IInv
<1>4. rcv' = [rcv EXCEPT
                !.isn = PeerIsn,
                !.status = IF fin THEN FIN_RECV ELSE SYN_RECV,
                !.reassembler = PushSubstring(@, Excerpt(at, 0), at, fin)]
  <2> DEFINE placed == [rcv EXCEPT !.isn = PeerIsn, !.status = SYN_RECV]
  <2>1. Place(rcv, SynSegment) = placed
    BY <1>1 DEF Place
  <2>2. placed.status # LISTEN /\ placed.cp = at
    BY <1>3 DEF Receivers, LISTEN, SYN_RECV
  <2> HIDE DEF placed
  <2>3. rcv' = [placed EXCEPT
                 !.status = IF fin THEN FIN_RECV ELSE @,
                 !.reassembler = PushSubstring(@, Excerpt(at, 0), placed.cp, fin)]
    BY <1>1, <1>2, <2>1, <2>2 DEF Receive
  <2> QED
    BY <1>3, <2>2, <2>3 DEF placed, Receivers
<1>5. /\ at \in Nat /\ 0 \in Nat /\ fin \in BOOLEAN
      /\ at + 0 <= StreamLen
      /\ fin => at + 0 = StreamLen
      /\ Sound(q, Capacity, StreamLen, FinGot)
      /\ q.unasb \in Nat /\ Limit(q) \in Nat /\ q.unasb \notin TakenIn(q)
  BY <1>3, ConstantFacts, ReassemblerFields DEF IInv
<1> HIDE DEF q, fin
<1>6. /\ Sound(p, Capacity, StreamLen, FinGot \/ fin)
      /\ p.unasb \in q.unasb .. Limit(q)
      /\ TakenIn(p) = TakenIn(q) \cup {j \in at .. at + 0 - 1 : j < Limit(q)}
  BY ONLY <1>5, PushIsSound
<1>7. p = PushSubstring(q, Excerpt(at, 0), at, fin)
  BY DEF Pushed
<1> HIDE DEF p
<1>8. TakenIn(p) = TakenIn(q)
  BY ONLY <1>5, <1>6
<1>9. p.unasb = q.unasb
  BY ONLY <1>5, <1>6, <1>8 DEF TakenIn
<1>10. /\ rcv' \in Receivers
       /\ rcv'.reassembler = p /\ rcv'.cp = at /\ rcv'.isn = PeerIsn
       /\ rcv'.status = IF fin THEN FIN_RECV ELSE SYN_RECV
  <2>1. p \in Reassemblers(Capacity, StreamLen)
    BY <1>6 DEF Sound
  <2> QED
    BY <1>3, <1>4, <1>7, <2>1, ConstantFacts DEF Receivers, q
<1>11. FinGot' = (FinGot \/ fin)
  BY <1>2, ConstantFacts DEF FinGot, FinPosition
<1>12. Sound(p, Capacity, StreamLen, FinGot')
  BY <1>6, <1>11
<1>13. NearWindow'
  BY <1>2, <1>9, <1>10 DEF NearWindow, IInv, q
<1>14. GotIsTakenIn'
  <2>1. GotIsTakenIn
    BY DEF IInv
  <2>2. \A i \in 0 .. StreamLen - 1 : i + 1 \in got' <=> i \in TakenIn(p)
    BY <1>2, <1>8, <2>1, ConstantFacts DEF GotIsTakenIn, FinPosition, q
  <2>3. got' \subseteq Positions
    BY <1>2, <2>1, ConstantFacts DEF GotIsTakenIn, FinPosition, Positions
  <2> QED
    BY <1>10, <2>2, <2>3 DEF GotIsTakenIn, Positions, FinPosition
<1>15. StatusIsRight'
  <2>1. 0 \in got' /\ (FinGot' /\ ~ late' => fin)
    BY <1>2, <1>11
  <2>2. rcv'.status = FIN_RECV => fin
    BY <1>10 DEF SYN_RECV, FIN_RECV
  <2> QED
    BY <1>10, <1>11, <2>1, <2>2 DEF StatusIsRight
<1>16. late' \in BOOLEAN
  BY <1>2 DEF IInv, FinGot
<1> QED
  BY <1>2, <1>3, <1>10, <1>12, <1>13, <1>14, <1>15, <1>16 DEF IInv

\* Reading moves nothing that has been taken in.
LEMMA ReadKeepsIInv ==
  ASSUME IInv, Read
  PROVE  IInv'
<1> DEFINE q == rcv.reassembler
<1>1. PICK n \in 1 .. BufferSize(q.out) :
        /\ rcv' = ReadIn(rcv, n)
        /\ got' = got /\ at' = at /\ late' = late
  BY DEF Read, StreamIn
<1> DEFINE p == ReadOut(q, n)
<1>2. Sound(q, Capacity, StreamLen, FinGot)
  BY DEF IInv
<1> HIDE DEF q
<1>3. /\ Sound(p, Capacity, StreamLen, FinGot)
      /\ p.unasb = q.unasb /\ p.stored = q.stored
  BY ONLY <1>1, <1>2, ReadIsSound
<1> HIDE DEF p
<1>4. rcv' = [rcv EXCEPT !.reassembler = p]
  BY <1>1 DEF ReadIn, p, q
<1>5. p \in Reassemblers(Capacity, StreamLen)
  BY <1>3 DEF Sound
<1>6. /\ rcv' \in Receivers
      /\ rcv'.reassembler = p /\ rcv'.cp = rcv.cp /\ rcv'.isn = rcv.isn
      /\ rcv'.status = rcv.status
  BY <1>4, <1>5 DEF IInv, Receivers
<1>7. NearWindow' /\ GotIsTakenIn'
  BY <1>1, <1>3, <1>6 DEF NearWindow, GotIsTakenIn, TakenIn, IInv, Positions, FinPosition, q
<1>8. FinGot' = FinGot /\ StatusIsRight'
  BY <1>1, <1>6 DEF StatusIsRight, IInv, FinGot, FinPosition
<1> QED
  BY <1>1, <1>3, <1>6, <1>7, <1>8 DEF IInv

LEMMA NextKeepsIInv ==
  ASSUME Ordinary, IInv, [Next]_vars
  PROVE  IInv'
<1>1. CASE Syn
  BY <1>1, SynKeepsIInv
<1>2. CASE Data
  BY <1>2, DataKeepsIInv
<1>3. CASE StrayAck
  BY <1>3 DEF StrayAck, Ordinary
<1>4. CASE Read
  BY <1>4, ReadKeepsIInv
<1>5. CASE UNCHANGED vars
  BY <1>5 DEF vars, IInv, NearWindow, GotIsTakenIn, StatusIsRight, FinGot, FinPosition,
              Positions
<1> QED
  BY <1>1, <1>2, <1>3, <1>4, <1>5 DEF Next

LEMMA IInvHolds ==
  ASSUME Ordinary
  PROVE  Spec => []IInv
<1>1. Init => IInv
  BY InitIInv
<1>2. IInv /\ [Next]_vars => IInv'
  BY NextKeepsIInv
<1> QED
  BY <1>1, <1>2, PTL DEF Spec
-----------------------------------------------------------------------------
\* The stream read is the stream sent, whatever the wrapped numbers went through
\* (tcp_receiver.cc:13-31).
THEOREM InOrderHolds ==
  ASSUME Ordinary
  PROVE  Spec => []InOrder
<1>1. IInv => InOrder
  <2> SUFFICES ASSUME IInv PROVE InOrder
    OBVIOUS
  <2> DEFINE q == rcv.reassembler
  <2>1. Sound(q, Capacity, StreamLen, FinGot)
    BY DEF IInv
  <2> HIDE DEF q
  <2>2. /\ q.out.cap = Capacity
        /\ q.out.buf = Excerpt(q.out.totRead, Capacity - q.out.rem)
    BY ONLY <2>1, Fields
  <2>3. \A i \in DOMAIN q.stored : q.stored[i] = i
    BY <2>1 DEF Sound
  <2> QED
    BY <2>2, <2>3 DEF InOrder, StreamIn, BufferSize, q
<1> QED
  BY <1>1, IInvHolds, PTL

\* The checkpoint is the index the last segment started at, over any number of
\* wraps (tcp_receiver.cc:21-22).
THEOREM CheckpointExactHolds ==
  ASSUME Ordinary
  PROVE  Spec => []CheckpointExact
<1>1. IInv => CheckpointExact
  BY DEF IInv, CheckpointExact
<1> QED
  BY <1>1, IInvHolds, PTL

\* At every checkpoint a connection reaches, unwrap places a number at the
\* nearest position that wraps to it (wrapping_integers.hh:28-30).
THEOREM UnwrapIsNearestHolds ==
  ASSUME Ordinary
  PROVE  Spec => []UnwrapIsNearest
<1>1. IInv => UnwrapIsNearest
  <2> SUFFICES ASSUME IInv, NEW n \in RawValues
               PROVE  LET u == Unwrap(n, rcv.isn, rcv.cp)
                      IN  /\ u \in SizeTs
                          /\ Wrap(u, rcv.isn) = n
                          /\ \A v \in SizeTs : Wrap(v, rcv.isn) = n =>
                               Larger(u - rcv.cp, rcv.cp - u)
                                 <= Larger(v - rcv.cp, rcv.cp - v)
    BY DEF UnwrapIsNearest
  <2> DEFINE isn == rcv.isn
             cp == rcv.cp
             u == Unwrap(n, isn, cp)
  <2>1. isn \in RawValues /\ cp \in Nat /\ cp + 2 * Round <= Word
    BY ConstantFacts DEF IInv, Receivers, Ordinary
  <2>2. \A v \in SizeTs : v \in Nat
    BY ConstantFacts DEF SizeTs
  <2> HIDE DEF isn, cp
  <2>3. /\ u \in SizeTs
        /\ Wrap(u, isn) = n
        /\ \A v \in Nat : Wrap(v, isn) = n => Distance(u, cp) <= Distance(v, cp)
    BY ONLY <2>1, n \in RawValues, UnwrapNearest
  <2> HIDE DEF u
  <2>4. \A v \in Nat : Larger(v - cp, cp - v) = Distance(v, cp)
    BY <2>1 DEF Larger, Distance
  <2>5. \A v \in SizeTs : Wrap(v, isn) = n =>
          Larger(u - cp, cp - u) <= Larger(v - cp, cp - v)
    BY ONLY <2>2, <2>3, <2>4
  <2> QED
    BY <2>3, <2>5 DEF u, isn, cp
<1> QED
  BY <1>1, IInvHolds, PTL
-----------------------------------------------------------------------------
\* The acknowledgment number in terms of the reassembler: the counter of stored
\* bytes is zero exactly when nothing is stored.
LEMMA AckPositionIs ==
  ASSUME IInv
  PROVE  AckPosition(rcv) = rcv.reassembler.unasb
           + (IF DOMAIN rcv.reassembler.stored = {} THEN rcv.status ELSE SYN_RECV)
<1> DEFINE q == rcv.reassembler
           D == DOMAIN q.stored
<1>1. Sound(q, Capacity, StreamLen, FinGot)
  BY DEF IInv
<1> HIDE DEF q
<1>2. /\ q.unasb + 1 \in Int /\ Limit(q) - 1 \in Int
      /\ D \in SUBSET (q.unasb + 1 .. Limit(q) - 1)
  BY <1>1, Fields DEF Window
<1> HIDE DEF D
<1>3. IsFiniteSet(D)
  BY ONLY <1>2, FS_Interval, FS_Subset
<1>4. Cardinality(D) = 0 <=> D = {}
  BY ONLY <1>3, FS_EmptySet
<1> QED
  BY <1>4 DEF AckPosition, UnassembledIn, UnassembledBytes, q, D

\* The ackno is exact unless the FIN has overtaken data still missing or a SYN has
\* come after it (tcp_receiver.cc:33-46).
THEOREM AckExactHolds ==
  ASSUME Ordinary
  PROVE  Spec => []AckExact
<1>1. IInv => AckExact
  <2> SUFFICES ASSUME IInv, ~ late, FinPosition \in got => Positions \subseteq got,
                      0 \in got
               PROVE  /\ 0 .. AckPosition(rcv) - 1 \subseteq got
                      /\ AckPosition(rcv) \notin got
    BY DEF AckExact, AckAlwaysExact
  <2> DEFINE u == rcv.reassembler.unasb
             D == DOMAIN rcv.reassembler.stored
  <2>1. /\ u \in 0 .. StreamLen /\ u \notin TakenIn(rcv.reassembler)
        /\ 0 .. u - 1 \subseteq TakenIn(rcv.reassembler)
        /\ StreamLen \in Nat
    BY ReassemblerFields, ConstantFacts DEF TakenIn
  <2>2. /\ got \subseteq 0 .. StreamLen + 1
        /\ \A i \in 0 .. StreamLen - 1 : i + 1 \in got <=> i \in TakenIn(rcv.reassembler)
    BY DEF IInv, GotIsTakenIn, Positions, FinPosition
  <2>3. CASE ~ FinGot
    <3>1. rcv.status = SYN_RECV
      BY <2>3 DEF IInv, StatusIsRight
    <3>2. AckPosition(rcv) = u + 1
      BY <3>1, AckPositionIs DEF SYN_RECV
    <3>3. StreamLen + 1 \notin got
      BY <2>3 DEF FinGot, FinPosition
    <3> HIDE DEF u
    <3>4. u + 1 \notin got
      BY ONLY <2>1, <2>2, <3>3
    <3>5. \A i \in 0 .. u : i \in got
      <4> SUFFICES ASSUME NEW i \in 0 .. u, i # 0 PROVE i \in got
        OBVIOUS
      <4>1. i - 1 \in 0 .. u - 1 /\ i - 1 \in 0 .. StreamLen - 1 /\ (i - 1) + 1 = i
        BY <2>1
      <4> QED
        BY <2>1, <2>2, <4>1
    <3> QED
      BY <2>1, <3>2, <3>4, <3>5
  <2>4. CASE FinGot
    <3>1. Positions \subseteq got /\ rcv.status = FIN_RECV
      BY <2>4 DEF IInv, StatusIsRight, FinGot
    <3>2. \A i \in 0 .. StreamLen - 1 : i + 1 \in got
      BY <2>1, <3>1 DEF Positions, FinPosition
    <3>3. u = StreamLen
      <4> HIDE DEF u
      <4> QED
        BY ONLY <2>1, <2>2, <3>2
    <3>4. D \subseteq (u + 1 .. Limit(rcv.reassembler) - 1) \cap (0 .. StreamLen - 1)
      BY DEF IInv, Sound, Window
    <3>5. D = {}
      <4> HIDE DEF D, u
      <4> QED
        BY <2>1, <3>3, <3>4
    <3>6. AckPosition(rcv) = StreamLen + 2
      BY <3>1, <3>3, <3>5, AckPositionIs DEF FIN_RECV
    <3> QED
      BY <2>1, <2>2, <3>1, <3>6 DEF Positions, FinPosition
  <2> QED
    BY <2>3, <2>4
<1> QED
  BY <1>1, IInvHolds, PTL

\* The FIN is acknowledged only when the stream has been delivered to the end:
\* the answer a peer that closes relies on (tcp_receiver.cc:38-43).
THEOREM FinAckedOnlyWhenCompleteHolds ==
  ASSUME Ordinary
  PROVE  Spec => []FinAckedOnlyWhenComplete
<1>1. IInv => FinAckedOnlyWhenComplete
  <2> SUFFICES ASSUME IInv, 0 \in got, AckPosition(rcv) > StreamLen + 1
               PROVE  /\ InputEnded(StreamIn(rcv))
                      /\ rcv.reassembler.unasb = StreamLen
    BY DEF FinAckedOnlyWhenComplete, FinPosition
  <2> DEFINE u == rcv.reassembler.unasb
  <2>1. u \in 0 .. StreamLen /\ StreamLen \in Nat
    BY ReassemblerFields, ConstantFacts
  <2>2. rcv.status \in {SYN_RECV, FIN_RECV} /\ (rcv.status = FIN_RECV => FinGot)
    BY DEF IInv, StatusIsRight
  <2>3. \/ AckPosition(rcv) = u + 1
        \/ AckPosition(rcv) = u + 2 /\ rcv.status = FIN_RECV
    BY <2>2, AckPositionIs DEF SYN_RECV, FIN_RECV
  <2> HIDE DEF u
  <2>4. u = StreamLen /\ FinGot
    BY <2>1, <2>2, <2>3
  <2> QED
    BY <2>4 DEF IInv, Sound, InputEnded, StreamIn, u
<1> QED
  BY <1>1, IInvHolds, PTL
=============================================================================
