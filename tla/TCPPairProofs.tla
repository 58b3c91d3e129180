--------------------------- MODULE TCPPairProofs ---------------------------
(***************************************************************************)
(* Two endpoints, end to end: whatever the network loses, repeats and      *)
(* overtakes, however often, and whatever the clocks do, what an           *)
(* application reads is a prefix of what the other has written.  The only  *)
(* thing assumed is that a stream and the receiver's window fit together   *)
(* into one round of sequence numbers: beyond that a segment that is still *)
(* on its way could be taken for one a round later.  The second half shows *)
(* that an end whose FIN is acknowledged, or that stops without an error,  *)
(* has delivered its whole stream.                                         *)
(***************************************************************************)
EXTENDS TCPPair, SharedLemmas, SequenceTheorems, FiniteSetTheorems

\* A wide number holds whole rounds, as 2^64 does of 2^32, and no stream comes round.
WithinRound ==
  /\ Word % Round = 0
  /\ \A e \in Ends : StreamLen[e] + RecvCapacity <= Round /\ StreamLen[e] + 3 <= Round

Segments == TCPSegments(Nat)

\* A segment of end e, which has read so many bytes of its stream into segments:
\* a SYN is at 0 and without data, and data is what the stream holds there.
Piece(seg, e, read) ==
  \E p \in 0 .. StreamLen[e] + 2 :
    /\ seg.seqno = Wrap(p, Isn[e])
    /\ seg.syn => p = 0 /\ seg.payload = <<>>
    /\ seg.payload # <<>> =>
         /\ p > 0 /\ p - 1 + Len(seg.payload) <= read
         /\ seg.payload = Excerpt(p - 1, Len(seg.payload))

\* What it acknowledges is a position that the other end sends from, after its SYN.
Acknowledges(seg, e) ==
  seg.ack => \E q \in 1 .. StreamLen[Other(e)] + 2 : seg.ackno = Wrap(q, Isn[Other(e)])

Pieces(e, read) == {seg \in Segments : Piece(seg, e, read) /\ Acknowledges(seg, e)}
-----------------------------------------------------------------------------
\* A sequence number is at the position it was made from, or rounds above it,
\* wherever it is looked for: no position of a stream is farther than a round from 0.
LEMMA UnwrapAbove ==
  ASSUME Word % Round = 0, NEW isn \in RawValues, NEW n \in RawValues,
         NEW cp \in SizeTs
  PROVE  Unwrap(n, isn, cp) \in SizeTs /\ Wrap(Unwrap(n, isn, cp), isn) = n
<1> DEFINE w == Wrap(cp, isn)
           u == Unwrap(n, isn, cp)
<1>1. /\ Round \in Nat \ {0, 1} /\ Word \in Nat /\ Word >= 4 * Round
      /\ cp \in Nat /\ cp < Word /\ n \in 0 .. Round - 1 /\ isn \in 0 .. Round - 1
  BY WidthAssumption DEF RawValues, SizeTs
<1>2. w \in 0 .. Round - 1
  BY <1>1, WrapRounds DEF RawValues
<1> HIDE DEF w
<1>3. /\ Forward(n, w) \in 0 .. Round - 1 /\ Back(n, w) \in 1 .. Round
      /\ \/ Forward(n, w) = n - w
         \/ Forward(n, w) = n - w + Round
  BY <1>1, <1>2 DEF Forward, Back
<1>4. u \in SizeTs /\ \/ u - cp = n - w
                      \/ u - cp = n - w + Round
                      \/ u - cp = n - w - Round
                      \/ u - cp = n - w - Word
                      \/ u - cp = n - w + Round - Word
  <2>1. \/ u = SizeT(cp + Forward(n, w))
        \/ u = cp - Back(n, w) /\ ~ NoRoomBack(n, w, cp)
    BY DEF Unwrap, w
  <2> HIDE DEF u
  <2>2. CASE u = SizeT(cp + Forward(n, w))
    <3>1. u \in SizeTs /\ (u = cp + Forward(n, w) \/ u = cp + Forward(n, w) - Word)
      BY <1>1, <1>3, <2>2 DEF SizeT, SizeTs
    <3> QED
      BY <1>1, <1>2, <1>3, <3>1
  <2>3. CASE u = cp - Back(n, w) /\ ~ NoRoomBack(n, w, cp)
    <3>1. cp >= Back(n, w)
      BY <1>1, <1>2, <1>3, <2>3 DEF NoRoomBack, SizeT
    <3> QED
      BY <1>1, <1>2, <1>3, <2>3, <3>1 DEF Back, SizeTs
  <2> QED
    BY <2>1, <2>2, <2>3
<1> HIDE DEF u
<1>5. u \in Int /\ cp \in Int
  BY <1>1, <1>4 DEF SizeTs
<1>6. PICK k \in Int : u - cp = k * Round + (Wrap(u, isn) - w)
  BY <1>1, <1>5, WrapDistance DEF w
<1>7. Wrap(u, isn) \in 0 .. Round - 1
  BY <1>5, WrapRounds DEF RawValues
<1>8. PICK m \in Int : Word = m * Round
  <2>1. Word = (Word \div Round) * Round + (Word % Round) /\ Word \div Round \in Int
    BY ONLY <1>1, DivMod
  <2>2. (Word \div Round) * Round \in Int
    BY ONLY <1>1, <2>1, Multiples
  <2>3. Word = (Word \div Round) * Round
    BY ONLY <2>1, <2>2, Word % Round = 0
  <2> QED
    BY ONLY <2>1, <2>3
<1>9. \E j \in Int : Wrap(u, isn) - n = j * Round
  <2>1. /\ (0 - k) * Round = 0 - k * Round
        /\ (1 - k) * Round = Round - k * Round
        /\ (0 - 1 - k) * Round = 0 - Round - k * Round
        /\ (0 - m - k) * Round = 0 - m * Round - k * Round
        /\ (1 - m - k) * Round = Round - m * Round - k * Round
        /\ k * Round \in Int /\ m * Round \in Int
    BY <1>1, SMTT(30)
  <2>2. \/ Wrap(u, isn) - n = (0 - k) * Round
        \/ Wrap(u, isn) - n = (1 - k) * Round
        \/ Wrap(u, isn) - n = (0 - 1 - k) * Round
        \/ Wrap(u, isn) - n = (0 - m - k) * Round
        \/ Wrap(u, isn) - n = (1 - m - k) * Round
    BY ONLY <1>1, <1>2, <1>4, <1>5, <1>6, <1>7, <1>8, <2>1
  <2>3. /\ 0 - k \in Int /\ 1 - k \in Int /\ 0 - 1 - k \in Int
        /\ 0 - m - k \in Int /\ 1 - m - k \in Int
    OBVIOUS
  <2> QED
    BY ONLY <2>2, <2>3
<1>10. PICK j \in Int : Wrap(u, isn) - n = j * Round
  BY <1>9
<1>11. j * Round < Round /\ j * Round > -Round
  BY ONLY <1>1, <1>7, <1>10
<1>12. j = 0
  BY ONLY <1>1, <1>11, SmallMultiple
<1> QED
  BY <1>1, <1>4, <1>7, <1>10, <1>12 DEF u

\* Positions with the same number are the same or a round apart at least.
LEMMA SamePlace ==
  ASSUME NEW isn \in RawValues, NEW p \in RawValues, NEW v \in Nat,
         Wrap(v, isn) = Wrap(p, isn)
  PROVE  v = p \/ v >= p + Round
<1>1. Round \in Nat \ {0} /\ p \in 0 .. Round - 1
  BY WidthAssumption DEF RawValues
<1>2. PICK k \in Int : v - p = k * Round + (Wrap(v, isn) - Wrap(p, isn))
  <2>1. v \in Int /\ p \in Int
    BY <1>1
  <2> QED
    BY ONLY <2>1, isn \in RawValues, WrapDistance
<1>3. Wrap(v, isn) \in Int
  BY <1>1, WrapRounds DEF RawValues
<1>4. k * Round \in Int /\ (k < 0 => k * Round <= -Round)
  BY <1>1, Multiples
<1>5. v - p = k * Round
  BY <1>1, <1>2, <1>3, <1>4
<1>6. ~ (k < 0)
  BY <1>1, <1>4, <1>5
<1>7. CASE k = 0
  BY <1>1, <1>5, <1>7
<1>8. CASE k > 0
  <2>1. (k - 1) * Round = k * Round - Round /\ k - 1 \in Int /\ k - 1 >= 0
    BY <1>1, <1>8, SMTT(20)
  <2>2. (k - 1) * Round >= 0
    BY <1>1, <2>1, Multiples
  <2> QED
    BY <1>1, <1>4, <1>5, <2>1, <2>2
<1> QED
  BY <1>6, <1>7, <1>8
-----------------------------------------------------------------------------
(***************************************************************************)
(* The receiving side.  An ACK that overtakes the SYN leaves the receiver  *)
(* with a checkpoint that says nothing; what then comes is placed right,   *)
(* or so far beyond the window that it is dropped.                         *)
(***************************************************************************)
\* Two reassemblers with the same bytes in the same places; they may differ in when
\* they end the output and in whether there was an error.
Alike(r, x) ==
  /\ r.unasb = x.unasb /\ r.stored = x.stored
  /\ r.out.rem = x.out.rem /\ r.out.buf = x.out.buf
  /\ r.out.totRead = x.out.totRead /\ r.out.totWrite = x.out.totWrite

\* r holds pieces of the first so many bytes, each at its place.
Holds(r, read) ==
  /\ r \in Reassemblers(RecvCapacity, read)
  /\ \E x : Alike(r, x) /\ Sound(x, RecvCapacity, read, FALSE)

\* An excerpt goes to the same place in both.
LEMMA PushAlike ==
  ASSUME NEW cap, NEW total, NEW r \in Reassemblers(cap, total),
         NEW x \in Reassemblers(cap, total), Alike(r, x), NoEof \in SizeTs,
         NEW data, NEW i, NEW eof, EndAfter(r, data, i, eof) \in SizeTs,
         PushSubstring(x, data, i, FALSE) \in Reassemblers(cap, total)
  PROVE  /\ PushSubstring(r, data, i, eof) \in Reassemblers(cap, total)
         /\ Alike(PushSubstring(r, data, i, eof), PushSubstring(x, data, i, FALSE))
<1> DEFINE S == Stored(r, data, i)
           next == FirstGap(r.unasb, Limit(r), DOMAIN S)
           W == [k \in 1 .. next - r.unasb |-> S[r.unasb + k - 1]]
           T == [j \in {j \in DOMAIN S : j >= next} |-> S[j]]
           Moved(y, e) ==
             [[y EXCEPT !.eof2 = e, !.stored = S]
                EXCEPT !.out = Write(y.out, W), !.unasb = next, !.stored = T]
<1>1. \A y \in Reassemblers(cap, total) :
        /\ y.capacity = cap /\ y.out \in Streams(cap) /\ y.eof2 \in SizeTs
  BY DEF Reassemblers
<1>2. Limit(x) = Limit(r) /\ Stored(x, data, i) = S
  <2>1. Limit(x) = Limit(r)
    BY <1>1 DEF Limit, Alike
  <2>2. x.stored = r.stored /\ x.unasb = r.unasb
    BY DEF Alike
  <2>3. Fresh(x, data, i) = Fresh(r, data, i)
    BY ONLY <2>1, <2>2 DEF Fresh
  <2>4. Stored(x, data, i) = Stored(r, data, i)
    BY ONLY <2>2, <2>3 DEF Stored, ByteOf
  <2> QED
    BY <2>1, <2>4
<1>3. ASSUME NEW y \in Reassemblers(cap, total), NEW e,
             y.unasb = r.unasb, Limit(y) = Limit(r)
      PROVE  Assemble([y EXCEPT !.eof2 = e, !.stored = S]) = Moved(y, e)
  <2> DEFINE a == [y EXCEPT !.eof2 = e, !.stored = S]
  <2>1. a.stored = S /\ a.unasb = r.unasb /\ a.out = y.out /\ a.capacity = y.capacity
    <3> HIDE DEF S
    <3> QED
      BY <1>3 DEF Reassemblers
  <2>2. Limit(a) = Limit(r)
    BY <1>3, <2>1 DEF Limit
  <2>3. Assemble(a) = [a EXCEPT !.out = Write(y.out, W), !.unasb = next, !.stored = T]
    <3> HIDE DEF a, S
    <3> QED
      BY <2>1, <2>2 DEF Assemble
  <2> QED
    BY <2>3
<1> HIDE DEF next, T, W, S
<1>4. ASSUME NEW y \in Reassemblers(cap, total), NEW e
      PROVE  /\ Moved(y, e) \in [capacity : {cap}, out : {Write(y.out, W)},
                                 unasb : {next}, eof2 : {e}, stored : {T}]
             /\ Write(y.out, W) \in
                  [cap : {cap}, rem : {y.out.rem - Writable(y.out, W)},
                   totRead : {y.out.totRead},
                   totWrite : {y.out.totWrite + Writable(y.out, W)},
                   eof2 : BOOLEAN, error : BOOLEAN,
                   buf : {y.out.buf \o Accepted(y.out, W)}]
  <2>1. Moved(y, e) \in [capacity : {cap}, out : {Write(y.out, W)},
                         unasb : {next}, eof2 : {e}, stored : {T}]
    BY DEF Reassemblers
  <2>2. y.out \in Streams(cap)
    BY <1>1
  <2> QED
    BY <2>1, <2>2 DEF Write, Streams
<1>5. /\ Writable(x.out, W) = Writable(r.out, W) /\ Accepted(x.out, W) = Accepted(r.out, W)
  BY DEF Writable, Accepted, Alike
<1> DEFINE E == EndAfter(r, data, i, eof)
           m == Moved(r, E)
           n == Moved(x, x.eof2)
           p == PushSubstring(r, data, i, eof)
           q == PushSubstring(x, data, i, FALSE)
<1>6. p = EndIfReached(m)
  BY <1>3 DEF PushSubstring, S
<1>7. q = EndIfReached(n)
  <2>1. EndAfter(x, data, i, FALSE) = x.eof2
    BY DEF EndAfter
  <2>2. x.unasb = r.unasb
    BY DEF Alike
  <2>3. Assemble([x EXCEPT !.eof2 = x.eof2, !.stored = S]) = n
    BY <1>2, <1>3, <2>2
  <2> QED
    BY <1>2, <2>1, <2>3 DEF PushSubstring
<1>8. /\ m.unasb = n.unasb /\ m.stored = n.stored
      /\ m.out.rem = n.out.rem /\ m.out.buf = n.out.buf
      /\ m.out.totRead = n.out.totRead /\ m.out.totWrite = n.out.totWrite
      /\ m \in [capacity : {cap}, out : {m.out}, unasb : {n.unasb}, eof2 : {E},
                stored : {n.stored}]
      /\ m.out \in [cap : {cap}, rem : {n.out.rem}, totRead : {n.out.totRead},
                    totWrite : {n.out.totWrite}, eof2 : BOOLEAN, error : BOOLEAN,
                    buf : {n.out.buf}]
      /\ n.out = Write(x.out, W) /\ n.out \in [cap : {cap}, rem : {n.out.rem}, totRead : {n.out.totRead},
                    totWrite : {n.out.totWrite}, eof2 : BOOLEAN, error : BOOLEAN,
                    buf : {n.out.buf}]
      /\ n \in [capacity : {cap}, out : {n.out}, unasb : {n.unasb}, eof2 : {x.eof2},
                stored : {n.stored}]
  <2> HIDE DEF Moved, E
  <2>1. /\ m \in [capacity : {cap}, out : {Write(r.out, W)}, unasb : {next},
                  eof2 : {E}, stored : {T}]
        /\ Write(r.out, W) \in
             [cap : {cap}, rem : {r.out.rem - Writable(r.out, W)},
              totRead : {r.out.totRead},
              totWrite : {r.out.totWrite + Writable(r.out, W)},
              eof2 : BOOLEAN, error : BOOLEAN,
              buf : {r.out.buf \o Accepted(r.out, W)}]
    BY <1>4
  <2>2. /\ n \in [capacity : {cap}, out : {Write(x.out, W)}, unasb : {next},
                  eof2 : {x.eof2}, stored : {T}]
        /\ Write(x.out, W) \in
             [cap : {cap}, rem : {x.out.rem - Writable(x.out, W)},
              totRead : {x.out.totRead},
              totWrite : {x.out.totWrite + Writable(x.out, W)},
              eof2 : BOOLEAN, error : BOOLEAN,
              buf : {x.out.buf \o Accepted(x.out, W)}]
    BY <1>4
  <2> HIDE DEF m, n
  <2>3. /\ m.out = Write(r.out, W) /\ n.out = Write(x.out, W)
        /\ m.unasb = next /\ n.unasb = next /\ m.stored = T /\ n.stored = T
    BY <2>1, <2>2
  <2>4. /\ m.out.rem = n.out.rem /\ m.out.buf = n.out.buf
        /\ m.out.totRead = n.out.totRead /\ m.out.totWrite = n.out.totWrite
    BY <1>5, <2>1, <2>2, <2>3 DEF Alike
  <2> QED
    BY <2>1, <2>2, <2>3, <2>4
<1> HIDE DEF Moved, m, n, E
<1>9. ASSUME NEW y, NEW e, NEW z,
             y \in [capacity : {cap}, out : {z}, unasb : {n.unasb}, eof2 : {e},
                    stored : {n.stored}],
             z \in [cap : {cap}, rem : {n.out.rem}, totRead : {n.out.totRead},
                    totWrite : {n.out.totWrite}, eof2 : BOOLEAN, error : BOOLEAN,
                    buf : {n.out.buf}]
      PROVE  /\ EndIfReached(y) \in
                  [capacity : {cap}, out : {EndIfReached(y).out}, unasb : {n.unasb},
                   eof2 : {e, NoEof}, stored : {n.stored}]
             /\ EndIfReached(y).out \in
                  [cap : {cap}, rem : {n.out.rem}, totRead : {n.out.totRead},
                   totWrite : {n.out.totWrite}, eof2 : BOOLEAN, error : BOOLEAN,
                   buf : {n.out.buf}]
  <2>1. y.out = z
    BY <1>9
  <2>2. EndInput(z) \in [cap : {cap}, rem : {n.out.rem}, totRead : {n.out.totRead},
                         totWrite : {n.out.totWrite}, eof2 : BOOLEAN, error : BOOLEAN,
                         buf : {n.out.buf}]
    BY <1>9 DEF EndInput
  <2> QED
    BY <1>9, <2>1, <2>2 DEF EndIfReached
<1>10. /\ p \in [capacity : {cap}, out : {p.out}, unasb : {n.unasb}, eof2 : {E, NoEof},
                 stored : {n.stored}]
       /\ p.out \in [cap : {cap}, rem : {n.out.rem}, totRead : {n.out.totRead},
                     totWrite : {n.out.totWrite}, eof2 : BOOLEAN, error : BOOLEAN,
                     buf : {n.out.buf}]
  BY <1>6, <1>8, <1>9
<1>11. /\ q \in [capacity : {cap}, out : {q.out}, unasb : {n.unasb}, eof2 : {x.eof2, NoEof},
                 stored : {n.stored}]
       /\ q.out \in [cap : {cap}, rem : {n.out.rem}, totRead : {n.out.totRead},
                     totWrite : {n.out.totWrite}, eof2 : BOOLEAN, error : BOOLEAN,
                     buf : {n.out.buf}]
  <2>1. /\ n \in [capacity : {cap}, out : {n.out}, unasb : {n.unasb}, eof2 : {x.eof2},
                  stored : {n.stored}]
        /\ n.out \in [cap : {cap}, rem : {n.out.rem}, totRead : {n.out.totRead},
                      totWrite : {n.out.totWrite}, eof2 : BOOLEAN, error : BOOLEAN,
                      buf : {n.out.buf}]
    BY <1>8
  <2>2. /\ EndIfReached(n) \in
             [capacity : {cap}, out : {EndIfReached(n).out}, unasb : {n.unasb},
              eof2 : {x.eof2, NoEof}, stored : {n.stored}]
        /\ EndIfReached(n).out \in
             [cap : {cap}, rem : {n.out.rem}, totRead : {n.out.totRead},
              totWrite : {n.out.totWrite}, eof2 : BOOLEAN, error : BOOLEAN,
              buf : {n.out.buf}]
    BY ONLY <1>9, <2>1
  <2> QED
    BY <1>7, <2>2
<1> HIDE DEF p, q
<1>12. Alike(p, q)
  BY <1>10, <1>11 DEF Alike
<1>13. p \in Reassemblers(cap, total)
  <2>1. q \in Reassemblers(cap, total)
    BY DEF q
  <2>2. /\ n.unasb \in 0 .. total /\ n.stored \in Stores /\ n.out.rem \in 0 .. cap
        /\ n.out.totRead \in Nat /\ n.out.totWrite \in Nat /\ n.out.buf \in Seq(Nat)
    BY <1>11, <2>1 DEF Reassemblers, Streams
  <2>3. E \in SizeTs
    BY DEF E
  <2> QED
    BY <1>10, <2>2, <2>3 DEF Reassemblers, Streams
<1> QED
  BY <1>12, <1>13 DEF p, q

\* The bytes an end has written are as long as the stream at most.
LEMMA PairFacts ==
  ASSUME WithinRound, NEW e \in Ends
  PROVE  /\ Other(e) \in Ends /\ Other(Other(e)) = e /\ Other(e) # e
         /\ Isn[e] \in RawValues /\ StreamLen[e] \in Nat
         /\ RecvCapacity \in Nat /\ SendCapacity \in Nat
         /\ Round \in Nat \ {0, 1} /\ Word \in Nat /\ Word >= 4 * Round
         /\ StreamLen[e] + RecvCapacity <= Round /\ StreamLen[e] + 3 <= Round
         /\ Bounds(RecvCapacity, StreamLen[e])
<1>1. Other(e) \in Ends /\ Other(Other(e)) = e /\ Other(e) # e
  BY PairAssumption DEF Ends, Other
<1>2. Isn[e] \in RawValues /\ StreamLen[e] \in Nat
  BY PairAssumption
<1>3. RecvCapacity \in Nat /\ SendCapacity \in Nat
  BY ConnectionAssumption
<1>4. Round \in Nat \ {0, 1} /\ Word \in Nat /\ Word >= 4 * Round
  BY WidthAssumption
<1>5. StreamLen[e] + RecvCapacity <= Round /\ StreamLen[e] + 3 <= Round
  BY DEF WithinRound
<1> QED
  BY <1>1, <1>2, <1>3, <1>4, <1>5 DEF Bounds

\* It holds them still when the other end has read more of its stream.
LEMMA HoldsMore ==
  ASSUME WithinRound, NEW e \in Ends, NEW more \in 0 .. StreamLen[e],
         NEW read \in 0 .. more, NEW r, Holds(r, read)
  PROVE  Holds(r, more)
<1>1. PICK x : Alike(r, x) /\ Sound(x, RecvCapacity, read, FALSE)
  BY DEF Holds
<1>2. read \in Nat /\ more \in Nat /\ read <= more /\ Bounds(RecvCapacity, more)
  BY PairFacts DEF Bounds
<1>3. Reassemblers(RecvCapacity, read) \subseteq Reassemblers(RecvCapacity, more)
  BY <1>2 DEF Reassemblers
<1>4. Window(x, read) \subseteq Window(x, more)
  BY <1>2 DEF Window
<1>5. Sound(x, RecvCapacity, more, FALSE)
  BY <1>1, <1>2, <1>3, <1>4 DEF Sound
<1> QED
  BY <1>1, <1>3, <1>5 DEF Holds

\* The constructor.
LEMMA NewHolds ==
  ASSUME WithinRound
  PROVE  Holds(NewReassembler(RecvCapacity), 0)
<1>1. Bounds(RecvCapacity, 0)
  BY ConnectionAssumption, PairFacts DEF Bounds, Ends
<1>2. Sound(NewReassembler(RecvCapacity), RecvCapacity, 0, FALSE)
  BY <1>1, NewIsSound
<1> QED
  BY <1>2 DEF Holds, Alike, Sound

-----------------------------------------------------------------------------
Receivers(read) ==
  [reassembler : Reassemblers(RecvCapacity, read), isn : RawValues, cp : SizeTs,
   status : {LISTEN, SYN_RECV, FIN_RECV}]

\* The receiver facing end e, which has read so many bytes into segments.
Receiving(rcv, e, read) ==
  /\ rcv \in Receivers(read)
  /\ rcv.status # LISTEN => rcv.isn = Isn[e]
  /\ Holds(rcv.reassembler, read)

\* A SYN is numbered with the initial sequence number itself.
LEMMA WrapOfZero ==
  ASSUME NEW isn \in RawValues
  PROVE  Wrap(0, isn) = isn
<1>1. 0 % Round = 0 /\ isn % Round = isn /\ isn \in Nat
  BY WidthAssumption DEF RawValues
<1> QED
  BY <1>1 DEF Wrap

\* A number and the sum of two, as the code computes them, are numbers it can hold.
LEMMA SizeTRange ==
  ASSUME NEW x \in Int, x >= -1, x < 2 * Word - 1
  PROVE  SizeT(x) \in SizeTs
<1>1. Word \in Nat /\ Word > 4
  BY WidthAssumption
<1> QED
  BY <1>1 DEF SizeT, SizeTs

\* The fields of a segment.
LEMMA SegmentFields ==
  ASSUME NEW seg \in Segments
  PROVE  /\ seg.payload \in Seq(Nat) /\ Len(seg.payload) \in Nat
         /\ seg.payload # <<>> => Len(seg.payload) > 0
         /\ seg.payload = <<>> => Len(seg.payload) = 0
         /\ seg.syn \in BOOLEAN /\ seg.fin \in BOOLEAN /\ seg.ack \in BOOLEAN
         /\ seg.seqno \in RawValues /\ seg.ackno \in RawValues /\ seg.win \in Nat
<1>1. /\ seg.payload \in Seq(Nat)
      /\ seg.syn \in BOOLEAN /\ seg.fin \in BOOLEAN /\ seg.ack \in BOOLEAN
      /\ seg.seqno \in RawValues /\ seg.ackno \in RawValues /\ seg.win \in Nat
  BY DEF Segments, TCPSegments
<1> QED
  BY <1>1, EmptySeq

\* Where a segment that is no SYN is put: where its sender meant it, once the SYN
\* has been seen, or a round away.
LEMMA IndexOfPiece ==
  ASSUME WithinRound, NEW e \in Ends, NEW read \in 0 .. StreamLen[e],
         NEW rcv, Receiving(rcv, e, read), NEW seg \in Segments,
         NEW p \in 0 .. StreamLen[e] + 2, seg.seqno = Wrap(p, Isn[e])
  PROVE  /\ Index(rcv, seg) \in SizeTs
         /\ rcv.status # LISTEN /\ p > 0 =>
              Index(rcv, seg) = p - 1 \/ Index(rcv, seg) >= Round
<1> DEFINE u == Unwrap(seg.seqno, rcv.isn, rcv.cp)
<1>1. rcv.isn \in RawValues /\ rcv.cp \in SizeTs /\ seg.seqno \in RawValues
  BY SegmentFields DEF Receiving, Receivers
<1>2. u \in SizeTs /\ Wrap(u, rcv.isn) = seg.seqno
  BY ONLY <1>1, UnwrapAbove, WithinRound DEF WithinRound
<1> HIDE DEF u
<1>3. u \in Nat /\ u < Word /\ Round \in Nat \ {0, 1} /\ Word \in Nat /\ Word >= 4 * Round
  BY <1>2, PairFacts DEF SizeTs
<1>4. Index(rcv, seg) = SizeT(u - 1)
  BY DEF Index, u
<1>5. Index(rcv, seg) \in SizeTs
  BY <1>3, <1>4, SizeTRange
<1>6. ASSUME rcv.status # LISTEN, p > 0
      PROVE  Index(rcv, seg) = p - 1 \/ Index(rcv, seg) >= Round
  <2>1. rcv.isn = Isn[e]
    BY <1>6 DEF Receiving
  <2>2. p \in RawValues /\ p \in Nat
    BY PairFacts DEF RawValues
  <2>3. u = p \/ u >= p + Round
    BY ONLY <1>1, <1>2, <1>3, <2>1, <2>2, SamePlace, seg.seqno = Wrap(p, Isn[e])
  <2>4. SizeT(u - 1) = u - 1
    BY <1>3, <1>6, <2>2, <2>3 DEF SizeT
  <2> QED
    BY <1>3, <1>4, <1>6, <2>2, <2>3, <2>4
<1> QED
  BY <1>5, <1>6

\* Whatever the order in which they come, the pieces of a stream go to their places.
LEMMA ReceivePiece ==
  ASSUME WithinRound, NEW e \in Ends, NEW read \in 0 .. StreamLen[e],
         NEW rcv, Receiving(rcv, e, read), NEW seg \in Segments, Piece(seg, e, read)
  PROVE  Receiving(Receive(rcv, seg), e, read)
<1> DEFINE placed == Place(rcv, seg)
           r == rcv.reassembler
           data == seg.payload
<1>1. PICK p \in 0 .. StreamLen[e] + 2 :
        /\ seg.seqno = Wrap(p, Isn[e])
        /\ seg.syn => p = 0 /\ data = <<>>
        /\ data # <<>> =>
             p > 0 /\ p - 1 + Len(data) <= read /\ data = Excerpt(p - 1, Len(data))
  BY DEF Piece
<1>2. rcv \in Receivers(read) /\ r \in Reassemblers(RecvCapacity, read)
  BY DEF Receiving, Receivers
<1>3. /\ Index(rcv, seg) \in SizeTs
      /\ rcv.status # LISTEN /\ p > 0 =>
           Index(rcv, seg) = p - 1 \/ Index(rcv, seg) >= Round
  BY <1>1, IndexOfPiece
<1>4. /\ data \in Seq(Nat) /\ Len(data) \in Nat /\ (data # <<>> => Len(data) > 0)
      /\ (data = <<>> => Len(data) = 0)
      /\ seg.syn \in BOOLEAN /\ seg.fin \in BOOLEAN /\ seg.seqno \in RawValues
  BY SegmentFields
<1> HIDE DEF data, r
<1>5. /\ placed \in Receivers(read) /\ placed.reassembler = r
      /\ placed.status # LISTEN => placed.isn = Isn[e]
      /\ ~ seg.syn => placed.cp = Index(rcv, seg) /\ placed.status = rcv.status
  <2>1. CASE seg.syn
    <3>1. placed = [rcv EXCEPT !.isn = seg.seqno, !.status = SYN_RECV]
      BY <2>1 DEF Place
    <3>2. seg.seqno = Isn[e]
      BY <1>1, <2>1, PairFacts, WrapOfZero
    <3> QED
      BY <1>2, <1>4, <2>1, <3>1, <3>2 DEF Receivers, r
  <2>2. CASE ~ seg.syn
    <3>1. placed = [rcv EXCEPT !.cp = Index(rcv, seg)]
      BY <2>2 DEF Place
    <3> QED
      BY <1>2, <1>3, <2>2, <3>1 DEF Receivers, Receiving, r
  <2> QED
    BY <1>4, <2>1, <2>2
<1> HIDE DEF placed
<1>6. CASE placed.status = LISTEN
  <2>1. Receive(rcv, seg) = placed
    BY <1>6 DEF Receive, placed
  <2> QED
    BY <1>5, <2>1 DEF Receiving, r
<1>7. CASE placed.status # LISTEN
  <2> DEFINE i == placed.cp
             q == PushSubstring(r, data, i, seg.fin)
  <2>1. Receive(rcv, seg) = [placed EXCEPT
          !.status = IF seg.fin THEN FIN_RECV ELSE @,
          !.reassembler = PushSubstring(@, data, i, seg.fin)]
    BY <1>7 DEF Receive, placed, data
  <2>2. PICK x : Alike(r, x) /\ Sound(x, RecvCapacity, read, FALSE)
    BY DEF Receiving, Holds, r
  <2>3. i \in SizeTs /\ i \in Nat /\ i < Word
    BY <1>5, PairFacts DEF Receivers, SizeTs
  <2>4. /\ x.unasb \in Nat /\ Limit(x) \in Nat /\ Limit(x) <= Round
        /\ x \in Reassemblers(RecvCapacity, read) /\ NoEof \in SizeTs
    <3>1. /\ x.unasb \in 0 .. read /\ x.out.rem \in 0 .. RecvCapacity
          /\ Limit(x) = x.unasb + x.out.rem /\ NoEof \in SizeTs
      BY ONLY <2>2, Fields
    <3>2. x \in Reassemblers(RecvCapacity, read)
      BY <2>2 DEF Sound
    <3> QED
      BY <3>1, <3>2, PairFacts
  <2>5. Sound(PushSubstring(x, data, i, FALSE), RecvCapacity, read, FALSE)
    <3>1. CASE data # <<>> /\ i = p - 1
      <4>1. /\ i \in Nat /\ Len(data) \in Nat /\ i + Len(data) <= read
            /\ data = Excerpt(i, Len(data))
        BY <1>1, <1>4, <2>3, <3>1
      <4>2. Sound(Pushed(x, i, Len(data), FALSE), RecvCapacity, read, FALSE \/ FALSE)
        BY ONLY <2>2, <4>1, PushIsSound
      <4>3. Pushed(x, i, Len(data), FALSE) = PushSubstring(x, data, i, FALSE)
        BY <4>1 DEF Pushed
      <4> QED
        BY <4>2, <4>3
    <3>2. CASE data = <<>>
      <4> HIDE DEF i
      <4>1. SizeT(i + Len(data)) = i
        <5>1. i + Len(data) = i
          BY ONLY <1>4, <2>3, <3>2
        <5> QED
          BY ONLY <2>3, <5>1, WidthAssumption DEF SizeT
      <4>2. /\ Larger(x.unasb, i) \in Nat /\ Larger(x.unasb, i) >= i
            /\ Smaller(i, Limit(x)) \in Nat /\ Smaller(i, Limit(x)) <= i
        BY ONLY <2>3, <2>4 DEF Larger, Smaller
      <4>3. Fresh(x, data, i) = Larger(x.unasb, i) .. Smaller(i, Limit(x)) - 1
        BY ONLY <4>1 DEF Fresh
      <4>4. Fresh(x, data, i) = {}
        BY ONLY <2>3, <4>2, <4>3
      <4> QED
        BY ONLY <2>2, <4>4, PushOfNothing
    <3>3. CASE i >= Round
      <4>1. /\ Larger(x.unasb, i) \in Nat /\ Larger(x.unasb, i) >= Limit(x)
        BY <2>3, <2>4, <3>3, PairFacts DEF Larger
      <4>2. Smaller(SizeT(i + Len(data)), Limit(x)) <= Limit(x)
            /\ Smaller(SizeT(i + Len(data)), Limit(x)) \in Int
        <5>1. SizeT(i + Len(data)) \in Int
          <6> HIDE DEF i
          <6> QED
            BY ONLY <1>4, <2>3, WidthAssumption DEF SizeT
        <5> QED
          BY <2>4, <5>1 DEF Smaller
      <4>3. Fresh(x, data, i) = {}
        BY <2>4, <4>1, <4>2 DEF Fresh
      <4> QED
        BY ONLY <2>2, <4>3, PushOfNothing
    <3> QED
      BY <1>1, <1>3, <1>5, <1>7, <3>1, <3>2, <3>3
  <2>6. EndAfter(r, data, i, seg.fin) \in SizeTs
    <3>1. SizeT(i + Len(data)) \in SizeTs
      <4>1. Len(data) <= StreamLen[e] /\ StreamLen[e] < Round /\ Word >= 4 * Round
            /\ StreamLen[e] \in Nat /\ Round \in Nat /\ Word \in Nat
        BY <1>1, <1>4, PairFacts
      <4> HIDE DEF i
      <4>2. i + Len(data) \in Int /\ i + Len(data) >= -1 /\ i + Len(data) < 2 * Word - 1
        BY ONLY <1>4, <2>3, <4>1
      <4> QED
        BY ONLY <4>2, SizeTRange
    <3>2. r.eof2 \in SizeTs
      BY <1>2 DEF Reassemblers
    <3> QED
      BY <3>1, <3>2 DEF EndAfter
  <2>7. PushSubstring(x, data, i, FALSE) \in Reassemblers(RecvCapacity, read)
    BY <2>5 DEF Sound
  <2>8. /\ q \in Reassemblers(RecvCapacity, read)
        /\ Alike(q, PushSubstring(x, data, i, FALSE))
    <3> HIDE DEF i
    <3> QED
      BY ONLY <1>2, <2>2, <2>4, <2>6, <2>7, PushAlike
  <2>9. Holds(q, read)
    BY <2>5, <2>8 DEF Holds
  <2> HIDE DEF q, i
  <2>10. Receive(rcv, seg) = [placed EXCEPT
           !.status = IF seg.fin THEN FIN_RECV ELSE placed.status, !.reassembler = q]
    BY <1>5, <2>1 DEF q
  <2>11. /\ Receive(rcv, seg) \in Receivers(read)
         /\ Receive(rcv, seg).reassembler = q /\ Receive(rcv, seg).isn = placed.isn
    BY <1>5, <2>8, <2>10 DEF Receivers
  <2> QED
    BY <1>5, <1>7, <2>9, <2>11 DEF Receiving
<1> QED
  BY <1>6, <1>7

\* What a receiver acknowledges is a position after the SYN.
LEMMA AcknoOfReceiver ==
  ASSUME WithinRound, NEW e \in Ends, NEW read \in 0 .. StreamLen[e],
         NEW rcv, Receiving(rcv, e, read)
  PROVE  /\ HasAckno(rcv) \in BOOLEAN
         /\ HasAckno(rcv) => /\ Ackno(rcv) \in RawValues
                             /\ \E q \in 1 .. StreamLen[e] + 2 : Ackno(rcv) = Wrap(q, Isn[e])
<1>1. /\ rcv.reassembler.unasb \in 0 .. read /\ rcv.status \in {LISTEN, SYN_RECV, FIN_RECV}
      /\ StreamLen[e] \in Nat /\ Isn[e] \in RawValues
  BY PairFacts DEF Receiving, Receivers, Reassemblers
<1>2. HasAckno(rcv) \in BOOLEAN
  BY DEF HasAckno
<1>3. ASSUME rcv.status # LISTEN
      PROVE  /\ Ackno(rcv) \in RawValues
             /\ \E q \in 1 .. StreamLen[e] + 2 : Ackno(rcv) = Wrap(q, Isn[e])
  <2>1. AckPosition(rcv) \in 1 .. StreamLen[e] + 2
    BY <1>1, <1>3 DEF AckPosition, LISTEN, SYN_RECV, FIN_RECV
  <2>2. Ackno(rcv) = Wrap(AckPosition(rcv), Isn[e])
    BY <1>3 DEF Ackno, Receiving
  <2>3. AckPosition(rcv) \in Int
    BY <1>1, <2>1
  <2> QED
    BY <1>1, <2>1, <2>2, <2>3, WrapRounds
<1>4. rcv.status = LISTEN => ~ HasAckno(rcv)
  BY DEF HasAckno, Ackno
<1> QED
  BY <1>2, <1>3, <1>4

\* The sender of the stream has read more of it.
LEMMA ReceivingMore ==
  ASSUME WithinRound, NEW e \in Ends, NEW more \in 0 .. StreamLen[e],
         NEW read \in 0 .. more, NEW rcv, Receiving(rcv, e, read)
  PROVE  Receiving(rcv, e, more)
<1>1. Holds(rcv.reassembler, more) /\ Holds(rcv.reassembler, read)
  BY HoldsMore DEF Receiving
<1>2. rcv.reassembler \in Reassemblers(RecvCapacity, more)
  BY <1>1 DEF Holds
<1> QED
  BY <1>1, <1>2 DEF Receiving, Receivers

\* The constructor.
LEMMA NewReceiving ==
  ASSUME WithinRound, NEW e \in Ends
  PROVE  Receiving(NewReceiver(RecvCapacity), e, 0)
<1> DEFINE r == NewReassembler(RecvCapacity)
<1>1. Holds(r, 0) /\ r \in Reassemblers(RecvCapacity, 0)
  BY NewHolds DEF Holds
<1> HIDE DEF r
<1>2. NewReceiver(RecvCapacity)
        = [reassembler |-> r, isn |-> 0, cp |-> 0, status |-> LISTEN]
  BY DEF NewReceiver, r
<1>3. 0 \in RawValues /\ 0 \in SizeTs
  BY PairFacts DEF RawValues, SizeTs
<1> QED
  BY <1>1, <1>2, <1>3 DEF Receiving, Receivers

\* A receiver stays what it is with a reassembler that is like a sound one.
LEMMA ReplaceOut ==
  ASSUME WithinRound, NEW e \in Ends, NEW read \in 0 .. StreamLen[e],
         NEW rcv, Receiving(rcv, e, read), NEW r,
         r \in Reassemblers(RecvCapacity, read), Holds(r, read)
  PROVE  Receiving([rcv EXCEPT !.reassembler = r], e, read)
  BY DEF Receiving, Receivers

\* The application reads.
LEMMA ReadReceiving ==
  ASSUME WithinRound, NEW e \in Ends, NEW read \in 0 .. StreamLen[e],
         NEW rcv, Receiving(rcv, e, read), NEW n \in 1 .. BufferSize(StreamIn(rcv))
  PROVE  Receiving(ReadIn(rcv, n), e, read)
<1> DEFINE r == rcv.reassembler
<1>1. r \in Reassemblers(RecvCapacity, read) /\ r.out \in Streams(RecvCapacity)
  BY DEF Receiving, Receivers, Reassemblers
<1>2. PICK x : Alike(r, x) /\ Sound(x, RecvCapacity, read, FALSE)
  BY DEF Receiving, Holds
<1>3. /\ n \in 1 .. BufferSize(x.out) /\ x \in Reassemblers(RecvCapacity, read)
      /\ x.out \in Streams(RecvCapacity)
  <2>1. x \in Reassemblers(RecvCapacity, read) /\ x.out \in Streams(RecvCapacity)
    BY <1>2 DEF Sound, Reassemblers
  <2>2. x.out.cap = r.out.cap /\ x.out.rem = r.out.rem
    BY <1>1, <1>2, <2>1 DEF Streams, Alike
  <2> QED
    BY <2>1, <2>2 DEF BufferSize, StreamIn
<1>4. Sound(ReadOut(x, n), RecvCapacity, read, FALSE)
  BY ONLY <1>2, <1>3, ReadIsSound
<1> HIDE DEF r
<1>5. ASSUME NEW y \in Reassemblers(RecvCapacity, read), y.out \in Streams(RecvCapacity)
      PROVE  /\ ReadOut(y, n) \in [capacity : {y.capacity}, out : {PopOutput(y.out, n)},
                                   unasb : {y.unasb}, eof2 : {y.eof2}, stored : {y.stored}]
             /\ PopOutput(y.out, n) \in
                  [cap : {y.out.cap}, rem : {y.out.rem + n}, totRead : {y.out.totRead + n},
                   totWrite : {y.out.totWrite}, eof2 : {y.out.eof2}, error : {y.out.error},
                   buf : {SubSeq(y.out.buf, Smaller(n, Len(y.out.buf)) + 1, Len(y.out.buf))}]
  <2>1. PopOutput(y.out, n) \in
          [cap : {y.out.cap}, rem : {y.out.rem + n}, totRead : {y.out.totRead + n},
           totWrite : {y.out.totWrite}, eof2 : {y.out.eof2}, error : {y.out.error},
           buf : {SubSeq(y.out.buf, Smaller(n, Len(y.out.buf)) + 1, Len(y.out.buf))}]
    BY <1>5 DEF PopOutput, Streams
  <2>2. ReadOut(y, n) \in [capacity : {y.capacity}, out : {PopOutput(y.out, n)},
                           unasb : {y.unasb}, eof2 : {y.eof2}, stored : {y.stored}]
    BY DEF ReadOut, Reassemblers
  <2> QED
    BY <2>1, <2>2
<1> DEFINE p == ReadOut(r, n)
           q == ReadOut(x, n)
<1>6. /\ p \in [capacity : {r.capacity}, out : {p.out}, unasb : {r.unasb}, eof2 : {r.eof2},
                stored : {r.stored}]
      /\ p.out \in
           [cap : {r.out.cap}, rem : {r.out.rem + n}, totRead : {r.out.totRead + n},
            totWrite : {r.out.totWrite}, eof2 : {r.out.eof2}, error : {r.out.error},
            buf : {SubSeq(r.out.buf, Smaller(n, Len(r.out.buf)) + 1, Len(r.out.buf))}]
  <2> HIDE DEF p
  <2>1. p.out = PopOutput(r.out, n)
    BY <1>1, <1>5 DEF p
  <2> QED
    BY <1>1, <1>5, <2>1 DEF p
<1>7. /\ q \in [capacity : {x.capacity}, out : {q.out}, unasb : {x.unasb}, eof2 : {x.eof2},
                stored : {x.stored}]
      /\ q.out \in
           [cap : {x.out.cap}, rem : {x.out.rem + n}, totRead : {x.out.totRead + n},
            totWrite : {x.out.totWrite}, eof2 : {x.out.eof2}, error : {x.out.error},
            buf : {SubSeq(x.out.buf, Smaller(n, Len(x.out.buf)) + 1, Len(x.out.buf))}]
  <2> HIDE DEF q
  <2>1. q.out = PopOutput(x.out, n)
    BY <1>3, <1>5 DEF q
  <2> QED
    BY <1>3, <1>5, <2>1 DEF q
<1>8. q \in Reassemblers(RecvCapacity, read)
  BY <1>4 DEF Sound
<1> HIDE DEF p, q
<1>9. Alike(p, q)
  BY <1>2, <1>6, <1>7 DEF Alike
<1>10. p \in Reassemblers(RecvCapacity, read)
  <2>1. q.out \in Streams(RecvCapacity)
    BY <1>8 DEF Reassemblers
  <2>2. /\ p.out.rem \in 0 .. RecvCapacity /\ p.out.totRead \in Nat /\ p.out.totWrite \in Nat
        /\ p.out.buf \in Seq(Nat)
    BY <1>9, <2>1 DEF Alike, Streams
  <2>3. p.out \in Streams(RecvCapacity)
    BY <1>1, <1>6, <2>2 DEF Streams
  <2> QED
    BY <1>1, <1>6, <2>3 DEF Reassemblers
<1>11. Holds(p, read)
  BY <1>4, <1>9, <1>10 DEF Holds, q
<1>12. ReadIn(rcv, n) = [rcv EXCEPT !.reassembler = p]
  BY DEF ReadIn, p, r
<1> QED
  BY <1>10, <1>11, <1>12, ReplaceOut

\* set_error touches nothing that has been received.
LEMMA ErrorReceiving ==
  ASSUME WithinRound, NEW e \in Ends, NEW read \in 0 .. StreamLen[e],
         NEW rcv, Receiving(rcv, e, read)
  PROVE  Receiving([rcv EXCEPT !.reassembler.out = SetError(@)], e, read)
<1> DEFINE r == rcv.reassembler
           p == [r EXCEPT !.out = SetError(@)]
<1>1. rcv \in Receivers(read) /\ r \in Reassemblers(RecvCapacity, read)
      /\ r.out \in Streams(RecvCapacity)
  BY DEF Receiving, Receivers, Reassemblers
<1>2. PICK x : Alike(r, x) /\ Sound(x, RecvCapacity, read, FALSE)
  BY DEF Receiving, Holds
<1> HIDE DEF r
<1>3. /\ SetError(r.out) \in Streams(RecvCapacity)
      /\ SetError(r.out).rem = r.out.rem /\ SetError(r.out).buf = r.out.buf
      /\ SetError(r.out).totRead = r.out.totRead /\ SetError(r.out).totWrite = r.out.totWrite
  BY <1>1 DEF SetError, Streams
<1>4. /\ p \in Reassemblers(RecvCapacity, read) /\ p.out = SetError(r.out)
      /\ p.unasb = r.unasb /\ p.stored = r.stored
  BY <1>1, <1>3 DEF Reassemblers
<1> HIDE DEF p
<1>5. Alike(p, x)
  BY <1>2, <1>3, <1>4 DEF Alike
<1>6. Holds(p, read)
  BY <1>2, <1>4, <1>5 DEF Holds
<1>7. [rcv EXCEPT !.reassembler.out = SetError(@)] = [rcv EXCEPT !.reassembler = p]
  BY DEF p, r
<1> QED
  BY <1>4, <1>6, <1>7, ReplaceOut
-----------------------------------------------------------------------------
(***************************************************************************)
(* The sending side: whatever it queues or keeps to send again is a piece  *)
(* of its stream.                                                          *)
(***************************************************************************)
Timers == [seg : Segments, left : Int]

Senders(e) ==
  [isn : {Isn[e]}, stream : Streams(SendCapacity), nextSeqno : Nat,
   window : Nat \cup {NoWindow}, acked : SizeTs, outstanding : SUBSET Timers,
   rto : Nat, crtx : Nat,
   finSent : BOOLEAN, zeroWindow : BOOLEAN, segmentsOut : Seq(Segments)]

\* The outbound stream holds the bytes from totRead on.
Flowing(b, e) ==
  /\ b \in Streams(SendCapacity)
  /\ b.buf = Excerpt(b.totRead, SendCapacity - b.rem)
  /\ b.totWrite = b.totRead + (SendCapacity - b.rem)
  /\ b.totWrite <= StreamLen[e]

\* Nothing goes before the SYN, and what has gone is what has been read.
Counting(s) ==
  /\ s.nextSeqno = 0 <=> s.window = NoWindow
  /\ s.nextSeqno = 0 => s.stream.totRead = 0 /\ ~ s.finSent
  /\ s.nextSeqno > 0 => s.stream.totRead + 1 + One(s.finSent) = s.nextSeqno

\* The sender's own segments acknowledge nothing: the connection fills that in.
Sent(seg, e, read) == Piece(seg, e, read) /\ ~ seg.ack

AllSent(s, e, read) ==
  /\ \A o \in s.outstanding : Sent(o.seg, e, read)
  /\ \A i \in DOMAIN s.segmentsOut : Sent(s.segmentsOut[i], e, read)

Sending(s, e) ==
  /\ s \in Senders(e)
  /\ Flowing(s.stream, e)
  /\ Counting(s)
  /\ AllSent(s, e, s.stream.totRead)

\* The types of a sender's fields.
LEMMA SenderFields ==
  ASSUME NEW e \in Ends, NEW s \in Senders(e)
  PROVE  /\ s.isn = Isn[e] /\ s.stream \in Streams(SendCapacity) /\ s.nextSeqno \in Nat
         /\ s.window \in Int /\ s.acked \in SizeTs /\ s.outstanding \subseteq Timers
         /\ s.rto \in Nat /\ s.crtx \in Nat /\ s.finSent \in BOOLEAN
         /\ s.zeroWindow \in BOOLEAN /\ s.segmentsOut \in Seq(Segments)
<1>1. Nat \cup {NoWindow} \subseteq Int
  BY DEF NoWindow
<1> QED
  BY <1>1 DEF Senders

\* A stream holds at most its capacity.
LEMMA FlowFields ==
  ASSUME NEW e \in Ends, NEW b, Flowing(b, e)
  PROVE  /\ b.cap = SendCapacity /\ SendCapacity \in Nat
         /\ b.rem \in 0 .. SendCapacity /\ b.totRead \in Nat /\ b.totWrite \in Nat
         /\ b.totRead <= b.totWrite /\ b.totRead \in 0 .. StreamLen[e]
         /\ StreamLen[e] \in Nat
         /\ BufferSize(b) = SendCapacity - b.rem /\ BufferSize(b) \in Nat
         /\ Len(b.buf) = BufferSize(b)
<1>1. SendCapacity \in Nat /\ StreamLen[e] \in Nat
  BY ConnectionAssumption, PairAssumption
<1>2. /\ b.cap = SendCapacity /\ b.rem \in 0 .. SendCapacity /\ b.totRead \in Nat
      /\ b.totWrite \in Nat
  BY DEF Flowing, Streams
<1>3. /\ b.totWrite = b.totRead + (SendCapacity - b.rem) /\ b.totWrite <= StreamLen[e]
      /\ b.buf = Excerpt(b.totRead, SendCapacity - b.rem)
  BY DEF Flowing
<1>4. SendCapacity - b.rem \in Nat
  BY <1>1, <1>2
<1>5. Len(b.buf) = SendCapacity - b.rem
  BY <1>2, <1>3, <1>4, ExcerptIsSeq
<1> QED
  BY <1>1, <1>2, <1>3, <1>4, <1>5 DEF BufferSize

\* What tells the number of positions used is within one round.
LEMMA CountFields ==
  ASSUME WithinRound, NEW e \in Ends, NEW s, Sending(s, e)
  PROVE  /\ s.nextSeqno \in 0 .. StreamLen[e] + 2
         /\ s.nextSeqno # 0 /\ ~ s.finSent => s.stream.totRead + 1 = s.nextSeqno
<1>1. s \in Senders(e) /\ Flowing(s.stream, e) /\ Counting(s)
  BY DEF Sending
<1>2. /\ s.nextSeqno \in Nat /\ s.finSent \in BOOLEAN
      /\ s.stream.totRead \in 0 .. StreamLen[e] /\ StreamLen[e] \in Nat
  BY <1>1, SenderFields, FlowFields
<1> QED
  BY <1>1, <1>2 DEF Counting, One

\* write: what is accepted continues the stream.
LEMMA WriteFlows ==
  ASSUME NEW e \in Ends, NEW b, Flowing(b, e), NEW n \in Nat,
         b.totWrite + n <= StreamLen[e]
  PROVE  /\ Flowing(Write(b, Excerpt(b.totWrite, n)), e)
         /\ Write(b, Excerpt(b.totWrite, n)).totRead = b.totRead
<1> DEFINE data == Excerpt(b.totWrite, n)
           m == Writable(b, data)
           size == SendCapacity - b.rem
<1>1. /\ b \in Streams(SendCapacity) /\ SendCapacity \in Nat
      /\ b.rem \in 0 .. SendCapacity /\ b.totRead \in Nat /\ b.totWrite \in Nat
      /\ b.totWrite = b.totRead + size /\ size \in Nat
      /\ b.buf = Excerpt(b.totRead, size) /\ StreamLen[e] \in Nat
  BY FlowFields DEF Flowing
<1>2. data \in Seq(Nat) /\ Len(data) = n
  BY <1>1, ExcerptIsSeq
<1>3. m \in 0 .. n /\ m <= b.rem
  BY <1>1, <1>2 DEF Writable, Smaller
<1>4. Accepted(b, data) = Excerpt(b.totWrite, m)
  <2>1. SubSeq(data, 1, m) = Excerpt(b.totWrite, m)
    <3> HIDE DEF m
    <3> QED
      BY ONLY <1>1, <1>3, n \in Nat, ExcerptSplit
  <2> QED
    BY <2>1 DEF Accepted
<1> HIDE DEF m, data
<1>5. b.buf \o Accepted(b, data) = Excerpt(b.totRead, size + m)
  <2>1. b.totWrite = b.totRead + size /\ m \in Nat
    BY <1>1, <1>3
  <2> HIDE DEF size
  <2>2. Excerpt(b.totRead, size) \o Excerpt(b.totRead + size, m) = Excerpt(b.totRead, size + m)
    BY ONLY <1>1, <2>1, ExcerptConcat
  <2> QED
    BY ONLY <1>1, <1>4, <2>1, <2>2
<1>6. Write(b, data) = [b EXCEPT !.buf = Excerpt(b.totRead, size + m), !.rem = b.rem - m,
                                 !.totWrite = b.totWrite + m]
  BY <1>5 DEF Write, m
<1>7. /\ size + m = SendCapacity - (b.rem - m) /\ size + m \in Nat
      /\ b.rem - m \in 0 .. SendCapacity /\ b.totWrite + m \in Nat
      /\ b.totWrite + m = b.totRead + (size + m) /\ b.totWrite + m <= StreamLen[e]
  BY <1>1, <1>3
<1>8. Excerpt(b.totRead, size + m) \in Seq(Nat)
  BY <1>1, <1>7, ExcerptIsSeq
<1> HIDE DEF size
<1> DEFINE t == Write(b, data)
<1>9. /\ t \in Streams(SendCapacity) /\ t.buf = Excerpt(b.totRead, size + m)
      /\ t.rem = b.rem - m /\ t.totWrite = b.totWrite + m /\ t.totRead = b.totRead
  BY <1>1, <1>6, <1>7, <1>8 DEF Streams
<1> HIDE DEF t
<1>10. Flowing(t, e)
  BY <1>7, <1>9 DEF Flowing
<1> QED
  BY <1>9, <1>10 DEF t, data

\* pop_output and peek_output: the first bytes, which follow those read before.
LEMMA PopFlows ==
  ASSUME NEW e \in Ends, NEW b, Flowing(b, e), NEW n \in 0 .. BufferSize(b)
  PROVE  /\ Flowing(PopOutput(b, n), e)
         /\ PopOutput(b, n).totRead = b.totRead + n
         /\ PeekOutput(b, n) = Excerpt(b.totRead, n)
<1> DEFINE size == SendCapacity - b.rem
<1>1. /\ b \in Streams(SendCapacity) /\ SendCapacity \in Nat
      /\ b.rem \in 0 .. SendCapacity /\ b.totRead \in Nat /\ b.totWrite \in Nat
      /\ b.totWrite = b.totRead + size /\ size \in Nat /\ n \in 0 .. size /\ n \in Nat
      /\ b.buf = Excerpt(b.totRead, size) /\ Len(b.buf) = size
      /\ b.totWrite <= StreamLen[e]
  BY FlowFields DEF Flowing
<1>2. Smaller(n, size) = n
  BY <1>1 DEF Smaller
<1>2b. size = SendCapacity - b.rem
  OBVIOUS
<1> HIDE DEF size
<1>3. /\ SubSeq(b.buf, 1, n) = Excerpt(b.totRead, n)
      /\ SubSeq(b.buf, n + 1, size) = Excerpt(b.totRead + n, size - n)
  <2>1. n \in 0 .. size /\ size \in Nat /\ b.totRead \in Nat
    BY <1>1
  <2>2. /\ SubSeq(Excerpt(b.totRead, size), 1, n) = Excerpt(b.totRead, n)
        /\ SubSeq(Excerpt(b.totRead, size), n + 1, size) = Excerpt(b.totRead + n, size - n)
    BY ONLY <2>1, ExcerptSplit, Zenon
  <2> QED
    BY ONLY <1>1, <2>2, Zenon
<1>4. PopOutput(b, n) = [b EXCEPT !.buf = Excerpt(b.totRead + n, size - n),
                                  !.rem = b.rem + n, !.totRead = b.totRead + n]
  BY <1>1, <1>2, <1>3 DEF PopOutput
<1>5. PeekOutput(b, n) = Excerpt(b.totRead, n)
  BY <1>1, <1>2, <1>3 DEF PeekOutput
<1>6. /\ size - n = SendCapacity - (b.rem + n) /\ size - n \in Nat
      /\ b.rem + n \in 0 .. SendCapacity /\ b.totRead + n \in Nat
      /\ b.totWrite = (b.totRead + n) + (size - n)
  <2>1. n \in Int /\ n <= size /\ n >= 0
    BY <1>1
  <2>2. size - n \in Nat
    BY ONLY <1>1, <2>1
  <2>3. b.totRead + n \in Nat
    BY ONLY <1>1, <2>1
  <2>4. b.rem + n \in 0 .. SendCapacity
    BY ONLY <1>1, <1>2b, <2>1
  <2>5. b.totWrite = (b.totRead + n) + (size - n)
    BY ONLY <1>1, <2>1
  <2>6. size - n = SendCapacity - (b.rem + n)
    BY ONLY <1>1, <1>2b, <2>1
  <2> QED
    BY <2>2, <2>3, <2>4, <2>5, <2>6
<1>7. Excerpt(b.totRead + n, size - n) \in Seq(Nat)
  BY <1>6, ExcerptIsSeq
<1> DEFINE t == PopOutput(b, n)
<1>8. /\ t \in Streams(SendCapacity) /\ t.buf = Excerpt(b.totRead + n, size - n)
      /\ t.rem = b.rem + n /\ t.totWrite = b.totWrite /\ t.totRead = b.totRead + n
  BY <1>1, <1>4, <1>6, <1>7 DEF Streams
<1> HIDE DEF t
<1>9. Flowing(t, e)
  BY <1>1, <1>6, <1>8 DEF Flowing
<1> QED
  BY <1>5, <1>8, <1>9 DEF t

\* end_input and set_error leave the bytes alone.
LEMMA EndFlows ==
  ASSUME NEW e \in Ends, NEW b, Flowing(b, e)
  PROVE  /\ Flowing(EndInput(b), e) /\ EndInput(b).totRead = b.totRead
         /\ Flowing(SetError(b), e) /\ SetError(b).totRead = b.totRead
<1>1. b \in Streams(SendCapacity)
  BY DEF Flowing
<1>2. /\ EndInput(b) \in Streams(SendCapacity) /\ EndInput(b).totRead = b.totRead
      /\ EndInput(b).totWrite = b.totWrite /\ EndInput(b).rem = b.rem
      /\ EndInput(b).buf = b.buf
  BY <1>1 DEF EndInput, Streams
<1>3. /\ SetError(b) \in Streams(SendCapacity) /\ SetError(b).totRead = b.totRead
      /\ SetError(b).totWrite = b.totWrite /\ SetError(b).rem = b.rem
      /\ SetError(b).buf = b.buf
  BY <1>1 DEF SetError, Streams
<1> QED
  BY <1>2, <1>3 DEF Flowing

\* Writing, ending and reporting an error change the stream alone.
LEMMA StreamSending ==
  ASSUME NEW e \in Ends, NEW s, Sending(s, e), NEW b, Flowing(b, e),
         b.totRead = s.stream.totRead
  PROVE  /\ Sending([s EXCEPT !.stream = b], e)
         /\ [s EXCEPT !.stream = b].stream.totRead = s.stream.totRead
<1> DEFINE t == [s EXCEPT !.stream = b]
<1>1. s \in Senders(e) /\ b \in Streams(SendCapacity)
  BY DEF Sending, Flowing
<1>2. /\ t \in Senders(e) /\ t.stream = b /\ t.nextSeqno = s.nextSeqno
      /\ t.window = s.window /\ t.finSent = s.finSent
      /\ t.outstanding = s.outstanding /\ t.segmentsOut = s.segmentsOut
  BY <1>1 DEF Senders
<1> HIDE DEF t
<1>3. Sending(t, e)
  BY <1>2 DEF Sending, Counting, AllSent
<1> QED
  BY <1>2, <1>3 DEF t
-----------------------------------------------------------------------------
\* A piece of what has been read is one of what has been read later.
LEMMA PieceMore ==
  ASSUME NEW e \in Ends, NEW seg \in Segments, NEW read \in Nat, NEW more \in Nat,
         read <= more, Piece(seg, e, read)
  PROVE  Piece(seg, e, more)
<1>1. PICK p \in 0 .. StreamLen[e] + 2 :
        /\ seg.seqno = Wrap(p, Isn[e])
        /\ seg.syn => p = 0 /\ seg.payload = <<>>
        /\ seg.payload # <<>> =>
             /\ p > 0 /\ p - 1 + Len(seg.payload) <= read
             /\ seg.payload = Excerpt(p - 1, Len(seg.payload))
  BY DEF Piece
<1>2. Len(seg.payload) \in Nat /\ StreamLen[e] \in Nat
  BY SegmentFields, PairAssumption
<1>3. seg.payload # <<>> => p - 1 + Len(seg.payload) <= more
  BY <1>1, <1>2
<1> QED
  BY <1>1, <1>3 DEF Piece

\* What was sent from a stream stays so when more of it is read into segments.
LEMMA AllSentMore ==
  ASSUME NEW e \in Ends, NEW s, s.outstanding \subseteq Timers,
         s.segmentsOut \in Seq(Segments),
         NEW read \in Nat, NEW more \in Nat, read <= more, AllSent(s, e, read)
  PROVE  AllSent(s, e, more)
<1>1. ASSUME NEW o \in s.outstanding PROVE Sent(o.seg, e, more)
  <2>1. o.seg \in Segments /\ Sent(o.seg, e, read)
    BY DEF AllSent, Timers
  <2> QED
    BY <2>1, PieceMore DEF Sent
<1>2. ASSUME NEW i \in DOMAIN s.segmentsOut PROVE Sent(s.segmentsOut[i], e, more)
  <2>1. s.segmentsOut[i] \in Segments /\ Sent(s.segmentsOut[i], e, read)
    BY DEF AllSent
  <2> QED
    BY <2>1, PieceMore DEF Sent
<1> QED
  BY <1>1, <1>2 DEF AllSent

\* A queue that grows by something of its kind.
LEMMA QueueGrows ==
  ASSUME NEW S, NEW queue \in Seq(S), NEW x \in S
  PROVE  /\ Append(queue, x) \in Seq(S)
         /\ \A i \in DOMAIN Append(queue, x) :
              \/ Append(queue, x)[i] = x
              \/ i \in DOMAIN queue /\ Append(queue, x)[i] = queue[i]
<1>1. /\ Append(queue, x) \in Seq(S) /\ Len(Append(queue, x)) = Len(queue) + 1
      /\ \A i \in 1 .. Len(queue) : Append(queue, x)[i] = queue[i]
      /\ Append(queue, x)[Len(queue) + 1] = x
  BY AppendProperties
<1>2. /\ DOMAIN Append(queue, x) = 1 .. Len(queue) + 1 /\ DOMAIN queue = 1 .. Len(queue)
      /\ Len(queue) \in Nat
  BY <1>1, LenProperties
<1>3. ASSUME NEW i \in 1 .. Len(queue) + 1
      PROVE  \/ Append(queue, x)[i] = x
             \/ i \in 1 .. Len(queue) /\ Append(queue, x)[i] = queue[i]
  <2>1. CASE i = Len(queue) + 1
    BY <1>1, <2>1
  <2>2. CASE i # Len(queue) + 1
    <3>1. i \in 1 .. Len(queue)
      BY ONLY <1>2, <2>2, i \in 1 .. Len(queue) + 1
    <3> QED
      BY <1>1, <3>1
  <2> QED
    BY <2>1, <2>2
<1>4. ASSUME NEW i \in DOMAIN Append(queue, x)
      PROVE  \/ Append(queue, x)[i] = x
             \/ i \in DOMAIN queue /\ Append(queue, x)[i] = queue[i]
  <2>1. i \in 1 .. Len(queue) + 1
    BY ONLY <1>2, i \in DOMAIN Append(queue, x), Zenon
  <2>2. \/ Append(queue, x)[i] = x
        \/ i \in 1 .. Len(queue) /\ Append(queue, x)[i] = queue[i]
    BY ONLY <1>3, <2>1, Zenon
  <2>3. i \in 1 .. Len(queue) => i \in DOMAIN queue
    BY ONLY <1>2
  <2> QED
    BY ONLY <2>2, <2>3, Zenon
<1> QED
  BY ONLY <1>1, <1>4, Zenon

\* _segments_out.push(seg) and outstanding.insert.
LEMMA TransmitSending ==
  ASSUME NEW e \in Ends, NEW s, Sending(s, e), NEW seg \in Segments,
         NEW more \in Nat, s.stream.totRead <= more, Sent(seg, e, more)
  PROVE  LET t == Transmit(s, seg)
         IN  /\ t \in Senders(e) /\ AllSent(t, e, more)
             /\ t.stream = s.stream /\ t.nextSeqno = s.nextSeqno
             /\ t.window = s.window /\ t.finSent = s.finSent
<1> DEFINE queue == Append(s.segmentsOut, seg)
           new == [seg |-> seg, left |-> s.rto]
           out == s.outstanding \cup {new}
           t == [s EXCEPT !.segmentsOut = queue, !.outstanding = out]
<1>1. s \in Senders(e) /\ s.outstanding \subseteq Timers /\ s.rto \in Int
      /\ s.segmentsOut \in Seq(Segments) /\ s.stream.totRead \in Nat
  BY SenderFields, FlowFields DEF Sending
<1>2. AllSent(s, e, more)
  BY <1>1, AllSentMore DEF Sending
<1>3. /\ queue \in Seq(Segments)
      /\ \A i \in DOMAIN queue :
           \/ queue[i] = seg
           \/ i \in DOMAIN s.segmentsOut /\ queue[i] = s.segmentsOut[i]
  BY <1>1, QueueGrows
<1>4. out \in SUBSET Timers /\ \A o \in out : o \in s.outstanding \/ o.seg = seg
  BY <1>1 DEF Timers
<1>5. Transmit(s, seg) = t
  BY DEF Transmit
<1> HIDE DEF queue, out
<1>6. /\ t \in Senders(e) /\ t.segmentsOut = queue /\ t.outstanding = out
      /\ t.stream = s.stream /\ t.nextSeqno = s.nextSeqno
      /\ t.window = s.window /\ t.finSent = s.finSent
  BY <1>1, <1>3, <1>4 DEF Senders
<1> HIDE DEF t
<1>7. AllSent(t, e, more)
  BY <1>2, <1>3, <1>4, <1>6 DEF AllSent
<1> QED
  BY <1>5, <1>6, <1>7

\* The empty segment says nothing of the stream.
LEMMA NothingIsSegment ==
  /\ EmptySegment \in Segments
  /\ EmptySegment.payload = <<>> /\ EmptySegment.syn = FALSE /\ EmptySegment.ack = FALSE
<1>1. 0 \in RawValues /\ <<>> \in Seq(Nat)
  BY WidthAssumption DEF RawValues
<1> QED
  BY <1>1 DEF EmptySegment, Segments, TCPSegments

\* The SYN.
LEMMA SynSending ==
  ASSUME WithinRound, NEW e \in Ends, NEW s, Sending(s, e), s.window = NoWindow
  PROVE  /\ Sending(SendSyn(s), e)
         /\ SendSyn(s).stream.totRead = s.stream.totRead
<1> DEFINE fin == Eof(s.stream)
           seg == [EmptySegment EXCEPT !.seqno = s.isn, !.syn = TRUE, !.fin = fin]
           t == SendSyn(s)
<1>1. /\ s.isn = Isn[e] /\ Isn[e] \in RawValues /\ fin \in BOOLEAN
      /\ s.nextSeqno = 0 /\ s.stream.totRead = 0 /\ StreamLen[e] \in Nat
  <2>1. s.stream \in Streams(SendCapacity) /\ s.isn = Isn[e]
    BY SenderFields DEF Sending
  <2>2. fin \in BOOLEAN
    BY <2>1 DEF Eof, BufferEmpty, Streams
  <2> HIDE DEF fin
  <2> QED
    BY <2>1, <2>2, PairFacts DEF Sending, Counting
<1> HIDE DEF fin
<1>2. /\ seg \in Segments /\ seg.seqno = Isn[e] /\ seg.syn = TRUE /\ seg.ack = FALSE
      /\ seg.payload = <<>>
  BY <1>1, NothingIsSegment DEF Segments, TCPSegments
<1>3. t = [Transmit(s, seg) EXCEPT !.window = 1, !.nextSeqno = 1 + One(fin), !.finSent = fin]
  BY DEF SendSyn, fin
<1> HIDE DEF seg
<1>4. Sent(seg, e, 0)
  <2>1. Wrap(0, Isn[e]) = Isn[e]
    BY <1>1, WrapOfZero
  <2>2. 0 \in 0 .. StreamLen[e] + 2
    BY <1>1
  <2>3. Piece(seg, e, 0)
    BY <1>2, <2>1, <2>2 DEF Piece
  <2> QED
    BY <1>2, <2>3 DEF Sent
<1> DEFINE u == Transmit(s, seg)
<1>5. /\ u \in Senders(e) /\ AllSent(u, e, 0) /\ u.stream = s.stream
  BY <1>1, <1>2, <1>4, TransmitSending
<1> HIDE DEF u
<1>6. 1 + One(fin) \in Nat
  BY DEF One
<1>7. /\ t \in Senders(e) /\ t.stream = u.stream /\ t.window = 1 /\ t.finSent = fin
      /\ t.nextSeqno = 1 + One(fin) /\ t.outstanding = u.outstanding
      /\ t.segmentsOut = u.segmentsOut
  <2>1. t = [u EXCEPT !.window = 1, !.nextSeqno = 1 + One(fin), !.finSent = fin]
    BY <1>3 DEF u
  <2> HIDE DEF t
  <2> QED
    BY <1>1, <1>5, <1>6, <2>1 DEF Senders
<1> HIDE DEF t
<1>8. Counting(t)
  <2>1. t.nextSeqno # 0 /\ t.window # NoWindow
    BY <1>7 DEF One, NoWindow
  <2>2. t.stream.totRead + 1 + One(t.finSent) = t.nextSeqno
    BY <1>1, <1>5, <1>6, <1>7
  <2> QED
    BY <2>1, <2>2 DEF Counting
<1>9. AllSent(t, e, t.stream.totRead) /\ t.stream.totRead = 0
  BY <1>1, <1>5, <1>7 DEF AllSent
<1> QED
  BY <1>1, <1>5, <1>7, <1>8, <1>9 DEF Sending, t

\* What a sender becomes when it has sent more.
Onward(s, t, e) ==
  Sending(t, e) /\ t.window # NoWindow /\ t.stream.totRead >= s.stream.totRead

\* One turn of the loop.
LEMMA TurnSending ==
  ASSUME WithinRound, NEW e \in Ends, NEW s, Sending(s, e), s.window # NoWindow
  PROVE  Onward(s, FillOne(s), e)
<1> DEFINE len == Smaller(MaxPayload, Smaller(BufferSize(s.stream), Room(s)))
           stream == PopOutput(s.stream, len)
           fin == FinGoes(s, stream, len)
           seg == [EmptySegment EXCEPT !.seqno = NextSeqno(s), !.fin = fin,
                     !.payload = PeekOutput(s.stream, len)]
           t == [Transmit(s, seg) EXCEPT !.stream = stream, !.finSent = fin,
                   !.crtx = 0, !.nextSeqno = @ + len + One(fin)]
<1>1. FillOne(s) = IF s.finSent \/ Room(s) <= 0 \/ (len = 0 /\ ~ fin) THEN s ELSE t
  BY DEF FillOne
<1>2. /\ s \in Senders(e) /\ Flowing(s.stream, e) /\ s.isn = Isn[e]
      /\ s.stream.totRead \in Nat /\ BufferSize(s.stream) \in Nat
      /\ s.nextSeqno \in 0 .. StreamLen[e] + 2 /\ s.window \in Int /\ s.acked \in Nat
      /\ StreamLen[e] \in Nat /\ MaxPayload \in Nat /\ Isn[e] \in RawValues
      /\ s.nextSeqno # 0
  <2>1. s \in Senders(e) /\ Flowing(s.stream, e) /\ s.nextSeqno # 0
    BY DEF Sending, Counting
  <2>2. s.acked \in Nat
    BY <2>1, SenderFields DEF SizeTs
  <2> QED
    BY <2>1, <2>2, SenderFields, FlowFields, CountFields, PairFacts, SenderAssumption
<1>3. CASE s.finSent \/ Room(s) <= 0 \/ (len = 0 /\ ~ fin)
  <2>1. FillOne(s) = s
    BY <1>1, <1>3
  <2> QED
    BY <1>2, <2>1 DEF Onward
<1>4. CASE ~ (s.finSent \/ Room(s) <= 0 \/ (len = 0 /\ ~ fin))
  <2>1. FillOne(s) = t
    BY <1>1, <1>4
  <2>2. ~ s.finSent /\ Room(s) \in Int /\ Room(s) > 0 /\ s.stream.totRead + 1 = s.nextSeqno
    <3>1. Room(s) \in Int
      BY <1>2 DEF Room
    <3> QED
      BY <1>2, <1>4, <3>1, CountFields
  <2>3. len \in 0 .. BufferSize(s.stream) /\ len \in Nat
    BY <1>2, <2>2 DEF Smaller
  <2> HIDE DEF len
  <2>4. /\ Flowing(stream, e) /\ stream.totRead = s.stream.totRead + len
        /\ PeekOutput(s.stream, len) = Excerpt(s.stream.totRead, len)
    BY <1>2, <2>3, PopFlows
  <2>5. fin \in BOOLEAN
    BY DEF FinGoes, Eof, BufferEmpty
  <2> HIDE DEF stream, fin
  <2>6. /\ seg \in Segments /\ seg.seqno = Wrap(s.nextSeqno, Isn[e]) /\ seg.syn = FALSE
        /\ seg.ack = FALSE /\ seg.payload = Excerpt(s.stream.totRead, len)
    <3>1. NextSeqno(s) \in RawValues /\ NextSeqno(s) = Wrap(s.nextSeqno, Isn[e])
      BY <1>2, WrapRounds DEF NextSeqno
    <3>2. Excerpt(s.stream.totRead, len) \in Seq(Nat)
      BY <1>2, <2>3, ExcerptIsSeq
    <3> QED
      BY <2>4, <2>5, <3>1, <3>2, NothingIsSegment DEF Segments, TCPSegments
  <2> HIDE DEF seg
  <2>7. stream.totRead \in Nat /\ s.stream.totRead <= stream.totRead
    BY <1>2, <2>3, <2>4
  <2>8. Sent(seg, e, stream.totRead)
    <3>1. Len(seg.payload) = len
      BY <1>2, <2>3, <2>6, ExcerptIsSeq
    <3>2. /\ s.nextSeqno > 0 /\ s.nextSeqno - 1 = s.stream.totRead
          /\ s.nextSeqno - 1 + len <= stream.totRead
      BY <1>2, <2>2, <2>3, <2>4
    <3>3. Piece(seg, e, stream.totRead)
      BY <1>2, <2>6, <3>1, <3>2 DEF Piece
    <3> QED
      BY <2>6, <3>3 DEF Sent
  <2> DEFINE u == Transmit(s, seg)
  <2>9. /\ u \in Senders(e) /\ AllSent(u, e, stream.totRead) /\ u.window = s.window
        /\ u.nextSeqno = s.nextSeqno
    BY <2>6, <2>7, <2>8, TransmitSending
  <2> HIDE DEF u
  <2> DEFINE next == s.nextSeqno + len + One(fin)
  <2>10. next \in Nat /\ next > 0 /\ stream.totRead + 1 + One(fin) = next
    <3>1. One(fin) \in {0, 1}
      BY DEF One
    <3> QED
      BY <1>2, <2>2, <2>3, <2>4, <3>1
  <2> HIDE DEF next
  <2>11. t = [u EXCEPT !.stream = stream, !.finSent = fin, !.crtx = 0, !.nextSeqno = next]
    <3>1. t = [u EXCEPT !.stream = stream, !.finSent = fin, !.crtx = 0,
                        !.nextSeqno = u.nextSeqno + len + One(fin)]
      BY DEF u
    <3> HIDE DEF t
    <3> QED
      BY <2>9, <3>1 DEF next
  <2> HIDE DEF t
  <2>12. stream \in Streams(SendCapacity)
    BY <2>4 DEF Flowing
  <2>13. /\ t \in Senders(e) /\ t.stream = stream /\ t.window = s.window /\ t.finSent = fin
         /\ t.nextSeqno = next /\ t.outstanding = u.outstanding
         /\ t.segmentsOut = u.segmentsOut
    BY <2>5, <2>9, <2>10, <2>11, <2>12 DEF Senders
  <2>14. Counting(t)
    BY <1>2, <2>10, <2>13 DEF Counting
  <2>15. AllSent(t, e, t.stream.totRead)
    BY <2>9, <2>13 DEF AllSent
  <2> QED
    BY <1>2, <2>1, <2>4, <2>7, <2>13, <2>14, <2>15 DEF Sending, Onward
<1> QED
  BY <1>3, <1>4

\* What has been sent stays sent.
LEMMA OnwardTwice ==
  ASSUME NEW e \in Ends, NEW s, Sending(s, e), NEW t, NEW u, Onward(s, t, e), Onward(t, u, e)
  PROVE  Onward(s, u, e)
<1>1. Flowing(s.stream, e) /\ Flowing(t.stream, e) /\ Flowing(u.stream, e)
  BY DEF Onward, Sending
<1>2. s.stream.totRead \in Nat /\ t.stream.totRead \in Nat /\ u.stream.totRead \in Nat
  BY <1>1, FlowFields
<1> QED
  BY <1>2 DEF Onward

\* The turns of the loop, one after the other.
Turns(s, n, f) == f = [k \in 0 .. n |-> IF k = 0 THEN s ELSE FillOne(f[k - 1])]

\* The loop is a function of the number of turns.
LEMMA TurnsExist == ASSUME NEW s PROVE \A n \in Nat : \E f : Turns(s, n, f)
<1> DEFINE P == {n \in Nat : \E f : Turns(s, n, f)}
<1>1. 0 \in P
  <2> DEFINE f == [k \in 0 .. 0 |-> s]
  <2>1. Turns(s, 0, f)
    BY DEF Turns
  <2> QED
    BY <2>1
<1>2. ASSUME NEW n \in Nat, n \in P PROVE n + 1 \in P
  <2>1. PICK f : Turns(s, n, f)
    BY <1>2
  <2> DEFINE g == [k \in 0 .. n + 1 |-> IF k = n + 1 THEN FillOne(f[n]) ELSE f[k]]
  <2>2. \A k \in 0 .. n : f[k] = IF k = 0 THEN s ELSE FillOne(f[k - 1])
    BY <2>1 DEF Turns
  <2>3. \A k \in 0 .. n + 1 : g[k] = IF k = 0 THEN s ELSE FillOne(g[k - 1])
    <3> SUFFICES ASSUME NEW k \in 0 .. n + 1
                 PROVE  g[k] = IF k = 0 THEN s ELSE FillOne(g[k - 1])
      OBVIOUS
    <3>1. CASE k = n + 1
      <4>1. g[k] = FillOne(f[n]) /\ k - 1 = n /\ n \in 0 .. n + 1 /\ n # n + 1 /\ k # 0
        BY <1>2, <3>1
      <4>2. g[k - 1] = f[n]
        BY <4>1
      <4> QED
        BY <4>1, <4>2
    <3>2. CASE k # n + 1
      <4>1. k \in 0 .. n /\ g[k] = f[k]
        BY <1>2, <3>2
      <4>2. k # 0 => k - 1 \in 0 .. n + 1 /\ k - 1 # n + 1 /\ g[k - 1] = f[k - 1]
        BY <1>2, <4>1
      <4> QED
        BY <2>2, <4>1, <4>2
    <3> QED
      BY <3>1, <3>2
  <2>4. Turns(s, n + 1, g)
    <3>1. g = [k \in 0 .. n + 1 |-> g[k]]
      OBVIOUS
    <3> HIDE DEF g
    <3> QED
      BY <2>3, <3>1 DEF Turns
  <2> QED
    BY <1>2, <2>4
<1> HIDE DEF P
<1>3. \A n \in Nat : n \in P
  BY <1>1, <1>2, EveryNumber
<1> QED
  BY <1>3 DEF P

\* However many turns the loop of fill_window takes, what it has sent is the stream's:
\* by induction on their number.
LEMMA TurnsSending ==
  ASSUME WithinRound, NEW e \in Ends, NEW s, Sending(s, e), s.window # NoWindow,
         NEW n \in Nat, NEW f, Turns(s, n, f)
  PROVE  Onward(s, f[n], e)
<1> DEFINE P == {k \in Nat : k <= n => Onward(s, f[k], e)}
<1>1. \A k \in 0 .. n : f[k] = IF k = 0 THEN s ELSE FillOne(f[k - 1])
  BY DEF Turns
<1>2. 0 \in P
  <2>1. f[0] = s
    BY <1>1
  <2>2. s.stream.totRead \in Nat
    BY FlowFields DEF Sending
  <2> QED
    BY <2>1, <2>2 DEF Onward
<1>3. ASSUME NEW k \in Nat, k \in P PROVE k + 1 \in P
  <2> SUFFICES ASSUME k + 1 <= n PROVE Onward(s, f[k + 1], e)
    BY <1>3
  <2>1. Onward(s, f[k], e)
    BY <1>3
  <2>2. f[k + 1] = FillOne(f[k])
    BY <1>1, <1>3
  <2>3. Onward(f[k], f[k + 1], e)
    BY <2>1, <2>2, TurnSending DEF Onward
  <2> QED
    BY <2>1, <2>3, OnwardTwice
<1> HIDE DEF P
<1>4. \A k \in Nat : k \in P
  BY <1>2, <1>3, EveryNumber
<1> QED
  BY <1>4 DEF P

\* fill_window.
LEMMA FillSending ==
  ASSUME WithinRound, NEW e \in Ends, NEW s, Sending(s, e)
  PROVE  /\ Sending(FillWindow(s), e)
         /\ FillWindow(s).stream.totRead >= s.stream.totRead
<1> DEFINE turns == BufferSize(s.stream) + 1
<1>1. turns \in Nat /\ s.stream.totRead \in Nat
  BY FlowFields DEF Sending
<1>2. CASE s.finSent
  BY <1>1, <1>2 DEF FillWindow
<1>3. CASE ~ s.finSent /\ s.window = NoWindow
  <2>1. FillWindow(s) = SendSyn(s)
    BY <1>3 DEF FillWindow
  <2> QED
    BY <1>1, <1>3, <2>1, SynSending
<1>4. CASE ~ s.finSent /\ s.window # NoWindow
  <2> DEFINE f == CHOOSE g : Turns(s, turns, g)
  <2>1. FillWindow(s) = f[turns]
    BY <1>4 DEF FillWindow, Turns
  <2>2. Turns(s, turns, f)
    BY <1>1, TurnsExist
  <2> HIDE DEF f, turns
  <2>3. Onward(s, f[turns], e)
    BY <1>1, <1>4, <2>2, TurnsSending
  <2> QED
    BY <2>1, <2>3 DEF Onward
<1> QED
  BY <1>2, <1>3, <1>4

\* A sender that has forgotten some of its segments, or changed their timers.
LEMMA FewerSending ==
  ASSUME NEW e \in Ends, NEW s, Sending(s, e), NEW t, t \in Senders(e),
         t.stream = s.stream, t.nextSeqno = s.nextSeqno, t.finSent = s.finSent,
         t.window = NoWindow <=> s.window = NoWindow,
         \A o \in t.outstanding : \E q \in s.outstanding : o.seg = q.seg,
         \A i \in DOMAIN t.segmentsOut :
           \/ \E k \in DOMAIN s.segmentsOut : t.segmentsOut[i] = s.segmentsOut[k]
           \/ Sent(t.segmentsOut[i], e, s.stream.totRead)
  PROVE  Sending(t, e)
<1>1. Counting(t) /\ Flowing(t.stream, e)
  BY DEF Counting, Sending
<1>2. AllSent(t, e, t.stream.totRead)
  <2>1. AllSent(s, e, s.stream.totRead)
    BY DEF Sending
  <2> QED
    BY <2>1 DEF AllSent
<1> QED
  BY <1>1, <1>2 DEF Sending

\* An acknowledgment from the right sender is of a position after the SYN; before the
\* SYN has been sent it is of nothing that was.
LEMMA AckSending ==
  ASSUME WithinRound, NEW e \in Ends, NEW s, Sending(s, e),
         NEW q \in 1 .. StreamLen[e] + 2, NEW ackno \in RawValues,
         ackno = Wrap(q, Isn[e]), NEW win \in Nat
  PROVE  /\ Sending(AckReceived(s, ackno, win), e)
         /\ AckReceived(s, ackno, win).stream = s.stream
<1> DEFINE acked == Unwrap(ackno, s.isn, s.acked)
           new == acked > s.acked
           rto == IF new THEN RetxTimeout ELSE s.rto
           left == {o \in s.outstanding : ~ Acknowledged(s, o.seg, acked)}
           out == {[o EXCEPT !.left = IF new THEN rto ELSE @] : o \in left}
           t == [s EXCEPT !.acked = acked, !.window = Larger(1, win),
                   !.zeroWindow = (win = 0), !.rto = rto, !.outstanding = out]
<1>1. /\ s \in Senders(e) /\ s.isn = Isn[e] /\ s.nextSeqno \in Nat /\ s.acked \in SizeTs
      /\ s.rto \in Nat /\ s.outstanding \subseteq Timers /\ Isn[e] \in RawValues
      /\ StreamLen[e] \in Nat /\ Counting(s)
  BY SenderFields, PairFacts DEF Sending
<1>2. acked \in SizeTs /\ Wrap(acked, Isn[e]) = ackno
  BY ONLY <1>1, UnwrapAbove, WithinRound, ackno \in RawValues DEF WithinRound
<1> HIDE DEF acked
<1>3. AckReceived(s, ackno, win) = IF ~ Credible(s, acked) THEN s ELSE t
  BY DEF AckReceived, acked
<1>4. CASE ~ Credible(s, acked)
  BY <1>3, <1>4
<1>5. CASE Credible(s, acked)
  <2>1. acked >= 1
    <3>1. q \in RawValues /\ acked \in Nat /\ Round \in Nat /\ q \in Nat /\ q >= 1
      BY <1>1, <1>2, PairFacts DEF RawValues, SizeTs
    <3>2. acked = q \/ acked >= q + Round
      BY ONLY <1>1, <1>2, <3>1, SamePlace, ackno = Wrap(q, Isn[e])
    <3> QED
      BY <3>1, <3>2
  <2>2. s.nextSeqno # 0 /\ s.window # NoWindow
    <3>1. s.nextSeqno >= acked /\ acked \in Nat
      BY <1>2, <1>5 DEF Credible, SizeTs
    <3> QED
      BY <1>1, <2>1, <3>1 DEF Counting
  <2>3. rto \in Nat
    BY <1>1, SenderAssumption
  <2>4. Larger(1, win) \in Nat /\ Larger(1, win) # NoWindow
    BY DEF Larger, NoWindow
  <2> HIDE DEF rto, new
  <2>5. out \in SUBSET Timers /\ \A o \in out : \E k \in s.outstanding : o.seg = k.seg
    <3>1. ASSUME NEW o \in left
          PROVE  /\ [o EXCEPT !.left = IF new THEN rto ELSE @] \in Timers
                 /\ [o EXCEPT !.left = IF new THEN rto ELSE @].seg = o.seg
      <4>1. o \in Timers
        BY <1>1
      <4>2. (IF new THEN rto ELSE o.left) \in Int
        BY <2>3, <4>1 DEF Timers
      <4> QED
        BY <4>1, <4>2 DEF Timers
    <3> QED
      BY <3>1
  <2> HIDE DEF out
  <2>6. /\ t \in Senders(e) /\ t.stream = s.stream /\ t.nextSeqno = s.nextSeqno
        /\ t.finSent = s.finSent /\ t.window = Larger(1, win) /\ t.outstanding = out
        /\ t.segmentsOut = s.segmentsOut
    BY <1>1, <1>2, <2>3, <2>4, <2>5 DEF Senders
  <2> HIDE DEF t
  <2>7. Sending(t, e)
    BY <2>2, <2>4, <2>5, <2>6, FewerSending
  <2> QED
    BY <1>3, <1>5, <2>6, <2>7
<1> QED
  BY <1>4, <1>5

\* ms milliseconds pass.
LEMMA ElapseSending ==
  ASSUME NEW e \in Ends, NEW s, Sending(s, e), NEW ms \in Nat
  PROVE  Sending(Elapse(s, ms), e) /\ Elapse(s, ms).stream = s.stream
<1> DEFINE out == {[o EXCEPT !.left = @ - ms] : o \in s.outstanding}
           t == [s EXCEPT !.outstanding = out]
<1>1. s \in Senders(e) /\ s.outstanding \subseteq Timers
  BY SenderFields DEF Sending
<1>2. out \in SUBSET Timers /\ \A o \in out : \E q \in s.outstanding : o.seg = q.seg
  <2>1. ASSUME NEW o \in s.outstanding
        PROVE  /\ [o EXCEPT !.left = @ - ms] \in Timers
               /\ [o EXCEPT !.left = @ - ms].seg = o.seg
    <3>1. o \in Timers
      BY <1>1
    <3>2. o.left - ms \in Int
      BY <3>1 DEF Timers
    <3> QED
      BY <3>1, <3>2 DEF Timers
  <2> QED
    BY <2>1
<1>3. Elapse(s, ms) = t
  BY DEF Elapse
<1> HIDE DEF out
<1>4. /\ t \in Senders(e) /\ t.stream = s.stream /\ t.nextSeqno = s.nextSeqno
      /\ t.finSent = s.finSent /\ t.window = s.window /\ t.outstanding = out
      /\ t.segmentsOut = s.segmentsOut
  BY <1>1, <1>2 DEF Senders
<1> HIDE DEF t
<1>5. Sending(t, e)
  BY <1>2, <1>4, FewerSending
<1> QED
  BY <1>3, <1>4, <1>5

\* What is sent again has been sent before.
LEMMA OldestIsSent ==
  ASSUME WithinRound, NEW e \in Ends, NEW s, Sending(s, e), Expired(s) # {}
  PROVE  Oldest(s) \in s.outstanding
<1> DEFINE Pos == {PositionOf(s, o.seg) : o \in Expired(s)}
<1>1. /\ s.isn \in RawValues /\ s.acked \in SizeTs /\ s.outstanding \subseteq Timers
      /\ Expired(s) \subseteq s.outstanding
  BY SenderFields, PairFacts DEF Sending, Expired
<1>2. \A o \in Expired(s) : PositionOf(s, o.seg) \in Nat
  <2> SUFFICES ASSUME NEW o \in Expired(s) PROVE PositionOf(s, o.seg) \in Nat
    OBVIOUS
  <2>1. o.seg.seqno \in RawValues
    BY <1>1, SegmentFields DEF Timers
  <2>2. Unwrap(o.seg.seqno, s.isn, s.acked) \in SizeTs
    BY ONLY <1>1, <2>1, UnwrapAbove, WithinRound DEF WithinRound
  <2> QED
    BY <2>2 DEF PositionOf, SizeTs
<1>3. Pos \in SUBSET Nat /\ Pos # {}
  BY <1>2
<1>4. PICK x \in Pos : \A y \in Pos : x <= y
  BY <1>3, LeastElement
<1>5. \E o \in Expired(s) :
        \A p \in Expired(s) : PositionOf(s, o.seg) <= PositionOf(s, p.seg)
  BY <1>4
<1>6. Oldest(s) \in Expired(s)
  BY <1>5 DEF Oldest
<1> QED
  BY <1>1, <1>6

\* tick sends the oldest outstanding segment once more, and nothing else.
LEMMA RetransmitSending ==
  ASSUME WithinRound, NEW e \in Ends, NEW s, Sending(s, e)
  PROVE  Sending(Retransmit(s), e) /\ Retransmit(s).stream = s.stream
<1> DEFINE rto == IF s.zeroWindow THEN s.rto ELSE (2 * s.rto) % UIntRange
           seg == Oldest(s).seg
           queue == Append(s.segmentsOut, seg)
           out == Restarted(s, rto)
           t == [s EXCEPT !.rto = rto, !.crtx = @ + 1, !.segmentsOut = queue,
                          !.outstanding = out]
<1>1. Retransmit(s) = IF Expired(s) = {} THEN s ELSE t
  BY DEF Retransmit
<1>2. CASE Expired(s) = {}
  BY <1>1, <1>2
<1>3. CASE Expired(s) # {}
  <2>1. /\ s \in Senders(e) /\ s.rto \in Nat /\ s.crtx \in Nat
        /\ s.outstanding \subseteq Timers /\ s.segmentsOut \in Seq(Segments)
        /\ AllSent(s, e, s.stream.totRead)
    BY SenderFields DEF Sending
  <2>2. rto \in Nat
    <3>1. 2 * s.rto \in Int /\ UIntRange \in Nat \ {0}
      BY <2>1, SenderAssumption
    <3>2. (2 * s.rto) % UIntRange \in Nat
      BY <3>1
    <3> QED
      BY <2>1, <3>2
  <2>3. Oldest(s) \in s.outstanding
    BY <1>3, OldestIsSent
  <2>4. seg \in Segments /\ Sent(seg, e, s.stream.totRead)
    BY <2>1, <2>3 DEF AllSent, Timers
  <2> HIDE DEF rto, seg
  <2>5. /\ queue \in Seq(Segments)
        /\ \A i \in DOMAIN queue :
             \/ queue[i] = seg
             \/ i \in DOMAIN s.segmentsOut /\ queue[i] = s.segmentsOut[i]
    BY <2>1, <2>4, QueueGrows
  <2>6. out \in SUBSET Timers /\ \A o \in out : \E q \in s.outstanding : o.seg = q.seg
    <3>1. ASSUME NEW o \in s.outstanding
          PROVE  [o EXCEPT !.left = rto] \in Timers /\ [o EXCEPT !.left = rto].seg = o.seg
      <4>1. o \in Timers
        BY <2>1
      <4> QED
        BY <2>2, <4>1 DEF Timers
    <3> QED
      BY <3>1 DEF Restarted
  <2> HIDE DEF queue, out
  <2> DEFINE count == s.crtx + 1
  <2>7. /\ t \in Senders(e) /\ t.stream = s.stream /\ t.nextSeqno = s.nextSeqno
        /\ t.finSent = s.finSent /\ t.window = s.window /\ t.outstanding = out
        /\ t.segmentsOut = queue
    <3>1. t = [s EXCEPT !.rto = rto, !.crtx = count, !.segmentsOut = queue,
                        !.outstanding = out]
      OBVIOUS
    <3>2. count \in Nat
      BY <2>1
    <3> HIDE DEF t, count
    <3> QED
      BY <2>1, <2>2, <2>5, <2>6, <3>1, <3>2 DEF Senders
  <2> HIDE DEF t
  <2>8. Sending(t, e)
    BY <2>4, <2>5, <2>6, <2>7, FewerSending
  <2> QED
    BY <1>1, <1>3, <2>7, <2>8
<1> QED
  BY <1>2, <1>3

\* send_empty_segment.
LEMMA EmptySending ==
  ASSUME WithinRound, NEW e \in Ends, NEW s, Sending(s, e)
  PROVE  /\ Sending(SendEmptySegment(s), e) /\ SendEmptySegment(s).stream = s.stream
         /\ SendEmptySegment(s).segmentsOut # <<>>
<1> DEFINE seg == [EmptySegment EXCEPT !.seqno = NextSeqno(s)]
           queue == Append(s.segmentsOut, seg)
           t == [s EXCEPT !.crtx = 0, !.segmentsOut = queue]
<1>1. /\ s \in Senders(e) /\ s.isn = Isn[e] /\ s.segmentsOut \in Seq(Segments)
      /\ s.nextSeqno \in 0 .. StreamLen[e] + 2 /\ s.nextSeqno \in Nat
      /\ Isn[e] \in RawValues
  BY SenderFields, CountFields, PairFacts DEF Sending
<1>2. /\ seg \in Segments /\ seg.seqno = Wrap(s.nextSeqno, Isn[e])
      /\ seg.payload = <<>> /\ seg.syn = FALSE /\ seg.ack = FALSE
  <2>1. NextSeqno(s) \in RawValues /\ NextSeqno(s) = Wrap(s.nextSeqno, Isn[e])
    BY <1>1, WrapRounds DEF NextSeqno
  <2> QED
    BY <2>1, NothingIsSegment DEF Segments, TCPSegments
<1> HIDE DEF seg
<1>3. Sent(seg, e, s.stream.totRead)
  BY <1>1, <1>2 DEF Sent, Piece
<1>4. /\ queue \in Seq(Segments) /\ queue # <<>>
      /\ \A i \in DOMAIN queue :
           \/ queue[i] = seg
           \/ i \in DOMAIN s.segmentsOut /\ queue[i] = s.segmentsOut[i]
  <2>1. queue # <<>>
    BY <1>1, <1>2, AppendProperties
  <2> QED
    BY <1>1, <1>2, <2>1, QueueGrows
<1>5. SendEmptySegment(s) = t
  BY DEF SendEmptySegment, seg
<1> HIDE DEF queue
<1>6. /\ t \in Senders(e) /\ t.stream = s.stream /\ t.nextSeqno = s.nextSeqno
      /\ t.finSent = s.finSent /\ t.window = s.window /\ t.outstanding = s.outstanding
      /\ t.segmentsOut = queue
  BY <1>1, <1>4 DEF Senders
<1> HIDE DEF t
<1>7. Sending(t, e)
  BY <1>3, <1>4, <1>6, FewerSending
<1> QED
  BY <1>4, <1>5, <1>6, <1>7

\* The connection takes segments from the sender's queue.
LEMMA TakenSending ==
  ASSUME NEW e \in Ends, NEW s, Sending(s, e), NEW queue \in Seq(Segments),
         \A i \in DOMAIN queue : \E k \in DOMAIN s.segmentsOut : queue[i] = s.segmentsOut[k]
  PROVE  Sending([s EXCEPT !.segmentsOut = queue], e)
<1> DEFINE t == [s EXCEPT !.segmentsOut = queue]
<1>1. s \in Senders(e)
  BY DEF Sending
<1>2. /\ t \in Senders(e) /\ t.stream = s.stream /\ t.nextSeqno = s.nextSeqno
      /\ t.finSent = s.finSent /\ t.window = s.window /\ t.outstanding = s.outstanding
      /\ t.segmentsOut = queue
  BY <1>1 DEF Senders
<1> HIDE DEF t
<1>3. Sending(t, e)
  BY <1>2, FewerSending
<1> QED
  BY <1>3 DEF t

\* The constructor.
LEMMA NewSending ==
  ASSUME WithinRound, NEW e \in Ends
  PROVE  /\ Sending(NewSender(Isn[e], SendCapacity), e)
         /\ NewSender(Isn[e], SendCapacity).stream.totRead = 0
<1> DEFINE b == NewByteStream(SendCapacity)
           s == NewSender(Isn[e], SendCapacity)
<1>1. SendCapacity \in Nat /\ StreamLen[e] \in Nat /\ RetxTimeout \in Nat
      /\ 0 \in SizeTs
  BY PairFacts, SenderAssumption DEF SizeTs
<1>2. /\ b \in Streams(SendCapacity) /\ b.buf = <<>> /\ b.rem = SendCapacity
      /\ b.totWrite = 0 /\ b.totRead = 0
  BY <1>1 DEF NewByteStream, Streams
<1> HIDE DEF b
<1>3. Excerpt(0, 0) = <<>>
  <2>1. Excerpt(0, 0) \in Seq(Nat) /\ Len(Excerpt(0, 0)) = 0
    BY ExcerptIsSeq
  <2> QED
    BY <2>1, EmptySeq
<1>4. Flowing(b, e)
  BY <1>1, <1>2, <1>3 DEF Flowing
<1>5. /\ s \in Senders(e) /\ s.stream = b /\ s.nextSeqno = 0 /\ s.window = NoWindow
      /\ s.finSent = FALSE /\ s.outstanding = {} /\ s.segmentsOut = <<>>
  BY <1>1, <1>2 DEF NewSender, Senders, b
<1> HIDE DEF s
<1>6. Counting(s) /\ AllSent(s, e, 0)
  BY <1>2, <1>5 DEF Counting, AllSent
<1> QED
  BY <1>2, <1>4, <1>5, <1>6 DEF Sending, s
-----------------------------------------------------------------------------
(***************************************************************************)
(* An endpoint: its sender and its receiver as above, and in its queue     *)
(* pieces of its own stream that acknowledge the other's.                  *)
(***************************************************************************)
Connections(e, read) ==
  [sender : Senders(e), receiver : Receivers(read), linger : BOOLEAN, active2 : BOOLEAN,
   finsent : BOOLEAN, idle : Nat, segmentsOut : Seq(Segments)]

\* The endpoint e; the other has read so many bytes of its stream into segments.
Good(c, e, read) ==
  /\ c \in Connections(e, read)
  /\ Sending(c.sender, e)
  /\ Receiving(c.receiver, Other(e), read)
  /\ c.segmentsOut \in Seq(Pieces(e, Outbound(c).totRead))

\* What an endpoint becomes by a step of its own.
Grown(c, t, e, read) ==
  Good(t, e, read) /\ Outbound(t).totRead >= Outbound(c).totRead

\* What an endpoint has read into segments is a part of its stream.
LEMMA GoodFields ==
  ASSUME NEW e \in Ends, NEW read, NEW c, Good(c, e, read)
  PROVE  /\ Outbound(c).totRead \in 0 .. StreamLen[e] /\ Outbound(c).totRead \in Nat
         /\ StreamLen[e] \in Nat
         /\ c \in Connections(e, read) /\ Sending(c.sender, e)
         /\ Receiving(c.receiver, Other(e), read)
         /\ c.linger \in BOOLEAN /\ c.active2 \in BOOLEAN /\ c.finsent \in BOOLEAN
         /\ c.idle \in Nat
<1>1. Flowing(c.sender.stream, e) /\ c \in Connections(e, read)
  BY DEF Good, Sending
<1>2. /\ Outbound(c).totRead \in 0 .. StreamLen[e] /\ Outbound(c).totRead \in Nat
      /\ StreamLen[e] \in Nat
  BY <1>1, FlowFields DEF Outbound
<1>3. /\ c.linger \in BOOLEAN /\ c.active2 \in BOOLEAN /\ c.finsent \in BOOLEAN
      /\ c.idle \in Nat
  BY <1>1 DEF Connections
<1> QED
  BY <1>1, <1>2, <1>3 DEF Good

\* One step of a handler after the other.
LEMMA GrownTwice ==
  ASSUME NEW e \in Ends, NEW read, NEW c, NEW t, NEW u,
         Good(c, e, read), Grown(c, t, e, read), Grown(t, u, e, read)
  PROVE  Grown(c, u, e, read)
<1>1. /\ Outbound(c).totRead \in Nat /\ Outbound(t).totRead \in Nat
      /\ Outbound(u).totRead \in Nat
  BY GoodFields DEF Grown
<1> QED
  BY <1>1 DEF Grown

\* A queue of one end, when it has read more.
LEMMA PiecesMore ==
  ASSUME NEW e \in Ends, NEW read \in Nat, NEW more \in Nat, read <= more
  PROVE  \A queue \in Seq(Pieces(e, read)) : queue \in Seq(Pieces(e, more))
<1>1. Pieces(e, read) \subseteq Pieces(e, more)
  BY PieceMore DEF Pieces
<1> QED
  BY <1>1

\* The header fields that the receiver supplies.
LEMMA StampIsPiece ==
  ASSUME WithinRound, NEW e \in Ends, NEW read \in 0 .. StreamLen[Other(e)],
         NEW c, Good(c, e, read), NEW seg \in Segments, NEW more, Sent(seg, e, more)
  PROVE  Stamp(c, seg) \in Pieces(e, more)
<1> DEFINE t == Stamp(c, seg)
           ackno == IF HasAckno(c.receiver) THEN Ackno(c.receiver) ELSE seg.ackno
           win == Smaller(RecvCapacity, UInt16Max)
<1>1. Other(e) \in Ends /\ Other(Other(e)) = e /\ Receiving(c.receiver, Other(e), read)
  BY PairFacts DEF Good
<1>2. /\ HasAckno(c.receiver) \in BOOLEAN
      /\ HasAckno(c.receiver) =>
           /\ Ackno(c.receiver) \in RawValues
           /\ \E q \in 1 .. StreamLen[Other(e)] + 2 : Ackno(c.receiver) = Wrap(q, Isn[Other(e)])
  BY <1>1, AcknoOfReceiver
<1>3. ackno \in RawValues
  BY <1>2, SegmentFields
<1>4. win \in Nat
  BY ConnectionAssumption DEF Smaller
<1>5. t = [seg EXCEPT !.ack = HasAckno(c.receiver), !.ackno = ackno, !.win = win]
  BY DEF Stamp
<1> DEFINE has == HasAckno(c.receiver)
<1>6. has => ackno = Ackno(c.receiver)
  OBVIOUS
<1> HIDE DEF ackno, win, t, has
<1>7. has \in BOOLEAN
  BY <1>2 DEF has
<1>8. /\ t \in Segments /\ t.seqno = seg.seqno /\ t.syn = seg.syn
      /\ t.payload = seg.payload /\ t.ack = has /\ t.ackno = ackno
  <2>1. t = [seg EXCEPT !.ack = has, !.ackno = ackno, !.win = win]
    BY <1>5 DEF has
  <2> QED
    BY <1>3, <1>4, <1>7, <2>1 DEF Segments, TCPSegments
<1>9. Piece(t, e, more)
  BY <1>8 DEF Sent, Piece
<1>10. Acknowledges(t, e)
  BY <1>2, <1>6, <1>8 DEF Acknowledges, has
<1> QED
  BY <1>8, <1>9, <1>10 DEF Pieces, t

\* fill_window_and_send.
LEMMA FillGrows ==
  ASSUME WithinRound, NEW e \in Ends, NEW read \in 0 .. StreamLen[Other(e)],
         NEW c, Good(c, e, read)
  PROVE  Grown(c, FillWindowAndSend(c), e, read)
<1> DEFINE sender == FillWindow(c.sender)
           sent == sender.segmentsOut
           more == sender.stream.totRead
           stamped == [i \in DOMAIN sent |-> Stamp(c, sent[i])]
           emptied == [sender EXCEPT !.segmentsOut = <<>>]
           idle == IF sent = <<>> THEN c.idle ELSE 0
           fin == c.finsent \/ \E i \in DOMAIN sent : sent[i].fin
           queue == c.segmentsOut \o stamped
           t == [c EXCEPT !.sender = emptied, !.segmentsOut = queue, !.idle = idle,
                          !.finsent = fin]
<1>1. /\ Sending(sender, e) /\ more >= Outbound(c).totRead /\ more \in Nat
      /\ c \in Connections(e, read) /\ Outbound(c).totRead \in Nat
      /\ c.idle \in Nat /\ c.finsent \in BOOLEAN
      /\ c.segmentsOut \in Seq(Pieces(e, Outbound(c).totRead))
      /\ Receiving(c.receiver, Other(e), read)
  <2>1. Sending(sender, e) /\ more >= Outbound(c).totRead
    BY FillSending DEF Good, Outbound
  <2>2. more \in Nat
    BY <2>1, FlowFields DEF Sending
  <2> QED
    BY <2>1, <2>2, GoodFields DEF Good
<1>2. sent \in Seq(Segments) /\ \A i \in DOMAIN sent : Sent(sent[i], e, more)
  BY <1>1, SenderFields DEF Sending, AllSent
<1>3. FillWindowAndSend(c) = t
  BY DEF FillWindowAndSend
<1>4. Sending(emptied, e) /\ emptied.stream = sender.stream
  <2> HIDE DEF sender
  <2>1. <<>> \in Seq(Segments) /\ DOMAIN <<>> = {}
    OBVIOUS
  <2>2. Sending(emptied, e)
    BY <1>1, <2>1, TakenSending
  <2>3. sender \in Senders(e)
    BY <1>1 DEF Sending
  <2> QED
    BY <2>2, <2>3 DEF Senders
<1> HIDE DEF sender, sent, emptied
<1>5. stamped \in Seq(Pieces(e, more))
  <2>1. DOMAIN sent = 1 .. Len(sent) /\ Len(sent) \in Nat
    BY <1>2, LenProperties
  <2>2. \A i \in 1 .. Len(sent) : Stamp(c, sent[i]) \in Pieces(e, more)
    <3> SUFFICES ASSUME NEW i \in 1 .. Len(sent) PROVE Stamp(c, sent[i]) \in Pieces(e, more)
      OBVIOUS
    <3>1. sent[i] \in Segments /\ Sent(sent[i], e, more)
      BY <1>2, <2>1
    <3> HIDE DEF more
    <3> QED
      BY <3>1, StampIsPiece
  <2>3. stamped = [i \in 1 .. Len(sent) |-> Stamp(c, sent[i])]
    BY <2>1
  <2> HIDE DEF stamped
  <2> QED
    BY <2>1, <2>2, <2>3
<1> HIDE DEF stamped, more
<1>6. queue \in Seq(Pieces(e, more))
  <2>1. c.segmentsOut \in Seq(Pieces(e, more))
    BY <1>1, PiecesMore
  <2> QED
    BY <1>5, <2>1, ConcatProperties
<1>7. queue \in Seq(Segments)
  BY <1>6 DEF Pieces
<1>8. idle \in Nat /\ fin \in BOOLEAN
  BY <1>1
<1>9. emptied \in Senders(e)
  BY <1>4 DEF Sending
<1> HIDE DEF queue, idle, fin
<1>10. /\ t \in Connections(e, read) /\ t.sender = emptied /\ t.receiver = c.receiver
       /\ t.segmentsOut = queue
  BY <1>1, <1>7, <1>8, <1>9 DEF Connections
<1> HIDE DEF t
<1>11. Outbound(t).totRead = more
  BY <1>4, <1>10 DEF Outbound, more
<1> QED
  BY <1>1, <1>3, <1>4, <1>6, <1>10, <1>11 DEF Good, Grown

\* A flag or the clock changes.
LEMMA SameParts ==
  ASSUME NEW e \in Ends, NEW read, NEW c, Good(c, e, read),
         NEW t \in Connections(e, read), t.sender = c.sender, t.receiver = c.receiver,
         t.segmentsOut = c.segmentsOut
  PROVE  Grown(c, t, e, read)
<1>1. Outbound(t) = Outbound(c) /\ Outbound(c).totRead \in Nat
  BY GoodFields DEF Outbound
<1> QED
  BY <1>1 DEF Good, Grown

\* The sender changes.
LEMMA OtherSender ==
  ASSUME NEW e \in Ends, NEW read, NEW c, Good(c, e, read),
         NEW s, Sending(s, e), s.stream.totRead >= Outbound(c).totRead
  PROVE  Grown(c, [c EXCEPT !.sender = s], e, read)
<1> DEFINE t == [c EXCEPT !.sender = s]
<1>1. c \in Connections(e, read) /\ s \in Senders(e) /\ Outbound(c).totRead \in Nat
  BY GoodFields DEF Sending
<1>2. s.stream.totRead \in Nat
  BY FlowFields DEF Sending
<1>3. /\ t \in Connections(e, read) /\ t.sender = s /\ t.receiver = c.receiver
      /\ t.segmentsOut = c.segmentsOut
  BY <1>1 DEF Connections
<1> HIDE DEF t
<1>4. Outbound(t).totRead = s.stream.totRead
  BY <1>3 DEF Outbound
<1>5. t.segmentsOut \in Seq(Pieces(e, Outbound(t).totRead))
  BY <1>1, <1>2, <1>3, <1>4, PiecesMore DEF Good
<1>6. Grown(c, t, e, read)
  BY <1>3, <1>4, <1>5 DEF Good, Grown
<1> QED
  BY <1>6 DEF t

\* The receiver changes.
LEMMA OtherReceiver ==
  ASSUME NEW e \in Ends, NEW read, NEW c, Good(c, e, read),
         NEW r, Receiving(r, Other(e), read)
  PROVE  /\ Grown(c, [c EXCEPT !.receiver = r], e, read)
         /\ [c EXCEPT !.receiver = r].sender = c.sender
<1> DEFINE t == [c EXCEPT !.receiver = r]
<1>1. c \in Connections(e, read) /\ r \in Receivers(read) /\ Outbound(c).totRead \in Nat
  BY GoodFields DEF Receiving
<1>2. /\ t \in Connections(e, read) /\ t.sender = c.sender /\ t.receiver = r
      /\ t.segmentsOut = c.segmentsOut
  BY <1>1 DEF Connections
<1> HIDE DEF t
<1>3. Outbound(t) = Outbound(c)
  BY <1>2 DEF Outbound
<1>4. Grown(c, t, e, read)
  BY <1>1, <1>2, <1>3 DEF Good, Grown
<1> QED
  BY <1>2, <1>4 DEF t

\* Both streams get an error.
LEMMA ErrorGrows ==
  ASSUME WithinRound, NEW e \in Ends, NEW read \in 0 .. StreamLen[Other(e)],
         NEW c, Good(c, e, read)
  PROVE  Grown(c, WithError(c), e, read)
<1> DEFINE r == [c.receiver EXCEPT !.reassembler.out = SetError(@)]
           b == SetError(Outbound(c))
           t == [c EXCEPT !.receiver = r]
           s == [t.sender EXCEPT !.stream = b]
<1>1. Receiving(r, Other(e), read)
  BY PairFacts, ErrorReceiving DEF Good
<1> HIDE DEF r
<1>2. Grown(c, t, e, read) /\ t.sender = c.sender
  BY <1>1, OtherReceiver
<1>3. Flowing(b, e) /\ b.totRead = Outbound(c).totRead
  BY EndFlows DEF Good, Sending, Outbound
<1> HIDE DEF b
<1>4. Sending(s, e) /\ s.stream.totRead = Outbound(c).totRead
  <2>1. Sending([c.sender EXCEPT !.stream = b], e)
        /\ [c.sender EXCEPT !.stream = b].stream.totRead = c.sender.stream.totRead
    BY <1>3, StreamSending DEF Good, Outbound
  <2> QED
    BY <1>2, <2>1 DEF Outbound
<1>5. WithError(c) = [t EXCEPT !.sender = s]
  BY DEF WithError, Outbound, r, b
<1> HIDE DEF s, t
<1>6. Outbound(t).totRead = Outbound(c).totRead /\ Outbound(c).totRead \in Nat
  BY <1>2, GoodFields DEF Outbound
<1>7. Grown(t, [t EXCEPT !.sender = s], e, read)
  BY <1>2, <1>4, <1>6, OtherSender DEF Grown
<1> QED
  BY <1>2, <1>5, <1>7, GrownTwice

\* sendRST before both streams get an error.
Reset(c) ==
  LET queue == SendEmptySegment(c.sender).segmentsOut
  IN  [c EXCEPT !.active2 = FALSE,
         !.sender = [SendEmptySegment(@) EXCEPT !.segmentsOut = Tail(queue)],
         !.segmentsOut = Append(@, [Head(queue) EXCEPT !.rst = TRUE])]

\* sendRST: what it marks and sends is a piece that acknowledges nothing.
LEMMA MarkGrows ==
  ASSUME WithinRound, NEW e \in Ends, NEW read \in 0 .. StreamLen[Other(e)],
         NEW c, Good(c, e, read)
  PROVE  Grown(c, Reset(c), e, read)
<1> DEFINE empty == SendEmptySegment(c.sender)
           queue == empty.segmentsOut
           s == [empty EXCEPT !.segmentsOut = Tail(queue)]
           rst == [Head(queue) EXCEPT !.rst = TRUE]
           t == [c EXCEPT !.sender = s]
           u == [c EXCEPT !.active2 = FALSE, !.sender = s, !.segmentsOut = Append(@, rst)]
<1>1. Sending(empty, e) /\ empty.stream = Outbound(c) /\ queue # <<>>
  BY EmptySending DEF Good, Outbound
<1> HIDE DEF empty
<1>2. /\ queue \in Seq(Segments) /\ \A i \in DOMAIN queue : Sent(queue[i], e, empty.stream.totRead)
      /\ empty \in Senders(e)
  BY <1>1, SenderFields DEF Sending, AllSent
<1> HIDE DEF queue
<1>3. /\ Tail(queue) \in Seq(Segments) /\ Head(queue) = queue[1] /\ 1 \in DOMAIN queue
      /\ \A i \in DOMAIN Tail(queue) : \E k \in DOMAIN queue : Tail(queue)[i] = queue[k]
  <2>1. /\ Tail(queue) \in Seq(Segments) /\ Len(Tail(queue)) = Len(queue) - 1
        /\ \A i \in 1 .. Len(Tail(queue)) : Tail(queue)[i] = queue[i + 1]
        /\ Len(queue) \in Nat \ {0}
    BY <1>1, <1>2, HeadTailProperties, EmptySeq
  <2>2. DOMAIN Tail(queue) = 1 .. Len(Tail(queue)) /\ DOMAIN queue = 1 .. Len(queue)
    BY <1>2, <2>1, LenProperties
  <2>3. ASSUME NEW i \in DOMAIN Tail(queue)
        PROVE  \E k \in DOMAIN queue : Tail(queue)[i] = queue[k]
    <3>1. i \in 1 .. Len(queue) - 1 /\ Tail(queue)[i] = queue[i + 1]
      BY <2>1, <2>2
    <3>2. i + 1 \in DOMAIN queue
      BY <2>1, <2>2, <3>1
    <3> QED
      BY <3>1, <3>2
  <2>4. Head(queue) = queue[1] /\ 1 \in DOMAIN queue
    BY <2>1, <2>2
  <2> QED
    BY <2>1, <2>3, <2>4
<1>4. Sending(s, e) /\ s.stream = Outbound(c)
  <2>1. Sending([empty EXCEPT !.segmentsOut = Tail(queue)], e)
    BY <1>1, <1>2, <1>3, TakenSending DEF queue
  <2>2. s.stream = empty.stream
    BY <1>2 DEF Senders
  <2> QED
    BY <1>1, <2>1, <2>2
<1> HIDE DEF s
<1>5. Outbound(c).totRead \in Nat /\ c \in Connections(e, read)
  BY GoodFields
<1>6. Grown(c, t, e, read) /\ Outbound(t) = Outbound(c)
  <2>1. Grown(c, t, e, read)
    BY <1>4, <1>5, OtherSender
  <2>2. t.sender = s
    BY <1>5 DEF Connections
  <2> QED
    BY <1>4, <2>1, <2>2 DEF Outbound
<1>6b. t.sender = s /\ t.receiver = c.receiver /\ t.segmentsOut = c.segmentsOut
  BY <1>5 DEF Connections
<1>7. rst \in Pieces(e, Outbound(c).totRead)
  <2>1. Head(queue) \in Segments /\ Sent(Head(queue), e, Outbound(c).totRead)
    BY <1>1, <1>2, <1>3
  <2>2. /\ rst \in Segments /\ rst.seqno = Head(queue).seqno /\ rst.syn = Head(queue).syn
        /\ rst.payload = Head(queue).payload /\ rst.ack = Head(queue).ack
    BY <2>1 DEF Segments, TCPSegments
  <2> HIDE DEF rst
  <2>3. Piece(rst, e, Outbound(c).totRead) /\ ~ rst.ack
    BY <2>1, <2>2 DEF Sent, Piece
  <2> QED
    BY <2>2, <2>3 DEF Pieces, Acknowledges
<1> HIDE DEF rst, t
<1> DEFINE more == Append(c.segmentsOut, rst)
<1>8. more \in Seq(Pieces(e, Outbound(c).totRead)) /\ more \in Seq(Segments)
  <2>1. more \in Seq(Pieces(e, Outbound(c).totRead))
    BY <1>7, AppendProperties DEF Good
  <2> HIDE DEF more
  <2> QED
    BY <2>1 DEF Pieces
<1>9. /\ u \in Connections(e, read) /\ u.sender = t.sender /\ u.receiver = t.receiver
      /\ u.segmentsOut = more
  <2>1. u = [c EXCEPT !.active2 = FALSE, !.sender = s, !.segmentsOut = more]
    OBVIOUS
  <2>2. s \in Senders(e)
    BY <1>4 DEF Sending
  <2> HIDE DEF u, more
  <2>3. /\ u \in Connections(e, read) /\ u.sender = s /\ u.receiver = c.receiver
        /\ u.segmentsOut = more
    BY <1>5, <1>8, <2>1, <2>2 DEF Connections
  <2> QED
    BY <1>6b, <2>3
<1> HIDE DEF u
<1>10. Grown(t, u, e, read)
  <2>1. Outbound(u) = Outbound(t)
    BY <1>9 DEF Outbound
  <2> QED
    BY <1>5, <1>6, <1>8, <1>9, <2>1 DEF Good, Grown
<1>11. Grown(c, u, e, read)
  BY <1>6, <1>10, GrownTwice
<1>12. Reset(c) = u
  BY DEF Reset, u, s, rst, queue, empty
<1> QED
  BY <1>11, <1>12

\* sendRST as a whole.
LEMMA ResetGrows ==
  ASSUME WithinRound, NEW e \in Ends, NEW read \in 0 .. StreamLen[Other(e)],
         NEW c, Good(c, e, read)
  PROVE  Grown(c, SendRST(c), e, read)
<1>1. Grown(c, Reset(c), e, read)
  BY MarkGrows
<1>2. Grown(Reset(c), WithError(Reset(c)), e, read)
  BY <1>1, ErrorGrows DEF Grown
<1>3. SendRST(c) = WithError(Reset(c))
  BY DEF SendRST, Reset
<1> QED
  BY <1>1, <1>2, <1>3, GrownTwice
-----------------------------------------------------------------------------
(***************************************************************************)
(* segment_received, step by step: any piece that acknowledges something   *)
(* of this end's stream leaves the endpoint in order.                      *)
(***************************************************************************)
LEMMA FlagsGrow ==
  ASSUME NEW e \in Ends, NEW read, NEW c, Good(c, e, read),
         NEW linger \in BOOLEAN, NEW active \in BOOLEAN, NEW idle \in Nat
  PROVE  /\ Grown(c, [c EXCEPT !.active2 = active], e, read)
         /\ Grown(c, [c EXCEPT !.linger = linger], e, read)
         /\ Grown(c, [c EXCEPT !.linger = linger, !.active2 = active], e, read)
         /\ Grown(c, [c EXCEPT !.idle = idle], e, read)
<1>1. c \in Connections(e, read)
  BY GoodFields
<1>2. ASSUME NEW t \in {[c EXCEPT !.active2 = active], [c EXCEPT !.linger = linger],
                        [c EXCEPT !.linger = linger, !.active2 = active],
                        [c EXCEPT !.idle = idle]}
      PROVE  Grown(c, t, e, read)
  <2>1. /\ t \in Connections(e, read) /\ t.sender = c.sender /\ t.receiver = c.receiver
        /\ t.segmentsOut = c.segmentsOut
    BY <1>1, <1>2 DEF Connections
  <2> QED
    BY <2>1, SameParts
<1> QED
  BY <1>2

\* A handler that returns early.
LEMMA StaysAsItIs ==
  ASSUME NEW e \in Ends, NEW read, NEW c, Good(c, e, read)
  PROVE  Grown(c, c, e, read)
BY GoodFields DEF Grown

\* segment_received: a FIN before the own one makes the close passive.
LEMMA NoteFinGrows ==
  ASSUME NEW e \in Ends, NEW read, NEW c, Good(c, e, read), NEW seg
  PROVE  Grown(c, NoteFin(c, seg), e, read)
BY FlagsGrow, StaysAsItIs, 0 \in Nat DEF NoteFin

\* segment_received: both directions are done.
LEMMA CloseGrows ==
  ASSUME NEW e \in Ends, NEW read, NEW c, Good(c, e, read), NEW seg
  PROVE  Grown(c, CloseIfDone(c, seg), e, read)
BY FlagsGrow, StaysAsItIs, 0 \in Nat DEF CloseIfDone

\* segment_received: the receiver takes the segment in, the sender its acknowledgment.
LEMMA AbsorbGrows ==
  ASSUME WithinRound, NEW e \in Ends, NEW read \in 0 .. StreamLen[Other(e)],
         NEW c, Good(c, e, read), NEW seg \in Pieces(Other(e), read)
  PROVE  Grown(c, Absorb(c, seg), e, read)
<1> DEFINE r == Receive(c.receiver, seg)
           s == IF seg.ack THEN AckReceived(c.sender, seg.ackno, seg.win) ELSE c.sender
           t == [c EXCEPT !.receiver = r]
<1>1. /\ Other(e) \in Ends /\ Other(Other(e)) = e /\ seg \in Segments
      /\ Piece(seg, Other(e), read) /\ Acknowledges(seg, Other(e))
  BY PairFacts DEF Pieces
<1>2. Receiving(r, Other(e), read)
  BY <1>1, ReceivePiece DEF Good
<1>3. Sending(s, e) /\ s.stream.totRead = Outbound(c).totRead
  <2>1. Sending(c.sender, e)
    BY DEF Good
  <2>2. CASE seg.ack
    <3>1. PICK q \in 1 .. StreamLen[e] + 2 : seg.ackno = Wrap(q, Isn[e])
      BY <1>1, <2>2 DEF Acknowledges
    <3>2. seg.ackno \in RawValues /\ seg.win \in Nat
      BY <1>1, SegmentFields
    <3>3. /\ Sending(AckReceived(c.sender, seg.ackno, seg.win), e)
          /\ AckReceived(c.sender, seg.ackno, seg.win).stream = c.sender.stream
      BY <2>1, <3>1, <3>2, AckSending
    <3> QED
      BY <2>2, <3>3 DEF Outbound
  <2>3. CASE ~ seg.ack
    BY <2>1, <2>3 DEF Outbound
  <2> QED
    BY <2>2, <2>3
<1>4. Absorb(c, seg) = [t EXCEPT !.sender = s]
  BY DEF Absorb
<1> HIDE DEF r, s
<1>5. Grown(c, t, e, read) /\ t.sender = c.sender
  BY <1>2, OtherReceiver
<1> HIDE DEF t
<1>6. Outbound(t).totRead = Outbound(c).totRead /\ Outbound(c).totRead \in Nat
  BY <1>5, GoodFields DEF Outbound
<1>7. Grown(t, [t EXCEPT !.sender = s], e, read)
  BY <1>3, <1>5, <1>6, OtherSender DEF Grown
<1> QED
  BY <1>4, <1>5, <1>7, GrownTwice

\* segment_received: the answer.
LEMMA RespondGrows ==
  ASSUME WithinRound, NEW e \in Ends, NEW read \in 0 .. StreamLen[Other(e)],
         NEW c, Good(c, e, read), NEW seg
  PROVE  Grown(c, Respond(c, seg), e, read)
<1> DEFINE s == SendEmptySegment(c.sender)
           t == [c EXCEPT !.sender = s]
<1>1. Grown(c, FillWindowAndSend(c), e, read)
  BY FillGrows
<1>2. Grown(c, t, e, read)
  <2>1. Sending(s, e) /\ s.stream.totRead = Outbound(c).totRead
    BY EmptySending DEF Good, Outbound
  <2>2. Outbound(c).totRead \in Nat
    BY GoodFields
  <2> HIDE DEF s
  <2> QED
    BY <2>1, <2>2, OtherSender
<1> HIDE DEF t
<1>3. Grown(t, FillWindowAndSend(t), e, read)
  BY <1>2, FillGrows DEF Grown
<1>4. Grown(c, FillWindowAndSend(t), e, read)
  BY <1>2, <1>3, GrownTwice
<1> QED
  BY <1>1, <1>4 DEF Respond, t

\* segment_received as a whole.
LEMMA SegmentGrows ==
  ASSUME WithinRound, NEW e \in Ends, NEW read \in 0 .. StreamLen[Other(e)],
         NEW c, Good(c, e, read), NEW seg \in Pieces(Other(e), read)
  PROVE  Grown(c, SegmentReceived(c, seg), e, read)
<1> DEFINE active == c.active2 /\ ~ ConfirmsPassiveClose(c, seg)
           confirmed == [c EXCEPT !.active2 = active]
           reset == [c EXCEPT !.active2 = FALSE]
           noted == NoteFin(confirmed, seg)
           absorbed == Absorb(noted, seg)
           answered == Respond(absorbed, seg)
           closed == CloseIfDone(answered, seg)
<1>1. Grown(c, c, e, read)
  BY StaysAsItIs
<1>2. Grown(c, WithError(reset), e, read)
  <2>1. Grown(c, reset, e, read)
    BY FlagsGrow, 0 \in Nat
  <2> HIDE DEF reset
  <2>2. Grown(reset, WithError(reset), e, read)
    BY <2>1, ErrorGrows DEF Grown
  <2> QED
    BY <2>1, <2>2, GrownTwice
<1>3. Grown(c, closed, e, read)
  <2>1. active \in BOOLEAN
    OBVIOUS
  <2> HIDE DEF active
  <2>2. Grown(c, confirmed, e, read)
    BY <2>1, FlagsGrow, 0 \in Nat
  <2> HIDE DEF confirmed
  <2>3. Grown(c, noted, e, read)
    BY <2>2, NoteFinGrows, GrownTwice DEF Grown
  <2> HIDE DEF noted
  <2>4. Grown(c, absorbed, e, read)
    BY <2>3, AbsorbGrows, GrownTwice DEF Grown
  <2> HIDE DEF absorbed
  <2>5. Grown(c, answered, e, read)
    BY <2>4, RespondGrows, GrownTwice DEF Grown
  <2> HIDE DEF answered
  <2> QED
    BY <2>5, CloseGrows, GrownTwice DEF Grown
<1>4. SegmentReceived(c, seg) \in {c, WithError(reset), closed}
  BY DEF SegmentReceived
<1> HIDE DEF closed, reset
<1> QED
  BY <1>1, <1>2, <1>3, <1>4
-----------------------------------------------------------------------------
(***************************************************************************)
(* What the application and the clock do.                                  *)
(***************************************************************************)
\* The application's bytes continue the stream.
LEMMA WriteGrows ==
  ASSUME WithinRound, NEW e \in Ends, NEW read \in 0 .. StreamLen[Other(e)],
         NEW c, Good(c, e, read), NEW n \in Nat,
         Outbound(c).totWrite + n <= StreamLen[e]
  PROVE  Grown(c, ConnectionWrite(c, Excerpt(Outbound(c).totWrite, n)), e, read)
<1> DEFINE b == Write(Outbound(c), Excerpt(Outbound(c).totWrite, n))
           s == [c.sender EXCEPT !.stream = b]
           t == [c EXCEPT !.sender = s]
<1>1. Flowing(b, e) /\ b.totRead = Outbound(c).totRead
  BY WriteFlows DEF Good, Sending, Outbound
<1>2. ConnectionWrite(c, Excerpt(Outbound(c).totWrite, n))
        = IF ~ Active(c) THEN c ELSE FillWindowAndSend(t)
  BY DEF ConnectionWrite, Outbound
<1> HIDE DEF b
<1>3. Sending(s, e) /\ s.stream.totRead = Outbound(c).totRead
  BY <1>1, StreamSending DEF Good, Outbound
<1> HIDE DEF s
<1>4. Grown(c, t, e, read)
  BY <1>3, GoodFields, OtherSender
<1> HIDE DEF t
<1>5. Grown(c, FillWindowAndSend(t), e, read)
  BY <1>4, FillGrows, GrownTwice DEF Grown
<1> QED
  BY <1>2, <1>5, StaysAsItIs

\* end_input_stream.
LEMMA EndGrows ==
  ASSUME WithinRound, NEW e \in Ends, NEW read \in 0 .. StreamLen[Other(e)],
         NEW c, Good(c, e, read)
  PROVE  Grown(c, EndInputStream(c), e, read)
<1> DEFINE b == EndInput(Outbound(c))
           s == [c.sender EXCEPT !.stream = b]
           t == [c EXCEPT !.sender = s]
<1>1. Flowing(b, e) /\ b.totRead = Outbound(c).totRead
  BY EndFlows DEF Good, Sending, Outbound
<1>2. EndInputStream(c) = IF ~ Active(c) THEN c ELSE FillWindowAndSend(t)
  BY DEF EndInputStream, Outbound
<1> HIDE DEF b
<1>3. Sending(s, e) /\ s.stream.totRead = Outbound(c).totRead
  BY <1>1, StreamSending DEF Good, Outbound
<1> HIDE DEF s
<1>4. Grown(c, t, e, read)
  BY <1>3, GoodFields, OtherSender
<1> HIDE DEF t
<1>5. Grown(c, FillWindowAndSend(t), e, read)
  BY <1>4, FillGrows, GrownTwice DEF Grown
<1> QED
  BY <1>2, <1>5, StaysAsItIs

\* The application reads from the inbound stream.
LEMMA ReadGrows ==
  ASSUME WithinRound, NEW e \in Ends, NEW read \in 0 .. StreamLen[Other(e)],
         NEW c, Good(c, e, read), NEW n \in 1 .. BufferSize(Inbound(c))
  PROVE  Grown(c, ConnectionRead(c, n), e, read)
<1>1. Receiving(ReadIn(c.receiver, n), Other(e), read)
  BY PairFacts, ReadReceiving DEF Good, Inbound
<1> QED
  BY <1>1, OtherReceiver DEF ConnectionRead

\* tick of the connection.
LEMMA TickGrows ==
  ASSUME WithinRound, NEW e \in Ends, NEW read \in 0 .. StreamLen[Other(e)],
         NEW c, Good(c, e, read), NEW ms \in Nat
  PROVE  Grown(c, TickConnection(c, ms), e, read)
<1> DEFINE idle == Smaller(c.idle + ms, LingerTime)
           later == [c EXCEPT !.idle = idle]
           timed == IF LingeredOut(later)
                    THEN [later EXCEPT !.linger = FALSE, !.active2 = FALSE] ELSE later
           s == TickSender(timed.sender, ms)
           ticked == [timed EXCEPT !.sender = s]
<1>1. TickConnection(c, ms) \in {c, SendRST(ticked), FillWindowAndSend(ticked)}
  BY DEF TickConnection
<1>2. Grown(c, later, e, read)
  <2>1. LingerTime \in Nat
    BY ConnectionAssumption, SenderAssumption DEF LingerTime
  <2>2. idle \in Nat
    BY <2>1, GoodFields DEF Smaller
  <2> HIDE DEF idle
  <2> QED
    BY <2>2, FlagsGrow, TRUE \in BOOLEAN
<1> HIDE DEF later
<1>3. Grown(c, timed, e, read)
  <2>1. Grown(later, [later EXCEPT !.linger = FALSE, !.active2 = FALSE], e, read)
    BY <1>2, FlagsGrow, 0 \in Nat DEF Grown
  <2>2. Grown(later, timed, e, read)
    BY <1>2, <2>1, StaysAsItIs DEF Grown
  <2> QED
    BY <1>2, <2>2, GrownTwice
<1> HIDE DEF timed
<1>4. Sending(s, e) /\ s.stream = timed.sender.stream
  <2>1. Sending(timed.sender, e)
    BY <1>3 DEF Grown, Good
  <2> DEFINE u == Elapse(timed.sender, ms)
  <2>2. Sending(u, e) /\ u.stream = timed.sender.stream
    BY <2>1, ElapseSending
  <2> HIDE DEF u
  <2>3. Sending(Retransmit(u), e) /\ Retransmit(u).stream = u.stream
    BY <2>2, RetransmitSending
  <2> QED
    BY <2>2, <2>3 DEF TickSender, u
<1> HIDE DEF s
<1>5. Grown(c, ticked, e, read)
  <2>1. s.stream.totRead >= Outbound(timed).totRead
    BY <1>3, <1>4, GoodFields DEF Grown, Outbound
  <2>2. Grown(timed, ticked, e, read)
    BY <1>3, <1>4, <2>1, OtherSender DEF Grown
  <2> QED
    BY <1>3, <2>2, GrownTwice
<1> HIDE DEF ticked
<1>6. Grown(c, SendRST(ticked), e, read)
  BY <1>5, ResetGrows, GrownTwice DEF Grown
<1>7. Grown(c, FillWindowAndSend(ticked), e, read)
  BY <1>5, FillGrows, GrownTwice DEF Grown
<1> QED
  BY <1>1, <1>6, <1>7, StaysAsItIs
-----------------------------------------------------------------------------
(***************************************************************************)
(* The two endpoints and the network between them.                         *)
(***************************************************************************)
\* The bytes that end e has read into segments.
Read(e) == Outbound(conn[e]).totRead

\* Each end is in order, and what is on its way to it is pieces of the other's stream.
IInv ==
  /\ conn = [e \in Ends |-> conn[e]] /\ net = [e \in Ends |-> net[e]]
  /\ \A e \in Ends : Good(conn[e], e, Read(Other(e)))
  /\ \A e \in Ends : net[e] \in Seq(Pieces(Other(e), Read(Other(e))))

\* An endpoint when the other has read more.
LEMMA GoodMore ==
  ASSUME WithinRound, NEW e \in Ends, NEW more \in 0 .. StreamLen[Other(e)],
         NEW read \in 0 .. more, NEW c, Good(c, e, read)
  PROVE  Good(c, e, more)
<1>1. Receiving(c.receiver, Other(e), more)
  BY PairFacts, ReceivingMore DEF Good
<1>2. c \in Connections(e, more)
  BY <1>1 DEF Good, Connections, Receiving
<1> QED
  BY <1>1, <1>2 DEF Good

\* What the invariant says of both ends.
LEMMA IInvFields ==
  ASSUME WithinRound, IInv, NEW e \in Ends
  PROVE  /\ Other(e) \in Ends /\ Other(Other(e)) = e /\ Other(e) # e
         /\ Good(conn[e], e, Read(Other(e))) /\ Good(conn[Other(e)], Other(e), Read(e))
         /\ Read(e) \in 0 .. StreamLen[e] /\ Read(Other(e)) \in 0 .. StreamLen[Other(e)]
         /\ StreamLen[e] \in Nat /\ StreamLen[Other(e)] \in Nat
         /\ net[e] \in Seq(Pieces(Other(e), Read(Other(e))))
         /\ net[Other(e)] \in Seq(Pieces(e, Read(e)))
<1>1. Other(e) \in Ends /\ Other(Other(e)) = e /\ Other(e) # e
  BY PairFacts
<1>2. Good(conn[e], e, Read(Other(e))) /\ Good(conn[Other(e)], Other(e), Read(e))
  BY <1>1 DEF IInv
<1>3. /\ net[e] \in Seq(Pieces(Other(e), Read(Other(e))))
      /\ net[Other(e)] \in Seq(Pieces(e, Read(e)))
  BY <1>1 DEF IInv
<1>4. /\ Read(e) \in 0 .. StreamLen[e] /\ Read(Other(e)) \in 0 .. StreamLen[Other(e)]
      /\ StreamLen[e] \in Nat /\ StreamLen[Other(e)] \in Nat
  BY <1>1, <1>2, GoodFields DEF Read
<1> QED
  BY <1>1, <1>2, <1>3, <1>4

\* A step of one end, which takes rest for what was on its way to it.
LEMMA BecomeStep ==
  ASSUME WithinRound, IInv, NEW e \in Ends, NEW c, Grown(conn[e], c, e, Read(Other(e))),
         NEW rest \in Seq(Pieces(Other(e), Read(Other(e)))), Become(e, c, rest)
  PROVE  IInv'
<1> DEFINE o == Other(e)
           t == [c EXCEPT !.segmentsOut = <<>>]
           more == Outbound(c).totRead
<1>1. /\ o \in Ends /\ Other(o) = e /\ o # e
      /\ Good(conn[o], o, Read(e)) /\ Read(e) \in 0 .. StreamLen[e]
      /\ Read(o) \in 0 .. StreamLen[o] /\ StreamLen[e] \in Nat
      /\ net[o] \in Seq(Pieces(e, Read(e)))
  BY IInvFields
<1>2. /\ Good(c, e, Read(o)) /\ more >= Read(e) /\ more \in 0 .. StreamLen[e]
      /\ c.segmentsOut \in Seq(Pieces(e, more)) /\ c \in Connections(e, Read(o))
  BY GoodFields DEF Grown, Good, Read
<1>3. /\ conn' = [conn EXCEPT ![e] = t]
      /\ net' = [net EXCEPT ![e] = rest, ![o] = net[o] \o c.segmentsOut]
  BY <1>1 DEF Become
<1>4. /\ t \in Connections(e, Read(o)) /\ t.sender = c.sender /\ t.receiver = c.receiver
      /\ t.segmentsOut = <<>>
  <2>1. <<>> \in Seq(Segments)
    BY EmptySeq
  <2> QED
    BY <1>2, <2>1 DEF Connections
<1> HIDE DEF t, o, more
<1>5. Outbound(t).totRead = more
  BY <1>4 DEF Outbound, more
<1>6. Good(t, e, Read(o))
  <2>1. <<>> \in Seq(Pieces(e, more))
    BY EmptySeq
  <2> QED
    BY <1>2, <1>4, <1>5, <2>1 DEF Good, o
<1>7. /\ conn' = [f \in Ends |-> conn'[f]] /\ net' = [f \in Ends |-> net'[f]]
      /\ conn'[e] = t /\ conn'[o] = conn[o]
      /\ net'[e] = rest /\ net'[o] = net[o] \o c.segmentsOut
  <2>1. conn = [f \in Ends |-> conn[f]] /\ net = [f \in Ends |-> net[f]]
    BY DEF IInv
  <2> QED
    BY <1>1, <1>3, <2>1
<1>8. Read(e)' = more /\ Read(o)' = Read(o)
  BY <1>5, <1>7 DEF Read
<1>9. Good(conn[o], o, more)
  <2>1. Read(e) \in 0 .. more
    BY <1>1, <1>2
  <2> QED
    BY <1>1, <1>2, <2>1, GoodMore
<1>10. net[o] \o c.segmentsOut \in Seq(Pieces(e, more))
  <2>1. Read(e) \in Nat /\ more \in Nat /\ Read(e) <= more
    BY <1>1, <1>2
  <2>2. net[o] \in Seq(Pieces(e, more))
    BY <1>1, <2>1, PiecesMore
  <2> QED
    BY <1>2, <2>2, ConcatProperties
<1>11. Ends = {e, o}
  BY <1>1 DEF Ends, Other, o
<1>12. \A f \in Ends : Good(conn'[f], f, Read(Other(f))')
  BY <1>1, <1>6, <1>7, <1>8, <1>9, <1>11 DEF o
<1>13. \A f \in Ends : net'[f] \in Seq(Pieces(Other(f), Read(Other(f))'))
  BY <1>1, <1>7, <1>8, <1>10, <1>11 DEF o
<1> QED
  BY <1>7, <1>12, <1>13 DEF IInv

\* Two connections before their first segment.
LEMMA InitIInv == ASSUME WithinRound, Init PROVE IInv
<1>1. ASSUME NEW e \in Ends
      PROVE  /\ Good(NewConnection(Isn[e]), e, 0)
             /\ Outbound(NewConnection(Isn[e])).totRead = 0
  <2> DEFINE c == NewConnection(Isn[e])
             s == NewSender(Isn[e], SendCapacity)
             r == NewReceiver(RecvCapacity)
  <2>1. Sending(s, e) /\ s.stream.totRead = 0
    BY NewSending
  <2>2. Receiving(r, Other(e), 0)
    BY PairFacts, NewReceiving
  <2>3. c = [sender |-> s, receiver |-> r, linger |-> TRUE, active2 |-> TRUE,
             finsent |-> FALSE, idle |-> 0, segmentsOut |-> <<>>]
    BY DEF NewConnection
  <2> HIDE DEF s, r, c
  <2>4. <<>> \in Seq(Segments) /\ <<>> \in Seq(Pieces(e, 0))
    BY EmptySeq
  <2>5. s \in Senders(e) /\ r \in Receivers(0)
    BY <2>1, <2>2 DEF Sending, Receiving
  <2>6. /\ c \in Connections(e, 0) /\ c.sender = s /\ c.receiver = r
        /\ c.segmentsOut = <<>>
    BY <2>3, <2>4, <2>5 DEF Connections
  <2>7. Good(c, e, 0) /\ Outbound(c).totRead = 0
    BY <2>1, <2>2, <2>4, <2>6 DEF Good, Outbound
  <2> QED
    BY <2>7 DEF c
<1>2. /\ conn = [e \in Ends |-> NewConnection(Isn[e])] /\ net = [e \in Ends |-> <<>>]
  BY DEF Init
<1>3. \A e \in Ends : conn[e] = NewConnection(Isn[e]) /\ Read(e) = 0 /\ Other(e) \in Ends
  BY <1>1, <1>2, PairFacts DEF Read
<1>4. \A e \in Ends : Good(conn[e], e, Read(Other(e)))
  BY <1>1, <1>3
<1>5. \A e \in Ends : net[e] \in Seq(Pieces(Other(e), Read(Other(e))))
  BY <1>2, EmptySeq
<1> QED
  BY <1>2, <1>4, <1>5 DEF IInv

\* What is left of a queue when a segment has been taken from it.
LEMMA WithoutIsSeq ==
  ASSUME NEW S, NEW queue \in Seq(S), NEW i \in 1 .. Len(queue)
  PROVE  Without(queue, i) \in Seq(S) /\ queue[i] \in S
<1>1. Len(queue) \in Nat /\ \A k \in 1 .. Len(queue) : queue[k] \in S
  BY LenProperties, ElementOfSeq
<1>2. /\ 1 \in Int /\ i - 1 \in Int /\ i + 1 \in Int /\ Len(queue) \in Int
      /\ \A k \in 1 .. i - 1 : queue[k] \in S
      /\ \A k \in i + 1 .. Len(queue) : queue[k] \in S
  BY <1>1
<1>3. SubSeq(queue, 1, i - 1) \in Seq(S) /\ SubSeq(queue, i + 1, Len(queue)) \in Seq(S)
  BY <1>2, SubSeqProperties
<1> QED
  BY <1>1, <1>3, ConcatProperties DEF Without

\* A segment is delivered, in turn or not, for the first time or again.
LEMMA NetworkStep ==
  ASSUME WithinRound, IInv, NEW e \in Ends, Network(e)
  PROVE  IInv'
<1> DEFINE S == Pieces(Other(e), Read(Other(e)))
<1>1. /\ Good(conn[e], e, Read(Other(e))) /\ Read(Other(e)) \in 0 .. StreamLen[Other(e)]
      /\ net[e] \in Seq(S)
  BY IInvFields
<1>2. ASSUME NEW seg \in S, NEW rest \in Seq(S),
             Become(e, SegmentReceived(conn[e], seg), rest)
      PROVE  IInv'
  <2>1. Grown(conn[e], SegmentReceived(conn[e], seg), e, Read(Other(e)))
    BY <1>1, <1>2, SegmentGrows
  <2> QED
    BY <1>2, <2>1, BecomeStep
<1>3. CASE Deliver(e)
  <2>1. net[e] # <<>> /\ Become(e, SegmentReceived(conn[e], Head(net[e])), Tail(net[e]))
    BY <1>3 DEF Deliver
  <2>2. Head(net[e]) \in S /\ Tail(net[e]) \in Seq(S)
    BY <1>1, <2>1, HeadTailProperties
  <2> HIDE DEF S
  <2> QED
    BY <1>2, <2>1, <2>2
<1>4. CASE Overtake(e)
  <2>1. PICK i \in 2 .. Len(net[e]) :
          Become(e, SegmentReceived(conn[e], net[e][i]), Without(net[e], i))
    BY <1>4 DEF Overtake
  <2>2. net[e][i] \in S /\ Without(net[e], i) \in Seq(S)
    BY <1>1, <2>1, WithoutIsSeq
  <2> HIDE DEF S
  <2> QED
    BY <1>2, <2>1, <2>2
<1>5. CASE Repeat(e)
  <2>1. PICK i \in 1 .. Len(net[e]) :
          Become(e, SegmentReceived(conn[e], net[e][i]), net[e])
    BY <1>5 DEF Repeat
  <2>2. net[e][i] \in S
    BY <1>1, <2>1, WithoutIsSeq
  <2> HIDE DEF S
  <2> QED
    BY <1>1, <1>2, <2>1, <2>2
<1>6. CASE Lose(e)
  <2>1. PICK i \in 1 .. Len(net[e]) :
          net' = [net EXCEPT ![e] = Without(net[e], i)] /\ conn' = conn
    BY <1>6 DEF Lose
  <2>2. Without(net[e], i) \in Seq(S)
    BY <1>1, <2>1, WithoutIsSeq
  <2>3. net = [f \in Ends |-> net[f]]
    BY DEF IInv
  <2> DEFINE rest == Without(net[e], i)
  <2> HIDE DEF rest
  <2>4. net' = [net EXCEPT ![e] = rest] /\ rest \in Seq(S)
    BY <2>1, <2>2 DEF rest
  <2>5. /\ net' = [f \in Ends |-> net'[f]]
        /\ \A f \in Ends : net'[f] = IF f = e THEN rest ELSE net[f]
    BY <2>3, <2>4
  <2>6. \A f \in Ends : net'[f] \in Seq(Pieces(Other(f), Read(Other(f))))
    BY <2>4, <2>5 DEF IInv
  <2> QED
    BY <2>1, <2>5, <2>6 DEF IInv, Read
<1> QED
  BY <1>3, <1>4, <1>5, <1>6 DEF Network

\* The application and the clock of one end.
LEMMA LocalStep ==
  ASSUME WithinRound, IInv, NEW e \in Ends, App(e) \/ Tick(e)
  PROVE  IInv'
<1> DEFINE c == conn[e]
<1>1. /\ Good(c, e, Read(Other(e))) /\ Read(Other(e)) \in 0 .. StreamLen[Other(e)]
      /\ net[e] \in Seq(Pieces(Other(e), Read(Other(e)))) /\ StreamLen[e] \in Nat
  BY IInvFields
<1>2. CASE AppConnect(e)
  <2>1. Become(e, Connect(c), net[e])
    BY <1>2 DEF AppConnect
  <2>2. Grown(c, Connect(c), e, Read(Other(e)))
    BY <1>1, FillGrows DEF Connect
  <2> QED
    BY <1>1, <2>1, <2>2, BecomeStep
<1>3. CASE AppWrite(e)
  <2> DEFINE n == Left(e)
  <2>1. n > 0 /\ Become(e, ConnectionWrite(c, Unwritten(e)), net[e])
    BY <1>3 DEF AppWrite, CanWrite
  <2>2. Outbound(c).totWrite \in Nat
    BY <1>1, FlowFields DEF Good, Sending, Outbound
  <2>3. n \in Nat /\ Outbound(c).totWrite + n <= StreamLen[e]
    BY <1>1, <2>1, <2>2 DEF Left
  <2>4. Unwritten(e) = Excerpt(Outbound(c).totWrite, n)
    BY DEF Unwritten, Excerpt
  <2> HIDE DEF n
  <2>5. Grown(c, ConnectionWrite(c, Unwritten(e)), e, Read(Other(e)))
    BY <1>1, <2>3, <2>4, WriteGrows
  <2> QED
    BY <1>1, <2>1, <2>5, BecomeStep
<1>4. CASE AppEnd(e)
  <2>1. Become(e, EndInputStream(c), net[e])
    BY <1>4 DEF AppEnd
  <2>2. Grown(c, EndInputStream(c), e, Read(Other(e)))
    BY <1>1, EndGrows
  <2> QED
    BY <1>1, <2>1, <2>2, BecomeStep
<1>5. CASE AppRead(e)
  <2> DEFINE t == ConnectionRead(c, BufferSize(Inbound(c)))
  <2>1. /\ BufferSize(Inbound(c)) > 0 /\ conn' = [conn EXCEPT ![e] = t] /\ net' = net
    BY <1>5 DEF AppRead, CanRead
  <2>2. BufferSize(Inbound(c)) \in 1 .. BufferSize(Inbound(c))
    <3>1. Inbound(c) \in Streams(RecvCapacity)
      BY <1>1 DEF Good, Receiving, Receivers, Reassemblers, Inbound, StreamIn
    <3>2. Inbound(c).cap \in Int /\ Inbound(c).rem \in Int
      BY <3>1, ConnectionAssumption DEF Streams
    <3> QED
      BY <2>1, <3>2 DEF BufferSize
  <2>3. Grown(c, t, e, Read(Other(e)))
    BY <1>1, <2>2, ReadGrows
  <2>4. Outbound(t) = Outbound(c)
    <3>1. c \in Connections(e, Read(Other(e)))
      BY <1>1, GoodFields
    <3> QED
      BY <3>1 DEF ConnectionRead, Connections, Outbound
  <2> HIDE DEF t
  <2>5. conn = [f \in Ends |-> conn[f]]
    BY DEF IInv
  <2>6. /\ conn' = [f \in Ends |-> conn'[f]]
        /\ \A f \in Ends : conn'[f] = IF f = e THEN t ELSE conn[f]
    BY <2>1, <2>5
  <2>7. \A f \in Ends : Read(f)' = Read(f)
    BY <2>4, <2>6 DEF Read
  <2>8. \A f \in Ends : Good(conn'[f], f, Read(Other(f)))
    BY <2>3, <2>6 DEF IInv, Grown
  <2> QED
    BY <2>1, <2>6, <2>7, <2>8, PairFacts DEF IInv
<1>6. CASE Tick(e)
  <2>1. Become(e, TickConnection(c, 1), net[e])
    BY <1>6 DEF Tick
  <2>2. Grown(c, TickConnection(c, 1), e, Read(Other(e)))
    BY <1>1, TickGrows
  <2> QED
    BY <1>1, <2>1, <2>2, BecomeStep
<1> QED
  BY <1>2, <1>3, <1>4, <1>5, <1>6 DEF App

\* Every step of an end, of an application, of a clock and of the network.
LEMMA NextKeepsIInv == ASSUME WithinRound PROVE IInv /\ [Next]_vars => IInv'
<1> SUFFICES ASSUME IInv, [Next]_vars PROVE IInv'
  OBVIOUS
<1>1. CASE Next
  BY <1>1, NetworkStep, LocalStep DEF Next
<1>2. CASE UNCHANGED vars
  BY <1>2 DEF vars, IInv, Read
<1> QED
  BY <1>1, <1>2

\* What an end has received is in its place, and no more than the other has sent.
LEMMA IInvIntact == ASSUME WithinRound, IInv PROVE StreamsIntact
<1> SUFFICES ASSUME NEW e \in Ends
             PROVE  LET in == Inbound(conn[e])
                    IN  /\ in.buf = [k \in 1 .. BufferSize(in) |-> in.totRead + k - 1]
                        /\ in.totWrite <= Outbound(conn[Other(e)]).totRead
  BY DEF StreamsIntact
<1> DEFINE r == conn[e].receiver.reassembler
           read == Read(Other(e))
           cap == RecvCapacity
<1>1. Receiving(conn[e].receiver, Other(e), read) /\ read \in Nat
  BY IInvFields DEF Good
<1>2. PICK x : Alike(r, x) /\ Sound(x, cap, read, FALSE)
  BY <1>1 DEF Receiving, Holds
<1>3. r \in Reassemblers(cap, read) /\ Inbound(conn[e]) = r.out
  BY <1>1 DEF Receiving, Receivers, Inbound, StreamIn
<1> HIDE DEF r, read
<1>4. /\ x \in Reassemblers(cap, read) /\ x.out.totWrite = x.unasb
      /\ x.unasb = x.out.totRead + (cap - x.out.rem)
      /\ x.out.buf = Excerpt(x.out.totRead, x.unasb - x.out.totRead)
      /\ cap \in Nat
  BY <1>2 DEF Sound, Bounds
<1>5. /\ x.unasb \in 0 .. read /\ x.out \in Streams(cap)
      /\ r.out \in Streams(cap)
  BY <1>3, <1>4 DEF Reassemblers
<1>6. /\ r.out.cap = cap /\ r.out.rem = x.out.rem /\ r.out.buf = x.out.buf
      /\ r.out.totRead = x.out.totRead /\ r.out.totWrite = x.out.totWrite
      /\ x.out.rem \in Nat /\ x.out.totRead \in Nat
  BY <1>2, <1>5 DEF Alike, Streams
<1>7. x.unasb - x.out.totRead = BufferSize(r.out)
  BY <1>4, <1>5, <1>6 DEF BufferSize
<1>8. r.out.buf = [k \in 1 .. BufferSize(r.out) |-> r.out.totRead + k - 1]
  BY <1>4, <1>6, <1>7 DEF Excerpt
<1>9. r.out.totWrite <= read
  BY <1>1, <1>4, <1>5, <1>6
<1> QED
  BY <1>3, <1>8, <1>9 DEF Read, read

\* What an application reads is a prefix of what the other has written, and the
\* connection has no more of it than the other's sender has read: segment_received,
\* fill_window and tick of both ends, whatever the network loses, repeats and
\* overtakes.
THEOREM StreamsIntactHolds == ASSUME WithinRound PROVE Spec => []StreamsIntact
<1>1. Init => IInv
  BY InitIInv
<1>2. IInv /\ [Next]_vars => IInv'
  BY NextKeepsIInv
<1>3. IInv => StreamsIntact
  BY IInvIntact
<1> QED
  BY <1>1, <1>2, <1>3, PTL DEF Spec
-----------------------------------------------------------------------------
(***************************************************************************)
(* The end of a stream: a FIN that is acknowledged has been counted.       *)
(* First, what a sequence number is taken for, wherever the receiver's     *)
(* checkpoint is.                                                          *)
(***************************************************************************)
\* Streams that are neither empty nor longer than about a quarter of a round: the
\* checkpoint is never far enough from a stream to take a number for one a round
\* below.  The FIN of an empty stream can be misplaced and acknowledged nevertheless,
\* for a receiver that has lost its place acknowledges it as one that has not.
Modest ==
  /\ WithinRound
  /\ \A e \in Ends : StreamLen[e] >= 1 /\ 4 * (StreamLen[e] + 3) <= Round

\* What that gives for one end.
LEMMA ModestFacts ==
  ASSUME Modest, NEW e \in Ends
  PROVE  /\ WithinRound /\ Word % Round = 0 /\ Other(e) \in Ends /\ Other(Other(e)) = e
         /\ Isn[e] \in RawValues /\ Isn[e] \in 0 .. Round - 1
         /\ StreamLen[e] \in Nat /\ StreamLen[e] >= 1
         /\ 4 * (StreamLen[e] + 3) <= Round /\ Round \in Nat \ {0, 1}
         /\ Word \in Nat /\ Word >= 4 * Round /\ RecvCapacity \in Nat
         /\ StreamLen[e] + RecvCapacity <= Round
<1>1. WithinRound /\ StreamLen[e] >= 1 /\ 4 * (StreamLen[e] + 3) <= Round
  BY DEF Modest
<1> QED
  BY <1>1, PairFacts DEF WithinRound, RawValues

\* A position and the one a round above it have the same number.
LEMMA RoundUp ==
  ASSUME NEW isn \in RawValues, NEW x \in Int
  PROVE  /\ Wrap(x + Round, isn) = Wrap(x, isn)
         /\ Wrap(x - Round, isn) = Wrap(x, isn)
<1>1. Round \in Nat \ {0} /\ Wrap(x, isn) \in RawValues
  BY WidthAssumption, WrapRounds
<1> DEFINE n == Wrap(x, isn)
<1>2. /\ x + Round \in Int /\ x - Round \in Int /\ n \in Int
      /\ (x + Round) - x = n - n + Round /\ (x - Round) - x = n - n - Round
  BY <1>1 DEF RawValues
<1> HIDE DEF n
<1>3. Wrap(x + Round, isn) = n
  BY ONLY <1>1, <1>2, WrapShift, x \in Int, isn \in RawValues DEF n
<1>4. Wrap(x - Round, isn) = n
  BY ONLY <1>1, <1>2, WrapShift, x \in Int, isn \in RawValues DEF n
<1> QED
  BY <1>3, <1>4 DEF n

\* The numbers of two positions of a stream differ.
LEMMA SameNumber ==
  ASSUME NEW isn \in RawValues, NEW p \in RawValues, NEW q \in RawValues,
         Wrap(p, isn) = Wrap(q, isn)
  PROVE  p = q
<1>1. p \in Nat /\ q \in Nat /\ p < Round /\ q < Round /\ Round \in Nat
  BY WidthAssumption DEF RawValues
<1> QED
  BY <1>1, SamePlace

\* A number is looked for from a checkpoint in the first round or just above it, and
\* from one that has been put into the second: it is put where the checkpoint is.
LEMMA NearPlace ==
  ASSUME Modest, NEW e \in Ends, NEW p \in 1 .. StreamLen[e] + 2,
         NEW cp \in 0 .. Round + StreamLen[e] + 1
  PROVE  LET u == Unwrap(Wrap(p, Isn[e]), Isn[e], cp)
         IN  /\ u = p \/ u = p + Round
             /\ cp <= StreamLen[e] + 1 => u = p
             /\ cp >= Round => u = p + Round
<1> DEFINE isn == Isn[e]
           n == Wrap(p, isn)
           u == Unwrap(n, isn, cp)
           len == StreamLen[e]
<1>0. /\ isn \in RawValues /\ len \in Nat /\ 4 * (len + 3) <= Round
      /\ Round \in Nat \ {0, 1} /\ Word \in Nat /\ Word >= 4 * Round
      /\ p \in Nat /\ p >= 1 /\ p <= len + 2 /\ cp \in Nat /\ cp <= Round + len + 1
  BY ModestFacts
<1>1. n \in RawValues /\ p + Round \in Nat /\ Wrap(p + Round, isn) = n
  <2>1. p \in Int /\ p + Round \in Nat
    BY <1>0
  <2> HIDE DEF isn
  <2> QED
    BY ONLY <1>0, <2>1, WrapRounds, RoundUp DEF n
<1>2. cp + 2 * Round <= Word /\ p \in RawValues
  BY <1>0 DEF RawValues
<1> HIDE DEF isn, n, len
<1>3. /\ u \in SizeTs /\ Wrap(u, isn) = n
      /\ \A v \in Nat : Wrap(v, isn) = n => Distance(u, cp) <= Distance(v, cp)
  BY <1>0, <1>1, <1>2, UnwrapNearest
<1> HIDE DEF u
<1>4. u \in Nat
  BY <1>0, <1>3 DEF SizeTs
<1>5. u = p \/ u >= p + Round
  BY <1>0, <1>2, <1>3, <1>4, SamePlace DEF n
<1>6. u = p \/ u = p + Round \/ u >= p + 2 * Round
  <2>1. CASE u >= p + Round
    <3>1. u - Round \in Nat /\ Wrap(u - Round, isn) = Wrap(p, isn)
      BY <1>0, <1>3, <1>4, <2>1, RoundUp DEF n
    <3>2. u - Round = p \/ u - Round >= p + Round
      BY <1>0, <1>2, <3>1, SamePlace
    <3> QED
      BY <1>0, <1>4, <3>2
  <2> QED
    BY <1>5, <2>1
<1>7. Distance(u, cp) <= Distance(p, cp) /\ Distance(u, cp) <= Distance(p + Round, cp)
  BY <1>0, <1>1, <1>3 DEF n
<1>8. /\ u = p \/ u = p + Round
      /\ cp <= len + 1 => u = p
      /\ cp >= Round => u = p + Round
  BY <1>0, <1>4, <1>6, <1>7 DEF Distance
<1> QED
  BY <1>8 DEF u, n, isn, len

\* A wide number holds whole rounds.
LEMMA WholeRounds ==
  ASSUME Word % Round = 0
  PROVE  \E m \in Int : Word = m * Round
<1>1. Word \in Nat /\ Round \in Nat \ {0}
  BY WidthAssumption
<1>2. Word = (Word \div Round) * Round + (Word % Round) /\ Word \div Round \in Int
  BY ONLY <1>1, DivMod
<1>3. (Word \div Round) * Round \in Int
  BY ONLY <1>1, <1>2, Multiples
<1>4. Word = (Word \div Round) * Round
  BY ONLY <1>2, <1>3, Word % Round = 0
<1> QED
  BY ONLY <1>2, <1>4

\* Two positions that are 2^64 apart have the same number.
LEMMA WordUp ==
  ASSUME Word % Round = 0, NEW isn \in RawValues, NEW x \in Int
  PROVE  Wrap(x + Word, isn) = Wrap(x, isn)
<1> DEFINE a == Wrap(x, isn)
           b == Wrap(x + Word, isn)
<1>1. Round \in Nat \ {0} /\ Word \in Nat /\ x + Word \in Int
  BY WidthAssumption
<1>2. PICK m \in Int : Word = m * Round
  BY WholeRounds
<1>3. a \in 0 .. Round - 1 /\ b \in 0 .. Round - 1
  BY ONLY <1>1, x \in Int, isn \in RawValues, WrapRounds DEF RawValues
<1>4. PICK j \in Int : (x + Word) - x = j * Round + (b - a)
  BY ONLY <1>1, x \in Int, isn \in RawValues, WrapDistance
<1> HIDE DEF a, b
<1>5. (m - j) * Round = m * Round - j * Round /\ m - j \in Int
  BY ONLY <1>1, SMTT(20)
<1>6. j * Round \in Int /\ m * Round \in Int
  BY ONLY <1>1, Multiples
<1>7. (m - j) * Round = b - a
  BY ONLY <1>1, <1>2, <1>3, <1>4, <1>5, <1>6, x \in Int
<1> DEFINE q == m - j
<1>8. q \in Int /\ q * Round < Round /\ q * Round > -Round
  BY ONLY <1>1, <1>3, <1>5, <1>7
<1> HIDE DEF q
<1>9. q = 0
  BY ONLY <1>1, <1>8, SmallMultiple
<1>10. 0 * Round = 0
  BY <1>1
<1>11. b = a
  BY ONLY <1>1, <1>3, <1>7, <1>9, <1>10 DEF q
<1> QED
  BY <1>11 DEF a, b

\* From a checkpoint just below the largest number the way up goes past zero.
LEMMA TopPlace ==
  ASSUME Modest, NEW e \in Ends, NEW p \in 1 .. StreamLen[e] + 2,
         NEW cp \in Word - StreamLen[e] - 2 .. Word - 1
  PROVE  Unwrap(Wrap(p, Isn[e]), Isn[e], cp) = p
<1> DEFINE isn == Isn[e]
           n == Wrap(p, isn)
           w == Wrap(cp, isn)
           d == p + Word - cp
           len == StreamLen[e]
<1>0. /\ isn \in RawValues /\ len \in Nat /\ 4 * (len + 3) <= Round
      /\ Round \in Nat \ {0, 1} /\ Word \in Nat /\ Word >= 4 * Round
      /\ p \in Nat /\ p >= 1 /\ p <= len + 2 /\ cp \in Int
      /\ cp >= Word - len - 2 /\ cp <= Word - 1 /\ Word % Round = 0
  BY ModestFacts
<1>1. d \in Nat /\ d >= 1 /\ 2 * d < Round /\ cp + d - Word = p
  BY <1>0
<1> HIDE DEF isn, n, w, d, len
<1>2. PICK k \in Int : p + Word - cp = k * Round + (Wrap(p + Word, isn) - w)
  <2>1. p + Word \in Int
    BY <1>0
  <2> QED
    BY <1>0, <2>1, WrapDistance DEF w
<1>3. n \in 0 .. Round - 1 /\ w \in 0 .. Round - 1
  BY <1>0, WrapRounds DEF n, w, RawValues
<1>4. Wrap(p + Word, isn) = n
  BY <1>0, WordUp DEF n
<1>5. Forward(n, w) = d
  <2>1. Forward(n, w) \in 0 .. Round - 1 /\ (Forward(n, w) = n - w \/ Forward(n, w) = n - w + Round)
    BY <1>0, <1>3 DEF Forward
  <2>2. \E j \in Int : Forward(n, w) - d = j * Round
    <3>1. (0 - k) * Round = 0 - k * Round /\ (1 - k) * Round = Round - k * Round
          /\ k * Round \in Int
      BY ONLY <1>0, SMTT(20)
    <3>2. d = k * Round + (n - w)
      BY <1>2, <1>4 DEF d
    <3>3. \/ Forward(n, w) - d = (0 - k) * Round
          \/ Forward(n, w) - d = (1 - k) * Round
      BY ONLY <1>0, <1>1, <1>3, <2>1, <3>1, <3>2
    <3>4. 0 - k \in Int /\ 1 - k \in Int
      OBVIOUS
    <3> QED
      BY ONLY <3>3, <3>4
  <2>3. PICK j \in Int : Forward(n, w) - d = j * Round
    BY <2>2
  <2>4. j * Round < Round /\ j * Round > -Round
    BY ONLY <1>0, <1>1, <2>1, <2>3
  <2>5. j = 0
    BY ONLY <1>0, <2>4, SmallMultiple
  <2>6. 0 * Round = 0
    BY <1>0
  <2> QED
    BY ONLY <1>0, <1>1, <2>1, <2>3, <2>5, <2>6
<1>6. ForwardIsNearer(n, w)
  BY <1>0, <1>1, <1>5 DEF ForwardIsNearer, Back
<1>7. SizeT(cp + d) = p
  BY <1>0, <1>1 DEF SizeT
<1> QED
  BY <1>5, <1>6, <1>7 DEF Unwrap, n, w, isn

\* Where the checkpoint may be while the receiver waits for the SYN and takes every
\* number for the position of a stream that starts at 0: at the last of them, less one,
\* maybe a round below or below zero.
Early(cp, e) ==
  \/ cp = 0
  \/ \E p \in 1 .. StreamLen[e] + 2 :
       \/ cp + 1 = Isn[e] + p
       \/ cp + 1 = Isn[e] + p - Round
       \/ /\ cp + 1 = Isn[e] + p - Round + Word
          /\ Isn[e] + StreamLen[e] + 2 >= Round

\* A number, taken for the position of a stream that starts at 0.
LEMMA FromZero ==
  ASSUME Modest, NEW e \in Ends, NEW p \in 1 .. StreamLen[e] + 2
  PROVE  /\ Wrap(p, Isn[e]) = IF Isn[e] + p < Round THEN Isn[e] + p ELSE Isn[e] + p - Round
         /\ Wrap(Isn[e] + p, 0) = Wrap(p, Isn[e])
         /\ Wrap(Isn[e] + p - Round, 0) = Wrap(p, Isn[e])
         /\ Isn[e] + p < 2 * Round
<1> DEFINE i == Isn[e]
<1>0. /\ i \in 0 .. Round - 1 /\ StreamLen[e] \in Nat /\ 4 * (StreamLen[e] + 3) <= Round
      /\ Round \in Nat \ {0} /\ p \in 0 .. Round - 1 /\ p \in Int /\ i \in Int /\ i + p \in Int
      /\ 0 \in RawValues
  BY ModestFacts DEF RawValues
<1> HIDE DEF i
<1>1. p % Round = p
  BY <1>0
<1>2. Wrap(p, i) = IF i + p < Round THEN i + p ELSE i + p - Round
  <2>1. (p + i) % Round = IF p + i < Round THEN p + i ELSE p + i - Round
    BY ONLY <1>0, ModSum
  <2>2. Wrap(p, i) = (p + i) % Round
    BY ONLY <1>1 DEF Wrap
  <2> QED
    BY ONLY <1>0, <2>1, <2>2
<1>3. (i + p) % Round = IF i + p < Round THEN i + p ELSE i + p - Round
  BY ONLY <1>0, ModSum
<1>4. Wrap(i + p, 0) = Wrap(p, i)
  <2> DEFINE c == (i + p) % Round
  <2>1. c \in 0 .. Round - 1
    BY <1>0, <1>3
  <2> HIDE DEF c
  <2>2. (c + 0) % Round = c
    BY <1>0, <2>1
  <2> QED
    BY <1>2, <1>3, <2>2 DEF c, Wrap
<1>5. Wrap(i + p - Round, 0) = Wrap(i + p, 0)
  BY <1>0, RoundUp
<1>6. i + p < 2 * Round
  BY <1>0
<1> QED
  BY <1>2, <1>4, <1>5, <1>6 DEF i

\* What comes before the SYN leaves it so.
LEMMA EarlyPlace ==
  ASSUME Modest, NEW e \in Ends, NEW p \in 1 .. StreamLen[e] + 2,
         NEW cp \in SizeTs, Early(cp, e)
  PROVE  Early(SizeT(Unwrap(Wrap(p, Isn[e]), 0, cp) - 1), e)
<1> DEFINE i == Isn[e]
           n == Wrap(p, i)
           u == Unwrap(n, 0, cp)
           len == StreamLen[e]
<1>0. /\ i \in 0 .. Round - 1 /\ len \in Nat /\ 4 * (len + 3) <= Round
      /\ Round \in Nat \ {0, 1} /\ Word \in Nat /\ Word >= 4 * Round
      /\ p \in 1 .. len + 2 /\ cp \in 0 .. Word - 1 /\ Word % Round = 0
      /\ 0 \in RawValues /\ i + p \in Int /\ i + p >= 1
  BY ModestFacts DEF SizeTs, RawValues
<1>1. /\ n = IF i + p < Round THEN i + p ELSE i + p - Round
      /\ Wrap(i + p, 0) = n /\ Wrap(i + p - Round, 0) = n /\ i + p < 2 * Round
  BY FromZero
<1>2. PICK o \in 1 .. len + 2 :
        \/ cp = 0
        \/ cp + 1 = i + o
        \/ cp + 1 = i + o - Round
        \/ cp + 1 = i + o - Round + Word /\ i + len + 2 >= Round
  BY <1>0 DEF Early
<1>3. n \in RawValues /\ n \in 0 .. Round - 1
  BY <1>0, <1>1 DEF RawValues
<1> HIDE DEF i, n, len
<1>4. \/ u = i + p
      \/ u = i + p - Round /\ u >= 0
      \/ u = i + p - Round + Word /\ u < Word /\ i + len + 2 >= Round
  <2>1. CASE cp = 0
    <3>1. 0 % Round = 0 /\ Wrap(0, 0) = 0
      BY <1>0 DEF Wrap
    <3>2. Forward(n, 0) = n /\ Back(n, 0) = Round - n
      BY <1>0, <1>3 DEF Forward, Back
    <3>3. NoRoomBack(n, 0, 0)
      BY <1>0, <1>3, <3>2 DEF NoRoomBack
    <3>4. SizeT(0 + n) = n
      BY <1>0, <1>3 DEF SizeT
    <3>5. u = n
      BY <2>1, <3>1, <3>2, <3>3, <3>4 DEF Unwrap
    <3> QED
      BY <1>0, <1>1, <1>3, <3>5
  <2>2. CASE cp + 1 = i + o
    <3>1. i + p \in Nat /\ cp \in Nat /\ cp + 2 * Round <= Word /\ 2 * Distance(i + p, cp) < Round
      BY <1>0, <1>2, <2>2 DEF Distance
    <3>2. Unwrap(Wrap(i + p, 0), 0, cp) = i + p
      BY ONLY <1>0, <3>1, UnwrapInvertsWrap
    <3> QED
      BY <1>1, <3>2
  <2>3. CASE cp + 1 = i + o - Round
    <3>1. cp \in Nat /\ cp + 2 * Round <= Word /\ cp <= len + 1
      BY <1>0, <1>2, <2>3
    <3>2. CASE i + p - Round >= 0
      <4>1. i + p - Round \in Nat /\ 2 * Distance(i + p - Round, cp) < Round
        BY <1>0, <1>2, <2>3, <3>2 DEF Distance
      <4>2. Unwrap(Wrap(i + p - Round, 0), 0, cp) = i + p - Round
        BY ONLY <1>0, <3>1, <4>1, UnwrapInvertsWrap
      <4> QED
        BY <1>1, <3>2, <4>2
    <3>3. CASE i + p < Round
      <4>1. i + p \in Nat /\ i + p \in RawValues
        BY <1>0, <3>3 DEF RawValues
      <4>2. /\ u \in SizeTs /\ Wrap(u, 0) = n
            /\ \A v \in Nat : Wrap(v, 0) = n => Distance(u, cp) <= Distance(v, cp)
        BY ONLY <1>0, <1>3, <3>1, UnwrapNearest
      <4>3. u \in Nat
        BY <1>0, <4>2 DEF SizeTs
      <4>4. u = i + p \/ u >= i + p + Round
        BY ONLY <1>0, <1>1, <4>1, <4>2, <4>3, SamePlace
      <4>5. Distance(u, cp) <= Distance(i + p, cp)
        BY <1>1, <4>1, <4>2
      <4>6. i + p >= cp
        BY <1>0, <1>2, <2>3, <3>1, <3>3
      <4> QED
        BY <1>0, <3>1, <4>1, <4>3, <4>4, <4>5, <4>6 DEF Distance
    <3> QED
      BY <1>0, <3>2, <3>3
  <2>4. CASE cp + 1 = i + o - Round + Word /\ i + len + 2 >= Round
    <3> DEFINE y == i + o - 1
               d == p - o + 1
    <3>1. y \in 0 .. Round - 1 /\ y \in Int /\ y - Round \in Int /\ cp = y - Round + Word
      BY <1>0, <1>2, <2>4
    <3>2. Wrap(cp, 0) = y
      <4> HIDE DEF y
      <4>1. Wrap(y - Round + Word, 0) = Wrap(y - Round, 0)
        BY ONLY <1>0, <3>1, WordUp
      <4>2. Wrap(y - Round, 0) = Wrap(y, 0)
        BY ONLY <1>0, <3>1, RoundUp
      <4>3. Wrap(y, 0) = y
        <5>1. y % Round = y
          BY ONLY <1>0, <3>1
        <5>2. (y + 0) % Round = y
          BY ONLY <1>0, <3>1, <5>1
        <5> QED
          BY ONLY <5>1, <5>2 DEF Wrap
      <4> QED
        BY ONLY <3>1, <4>1, <4>2, <4>3
    <3>3. u = IF ForwardIsNearer(n, y) \/ NoRoomBack(n, y, cp)
              THEN SizeT(cp + Forward(n, y)) ELSE cp - Back(n, y)
      BY <3>2 DEF Unwrap
    <3>4. CASE i + p < Round /\ d >= 0
      <4>1. Forward(n, y) = d /\ ForwardIsNearer(n, y)
        BY <1>0, <1>1, <1>2, <2>4, <3>1, <3>4 DEF Forward, ForwardIsNearer, Back
      <4>2. SizeT(cp + d) = i + p - Round + Word /\ i + p - Round + Word < Word
        BY <1>0, <1>1, <1>2, <2>4, <3>1, <3>4 DEF SizeT
      <4> QED
        BY <2>4, <3>3, <4>1, <4>2
    <3>5. CASE i + p < Round /\ d < 0
      <4>1. Forward(n, y) = Round + d /\ Back(n, y) = -d
        BY <1>0, <1>1, <1>2, <2>4, <3>1, <3>5 DEF Forward, Back
      <4>2. NoRoomBack(n, y, cp)
        <5>1. ~ (y <= n)
          BY <1>0, <1>1, <1>2, <2>4, <3>1, <3>5
        <5>2. SizeT(cp + Round) = y
          BY <1>0, <3>1 DEF SizeT
        <5>3. y < -d + Round
          BY <1>0, <1>2, <3>1, <3>5
        <5> QED
          BY <4>1, <5>1, <5>2, <5>3 DEF NoRoomBack
      <4>3. SizeT(cp + Forward(n, y)) = i + p
        BY <1>0, <1>2, <2>4, <3>1, <3>5, <4>1 DEF SizeT
      <4> QED
        BY <3>3, <4>2, <4>3
    <3>6. CASE i + p >= Round
      <4>1. Forward(n, y) = d /\ ForwardIsNearer(n, y)
        BY <1>0, <1>1, <1>2, <2>4, <3>1, <3>6 DEF Forward, ForwardIsNearer, Back
      <4>2. SizeT(cp + d) = i + p - Round
        BY <1>0, <1>1, <1>2, <2>4, <3>1, <3>6 DEF SizeT
      <4>3. i + p - Round >= 0
        BY <1>0, <3>6
      <4> QED
        BY <3>3, <4>1, <4>2, <4>3
    <3> QED
      BY <1>0, <1>2, <3>4, <3>5, <3>6
  <2> QED
    BY <1>2, <2>1, <2>2, <2>3, <2>4
<1>5. Early(SizeT(u - 1), e)
  <2>1. \/ SizeT(u - 1) + 1 = i + p
        \/ SizeT(u - 1) + 1 = i + p - Round
        \/ SizeT(u - 1) + 1 = i + p - Round + Word /\ i + len + 2 >= Round
    <3> HIDE DEF u
    <3>1. u \in Int /\ u - 1 \in Int /\ u >= 0 /\ u < Word
      BY <1>0, <1>1, <1>4
    <3>2. SizeT(u - 1) = IF u >= 1 THEN u - 1 ELSE Word - 1
      BY ONLY <1>0, <3>1 DEF SizeT
    <3> QED
      BY ONLY <1>0, <1>1, <1>4, <3>1, <3>2
  <2> QED
    BY <2>1, <1>0 DEF Early, i, len
<1> QED
  BY <1>5 DEF u, n, i

\* Where it can be once the SYN has come.
LEMMA EarlyRange ==
  ASSUME Modest, NEW e \in Ends, NEW cp \in SizeTs, Early(cp, e)
  PROVE  \/ cp \in 0 .. Round + StreamLen[e] + 1
         \/ cp \in Word - StreamLen[e] - 2 .. Word - 1
<1>1. /\ Isn[e] \in 0 .. Round - 1 /\ StreamLen[e] \in Nat /\ Round \in Nat /\ Word \in Nat
      /\ cp \in 0 .. Word - 1
  BY ModestFacts DEF SizeTs
<1> QED
  BY <1>1 DEF Early
-----------------------------------------------------------------------------
(***************************************************************************)
(* The receiver: where its checkpoint may be, that it knows the end of the *)
(* stream once it has counted the FIN, and that it acknowledges the FIN    *)
(* only then.                                                              *)
(***************************************************************************)
\* Where it can be once the SYN has come, and nothing else.
Adrift(cp, e) ==
  \/ cp \in 0 .. Round + StreamLen[e] + 1
  \/ cp \in Word - StreamLen[e] - 2 .. Word - 1

\* The receiver facing end e.  Either it is in its place, and knows where the stream
\* ends if it has seen the FIN; or it has lost its place, or may yet lose it, and
\* then has taken in nothing.
Delivers(rcv, e) ==
  LET r == rcv.reassembler IN
  /\ r.eof2 # r.unasb
  /\ rcv.status = LISTEN => r.unasb = 0 /\ rcv.isn = 0 /\ Early(rcv.cp, e)
  /\ rcv.status # LISTEN =>
       \/ /\ rcv.cp \in 0 .. StreamLen[e] + 1
          /\ rcv.status = FIN_RECV => r.eof2 = StreamLen[e] \/ InputEnded(r.out)
       \/ r.unasb = 0 /\ rcv.cp \in Round .. Round + StreamLen[e] + 1
       \/ r.unasb = 0 /\ rcv.status = SYN_RECV /\ Adrift(rcv.cp, e)

\* Only the SYN is at 0, and the FIN is at the end of the stream.
Numbered(seg, e) ==
  /\ ~ seg.syn => seg.seqno # Isn[e]
  /\ seg.fin =>
       /\ ~ seg.syn /\ Len(seg.payload) <= StreamLen[e]
       /\ seg.seqno = Wrap(StreamLen[e] + 1 - Len(seg.payload), Isn[e])

\* The position of a segment that is no SYN.
LEMMA PlaceOfPiece ==
  ASSUME Modest, NEW e \in Ends, NEW read, NEW seg \in Segments, Piece(seg, e, read),
         Numbered(seg, e), ~ seg.syn
  PROVE  \E p \in 1 .. StreamLen[e] + 2 :
           /\ seg.seqno = Wrap(p, Isn[e])
           /\ seg.fin => p + Len(seg.payload) = StreamLen[e] + 1
<1>0. /\ Isn[e] \in RawValues /\ StreamLen[e] \in Nat /\ StreamLen[e] + 3 <= Round
      /\ Round \in Nat /\ Len(seg.payload) \in Nat
  <2>1. Len(seg.payload) \in Nat
    BY SegmentFields
  <2> QED
    BY <2>1, ModestFacts
<1>1. PICK p \in 0 .. StreamLen[e] + 2 : seg.seqno = Wrap(p, Isn[e])
  BY DEF Piece
<1>2. p # 0
  BY <1>0, <1>1, WrapOfZero DEF Numbered
<1>3. ASSUME seg.fin PROVE p + Len(seg.payload) = StreamLen[e] + 1
  <2> DEFINE q == StreamLen[e] + 1 - Len(seg.payload)
  <2>1. Len(seg.payload) <= StreamLen[e] /\ Wrap(p, Isn[e]) = Wrap(q, Isn[e])
    BY <1>1, <1>3 DEF Numbered
  <2>2. p \in RawValues /\ q \in RawValues
    BY <1>0, <2>1 DEF RawValues
  <2> HIDE DEF q
  <2>3. p = q
    BY ONLY <1>0, <2>1, <2>2, SameNumber
  <2> QED
    BY <1>0, <2>3 DEF q
<1> QED
  BY <1>0, <1>1, <1>2, <1>3

\* Of what is beyond the window, or empty, nothing is taken in.
LEMMA NothingTaken ==
  ASSUME WithinRound, NEW e \in Ends, NEW read \in 0 .. StreamLen[e],
         NEW rcv, Receiving(rcv, e, read), NEW data \in Seq(Nat), Len(data) \in Nat,
         NEW i \in SizeTs, i >= Round \/ Len(data) = 0, NEW eof
  PROVE  PushSubstring(rcv.reassembler, data, i, eof).unasb = rcv.reassembler.unasb
<1> DEFINE r == rcv.reassembler
<1>1. PICK x : Alike(r, x) /\ Sound(x, RecvCapacity, read, FALSE)
  BY DEF Receiving, Holds
<1>2. r \in Reassemblers(RecvCapacity, read)
  BY DEF Receiving, Receivers
<1>3. /\ x.unasb \in 0 .. read /\ x.out.rem \in 0 .. RecvCapacity
      /\ Limit(x) = x.unasb + x.out.rem /\ x.capacity = RecvCapacity
  BY ONLY <1>1, Fields
<1>4. DOMAIN x.stored \subseteq x.unasb + 1 .. Limit(x) - 1
  BY ONLY <1>1, SoundIsWithin
<1>5. r.capacity = RecvCapacity /\ Limit(r) = Limit(x)
  BY <1>1, <1>2, <1>3 DEF Reassemblers, Limit, Alike
<1>6. /\ r.unasb \in Nat /\ Limit(r) \in Nat /\ r.unasb <= Limit(r) /\ Limit(r) <= Round
      /\ DOMAIN r.stored \subseteq r.unasb + 1 .. Limit(r) - 1
      /\ Round \in Nat /\ i \in 0 .. Word - 1 /\ Word \in Nat /\ read \in Nat
  <2>1. /\ StreamLen[e] \in Nat /\ RecvCapacity \in Nat /\ Round \in Nat /\ Word \in Nat
        /\ StreamLen[e] + RecvCapacity <= Round
    BY PairFacts
  <2> QED
    BY <1>1, <1>3, <1>4, <1>5, <2>1 DEF Alike, SizeTs
<1>7. Fresh(r, data, i) = {}
  <2>1. CASE Len(data) = 0
    <3>1. SizeT(i + Len(data)) = i
      BY <1>6, <2>1 DEF SizeT
    <3>2. /\ Larger(r.unasb, i) \in Nat /\ Larger(r.unasb, i) >= i
          /\ Smaller(i, Limit(r)) \in Nat /\ Smaller(i, Limit(r)) <= i
      BY <1>6 DEF Larger, Smaller
    <3>3. Fresh(r, data, i) = Larger(r.unasb, i) .. Smaller(i, Limit(r)) - 1
      BY ONLY <3>1 DEF Fresh
    <3> QED
      BY ONLY <1>6, <3>2, <3>3
  <2>2. CASE i >= Round
    <3> DEFINE l == Larger(r.unasb, i)
               s == Smaller(SizeT(i + Len(data)), Limit(r))
    <3>1. l \in Int /\ l >= Limit(r)
      BY <1>6, <2>2 DEF Larger
    <3>2. SizeT(i + Len(data)) \in Int
      BY <1>6 DEF SizeT
    <3>3. s \in Int /\ s <= Limit(r)
      BY <1>6, <3>2 DEF Smaller
    <3>4. Fresh(r, data, i) = l .. s - 1
      BY DEF Fresh
    <3> HIDE DEF l, s
    <3> QED
      BY ONLY <1>6, <3>1, <3>3, <3>4
  <2> QED
    BY <2>1, <2>2
<1>8. DOMAIN Stored(r, data, i) = DOMAIN r.stored
  BY <1>7 DEF Stored
<1> DEFINE S == DOMAIN r.stored
<1>9. FirstGap(r.unasb, Limit(r), S) = r.unasb
  <2>1. r.unasb \notin S /\ Limit(r) \notin S
    BY <1>6
  <2> DEFINE g == FirstGap(r.unasb, Limit(r), S)
  <2>2. g \in r.unasb .. Limit(r) /\ r.unasb .. g - 1 \subseteq S
    <3> HIDE DEF S, r
    <3> QED
      BY ONLY <1>6, <2>1, FirstGapExists
  <2> HIDE DEF g, S
  <2>3. ~ (g > r.unasb)
    BY <1>6, <2>1, <2>2
  <2> QED
    BY <1>6, <2>2, <2>3 DEF g
<1>10. PICK m : /\ PushSubstring(r, data, i, eof) = EndIfReached(m)
                /\ m.unasb = FirstGap(r.unasb, Limit(r), DOMAIN Stored(r, data, i))
                /\ Shaped(m, RecvCapacity)
  BY <1>2, PushShape
<1>11. EndIfReached(m).unasb = m.unasb
  BY <1>10, EndShape
<1> QED
  BY <1>8, <1>9, <1>10, <1>11

\* Where a segment is put and what becomes of the status.
LEMMA ReceiveShape ==
  ASSUME NEW read, NEW rcv \in Receivers(read), NEW seg \in Segments
  PROVE  LET t == Receive(rcv, seg)
             i == IF seg.syn THEN rcv.cp ELSE Index(rcv, seg)
             was == IF seg.syn THEN SYN_RECV ELSE rcv.status
         IN  /\ t.cp = i
             /\ was = LISTEN => t.reassembler = rcv.reassembler /\ t.status = LISTEN
                                /\ t.isn = rcv.isn
             /\ was # LISTEN =>
                  /\ t.reassembler = PushSubstring(rcv.reassembler, seg.payload, i, seg.fin)
                  /\ t.status = IF seg.fin THEN FIN_RECV ELSE was
<1> DEFINE i == IF seg.syn THEN rcv.cp ELSE Index(rcv, seg)
           was == IF seg.syn THEN SYN_RECV ELSE rcv.status
           placed == Place(rcv, seg)
           t == Receive(rcv, seg)
<1>1. /\ placed \in [reassembler : {rcv.reassembler}, isn : {placed.isn}, cp : {i},
                     status : {was}]
      /\ was = LISTEN => placed.isn = rcv.isn
  <2>1. CASE seg.syn
    <3>1. placed = [rcv EXCEPT !.isn = seg.seqno, !.status = SYN_RECV]
      BY <2>1 DEF Place
    <3>2. i = rcv.cp /\ was = SYN_RECV
      BY <2>1
    <3> HIDE DEF i, was
    <3>3. placed \in [reassembler : {rcv.reassembler}, isn : {seg.seqno}, cp : {i},
                     status : {was}]
      BY <3>1, <3>2 DEF Receivers
    <3> HIDE DEF placed
    <3> QED
      BY <3>2, <3>3 DEF SYN_RECV, LISTEN
  <2>2. CASE ~ seg.syn
    <3>1. placed = [rcv EXCEPT !.cp = i]
      BY <2>2 DEF Place
    <3> HIDE DEF i
    <3> QED
      BY <2>2, <3>1 DEF Receivers
  <2> QED
    BY <2>1, <2>2, SegmentFields
<1>2. t = IF placed.status = LISTEN THEN placed
          ELSE [placed EXCEPT
                  !.status = IF seg.fin THEN FIN_RECV ELSE @,
                  !.reassembler = PushSubstring(@, seg.payload, placed.cp, seg.fin)]
  BY DEF Receive
<1> HIDE DEF i, was, placed
<1>3. CASE was = LISTEN
  BY <1>1, <1>2, <1>3 DEF t, i, was
<1>4. CASE was # LISTEN
  <2> DEFINE q == PushSubstring(rcv.reassembler, seg.payload, i, seg.fin)
             st == IF seg.fin THEN FIN_RECV ELSE was
  <2>1. /\ placed.status = was /\ placed.cp = i /\ placed.reassembler = rcv.reassembler
    BY <1>1
  <2>2. t = [placed EXCEPT !.status = st, !.reassembler = q]
    BY <1>2, <1>4, <2>1
  <2> HIDE DEF q, st, t
  <2>3. t.cp = i /\ t.status = st /\ t.reassembler = q
    BY <1>1, <2>2
  <2> QED
    BY <1>4, <2>3 DEF q, st, t, i, was
<1> QED
  BY <1>3, <1>4

\* The stream an end reads from has been ended or has been given up.
Ended(b) == InputEnded(b) \/ b.error

\* The receiver after a segment of end e.
LEMMA ReceiveDelivers ==
  ASSUME Modest, NEW e \in Ends, NEW read \in 0 .. StreamLen[e],
         NEW rcv, Receiving(rcv, e, read), NEW seg \in Segments, Piece(seg, e, read),
         Numbered(seg, e), Delivers(rcv, e)
  PROVE  /\ Delivers(Receive(rcv, seg), e)
         /\ Ended(StreamIn(rcv)) => Ended(StreamIn(Receive(rcv, seg)))
<1> DEFINE r == rcv.reassembler
           t == Receive(rcv, seg)
           data == seg.payload
           len == StreamLen[e]
<1>1. /\ WithinRound /\ len \in Nat /\ 4 * (len + 3) <= Round /\ Round \in Nat \ {0, 1}
      /\ Word \in Nat /\ Word >= 4 * Round /\ read \in Nat /\ read <= len /\ 1 <= len
  BY ModestFacts
<1>2. /\ rcv \in Receivers(read) /\ r \in Reassemblers(RecvCapacity, read)
      /\ rcv.cp \in SizeTs /\ (rcv.status # LISTEN => rcv.isn = Isn[e])
  BY DEF Receiving, Receivers
<1>3. Receiving(t, e, read) /\ t.reassembler \in Reassemblers(RecvCapacity, read)
  <2>1. Receiving(t, e, read)
    BY <1>1, ReceivePiece
  <2> QED
    BY <2>1 DEF Receiving, Receivers
<1>4. read < NoEof
  BY <1>1 DEF NoEof, SizeT
<1>5. /\ data \in Seq(Nat) /\ Len(data) \in Nat /\ seg.syn \in BOOLEAN /\ seg.fin \in BOOLEAN
  BY SegmentFields
<1>6. ASSUME NEW i, t.reassembler = PushSubstring(r, data, i, seg.fin)
      PROVE  /\ t.reassembler.eof2 # t.reassembler.unasb
             /\ \/ t.reassembler.eof2 = EndAfter(r, data, i, seg.fin)
                \/ InputEnded(t.reassembler.out)
             /\ InputEnded(r.out) => InputEnded(t.reassembler.out)
             /\ t.reassembler.out.error = r.out.error
             /\ i \in SizeTs /\ (i >= Round \/ Len(data) = 0)
                  => t.reassembler.unasb = r.unasb
  <2>1. PushSubstring(r, data, i, seg.fin) \in Reassemblers(RecvCapacity, read)
    BY <1>3, <1>6
  <2> HIDE DEF t
  <2>2. LET q == PushSubstring(r, data, i, seg.fin)
        IN  /\ q.eof2 # q.unasb
            /\ q.eof2 = EndAfter(r, data, i, seg.fin) \/ InputEnded(q.out)
            /\ InputEnded(r.out) => InputEnded(q.out)
            /\ q.out.error = r.out.error
    <3> HIDE DEF r, data
    <3> QED
      BY ONLY <1>1, <1>2, <1>4, <2>1, EndOfPush
  <2>3. i \in SizeTs /\ (i >= Round \/ Len(data) = 0)
          => PushSubstring(r, data, i, seg.fin).unasb = r.unasb
    BY <1>1, <1>5, NothingTaken
  <2> QED
    BY <1>6, <2>2, <2>3
<1> HIDE DEF len, data, r, t
<1>7. CASE seg.syn
  <2>1. ~ seg.fin /\ Len(data) = 0
    BY <1>5, <1>7 DEF Numbered, Piece, data
  <2>2. /\ t.cp = rcv.cp /\ t.status = SYN_RECV
        /\ t.reassembler = PushSubstring(r, data, rcv.cp, seg.fin)
    BY <1>2, <1>7, <2>1, ReceiveShape DEF t, r, data, SYN_RECV, LISTEN
  <2>3. /\ t.reassembler.eof2 # t.reassembler.unasb
        /\ t.reassembler.unasb = r.unasb
        /\ InputEnded(r.out) => InputEnded(t.reassembler.out)
        /\ t.reassembler.out.error = r.out.error
    BY <1>2, <1>6, <2>1, <2>2
  <2>4. /\ t.cp = rcv.cp /\ t.status # LISTEN /\ t.status # FIN_RECV /\ t.status = SYN_RECV
    BY <2>2 DEF SYN_RECV, LISTEN, FIN_RECV
  <2>5. \/ t.cp \in 0 .. len + 1
        \/ t.reassembler.unasb = 0 /\ t.cp \in Round .. Round + len + 1
        \/ t.reassembler.unasb = 0 /\ Adrift(t.cp, e)
    <3>1. CASE rcv.status = LISTEN
      <4>1. Early(rcv.cp, e) /\ r.unasb = 0
        BY <3>1 DEF Delivers, r
      <4> QED
        BY <1>2, <2>3, <2>4, <4>1, EarlyRange DEF Adrift
    <3>2. CASE rcv.status # LISTEN
      BY <2>3, <2>4, <3>2 DEF Delivers, r, len
    <3> QED
      BY <3>1, <3>2
  <2> QED
    BY <2>3, <2>4, <2>5 DEF Delivers, Ended, StreamIn, t, r, len
<1>8. CASE ~ seg.syn
  <2>1. PICK p \in 1 .. StreamLen[e] + 2 :
          /\ seg.seqno = Wrap(p, Isn[e])
          /\ seg.fin => p + Len(seg.payload) = StreamLen[e] + 1
    BY <1>8, PlaceOfPiece
  <2> DEFINE u == Unwrap(seg.seqno, rcv.isn, rcv.cp)
  <2>2. Index(rcv, seg) = SizeT(u - 1)
    BY DEF Index
  <2>3. t.cp = Index(rcv, seg)
    BY <1>2, <1>8, ReceiveShape DEF t
  <2>4. t.cp \in SizeTs
    BY <1>3 DEF Receiving, Receivers
  <2>5. CASE rcv.status = LISTEN
    <3>1. t.reassembler = r /\ t.status = LISTEN /\ t.isn = rcv.isn
      BY <1>2, <1>8, <2>5, ReceiveShape DEF t, r
    <3>2. r.unasb = 0 /\ rcv.isn = 0 /\ Early(rcv.cp, e) /\ r.eof2 # r.unasb
      BY <2>5 DEF Delivers, r
    <3>3. Early(t.cp, e)
      BY <1>2, <2>1, <2>2, <2>3, <3>2, EarlyPlace
    <3> QED
      BY <3>1, <3>2, <3>3 DEF Delivers, Ended, StreamIn, t, r
  <2>6. CASE rcv.status # LISTEN
    <3>1. rcv.isn = Isn[e]
      BY <1>2, <2>6
    <3>2. /\ t.reassembler = PushSubstring(r, data, t.cp, seg.fin)
          /\ t.status = IF seg.fin THEN FIN_RECV ELSE rcv.status
      BY <1>2, <1>8, <2>3, <2>6, ReceiveShape DEF t, r, data
    <3>3. t.status # LISTEN
      BY <2>6, <3>2 DEF LISTEN, FIN_RECV
    <3>4. /\ t.reassembler.eof2 # t.reassembler.unasb
          /\ \/ t.reassembler.eof2 = EndAfter(r, data, t.cp, seg.fin)
             \/ InputEnded(t.reassembler.out)
          /\ InputEnded(r.out) => InputEnded(t.reassembler.out)
          /\ t.reassembler.out.error = r.out.error
          /\ t.cp >= Round => t.reassembler.unasb = r.unasb
      BY <1>6, <2>4, <3>2
    <3>5. \/ rcv.cp \in 0 .. Round + len + 1
             /\ (u = p \/ u = p + Round)
             /\ (rcv.cp <= len + 1 => u = p)
             /\ (rcv.cp >= Round => u = p + Round)
          \/ rcv.cp \in Word - len - 2 .. Word - 1 /\ u = p
      <4>1. rcv.cp \in 0 .. Round + len + 1 \/ rcv.cp \in Word - len - 2 .. Word - 1
        BY <1>1, <2>6 DEF Delivers, Adrift, len
      <4> QED
        BY <2>1, <3>1, <4>1, NearPlace, TopPlace DEF len
    <3>6. p \in 1 .. len + 2 /\ p \in Nat /\ u \in Nat
      BY <1>1, <2>1, <3>5 DEF len
    <3>7. SizeT(u - 1) = u - 1
      <4>1. u = p \/ u = p + Round
        BY <3>5
      <4> HIDE DEF u
      <4> QED
        BY <1>1, <3>6, <4>1 DEF SizeT
    <3>8. t.cp = p - 1 \/ t.cp = p - 1 + Round
      BY <1>1, <2>2, <2>3, <3>5, <3>6, <3>7
    <3>9. CASE t.cp = p - 1 + Round
      <4>1. ~ (rcv.cp \in 0 .. len + 1)
        BY <1>1, <2>2, <2>3, <3>5, <3>6, <3>7, <3>9
      <4>2. r.unasb = 0
        BY <2>6, <4>1 DEF Delivers, r, len
      <4>3. t.cp \in Round .. Round + len + 1
        BY <1>1, <3>6, <3>9
      <4>4. t.reassembler.unasb = 0
        BY <1>1, <3>4, <4>2, <4>3
      <4> QED
        BY <3>3, <3>4, <4>3, <4>4 DEF Delivers, Ended, StreamIn, t, r, len
    <3>10. CASE t.cp = p - 1
      <4>1. t.cp \in 0 .. len + 1
        BY <1>1, <3>6, <3>10
      <4>2. ASSUME t.status = FIN_RECV
            PROVE  t.reassembler.eof2 = len \/ InputEnded(t.reassembler.out)
        <5>1. CASE seg.fin
          <6>0. p + Len(data) = len + 1
            BY <2>1, <5>1 DEF data, len
          <6>1. t.cp + Len(data) = len
            BY ONLY <1>1, <1>5, <3>6, <3>10, <6>0
          <6>2. SizeT(t.cp + Len(data)) = len
            BY <1>1, <6>1 DEF SizeT
          <6> QED
            BY <3>4, <5>1, <6>2 DEF EndAfter
        <5>2. CASE ~ seg.fin
          <6>1. rcv.status = FIN_RECV /\ EndAfter(r, data, t.cp, seg.fin) = r.eof2
            BY <3>2, <4>2, <5>2 DEF EndAfter
          <6>2. rcv.cp \in 0 .. len + 1
            <7>1. ~ (rcv.cp \in Round .. Round + len + 1)
              BY <1>1, <2>2, <2>3, <3>5, <3>6, <3>7, <3>10
            <7> QED
              BY <2>6, <6>1, <7>1 DEF Delivers, len, FIN_RECV, SYN_RECV
          <6>3. r.eof2 = len \/ InputEnded(r.out)
            <7>1. ~ (rcv.cp \in Round .. Round + len + 1)
              BY <1>1, <6>2
            <7> QED
              BY <2>6, <6>1, <7>1 DEF Delivers, len, r, FIN_RECV, SYN_RECV
          <6> QED
            BY <3>4, <6>1, <6>3
        <5> QED
          BY <1>5, <5>1, <5>2
      <4> QED
        BY <3>3, <3>4, <4>1, <4>2 DEF Delivers, Ended, StreamIn, t, r, len
    <3> QED
      BY <3>8, <3>9, <3>10
  <2> QED
    BY <2>5, <2>6
<1> QED
  BY <1>5, <1>7, <1>8

\* The application reads.
LEMMA ReadDelivers ==
  ASSUME NEW e \in Ends, NEW read, NEW rcv, Receiving(rcv, e, read), Delivers(rcv, e), NEW n
  PROVE  /\ Delivers(ReadIn(rcv, n), e)
         /\ Ended(StreamIn(rcv)) => Ended(StreamIn(ReadIn(rcv, n)))
         /\ StreamIn(ReadIn(rcv, n)).error = StreamIn(rcv).error
<1> DEFINE r == rcv.reassembler
           b == PopOutput(r.out, n)
           q == [r EXCEPT !.out = b]
           t == [rcv EXCEPT !.reassembler = q]
<1>1. rcv \in Receivers(read) /\ r \in Reassemblers(RecvCapacity, read)
      /\ r.out \in Streams(RecvCapacity)
  BY DEF Receiving, Receivers, Reassemblers
<1>2. ReadIn(rcv, n) = t
  BY DEF ReadIn, ReadOut
<1>3. b.eof2 = r.out.eof2 /\ b.error = r.out.error
  <2> DEFINE m == SubSeq(r.out.buf, Smaller(n, Len(r.out.buf)) + 1, Len(r.out.buf))
  <2>1. b \in [cap : {r.out.cap}, rem : {r.out.rem + n}, totRead : {r.out.totRead + n},
               totWrite : {r.out.totWrite}, eof2 : {r.out.eof2}, error : {r.out.error},
               buf : {m}]
    BY <1>1 DEF PopOutput, Streams
  <2> HIDE DEF b, m
  <2> QED
    BY <2>1
<1> HIDE DEF b
<1>4. q.out = b /\ q.eof2 = r.eof2 /\ q.unasb = r.unasb
  BY <1>1 DEF Reassemblers
<1> HIDE DEF q
<1>5. t.reassembler = q /\ t.cp = rcv.cp /\ t.status = rcv.status /\ t.isn = rcv.isn
  BY <1>1 DEF Receivers
<1> HIDE DEF t
<1> QED
  BY <1>2, <1>3, <1>4, <1>5 DEF Delivers, Ended, StreamIn, InputEnded

\* set_error.
LEMMA ErrorDelivers ==
  ASSUME NEW e \in Ends, NEW read, NEW rcv, Receiving(rcv, e, read), Delivers(rcv, e)
  PROVE  LET t == [rcv EXCEPT !.reassembler.out = SetError(@)]
         IN  Delivers(t, e) /\ Ended(StreamIn(t)) /\ StreamIn(t).error
<1> DEFINE r == rcv.reassembler
           b == SetError(r.out)
           q == [r EXCEPT !.out = b]
           t == [rcv EXCEPT !.reassembler = q]
<1>1. rcv \in Receivers(read) /\ r \in Reassemblers(RecvCapacity, read)
      /\ r.out \in Streams(RecvCapacity)
  BY DEF Receiving, Receivers, Reassemblers
<1>2. [rcv EXCEPT !.reassembler.out = SetError(@)] = t
  OBVIOUS
<1>3. b.eof2 = r.out.eof2 /\ b.error = TRUE
  BY <1>1 DEF SetError, Streams
<1> HIDE DEF b
<1>4. q.out = b /\ q.eof2 = r.eof2 /\ q.unasb = r.unasb
  BY <1>1 DEF Reassemblers
<1> HIDE DEF q
<1>5. t.reassembler = q /\ t.cp = rcv.cp /\ t.status = rcv.status /\ t.isn = rcv.isn
  BY <1>1 DEF Receivers
<1> HIDE DEF t
<1>6. Delivers(t, e) /\ Ended(StreamIn(t)) /\ StreamIn(t).error
  BY <1>3, <1>4, <1>5 DEF Delivers, Ended, StreamIn, InputEnded
<1> QED
  BY <1>2, <1>6

\* A receiver that acknowledges the FIN has ended the stream.
LEMMA AckTells ==
  ASSUME Modest, NEW e \in Ends, NEW read \in 0 .. StreamLen[e],
         NEW rcv, Receiving(rcv, e, read), Delivers(rcv, e),
         HasAckno(rcv), Ackno(rcv) = Wrap(StreamLen[e] + 2, Isn[e])
  PROVE  Ended(StreamIn(rcv))
<1>1. /\ StreamLen[e] \in Nat /\ StreamLen[e] >= 1 /\ 4 * (StreamLen[e] + 3) <= Round
      /\ Round \in Nat \ {0, 1} /\ Isn[e] \in RawValues
  BY ModestFacts
<1>2. /\ rcv.reassembler.unasb \in 0 .. read /\ rcv.status \in {LISTEN, SYN_RECV, FIN_RECV}
      /\ rcv.status # LISTEN => rcv.isn = Isn[e]
  BY DEF Receiving, Receivers, Reassemblers
<1>3. rcv.status # LISTEN /\ Ackno(rcv) = Wrap(AckPosition(rcv), Isn[e])
  BY <1>2 DEF HasAckno, Ackno
<1>4. AckPosition(rcv) \in 1 .. StreamLen[e] + 2
  BY <1>1, <1>2, <1>3 DEF AckPosition, LISTEN, SYN_RECV, FIN_RECV
<1>5. AckPosition(rcv) = StreamLen[e] + 2
  <2>1. AckPosition(rcv) \in RawValues /\ StreamLen[e] + 2 \in RawValues
    BY <1>1, <1>4 DEF RawValues
  <2> QED
    BY <1>1, <1>3, <2>1, SameNumber
<1>6. rcv.status = FIN_RECV /\ rcv.reassembler.unasb = StreamLen[e]
  BY <1>1, <1>2, <1>3, <1>5 DEF AckPosition, LISTEN, SYN_RECV, FIN_RECV
<1>7. rcv.reassembler.eof2 # StreamLen[e] /\ rcv.reassembler.unasb # 0
  BY <1>1, <1>6 DEF Delivers
<1> QED
  BY <1>3, <1>6, <1>7 DEF Delivers, Ended, StreamIn
-----------------------------------------------------------------------------
(***************************************************************************)
(* The sender: the FIN follows all of the stream, and is kept until it is  *)
(* acknowledged.                                                           *)
(***************************************************************************)
\* A segment is numbered right, and with the FIN only if that has been sent.
Marked(seg, sent, e) == Numbered(seg, e) /\ (seg.fin => sent)

AllMarked(s, e) ==
  /\ \A o \in s.outstanding : Marked(o.seg, s.finSent, e)
  /\ \A i \in DOMAIN s.segmentsOut : Marked(s.segmentsOut[i], s.finSent, e)

\* The sender of a stream: it is ended when all is written; the FIN follows all of it
\* and is kept until it is acknowledged; before the SYN there is nothing.
Finishing(s, e) ==
  /\ s.acked <= s.nextSeqno
  /\ s.stream.eof2 => s.nextSeqno > 0 /\ s.stream.totWrite = StreamLen[e]
  /\ s.nextSeqno = 0 => s.crtx = 0 /\ s.outstanding = {}
  /\ s.finSent => /\ Eof(s.stream)
                  /\ s.acked = StreamLen[e] + 2 \/ \E o \in s.outstanding : o.seg.fin
  /\ IsFiniteSet(s.outstanding)
  /\ AllMarked(s, e)

\* What was marked stays so, and what is new is.
LEMMA MarkedKept ==
  ASSUME NEW e, NEW s, NEW t, AllMarked(s, e), s.finSent => t.finSent,
         \A o \in t.outstanding :
           \/ \E q \in s.outstanding : o.seg = q.seg
           \/ Marked(o.seg, t.finSent, e),
         \A i \in DOMAIN t.segmentsOut :
           \/ \E k \in DOMAIN s.segmentsOut : t.segmentsOut[i] = s.segmentsOut[k]
           \/ Marked(t.segmentsOut[i], t.finSent, e)
  PROVE  AllMarked(t, e)
BY DEF AllMarked, Marked

\* A segment of the stream that is no SYN is not numbered as one.
LEMMA NotFirst ==
  ASSUME Modest, NEW e \in Ends, NEW p \in 1 .. StreamLen[e] + 2
  PROVE  Wrap(p, Isn[e]) # Isn[e]
<1>1. /\ StreamLen[e] \in Nat /\ StreamLen[e] + 3 <= Round /\ Isn[e] \in RawValues
      /\ Round \in Nat
  BY ModestFacts
<1>2. p \in RawValues /\ 0 \in RawValues /\ p # 0
  BY <1>1 DEF RawValues
<1>3. Wrap(0, Isn[e]) = Isn[e]
  BY <1>1, WrapOfZero
<1> QED
  BY <1>1, <1>2, <1>3, SameNumber

\* Transmit puts the segment into the queue and among the outstanding ones.
LEMMA TransmitShape ==
  ASSUME NEW e \in Ends, NEW s \in Senders(e), NEW seg \in Segments
  PROVE  LET t == Transmit(s, seg)
         IN  /\ t \in Senders(e)
             /\ t.stream = s.stream /\ t.nextSeqno = s.nextSeqno /\ t.acked = s.acked
             /\ t.crtx = s.crtx /\ t.finSent = s.finSent
             /\ t.outstanding = s.outstanding \cup {[seg |-> seg, left |-> s.rto]}
             /\ \A i \in DOMAIN t.segmentsOut :
                  \/ \E k \in DOMAIN s.segmentsOut : t.segmentsOut[i] = s.segmentsOut[k]
                  \/ t.segmentsOut[i] = seg
<1> DEFINE queue == Append(s.segmentsOut, seg)
           new == [seg |-> seg, left |-> s.rto]
           out == s.outstanding \cup {new}
           t == [s EXCEPT !.segmentsOut = queue, !.outstanding = out]
<1>1. s.outstanding \subseteq Timers /\ s.rto \in Int /\ s.segmentsOut \in Seq(Segments)
  BY SenderFields
<1>2. /\ queue \in Seq(Segments)
      /\ \A i \in DOMAIN queue :
           \/ queue[i] = seg
           \/ i \in DOMAIN s.segmentsOut /\ queue[i] = s.segmentsOut[i]
  BY <1>1, QueueGrows
<1>3. out \in SUBSET Timers
  BY <1>1 DEF Timers
<1>4. Transmit(s, seg) = t
  BY DEF Transmit
<1> HIDE DEF queue, out
<1>5. /\ t \in Senders(e) /\ t.segmentsOut = queue /\ t.outstanding = out
      /\ t.stream = s.stream /\ t.nextSeqno = s.nextSeqno /\ t.acked = s.acked
      /\ t.crtx = s.crtx /\ t.finSent = s.finSent
  BY <1>1, <1>2, <1>3 DEF Senders
<1> HIDE DEF t
<1> QED
  BY <1>2, <1>4, <1>5 DEF out

\* From s to t one segment has gone out.
GoesOut(s, t, seg) ==
  /\ \E left : t.outstanding = s.outstanding \cup {[seg |-> seg, left |-> left]}
  /\ \A i \in DOMAIN t.segmentsOut :
       \/ \E k \in DOMAIN s.segmentsOut : t.segmentsOut[i] = s.segmentsOut[k]
       \/ t.segmentsOut[i] = seg
  /\ t.finSent = seg.fin /\ t.acked = s.acked

\* A sender that has sent one segment more, with the FIN or without.
LEMMA SentFinishing ==
  ASSUME NEW e \in Ends, NEW s, Finishing(s, e), NEW seg, NEW t, GoesOut(s, t, seg),
         ~ s.finSent, s.acked <= t.nextSeqno, t.nextSeqno > 0, Numbered(seg, e),
         t.stream.eof2 => t.stream.totWrite = StreamLen[e],
         t.finSent => Eof(t.stream)
  PROVE  Finishing(t, e)
<1>0. PICK left : t.outstanding = s.outstanding \cup {[seg |-> seg, left |-> left]}
  BY DEF GoesOut
<1> DEFINE new == [seg |-> seg, left |-> left]
<1>0b. t.outstanding = s.outstanding \cup {new} /\ new.seg = seg
  BY <1>0
<1> HIDE DEF new
<1>1. IsFiniteSet(t.outstanding)
  <2>1. IsFiniteSet(s.outstanding)
    BY DEF Finishing
  <2> QED
    BY <1>0b, <2>1, FS_AddElement
<1>2. new \in t.outstanding /\ new.seg = seg
  BY <1>0b
<1>3. \A o \in t.outstanding : o \in s.outstanding \/ o.seg = seg
  BY <1>0b
<1>4. Marked(seg, t.finSent, e)
  BY DEF Marked, GoesOut
<1>5. AllMarked(t, e)
  <2>1. AllMarked(s, e)
    BY DEF Finishing
  <2>2. \A i \in DOMAIN t.segmentsOut :
          \/ \E k \in DOMAIN s.segmentsOut : t.segmentsOut[i] = s.segmentsOut[k]
          \/ Marked(t.segmentsOut[i], t.finSent, e)
    BY <1>4 DEF GoesOut
  <2>3. \A o \in t.outstanding :
          \/ \E q \in s.outstanding : o.seg = q.seg
          \/ Marked(o.seg, t.finSent, e)
    BY <1>3, <1>4
  <2> QED
    BY ONLY <2>1, <2>2, <2>3, ~ s.finSent, MarkedKept
<1>6. t.finSent => \E o \in t.outstanding : o.seg.fin
  BY <1>2 DEF GoesOut
<1>7. t.acked <= t.nextSeqno /\ t.nextSeqno # 0
  BY DEF GoesOut
<1> QED
  BY <1>1, <1>5, <1>6, <1>7 DEF Finishing

\* The SYN goes without the FIN: a stream is ended only when the SYN has been acknowledged.
LEMMA SynFinishing ==
  ASSUME Modest, NEW e \in Ends, NEW s, Sending(s, e), Finishing(s, e), s.window = NoWindow
  PROVE  Finishing(SendSyn(s), e) /\ SendSyn(s).acked = s.acked
         /\ SendSyn(s).segmentsOut # <<>>
<1> DEFINE fin == Eof(s.stream)
           seg == [EmptySegment EXCEPT !.seqno = s.isn, !.syn = TRUE, !.fin = fin]
           t == SendSyn(s)
           u == Transmit(s, seg)
<1>1. /\ s \in Senders(e) /\ s.isn = Isn[e] /\ Isn[e] \in RawValues
      /\ s.nextSeqno = 0 /\ ~ s.finSent /\ s.acked \in Nat /\ StreamLen[e] \in Nat
  <2>1. s \in Senders(e)
    BY DEF Sending
  <2>2. s.acked \in Nat
    BY <2>1, SenderFields DEF SizeTs
  <2> QED
    BY <2>1, <2>2, SenderFields, ModestFacts DEF Sending, Counting
<1>2. s.acked <= 0 /\ ~ s.stream.eof2
  BY <1>1 DEF Finishing
<1>3. fin = FALSE
  BY <1>2 DEF Eof
<1> HIDE DEF fin
<1>4. /\ seg \in Segments /\ seg.seqno = Isn[e] /\ seg.syn = TRUE /\ seg.fin = FALSE
  BY <1>1, <1>3, NothingIsSegment DEF Segments, TCPSegments
<1>5. t = [u EXCEPT !.window = 1, !.nextSeqno = 1 + One(fin), !.finSent = fin]
  BY DEF SendSyn, fin
<1>6. 1 + One(fin) = 1
  BY <1>3 DEF One
<1> HIDE DEF seg
<1>7. /\ u \in Senders(e) /\ u.stream = s.stream /\ u.acked = s.acked
      /\ u.outstanding = s.outstanding \cup {[seg |-> seg, left |-> s.rto]}
      /\ \A i \in DOMAIN u.segmentsOut :
           \/ \E k \in DOMAIN s.segmentsOut : u.segmentsOut[i] = s.segmentsOut[k]
           \/ u.segmentsOut[i] = seg
  BY <1>1, <1>4, TransmitShape
<1>7b. u.segmentsOut # <<>>
  <2>1. u.segmentsOut = Append(s.segmentsOut, seg)
    BY <1>1 DEF Transmit, Senders
  <2>2. s.segmentsOut \in Seq(Segments)
    BY <1>1, SenderFields
  <2> QED
    BY <1>4, <2>1, <2>2, AppendProperties
<1> HIDE DEF u
<1>8. /\ t.stream = s.stream /\ t.nextSeqno = 1 /\ t.acked = s.acked /\ t.finSent = FALSE
      /\ t.outstanding = u.outstanding /\ t.segmentsOut = u.segmentsOut
  BY <1>3, <1>5, <1>6, <1>7 DEF Senders
<1> HIDE DEF t
<1>9. Numbered(seg, e)
  BY <1>4 DEF Numbered
<1>10. s.acked <= t.nextSeqno /\ t.nextSeqno > 0
  BY <1>1, <1>2, <1>8
<1>11. Finishing(t, e)
  <2>1. GoesOut(s, t, seg)
    BY <1>4, <1>7, <1>8 DEF GoesOut
  <2>2. ~ t.stream.eof2 /\ ~ t.finSent
    BY <1>2, <1>8
  <2> QED
    BY <1>1, <1>9, <1>10, <2>1, <2>2, SentFinishing
<1> QED
  BY <1>7b, <1>8, <1>11 DEF t

\* One turn of the loop.
LEMMA TurnFinishing ==
  ASSUME Modest, NEW e \in Ends, NEW s, Sending(s, e), Finishing(s, e), s.window # NoWindow
  PROVE  Finishing(FillOne(s), e) /\ FillOne(s).acked = s.acked
<1> DEFINE len == Smaller(MaxPayload, Smaller(BufferSize(s.stream), Room(s)))
           stream == PopOutput(s.stream, len)
           fin == FinGoes(s, stream, len)
           seg == [EmptySegment EXCEPT !.seqno = NextSeqno(s), !.fin = fin,
                     !.payload = PeekOutput(s.stream, len)]
           t == [Transmit(s, seg) EXCEPT !.stream = stream, !.finSent = fin,
                   !.crtx = 0, !.nextSeqno = @ + len + One(fin)]
<1>1. FillOne(s) = IF s.finSent \/ Room(s) <= 0 \/ (len = 0 /\ ~ fin) THEN s ELSE t
  BY DEF FillOne
<1>2. /\ s \in Senders(e) /\ Flowing(s.stream, e) /\ s.isn = Isn[e]
      /\ s.stream.totRead \in Nat /\ BufferSize(s.stream) \in Nat
      /\ s.nextSeqno \in 0 .. StreamLen[e] + 2 /\ s.window \in Int /\ s.acked \in Nat
      /\ StreamLen[e] \in Nat /\ MaxPayload \in Nat /\ Isn[e] \in RawValues
      /\ s.nextSeqno # 0 /\ WithinRound /\ s.stream \in Streams(SendCapacity)
      /\ s.nextSeqno \in Nat
  <2>1. s \in Senders(e) /\ Flowing(s.stream, e) /\ s.nextSeqno # 0
    BY DEF Sending, Counting
  <2>2. s.acked \in Nat
    BY <2>1, SenderFields DEF SizeTs
  <2>3. WithinRound
    BY DEF Modest
  <2> QED
    BY <2>1, <2>2, <2>3, SenderFields, FlowFields, CountFields, PairFacts, SenderAssumption
<1>3. CASE s.finSent \/ Room(s) <= 0 \/ (len = 0 /\ ~ fin)
  BY <1>1, <1>3
<1>4. CASE ~ (s.finSent \/ Room(s) <= 0 \/ (len = 0 /\ ~ fin))
  <2>1. FillOne(s) = t
    BY <1>1, <1>4
  <2>2. ~ s.finSent /\ Room(s) \in Int /\ Room(s) > 0 /\ s.stream.totRead + 1 = s.nextSeqno
    <3>1. Room(s) \in Int
      BY <1>2 DEF Room
    <3> QED
      BY <1>2, <1>4, <3>1, CountFields
  <2>3. len \in 0 .. BufferSize(s.stream) /\ len \in Nat
    BY <1>2, <2>2 DEF Smaller
  <2> HIDE DEF len
  <2>4. /\ Flowing(stream, e) /\ stream.totRead = s.stream.totRead + len
        /\ PeekOutput(s.stream, len) = Excerpt(s.stream.totRead, len)
    BY <1>2, <2>3, PopFlows
  <2>5. /\ stream.eof2 = s.stream.eof2 /\ stream.totWrite = s.stream.totWrite
    <3> DEFINE m == SubSeq(s.stream.buf, Smaller(len, Len(s.stream.buf)) + 1, Len(s.stream.buf))
    <3>1. stream \in [cap : {s.stream.cap}, rem : {s.stream.rem + len},
                 totRead : {s.stream.totRead + len}, totWrite : {s.stream.totWrite},
                 eof2 : {s.stream.eof2}, error : {s.stream.error}, buf : {m}]
      BY <1>2 DEF PopOutput, Streams
    <3> HIDE DEF stream, m
    <3> QED
      BY <3>1
  <2>6. fin \in BOOLEAN /\ (fin => Eof(stream))
    BY DEF FinGoes, Eof, BufferEmpty
  <2> HIDE DEF stream, fin
  <2>7. /\ seg \in Segments /\ seg.seqno = Wrap(s.nextSeqno, Isn[e]) /\ seg.syn = FALSE
        /\ seg.fin = fin /\ seg.payload = Excerpt(s.stream.totRead, len)
    <3>1. NextSeqno(s) \in RawValues /\ NextSeqno(s) = Wrap(s.nextSeqno, Isn[e])
      BY <1>2, WrapRounds DEF NextSeqno
    <3>2. Excerpt(s.stream.totRead, len) \in Seq(Nat)
      BY <1>2, <2>3, ExcerptIsSeq
    <3> QED
      BY <2>4, <2>6, <3>1, <3>2, NothingIsSegment DEF Segments, TCPSegments
  <2> HIDE DEF seg
  <2>8. stream.eof2 => stream.totWrite = StreamLen[e]
    BY <2>5 DEF Finishing
  <2>9. Numbered(seg, e)
    <3>1. seg.seqno # Isn[e]
      <4>1. s.nextSeqno \in 1 .. StreamLen[e] + 2
        BY <1>2
      <4> QED
        BY <2>7, <4>1, NotFirst
    <3>2. Len(seg.payload) = len
      BY <1>2, <2>3, <2>7, ExcerptIsSeq
    <3>3. ASSUME fin
          PROVE  len <= StreamLen[e] /\ s.nextSeqno = StreamLen[e] + 1 - len
      <4>1. stream.eof2 /\ stream.rem = stream.cap
        BY <2>6, <3>3 DEF Eof, BufferEmpty
      <4>2. stream.totRead = stream.totWrite /\ stream.totRead = StreamLen[e]
        <5>1. /\ stream.totWrite = stream.totRead + (SendCapacity - stream.rem)
              /\ stream.rem = SendCapacity /\ stream.totRead \in Nat /\ SendCapacity \in Nat
          BY <2>4, <4>1, FlowFields DEF Flowing
        <5> QED
          BY <2>8, <4>1, <5>1
      <4> QED
        BY <1>2, <2>2, <2>3, <2>4, <4>2
    <3> QED
      BY <2>7, <3>1, <3>2, <3>3 DEF Numbered
  <2> DEFINE u == Transmit(s, seg)
  <2>10. /\ u \in Senders(e) /\ u.nextSeqno = s.nextSeqno /\ u.acked = s.acked
         /\ u.outstanding = s.outstanding \cup {[seg |-> seg, left |-> s.rto]}
         /\ \A i \in DOMAIN u.segmentsOut :
              \/ \E k \in DOMAIN s.segmentsOut : u.segmentsOut[i] = s.segmentsOut[k]
              \/ u.segmentsOut[i] = seg
    BY <1>2, <2>7, TransmitShape
  <2> HIDE DEF u
  <2> DEFINE next == s.nextSeqno + len + One(fin)
  <2>11. next \in Nat /\ next > 0 /\ s.acked <= next
    <3>1. One(fin) \in {0, 1}
      BY DEF One
    <3> QED
      BY <1>2, <2>3, <3>1 DEF Finishing
  <2> HIDE DEF next
  <2>12. t = [u EXCEPT !.stream = stream, !.finSent = fin, !.crtx = 0, !.nextSeqno = next]
    <3>1. t = [u EXCEPT !.stream = stream, !.finSent = fin, !.crtx = 0,
                        !.nextSeqno = u.nextSeqno + len + One(fin)]
      BY DEF u
    <3> HIDE DEF t
    <3> QED
      BY <2>10, <3>1 DEF next
  <2> HIDE DEF t
  <2>13. /\ t.stream = stream /\ t.finSent = fin /\ t.nextSeqno = next /\ t.acked = s.acked
         /\ t.outstanding = u.outstanding /\ t.segmentsOut = u.segmentsOut
    BY <2>10, <2>12 DEF Senders
  <2>14. Finishing(t, e)
    <3>1. GoesOut(s, t, seg)
      BY <2>7, <2>10, <2>13 DEF GoesOut
    <3>2. /\ t.stream.eof2 => t.stream.totWrite = StreamLen[e]
          /\ t.finSent => Eof(t.stream)
      BY <2>6, <2>8, <2>13
    <3>3. s.acked <= t.nextSeqno /\ t.nextSeqno > 0
      BY <2>11, <2>13
    <3> QED
      BY <2>2, <2>9, <3>1, <3>2, <3>3, SentFinishing
  <2> QED
    BY <2>1, <2>13, <2>14
<1> QED
  BY <1>3, <1>4

\* The loop, by induction on the number of turns.
LEMMA TurnsFinishing ==
  ASSUME Modest, NEW e \in Ends, NEW s, Sending(s, e), Finishing(s, e), s.window # NoWindow,
         NEW n \in Nat, NEW f, Turns(s, n, f)
  PROVE  Finishing(f[n], e) /\ f[n].acked = s.acked
<1> DEFINE P == {k \in Nat : k <= n => /\ Onward(s, f[k], e)
                                       /\ Finishing(f[k], e) /\ f[k].acked = s.acked}
<1>0. WithinRound
  BY DEF Modest
<1>1. \A k \in 0 .. n : f[k] = IF k = 0 THEN s ELSE FillOne(f[k - 1])
  BY DEF Turns
<1>2. 0 \in P
  <2>1. f[0] = s
    BY <1>1
  <2>2. s.stream.totRead \in Nat
    BY FlowFields DEF Sending
  <2> QED
    BY <2>1, <2>2 DEF Onward
<1>3. ASSUME NEW k \in Nat, k \in P PROVE k + 1 \in P
  <2> SUFFICES ASSUME k + 1 <= n
               PROVE  /\ Onward(s, f[k + 1], e)
                      /\ Finishing(f[k + 1], e) /\ f[k + 1].acked = s.acked
    BY <1>3
  <2>1. Onward(s, f[k], e) /\ Finishing(f[k], e) /\ f[k].acked = s.acked
    BY <1>3
  <2>2. f[k + 1] = FillOne(f[k])
    BY <1>1, <1>3
  <2>3. Onward(f[k], f[k + 1], e)
    BY <1>0, <2>1, <2>2, TurnSending DEF Onward
  <2>4. Finishing(f[k + 1], e) /\ f[k + 1].acked = f[k].acked
    BY <2>1, <2>2, TurnFinishing DEF Onward
  <2> QED
    BY <2>1, <2>3, <2>4, OnwardTwice
<1> HIDE DEF P
<1>4. \A k \in Nat : k \in P
  BY <1>2, <1>3, EveryNumber
<1> QED
  BY <1>4 DEF P

\* fill_window; before the SYN has been sent it sends that.
LEMMA FillFinishing ==
  ASSUME Modest, NEW e \in Ends, NEW s, Sending(s, e), Finishing(s, e)
  PROVE  /\ Finishing(FillWindow(s), e) /\ FillWindow(s).acked = s.acked
         /\ s.nextSeqno = 0 => FillWindow(s).segmentsOut # <<>>
<1> DEFINE turns == BufferSize(s.stream) + 1
<1>1. turns \in Nat /\ Counting(s)
  BY FlowFields DEF Sending
<1>2. CASE s.finSent
  BY <1>1, <1>2 DEF FillWindow, Counting
<1>3. CASE ~ s.finSent /\ s.window = NoWindow
  <2>1. FillWindow(s) = SendSyn(s)
    BY <1>3 DEF FillWindow
  <2> QED
    BY <1>3, <2>1, SynFinishing
<1>4. CASE ~ s.finSent /\ s.window # NoWindow
  <2> DEFINE f == CHOOSE g : Turns(s, turns, g)
  <2>1. FillWindow(s) = f[turns]
    BY <1>4 DEF FillWindow, Turns
  <2>2. Turns(s, turns, f)
    BY <1>1, TurnsExist
  <2> HIDE DEF f, turns
  <2>3. Finishing(f[turns], e) /\ f[turns].acked = s.acked
    BY <1>1, <1>4, <2>2, TurnsFinishing
  <2> QED
    BY <1>1, <1>4, <2>1, <2>3 DEF Counting
<1> QED
  BY <1>2, <1>3, <1>4

\* What a function makes of a finite set is finite.
LEMMA ImageIsFinite ==
  ASSUME NEW S, IsFiniteSet(S), NEW f, f = [x \in S |-> f[x]]
  PROVE  IsFiniteSet({f[x] : x \in S})
<1> DEFINE T == {f[x] : x \in S}
<1>1. f \in Surjection(S, T)
  BY DEF Surjection
<1> HIDE DEF T
<1>2. IsFiniteSet(T)
  BY <1>1, FS_Surjection
<1> QED
  BY <1>2 DEF T

\* When nothing is in flight nothing is outstanding that takes up sequence numbers.
LEMMA NothingInFlight ==
  ASSUME NEW s, IsFiniteSet(s.outstanding), s.outstanding \subseteq Timers,
         BytesInFlight(s) = 0, NEW o \in s.outstanding
  PROVE  LengthInSequenceSpace(o.seg) <= 0
<1> DEFINE f == [x \in s.outstanding |-> {x} \X (1 .. LengthInSequenceSpace(x.seg))]
           C == {f[x] : x \in s.outstanding}
<1>1. \A x \in s.outstanding : LengthInSequenceSpace(x.seg) \in Int
  <2> SUFFICES ASSUME NEW x \in s.outstanding PROVE LengthInSequenceSpace(x.seg) \in Int
    OBVIOUS
  <2>1. Len(x.seg.payload) \in Nat
    BY SegmentFields DEF Timers
  <2>2. One(x.seg.syn) \in Nat /\ One(x.seg.fin) \in Nat
    BY DEF One
  <2> QED
    BY <2>1, <2>2 DEF LengthInSequenceSpace
<1>2. IsFiniteSet(C)
  <2>1. f = [x \in s.outstanding |-> f[x]]
    OBVIOUS
  <2> HIDE DEF f
  <2> QED
    BY <2>1, ImageIsFinite
<1>3. \A T \in C : IsFiniteSet(T)
  <2> SUFFICES ASSUME NEW x \in s.outstanding PROVE IsFiniteSet(f[x])
    OBVIOUS
  <2> DEFINE n == LengthInSequenceSpace(x.seg)
  <2>1. n \in Int
    BY <1>1
  <2> HIDE DEF n
  <2>2. IsFiniteSet(1 .. n)
    BY <2>1, FS_Interval
  <2>3. IsFiniteSet({x})
    BY FS_Singleton
  <2>4. IsFiniteSet({x} \X (1 .. n))
    BY <2>2, <2>3, FS_Product
  <2> QED
    BY <2>4 DEF n
<1>4. IsFiniteSet(UNION C)
  <2> HIDE DEF C
  <2> QED
    BY <1>2, <1>3, FS_UNION
<1>5. UNION C = UNION {{x} \X (1 .. LengthInSequenceSpace(x.seg)) : x \in s.outstanding}
  OBVIOUS
<1>6. UNION C = {}
  <2> HIDE DEF C
  <2>1. Cardinality(UNION C) = 0
    BY <1>5 DEF BytesInFlight
  <2> QED
    BY <1>4, <2>1, FS_EmptySet
<1>7. SUFFICES ASSUME LengthInSequenceSpace(o.seg) > 0 PROVE FALSE
  BY <1>1
<1>8. 1 \in 1 .. LengthInSequenceSpace(o.seg)
  BY <1>1, <1>7
<1>9. <<o, 1>> \in f[o]
  BY <1>8
<1>10. f[o] \in C
  OBVIOUS
<1> HIDE DEF C, f
<1> QED
  BY <1>6, <1>9, <1>10

\* A sender that has forgotten some of its segments, changed their timers, or queued
\* one that it keeps or an empty one.
LEMMA RestFinishing ==
  ASSUME NEW e \in Ends, NEW s, Finishing(s, e), NEW t,
         t.stream = s.stream, t.nextSeqno = s.nextSeqno, t.finSent = s.finSent,
         t.acked <= s.nextSeqno,
         s.nextSeqno = 0 => t.crtx = 0,
         IsFiniteSet(t.outstanding),
         \A o \in t.outstanding : \E q \in s.outstanding : o.seg = q.seg,
         s.finSent => t.acked = StreamLen[e] + 2 \/ \E o \in t.outstanding : o.seg.fin,
         \A i \in DOMAIN t.segmentsOut :
           \/ \E k \in DOMAIN s.segmentsOut : t.segmentsOut[i] = s.segmentsOut[k]
           \/ Marked(t.segmentsOut[i], t.finSent, e)
  PROVE  Finishing(t, e)
<1>1. AllMarked(t, e)
  <2>1. AllMarked(s, e)
    BY DEF Finishing
  <2> QED
    BY <2>1, MarkedKept
<1>2. s.nextSeqno = 0 => t.outstanding = {}
  BY DEF Finishing
<1>3. /\ s.stream.eof2 => s.nextSeqno > 0 /\ s.stream.totWrite = StreamLen[e]
      /\ s.finSent => Eof(s.stream)
  BY DEF Finishing
<1> QED
  BY <1>1, <1>2, <1>3 DEF Finishing

\* A segment with the FIN is forgotten only when all of the stream is acknowledged.
LEMMA AckFinishing ==
  ASSUME Modest, NEW e \in Ends, NEW s, Sending(s, e), Finishing(s, e),
         NEW q \in 1 .. StreamLen[e] + 2, NEW ackno \in RawValues,
         ackno = Wrap(q, Isn[e]), NEW win \in Nat
  PROVE  LET t == AckReceived(s, ackno, win)
         IN  /\ Finishing(t, e)
             /\ t.acked = s.acked \/ t.acked = q
             /\ t.finSent = s.finSent
<1> DEFINE acked == Unwrap(ackno, s.isn, s.acked)
           new == acked > s.acked
           rto == IF new THEN RetxTimeout ELSE s.rto
           left == {o \in s.outstanding : ~ Acknowledged(s, o.seg, acked)}
           f == [o \in left |-> [o EXCEPT !.left = IF new THEN rto ELSE @]]
           out == {[o EXCEPT !.left = IF new THEN rto ELSE @] : o \in left}
           t == [s EXCEPT !.acked = acked, !.window = Larger(1, win),
                   !.zeroWindow = (win = 0), !.rto = rto, !.outstanding = out]
<1>1. /\ s \in Senders(e) /\ s.isn = Isn[e] /\ s.nextSeqno \in Nat /\ s.acked \in SizeTs
      /\ s.outstanding \subseteq Timers /\ Isn[e] \in RawValues
      /\ StreamLen[e] \in Nat /\ WithinRound /\ StreamLen[e] + 3 <= Round
      /\ Round \in Nat \ {0, 1} /\ s.nextSeqno <= StreamLen[e] + 2
  <2>1. WithinRound
    BY DEF Modest
  <2> QED
    BY <2>1, SenderFields, CountFields, PairFacts DEF Sending
<1>2. acked \in SizeTs /\ Wrap(acked, Isn[e]) = ackno
  BY ONLY <1>1, UnwrapAbove, ackno \in RawValues DEF WithinRound
<1> HIDE DEF acked
<1>3. AckReceived(s, ackno, win) = IF ~ Credible(s, acked) THEN s ELSE t
  BY DEF AckReceived, acked
<1>4. CASE ~ Credible(s, acked)
  BY <1>3, <1>4
<1>5. CASE Credible(s, acked)
  <2>1. acked <= s.nextSeqno /\ acked \in Nat
    BY <1>2, <1>5 DEF Credible, SizeTs
  <2>2. acked = q
    <3>1. q \in RawValues /\ q \in Nat
      BY <1>1 DEF RawValues
    <3>2. acked = q \/ acked >= q + Round
      BY ONLY <1>1, <1>2, <2>1, <3>1, SamePlace, ackno = Wrap(q, Isn[e])
    <3> QED
      BY <1>1, <2>1, <3>1, <3>2
  <2> HIDE DEF rto, new
  <2>3. \A o \in left : f[o].seg = o.seg
    BY <1>1 DEF Timers
  <2>4. IsFiniteSet(out)
    <3>1. IsFiniteSet(left)
      <4>1. IsFiniteSet(s.outstanding) /\ left \in SUBSET s.outstanding
        BY DEF Finishing
      <4> HIDE DEF left
      <4> QED
        BY <4>1, FS_Subset
    <3>2. f = [o \in left |-> f[o]] /\ out = {f[o] : o \in left}
      OBVIOUS
    <3> HIDE DEF f, left, out
    <3> QED
      BY <3>1, <3>2, ImageIsFinite
  <2>5. /\ \A o \in out : \E k \in s.outstanding : o.seg = k.seg
        /\ \A o \in left : \E k \in out : k.seg = o.seg
    <3>1. out = {f[o] : o \in left} /\ left \subseteq s.outstanding
      OBVIOUS
    <3> HIDE DEF f, left, out
    <3> QED
      BY <2>3, <3>1
  <2>6. ASSUME NEW o \in s.outstanding, o.seg.fin, o \notin left
        PROVE  acked = StreamLen[e] + 2
    <3> DEFINE u == Unwrap(o.seg.seqno, s.isn, acked)
               len == Len(o.seg.payload)
               p == StreamLen[e] + 1 - len
    <3>1. /\ o.seg \in Segments /\ len \in Nat /\ o.seg.seqno \in RawValues
          /\ One(o.seg.syn) \in Nat
      BY <1>1, SegmentFields DEF Timers, One
    <3>2. /\ len <= StreamLen[e] /\ o.seg.seqno = Wrap(p, Isn[e])
      BY <2>6 DEF Finishing, AllMarked, Marked, Numbered
    <3>3. Acknowledged(s, o.seg, acked)
      BY <2>6
    <3>4. u \in SizeTs /\ Wrap(u, Isn[e]) = o.seg.seqno
      BY ONLY <1>1, <1>2, <3>1, UnwrapAbove DEF WithinRound
    <3>5. u + LengthInSequenceSpace(o.seg) <= acked
      BY <3>3 DEF Acknowledged
    <3> HIDE DEF u, len
    <3>6. p \in RawValues /\ p \in Nat /\ u \in Nat
      BY <1>1, <3>1, <3>2, <3>4 DEF RawValues, SizeTs
    <3> HIDE DEF p
    <3>7. u = p \/ u >= p + Round
      BY ONLY <1>1, <3>2, <3>4, <3>6, SamePlace
    <3>8. LengthInSequenceSpace(o.seg) \in Nat /\ LengthInSequenceSpace(o.seg) >= len + 1
      <4>1. One(o.seg.fin) = 1
        BY <2>6 DEF One
      <4>2. LengthInSequenceSpace(o.seg) = len + One(o.seg.syn) + 1
        BY <4>1 DEF LengthInSequenceSpace, len
      <4> QED
        BY <3>1, <4>2
    <3>9. u = p
      BY <1>1, <2>1, <3>5, <3>6, <3>7, <3>8
    <3> QED
      BY <1>1, <2>1, <3>1, <3>2, <3>5, <3>8, <3>9 DEF p
  <2> HIDE DEF out
  <2>7. /\ t.stream = s.stream /\ t.nextSeqno = s.nextSeqno /\ t.acked = acked
        /\ t.finSent = s.finSent /\ t.outstanding = out /\ t.crtx = s.crtx
        /\ t.segmentsOut = s.segmentsOut
    BY <1>1 DEF Senders
  <2> HIDE DEF t, left
  <2>8. s.finSent => t.acked = StreamLen[e] + 2 \/ \E o \in t.outstanding : o.seg.fin
    <3> SUFFICES ASSUME s.finSent
                 PROVE  t.acked = StreamLen[e] + 2 \/ \E o \in t.outstanding : o.seg.fin
      OBVIOUS
    <3>1. s.acked = StreamLen[e] + 2 \/ \E o \in s.outstanding : o.seg.fin
      BY DEF Finishing
    <3>2. CASE s.acked = StreamLen[e] + 2
      BY <1>1, <1>5, <2>1, <2>7, <3>2 DEF Credible
    <3>3. CASE \E o \in s.outstanding : o.seg.fin
      BY <2>5, <2>6, <2>7, <3>3
    <3> QED
      BY <3>1, <3>2, <3>3
  <2>9. Finishing(t, e)
    <3>1. s.nextSeqno = 0 => t.crtx = 0
      BY <2>7 DEF Finishing
    <3> QED
      BY <2>1, <2>4, <2>5, <2>7, <2>8, <3>1, RestFinishing
  <2> QED
    BY <1>3, <1>5, <2>2, <2>7, <2>9
<1> QED
  BY <1>4, <1>5

\* ms milliseconds pass.
LEMMA ElapseFinishing ==
  ASSUME NEW e \in Ends, NEW s, Sending(s, e), Finishing(s, e), NEW ms \in Nat
  PROVE  /\ Finishing(Elapse(s, ms), e)
         /\ Elapse(s, ms).acked = s.acked /\ Elapse(s, ms).nextSeqno = s.nextSeqno
         /\ Elapse(s, ms).finSent = s.finSent
<1> DEFINE f == [o \in s.outstanding |-> [o EXCEPT !.left = @ - ms]]
           out == {[o EXCEPT !.left = @ - ms] : o \in s.outstanding}
           t == [s EXCEPT !.outstanding = out]
<1>1. s \in Senders(e) /\ s.outstanding \subseteq Timers /\ s.acked \in SizeTs
  BY SenderFields DEF Sending
<1>2. \A o \in s.outstanding : f[o].seg = o.seg
  BY <1>1 DEF Timers
<1>3. Elapse(s, ms) = t
  BY DEF Elapse
<1>4. out = {f[o] : o \in s.outstanding} /\ f = [o \in s.outstanding |-> f[o]]
  OBVIOUS
<1> HIDE DEF f, out
<1>5. IsFiniteSet(out)
  BY <1>4, ImageIsFinite DEF Finishing
<1>6. /\ \A o \in out : \E q \in s.outstanding : o.seg = q.seg
      /\ \A q \in s.outstanding : \E o \in out : o.seg = q.seg
  BY <1>2, <1>4
<1>7. /\ t.stream = s.stream /\ t.nextSeqno = s.nextSeqno /\ t.acked = s.acked
      /\ t.finSent = s.finSent /\ t.crtx = s.crtx /\ t.outstanding = out
      /\ t.segmentsOut = s.segmentsOut
  BY <1>1 DEF Senders
<1> HIDE DEF t
<1>8. s.finSent => t.acked = StreamLen[e] + 2 \/ \E o \in t.outstanding : o.seg.fin
  BY <1>6, <1>7 DEF Finishing
<1>9. t.acked <= s.nextSeqno /\ (s.nextSeqno = 0 => t.crtx = 0)
  BY <1>7 DEF Finishing
<1>10. Finishing(t, e)
  BY <1>5, <1>6, <1>7, <1>8, <1>9, RestFinishing
<1> QED
  BY <1>3, <1>7, <1>10

\* The oldest segment is sent again.
LEMMA RetransmitFinishing ==
  ASSUME Modest, NEW e \in Ends, NEW s, Sending(s, e), Finishing(s, e)
  PROVE  /\ Finishing(Retransmit(s), e)
         /\ Retransmit(s).acked = s.acked /\ Retransmit(s).nextSeqno = s.nextSeqno
         /\ Retransmit(s).finSent = s.finSent
<1> DEFINE rto == IF s.zeroWindow THEN s.rto ELSE (2 * s.rto) % UIntRange
           seg == Oldest(s).seg
           queue == Append(s.segmentsOut, seg)
           f == [o \in s.outstanding |-> [o EXCEPT !.left = rto]]
           out == Restarted(s, rto)
           count == s.crtx + 1
           t == [s EXCEPT !.rto = rto, !.crtx = count, !.segmentsOut = queue,
                          !.outstanding = out]
<1>1. Retransmit(s) = IF Expired(s) = {} THEN s ELSE t
  BY DEF Retransmit
<1>2. CASE Expired(s) = {}
  BY <1>1, <1>2
<1>3. CASE Expired(s) # {}
  <2>1. /\ s \in Senders(e) /\ s.outstanding \subseteq Timers
        /\ s.segmentsOut \in Seq(Segments)
    BY SenderFields DEF Sending
  <2>2. Oldest(s) \in s.outstanding
    BY <1>3, OldestIsSent DEF Modest
  <2>3. seg \in Segments /\ Marked(seg, s.finSent, e)
    BY <2>1, <2>2 DEF Finishing, AllMarked, Timers
  <2> HIDE DEF rto, seg, count
  <2>4. \A i \in DOMAIN queue :
          \/ queue[i] = seg
          \/ i \in DOMAIN s.segmentsOut /\ queue[i] = s.segmentsOut[i]
    BY <2>1, <2>3, QueueGrows
  <2>5. \A o \in s.outstanding : f[o].seg = o.seg
    BY <2>1 DEF Timers
  <2>6. out = {f[o] : o \in s.outstanding} /\ f = [o \in s.outstanding |-> f[o]]
    BY DEF Restarted
  <2> HIDE DEF f, out, queue
  <2>7. IsFiniteSet(out)
    BY <2>6, ImageIsFinite DEF Finishing
  <2>8. /\ \A o \in out : \E q \in s.outstanding : o.seg = q.seg
        /\ \A q \in s.outstanding : \E o \in out : o.seg = q.seg
    BY <2>5, <2>6
  <2>9. /\ t.stream = s.stream /\ t.nextSeqno = s.nextSeqno /\ t.acked = s.acked
        /\ t.finSent = s.finSent /\ t.outstanding = out /\ t.segmentsOut = queue
    BY <2>1 DEF Senders
  <2> HIDE DEF t
  <2>10. s.finSent => t.acked = StreamLen[e] + 2 \/ \E o \in t.outstanding : o.seg.fin
    BY <2>8, <2>9 DEF Finishing
  <2>11. t.acked <= s.nextSeqno /\ s.nextSeqno # 0
    BY <2>2, <2>9 DEF Finishing
  <2>12. \A i \in DOMAIN t.segmentsOut :
           \/ \E k \in DOMAIN s.segmentsOut : t.segmentsOut[i] = s.segmentsOut[k]
           \/ Marked(t.segmentsOut[i], t.finSent, e)
    BY <2>3, <2>4, <2>9
  <2>13. Finishing(t, e)
    BY <2>7, <2>8, <2>9, <2>10, <2>11, <2>12, RestFinishing
  <2> QED
    BY <1>1, <1>3, <2>9, <2>13
<1> QED
  BY <1>2, <1>3

\* An empty segment, once the SYN has gone.
LEMMA EmptyFinishing ==
  ASSUME Modest, NEW e \in Ends, NEW s, Sending(s, e), Finishing(s, e), s.nextSeqno # 0
  PROVE  /\ Finishing(SendEmptySegment(s), e)
         /\ SendEmptySegment(s).acked = s.acked
         /\ SendEmptySegment(s).nextSeqno = s.nextSeqno
         /\ SendEmptySegment(s).finSent = s.finSent
<1> DEFINE seg == [EmptySegment EXCEPT !.seqno = NextSeqno(s)]
           queue == Append(s.segmentsOut, seg)
           t == [s EXCEPT !.crtx = 0, !.segmentsOut = queue]
<1>1. /\ s \in Senders(e) /\ s.isn = Isn[e] /\ s.segmentsOut \in Seq(Segments)
      /\ s.nextSeqno \in 1 .. StreamLen[e] + 2 /\ s.nextSeqno \in Int
      /\ Isn[e] \in RawValues
  <2>1. WithinRound
    BY DEF Modest
  <2>2. /\ s.nextSeqno \in 0 .. StreamLen[e] + 2 /\ StreamLen[e] \in Nat
        /\ Isn[e] \in RawValues
    BY <2>1, CountFields, PairFacts
  <2>3. s.nextSeqno \in 1 .. StreamLen[e] + 2
    BY <2>2
  <2> QED
    BY <2>2, <2>3, SenderFields DEF Sending
<1>2. /\ seg \in Segments /\ seg.seqno = Wrap(s.nextSeqno, Isn[e])
      /\ seg.syn = FALSE /\ seg.fin = FALSE
  <2>1. NextSeqno(s) \in RawValues /\ NextSeqno(s) = Wrap(s.nextSeqno, Isn[e])
    BY <1>1, WrapRounds DEF NextSeqno
  <2>2. EmptySegment.fin = FALSE
    BY DEF EmptySegment
  <2> QED
    BY <2>1, <2>2, NothingIsSegment DEF Segments, TCPSegments
<1>3. SendEmptySegment(s) = t
  BY DEF SendEmptySegment
<1> HIDE DEF seg
<1>4. Marked(seg, s.finSent, e)
  BY <1>1, <1>2, NotFirst DEF Marked, Numbered
<1>5. \A i \in DOMAIN queue :
        \/ queue[i] = seg
        \/ i \in DOMAIN s.segmentsOut /\ queue[i] = s.segmentsOut[i]
  BY <1>1, <1>2, QueueGrows
<1> HIDE DEF queue
<1>6. /\ t.stream = s.stream /\ t.nextSeqno = s.nextSeqno /\ t.acked = s.acked
      /\ t.finSent = s.finSent /\ t.outstanding = s.outstanding /\ t.segmentsOut = queue
  BY <1>1 DEF Senders
<1> HIDE DEF t
<1>7. \A i \in DOMAIN t.segmentsOut :
        \/ \E k \in DOMAIN s.segmentsOut : t.segmentsOut[i] = s.segmentsOut[k]
        \/ Marked(t.segmentsOut[i], t.finSent, e)
  BY <1>4, <1>5, <1>6
<1>8. /\ t.acked <= s.nextSeqno /\ IsFiniteSet(t.outstanding)
      /\ s.finSent => t.acked = StreamLen[e] + 2 \/ \E o \in t.outstanding : o.seg.fin
  BY <1>6 DEF Finishing
<1>9. Finishing(t, e)
  BY <1>6, <1>7, <1>8, RestFinishing
<1> QED
  BY <1>3, <1>6, <1>9

\* The connection takes segments from the sender's queue.
LEMMA TakenFinishing ==
  ASSUME NEW e \in Ends, NEW s, s \in Senders(e), Finishing(s, e), NEW queue,
         \A i \in DOMAIN queue : \E k \in DOMAIN s.segmentsOut : queue[i] = s.segmentsOut[k]
  PROVE  /\ Finishing([s EXCEPT !.segmentsOut = queue], e)
         /\ [s EXCEPT !.segmentsOut = queue].acked = s.acked
         /\ [s EXCEPT !.segmentsOut = queue].finSent = s.finSent
         /\ [s EXCEPT !.segmentsOut = queue].stream = s.stream
<1> DEFINE t == [s EXCEPT !.segmentsOut = queue]
<1>1. /\ t.stream = s.stream /\ t.nextSeqno = s.nextSeqno /\ t.acked = s.acked
      /\ t.finSent = s.finSent /\ t.outstanding = s.outstanding /\ t.crtx = s.crtx
      /\ t.segmentsOut = queue
  BY DEF Senders
<1> HIDE DEF t
<1>2. /\ t.acked <= s.nextSeqno /\ IsFiniteSet(t.outstanding)
      /\ s.nextSeqno = 0 => t.crtx = 0
      /\ s.finSent => t.acked = StreamLen[e] + 2 \/ \E o \in t.outstanding : o.seg.fin
  BY <1>1 DEF Finishing
<1>3. Finishing(t, e)
  BY <1>1, <1>2, RestFinishing
<1> QED
  BY <1>1, <1>3 DEF t

\* The stream changes otherwise than by being read from.
LEMMA StreamFinishing ==
  ASSUME NEW e \in Ends, NEW s, s \in Senders(e), Finishing(s, e), NEW b,
         b.eof2 => s.nextSeqno > 0 /\ b.totWrite = StreamLen[e],
         s.finSent => Eof(b)
  PROVE  /\ Finishing([s EXCEPT !.stream = b], e)
         /\ [s EXCEPT !.stream = b].acked = s.acked
         /\ [s EXCEPT !.stream = b].finSent = s.finSent
<1> DEFINE t == [s EXCEPT !.stream = b]
<1>1. /\ t.stream = b /\ t.nextSeqno = s.nextSeqno /\ t.acked = s.acked
      /\ t.finSent = s.finSent /\ t.outstanding = s.outstanding /\ t.crtx = s.crtx
      /\ t.segmentsOut = s.segmentsOut
  BY DEF Senders
<1> HIDE DEF t
<1>2. AllMarked(t, e)
  BY <1>1 DEF Finishing, AllMarked
<1>3. Finishing(t, e)
  BY <1>1, <1>2 DEF Finishing
<1> QED
  BY <1>1, <1>3 DEF t

\* The constructor.
LEMMA NewFinishing ==
  ASSUME NEW e \in Ends
  PROVE  /\ Finishing(NewSender(Isn[e], SendCapacity), e)
         /\ NewSender(Isn[e], SendCapacity).acked = 0
<1> DEFINE s == NewSender(Isn[e], SendCapacity)
<1>1. /\ s.stream.eof2 = FALSE /\ s.nextSeqno = 0 /\ s.acked = 0 /\ s.outstanding = {}
      /\ s.crtx = 0 /\ s.finSent = FALSE /\ s.segmentsOut = <<>>
  BY DEF NewSender, NewByteStream
<1> HIDE DEF s
<1>2. AllMarked(s, e) /\ IsFiniteSet(s.outstanding)
  BY <1>1, FS_EmptySet DEF AllMarked
<1>3. Finishing(s, e)
  BY <1>1, <1>2 DEF Finishing
<1> QED
  BY <1>1, <1>3 DEF s
-----------------------------------------------------------------------------
(***************************************************************************)
(* The endpoint, handler by handler.                                       *)
(***************************************************************************)
\* A segment of end e acknowledges the other's FIN only if that stream has ended.
Tells(seg, e, ended) ==
  seg.ack /\ seg.ackno = Wrap(StreamLen[Other(e)] + 2, Isn[Other(e)]) => ended

\* An endpoint with both its halves as above; far is whether the other end has had
\* the whole of its stream, or an error.
Meets(c, e, far) ==
  /\ Delivers(c.receiver, Other(e))
  /\ Finishing(c.sender, e)
  /\ c.finsent => c.sender.finSent
  /\ c.sender.acked = StreamLen[e] + 2 => far
  /\ \A i \in DOMAIN c.segmentsOut :
       Numbered(c.segmentsOut[i], e) /\ Tells(c.segmentsOut[i], e, Ended(Inbound(c)))

Able(c, e, read, far) == Good(c, e, read) /\ Meets(c, e, far)

\* A step of the endpoint that keeps all this, and the end of its inbound stream.
Kept(c, t, e, read, far) ==
  /\ Grown(c, t, e, read)
  /\ Meets(t, e, far)
  /\ Ended(Inbound(c)) => Ended(Inbound(t))

\* One step of a handler after the other.
LEMMA KeptTwice ==
  ASSUME NEW e \in Ends, NEW read, NEW far, NEW c, NEW t, NEW u, Able(c, e, read, far),
         Kept(c, t, e, read, far), Kept(t, u, e, read, far)
  PROVE  Kept(c, u, e, read, far)
<1>1. Good(c, e, read) /\ Grown(c, t, e, read) /\ Grown(t, u, e, read)
  BY DEF Able, Kept
<1>2. Grown(c, u, e, read)
  BY <1>1, GrownTwice
<1> QED
  BY <1>2 DEF Kept

\* What the next step may rely on.
LEMMA KeptAble ==
  ASSUME NEW e, NEW read, NEW far, NEW c, NEW t, Kept(c, t, e, read, far)
  PROVE  Able(t, e, read, far)
BY DEF Kept, Able, Grown

\* A flag or the clock changes.
LEMMA PartsKept ==
  ASSUME NEW e, NEW read, NEW far, NEW c, Able(c, e, read, far), NEW t, Grown(c, t, e, read),
         t.sender = c.sender, t.receiver = c.receiver, t.segmentsOut = c.segmentsOut,
         t.finsent = c.finsent
  PROVE  Kept(c, t, e, read, far)
BY DEF Able, Kept, Meets, Inbound

\* The sender changes.
LEMMA SenderKept ==
  ASSUME NEW e \in Ends, NEW read, NEW far, NEW c, Able(c, e, read, far),
         NEW s, Grown(c, [c EXCEPT !.sender = s], e, read), Finishing(s, e),
         c.sender.finSent => s.finSent,
         s.acked = c.sender.acked \/ (s.acked = StreamLen[e] + 2 => far)
  PROVE  Kept(c, [c EXCEPT !.sender = s], e, read, far)
<1> DEFINE t == [c EXCEPT !.sender = s]
<1>1. c \in Connections(e, read)
  BY GoodFields DEF Able
<1>2. /\ t.sender = s /\ t.receiver = c.receiver /\ t.segmentsOut = c.segmentsOut
      /\ t.finsent = c.finsent
  BY <1>1 DEF Connections
<1> HIDE DEF t
<1>3. Meets(t, e, far)
  BY <1>2 DEF Able, Meets, Inbound
<1>4. Ended(Inbound(c)) => Ended(Inbound(t))
  BY <1>2 DEF Inbound
<1> QED
  BY <1>3, <1>4 DEF Kept, t

\* The receiver changes.
LEMMA ReceiverKept ==
  ASSUME NEW e \in Ends, NEW read, NEW far, NEW c, Able(c, e, read, far),
         NEW r, Grown(c, [c EXCEPT !.receiver = r], e, read), Delivers(r, Other(e)),
         Ended(StreamIn(c.receiver)) => Ended(StreamIn(r))
  PROVE  /\ Kept(c, [c EXCEPT !.receiver = r], e, read, far)
         /\ [c EXCEPT !.receiver = r].sender = c.sender
         /\ [c EXCEPT !.receiver = r].receiver = r
<1> DEFINE t == [c EXCEPT !.receiver = r]
<1>1. c \in Connections(e, read)
  BY GoodFields DEF Able
<1>2. /\ t.sender = c.sender /\ t.receiver = r /\ t.segmentsOut = c.segmentsOut
      /\ t.finsent = c.finsent
  BY <1>1 DEF Connections
<1> HIDE DEF t
<1>3. Ended(Inbound(c)) => Ended(Inbound(t))
  BY <1>2 DEF Inbound
<1>4. Meets(t, e, far)
  BY <1>2, <1>3 DEF Able, Meets, Tells
<1> QED
  BY <1>2, <1>3, <1>4 DEF Kept, t

\* The header fields that the receiver supplies.
LEMMA StampTells ==
  ASSUME Modest, NEW e \in Ends, NEW read \in 0 .. StreamLen[Other(e)], NEW far,
         NEW c, Able(c, e, read, far), NEW seg \in Segments, ~ seg.ack, Numbered(seg, e)
  PROVE  /\ Numbered(Stamp(c, seg), e) /\ Stamp(c, seg).fin = seg.fin
         /\ Tells(Stamp(c, seg), e, Ended(Inbound(c)))
<1> DEFINE has == HasAckno(c.receiver)
           ackno == IF has THEN Ackno(c.receiver) ELSE seg.ackno
           win == Smaller(RecvCapacity, UInt16Max)
           t == [seg EXCEPT !.ack = has, !.ackno = ackno, !.win = win]
<1>1. Stamp(c, seg) = t
  BY DEF Stamp
<1>2. has => ackno = Ackno(c.receiver)
  OBVIOUS
<1>3. has /\ Ackno(c.receiver) = Wrap(StreamLen[Other(e)] + 2, Isn[Other(e)])
        => Ended(StreamIn(c.receiver))
  <2>1. Other(e) \in Ends /\ Receiving(c.receiver, Other(e), read)
        /\ Delivers(c.receiver, Other(e))
    BY ModestFacts DEF Able, Good, Meets
  <2> QED
    BY <2>1, AckTells
<1> HIDE DEF has, ackno, win
<1>4. /\ t.seqno = seg.seqno /\ t.syn = seg.syn /\ t.fin = seg.fin
      /\ t.payload = seg.payload /\ t.ack = has /\ t.ackno = ackno
  BY DEF Segments, TCPSegments
<1> HIDE DEF t
<1>5. Numbered(t, e)
  BY <1>4 DEF Numbered
<1>6. Tells(t, e, Ended(Inbound(c)))
  BY <1>2, <1>3, <1>4 DEF Tells, Inbound
<1> QED
  BY <1>1, <1>4, <1>5, <1>6

\* A sequence of n elements.
Listed(queue, n) == n \in Nat /\ queue = [i \in 1 .. n |-> queue[i]]

\* What two queues hold when they are joined.
LEMMA JoinedQueue ==
  ASSUME NEW S, NEW one \in Seq(S), NEW n, NEW two, Listed(two, n)
  PROVE  \A i \in DOMAIN (one \o two) :
           \/ \E k \in DOMAIN one : (one \o two)[i] = one[k]
           \/ \E k \in DOMAIN two : (one \o two)[i] = two[k]
<1> DEFINE T == {one[k] : k \in DOMAIN one} \cup {two[k] : k \in DOMAIN two}
<1>1. one \in Seq(T)
  <2>1. Len(one) \in Nat /\ DOMAIN one = 1 .. Len(one) /\ one = [k \in 1 .. Len(one) |-> one[k]]
    BY LenProperties
  <2>2. \A k \in 1 .. Len(one) : one[k] \in T
    BY <2>1
  <2> HIDE DEF T
  <2>3. one \in [1 .. Len(one) -> T]
    BY <2>1, <2>2
  <2> QED
    BY <2>1, <2>3
<1>2. two \in Seq(T)
  <2>1. DOMAIN two = 1 .. n /\ two = [k \in 1 .. n |-> two[k]] /\ n \in Nat
    BY DEF Listed
  <2>2. \A k \in 1 .. n : two[k] \in T
    BY <2>1
  <2> HIDE DEF T
  <2>3. two \in [1 .. n -> T]
    BY ONLY <2>1, <2>2
  <2> QED
    BY ONLY <2>1, <2>3
<1> HIDE DEF T
<1>3. one \o two \in Seq(T)
  BY <1>1, <1>2, ConcatProperties
<1>4. \A i \in DOMAIN (one \o two) : (one \o two)[i] \in T
  <2>1. DOMAIN (one \o two) = 1 .. Len(one \o two)
    BY <1>3, LenProperties
  <2> QED
    BY <1>3, <2>1, ElementOfSeq
<1> QED
  BY <1>4 DEF T

\* fill_window_and_send.
LEMMA FillKept ==
  ASSUME Modest, NEW e \in Ends, NEW read \in 0 .. StreamLen[Other(e)], NEW far,
         NEW c, Able(c, e, read, far)
  PROVE  Kept(c, FillWindowAndSend(c), e, read, far)
<1> DEFINE sender == FillWindow(c.sender)
           sent == sender.segmentsOut
           stamped == [i \in DOMAIN sent |-> Stamp(c, sent[i])]
           emptied == [sender EXCEPT !.segmentsOut = <<>>]
           idle == IF sent = <<>> THEN c.idle ELSE 0
           fin == c.finsent \/ \E i \in DOMAIN sent : sent[i].fin
           queue == c.segmentsOut \o stamped
           t == [c EXCEPT !.sender = emptied, !.segmentsOut = queue, !.idle = idle,
                          !.finsent = fin]
<1>1. Good(c, e, read) /\ Sending(c.sender, e) /\ Finishing(c.sender, e) /\ WithinRound
      /\ c \in Connections(e, read)
  BY GoodFields DEF Able, Meets, Modest
<1>2. Grown(c, t, e, read) /\ FillWindowAndSend(c) = t
  <2>1. Grown(c, FillWindowAndSend(c), e, read)
    BY <1>1, FillGrows
  <2>2. FillWindowAndSend(c) = t
    BY DEF FillWindowAndSend
  <2> QED
    BY <2>1, <2>2
<1>3. /\ Sending(sender, e) /\ Finishing(sender, e) /\ sender.acked = c.sender.acked
      /\ c.sender.finSent => sender.finSent
  <2>1. Sending(sender, e)
    BY <1>1, FillSending
  <2>2. Finishing(sender, e) /\ sender.acked = c.sender.acked
    BY <1>1, FillFinishing
  <2>3. c.sender.finSent => sender = c.sender
    BY DEF FillWindow
  <2> QED
    BY <2>1, <2>2, <2>3
<1> HIDE DEF sender
<1>4. /\ Finishing(emptied, e) /\ emptied.acked = sender.acked
      /\ emptied.finSent = sender.finSent
  <2>1. sender \in Senders(e) /\ DOMAIN <<>> = {}
    BY <1>3 DEF Sending
  <2> QED
    BY <1>3, <2>1, TakenFinishing
<1>5. /\ sent \in Seq(Segments)
      /\ \A i \in DOMAIN sent : sent[i] \in Segments /\ ~ sent[i].ack
                                /\ Marked(sent[i], sender.finSent, e)
  <2>1. sent \in Seq(Segments)
    BY <1>3, SenderFields DEF Sending
  <2>2. \A i \in DOMAIN sent : sent[i] \in Segments
    BY <2>1
  <2>3. \A i \in DOMAIN sent : ~ sent[i].ack
    BY <1>3 DEF Sending, AllSent, Sent
  <2>4. \A i \in DOMAIN sent : Marked(sent[i], sender.finSent, e)
    BY <1>3 DEF Finishing, AllMarked
  <2> QED
    BY <2>1, <2>2, <2>3, <2>4
<1> HIDE DEF sent, emptied
<1>6. \A i \in DOMAIN stamped :
        Numbered(stamped[i], e) /\ Tells(stamped[i], e, Ended(Inbound(c)))
  BY <1>5, StampTells DEF Marked
<1>7. fin => sender.finSent
  BY <1>3, <1>5 DEF Marked, Able, Meets
<1>8. \A i \in DOMAIN queue :
        Numbered(queue[i], e) /\ Tells(queue[i], e, Ended(Inbound(c)))
  <2> SUFFICES ASSUME NEW i \in DOMAIN queue
               PROVE  Numbered(queue[i], e) /\ Tells(queue[i], e, Ended(Inbound(c)))
    OBVIOUS
  <2>1. c.segmentsOut \in Seq(Segments)
    BY <1>1 DEF Connections
  <2>2. Len(sent) \in Nat /\ stamped = [k \in 1 .. Len(sent) |-> stamped[k]]
    <3>1. Len(sent) \in Nat /\ DOMAIN sent = 1 .. Len(sent)
      BY <1>5, LenProperties
    <3> QED
      BY <3>1
  <2> DEFINE one == c.segmentsOut
             n == Len(sent)
  <2> HIDE DEF stamped
  <2>2b. /\ one \in Seq(Segments) /\ Listed(stamped, n)
         /\ i \in DOMAIN (one \o stamped)
    BY <2>1, <2>2 DEF Listed
  <2> HIDE DEF one, n
  <2>2c. \/ \E k \in DOMAIN one : (one \o stamped)[i] = one[k]
         \/ \E k \in DOMAIN stamped : (one \o stamped)[i] = stamped[k]
    BY ONLY <2>2b, JoinedQueue
  <2>3. \/ \E k \in DOMAIN c.segmentsOut : queue[i] = c.segmentsOut[k]
        \/ \E k \in DOMAIN stamped : queue[i] = stamped[k]
    BY <2>2c DEF one
  <2> HIDE DEF queue
  <2> QED
    BY <1>6, <2>3 DEF Able, Meets
<1> HIDE DEF queue, idle, fin
<1>9. /\ t.sender = emptied /\ t.receiver = c.receiver /\ t.segmentsOut = queue
      /\ t.finsent = fin
  BY <1>1 DEF Connections
<1> HIDE DEF t
<1>10. Inbound(t) = Inbound(c)
  BY <1>9 DEF Inbound
<1>11. Meets(t, e, far)
  BY <1>3, <1>4, <1>7, <1>8, <1>9, <1>10 DEF Able, Meets
<1> QED
  BY <1>2, <1>10, <1>11 DEF Kept

\* The ends of a stream and its errors do not touch the rest of it.
LEMMA StreamMarks ==
  ASSUME NEW e \in Ends, NEW b, Flowing(b, e)
  PROVE  /\ SetError(b).eof2 = b.eof2 /\ SetError(b).totWrite = b.totWrite
         /\ Eof(b) => Eof(SetError(b))
         /\ EndInput(b).totWrite = b.totWrite /\ (Eof(b) => Eof(EndInput(b)))
<1>1. b \in Streams(SendCapacity)
  BY DEF Flowing
<1>2. /\ SetError(b).eof2 = b.eof2 /\ SetError(b).totWrite = b.totWrite
      /\ SetError(b).rem = b.rem /\ SetError(b).cap = b.cap
  BY <1>1 DEF SetError, Streams
<1>3. /\ EndInput(b).eof2 = TRUE /\ EndInput(b).totWrite = b.totWrite
      /\ EndInput(b).rem = b.rem /\ EndInput(b).cap = b.cap
  BY <1>1 DEF EndInput, Streams
<1> QED
  BY <1>2, <1>3 DEF Eof, BufferEmpty

\* Both streams get an error.
LEMMA ErrorKept ==
  ASSUME Modest, NEW e \in Ends, NEW read \in 0 .. StreamLen[Other(e)], NEW far,
         NEW c, Able(c, e, read, far)
  PROVE  /\ Kept(c, WithError(c), e, read, far)
<1> DEFINE r == [c.receiver EXCEPT !.reassembler.out = SetError(@)]
           b == SetError(Outbound(c))
           t == [c EXCEPT !.receiver = r]
           s == [c.sender EXCEPT !.stream = b]
           u == [t EXCEPT !.sender = s]
<1>1. /\ Good(c, e, read) /\ Sending(c.sender, e) /\ c.sender \in Senders(e)
      /\ Receiving(c.receiver, Other(e), read) /\ WithinRound /\ Other(e) \in Ends
      /\ Finishing(c.sender, e) /\ Delivers(c.receiver, Other(e))
      /\ Flowing(Outbound(c), e)
  BY ModestFacts DEF Able, Good, Meets, Sending, Outbound
<1>2. Delivers(r, Other(e)) /\ Ended(StreamIn(r))
  BY <1>1, ErrorDelivers
<1>3. Receiving(r, Other(e), read)
  BY <1>1, ErrorReceiving
<1> HIDE DEF r
<1>4. Grown(c, t, e, read)
  BY <1>1, <1>3, OtherReceiver
<1>5. Kept(c, t, e, read, far) /\ t.sender = c.sender
  BY <1>2, <1>4, ReceiverKept
<1> HIDE DEF t
<1>6. Able(t, e, read, far)
  BY <1>5, KeptAble
<1>7. b.eof2 => c.sender.nextSeqno > 0 /\ b.totWrite = StreamLen[e]
  BY <1>1, StreamMarks DEF Finishing, Outbound
<1>8. c.sender.finSent => Eof(b)
  BY <1>1, StreamMarks DEF Finishing, Outbound
<1>9. Flowing(b, e) /\ b.totRead = Outbound(c).totRead /\ Outbound(c).totRead \in Nat
  BY <1>1, EndFlows, GoodFields
<1> HIDE DEF b
<1>10. Finishing(s, e) /\ s.acked = c.sender.acked /\ s.finSent = c.sender.finSent
  BY <1>1, <1>7, <1>8, StreamFinishing
<1>11. Sending(s, e) /\ s.stream.totRead = Outbound(c).totRead
  BY <1>1, <1>9, StreamSending DEF Outbound
<1>12. Outbound(t) = Outbound(c)
  BY <1>5 DEF Outbound
<1> HIDE DEF s
<1>13. Grown(t, u, e, read)
  <2>1. Good(t, e, read) /\ s.stream.totRead >= Outbound(t).totRead
    BY <1>6, <1>9, <1>11, <1>12 DEF Able
  <2> QED
    BY <1>11, <2>1, OtherSender
<1>14. Kept(t, u, e, read, far)
  BY <1>5, <1>6, <1>10, <1>13, SenderKept
<1>15. WithError(c) = u
  <2>1. WithError(c) = [c EXCEPT !.sender.stream = b, !.receiver = r]
    BY DEF WithError, b, r, Outbound
  <2>2. WithError(c) = [t EXCEPT !.sender = [c.sender EXCEPT !.stream = b]]
    BY DEF WithError, Outbound, r, b, t
  <2> QED
    BY <2>2 DEF s
<1> HIDE DEF u
<1> QED
  BY <1>5, <1>14, <1>15, KeptTwice

\* What is left of a queue when its first segment has been taken.
LEMMA TailOfQueue ==
  ASSUME NEW S, NEW queue \in Seq(S), queue # <<>>
  PROVE  /\ Head(queue) \in S
         /\ \A i \in DOMAIN Tail(queue) : \E k \in DOMAIN queue : Tail(queue)[i] = queue[k]
         /\ \E k \in DOMAIN queue : Head(queue) = queue[k]
<1>1. /\ Tail(queue) \in Seq(S) /\ Len(Tail(queue)) = Len(queue) - 1
      /\ \A i \in 1 .. Len(Tail(queue)) : Tail(queue)[i] = queue[i + 1]
      /\ Len(queue) \in Nat \ {0} /\ Head(queue) \in S
  BY HeadTailProperties, EmptySeq
<1>2. DOMAIN Tail(queue) = 1 .. Len(Tail(queue)) /\ DOMAIN queue = 1 .. Len(queue)
  BY <1>1, LenProperties
<1>3. ASSUME NEW i \in DOMAIN Tail(queue)
      PROVE  \E k \in DOMAIN queue : Tail(queue)[i] = queue[k]
  <2>1. i \in 1 .. Len(queue) - 1 /\ Tail(queue)[i] = queue[i + 1]
    BY <1>1, <1>2
  <2>2. i + 1 \in DOMAIN queue
    BY <1>1, <1>2, <2>1
  <2> QED
    BY <2>1, <2>2
<1>4. Head(queue) = queue[1] /\ 1 \in DOMAIN queue
  BY <1>1, <1>2
<1> QED
  BY <1>1, <1>3, <1>4

\* sendRST marks the segment it has queued and stops.
LEMMA MarkKept ==
  ASSUME Modest, NEW e \in Ends, NEW read \in 0 .. StreamLen[Other(e)], NEW far,
         NEW c, Able(c, e, read, far), c.sender.nextSeqno # 0
  PROVE  Kept(c, Reset(c), e, read, far) /\ SendRST(c) = WithError(Reset(c))
<1> DEFINE empty == SendEmptySegment(c.sender)
           queue == empty.segmentsOut
           s == [empty EXCEPT !.segmentsOut = Tail(queue)]
           rst == [Head(queue) EXCEPT !.rst = TRUE]
           more == Append(c.segmentsOut, rst)
           u == [c EXCEPT !.active2 = FALSE, !.sender = s, !.segmentsOut = more]
<1>1. /\ Good(c, e, read) /\ Sending(c.sender, e) /\ WithinRound /\ Finishing(c.sender, e)
      /\ c \in Connections(e, read)
  BY GoodFields DEF Able, Good, Meets, Modest
<1>2. Sending(empty, e) /\ queue # <<>>
  BY <1>1, EmptySending
<1>3. /\ Finishing(empty, e) /\ empty.acked = c.sender.acked
      /\ empty.finSent = c.sender.finSent
  BY <1>1, EmptyFinishing
<1>4. Reset(c) = u /\ SendRST(c) = WithError(Reset(c)) /\ Grown(c, u, e, read)
  <2>1. Reset(c) = u /\ SendRST(c) = WithError(Reset(c))
    BY DEF SendRST, Reset
  <2>2. Grown(c, Reset(c), e, read)
    BY <1>1, MarkGrows
  <2> QED
    BY <2>1, <2>2
<1> HIDE DEF empty
<1>5. empty \in Senders(e) /\ queue \in Seq(Segments)
  BY <1>2, SenderFields DEF Sending
<1>6. /\ Head(queue) \in Segments
      /\ \A i \in DOMAIN Tail(queue) : \E k \in DOMAIN queue : Tail(queue)[i] = queue[k]
      /\ \E k \in DOMAIN queue : Head(queue) = queue[k]
  BY <1>2, <1>5, TailOfQueue
<1>7. Numbered(Head(queue), e) /\ ~ Head(queue).ack
  BY <1>2, <1>3, <1>6 DEF Finishing, AllMarked, Marked, Sending, AllSent, Sent
<1>8. Finishing(s, e) /\ s.acked = empty.acked /\ s.finSent = empty.finSent
  BY <1>3, <1>5, <1>6, TakenFinishing
<1> HIDE DEF queue
<1>9. Numbered(rst, e) /\ ~ rst.ack /\ rst \in Segments
  <2>1. /\ rst.seqno = Head(queue).seqno /\ rst.syn = Head(queue).syn
        /\ rst.fin = Head(queue).fin /\ rst.payload = Head(queue).payload
        /\ rst.ack = Head(queue).ack /\ rst \in Segments
    BY <1>6 DEF Segments, TCPSegments
  <2> HIDE DEF rst
  <2> QED
    BY <1>7, <2>1 DEF Numbered
<1> HIDE DEF s, rst
<1>10. \A i \in DOMAIN more :
         Numbered(more[i], e) /\ Tells(more[i], e, Ended(Inbound(c)))
  <2>1. c.segmentsOut \in Seq(Segments)
    BY <1>1 DEF Connections
  <2>2. \A i \in DOMAIN more :
          \/ more[i] = rst
          \/ i \in DOMAIN c.segmentsOut /\ more[i] = c.segmentsOut[i]
    BY <1>9, <2>1, QueueGrows
  <2> HIDE DEF more
  <2> QED
    BY <1>9, <2>2 DEF Able, Meets, Tells
<1> HIDE DEF more
<1>11. /\ u.sender = s /\ u.receiver = c.receiver /\ u.segmentsOut = more
       /\ u.finsent = c.finsent
  BY <1>1 DEF Connections
<1> HIDE DEF u
<1>12. Inbound(u) = Inbound(c)
  BY <1>11 DEF Inbound
<1>13. Meets(u, e, far)
  BY <1>3, <1>8, <1>10, <1>11, <1>12 DEF Able, Meets
<1>14. Kept(c, u, e, read, far)
  BY <1>4, <1>12, <1>13 DEF Kept
<1> QED
  BY <1>4, <1>14

\* sendRST.
LEMMA ResetKept ==
  ASSUME Modest, NEW e \in Ends, NEW read \in 0 .. StreamLen[Other(e)], NEW far,
         NEW c, Able(c, e, read, far), c.sender.nextSeqno # 0
  PROVE  Kept(c, SendRST(c), e, read, far)
<1>1. Kept(c, Reset(c), e, read, far) /\ SendRST(c) = WithError(Reset(c))
  BY MarkKept
<1>2. Kept(Reset(c), WithError(Reset(c)), e, read, far)
  BY <1>1, KeptAble, ErrorKept
<1> QED
  BY <1>1, <1>2, KeptTwice

\* A handler that returns early, or changes a flag or the clock.
LEMMA FlagsKept ==
  ASSUME NEW e \in Ends, NEW read, NEW far, NEW c, Able(c, e, read, far),
         NEW linger \in BOOLEAN, NEW active \in BOOLEAN, NEW idle \in Nat
  PROVE  /\ Kept(c, c, e, read, far)
         /\ Kept(c, [c EXCEPT !.active2 = active], e, read, far)
         /\ Kept(c, [c EXCEPT !.linger = linger], e, read, far)
         /\ Kept(c, [c EXCEPT !.linger = linger, !.active2 = active], e, read, far)
         /\ Kept(c, [c EXCEPT !.idle = idle], e, read, far)
<1>1. c \in Connections(e, read) /\ Good(c, e, read)
  BY GoodFields DEF Able
<1>2. ASSUME NEW t \in {c, [c EXCEPT !.active2 = active], [c EXCEPT !.linger = linger],
                        [c EXCEPT !.linger = linger, !.active2 = active],
                        [c EXCEPT !.idle = idle]}
      PROVE  Kept(c, t, e, read, far)
  <2>1. /\ t \in Connections(e, read) /\ t.sender = c.sender /\ t.receiver = c.receiver
        /\ t.segmentsOut = c.segmentsOut /\ t.finsent = c.finsent
    BY <1>1, <1>2 DEF Connections
  <2>2. Grown(c, t, e, read)
    BY <1>1, <2>1, SameParts
  <2> QED
    BY <2>1, <2>2, PartsKept
<1> QED
  BY <1>2

\* segment_received: a FIN before the own one makes the close passive.
LEMMA NoteFinKept ==
  ASSUME NEW e \in Ends, NEW read, NEW far, NEW c, Able(c, e, read, far), NEW seg
  PROVE  Kept(c, NoteFin(c, seg), e, read, far)
BY FlagsKept, 0 \in Nat DEF NoteFin

\* segment_received: both directions are done.
LEMMA CloseKept ==
  ASSUME NEW e \in Ends, NEW read, NEW far, NEW c, Able(c, e, read, far), NEW seg
  PROVE  Kept(c, CloseIfDone(c, seg), e, read, far)
BY FlagsKept, 0 \in Nat DEF CloseIfDone

\* A segment of the other end that is in order and true.
Truthful(seg, e, read, far) ==
  seg \in Pieces(Other(e), read) /\ Numbered(seg, Other(e)) /\ Tells(seg, Other(e), far)

\* segment_received: the receiver takes the segment in, the sender its acknowledgment,
\* which is of its FIN only when the other end has had it.
LEMMA AbsorbKept ==
  ASSUME Modest, NEW e \in Ends, NEW read \in 0 .. StreamLen[Other(e)], NEW far,
         NEW c, Able(c, e, read, far), NEW seg, Truthful(seg, e, read, far)
  PROVE  Kept(c, Absorb(c, seg), e, read, far)
<1> DEFINE r == Receive(c.receiver, seg)
           s == IF seg.ack THEN AckReceived(c.sender, seg.ackno, seg.win) ELSE c.sender
           t == [c EXCEPT !.receiver = r]
           u == [t EXCEPT !.sender = s]
<1>1. /\ Other(e) \in Ends /\ Other(Other(e)) = e /\ seg \in Segments /\ WithinRound
      /\ Piece(seg, Other(e), read) /\ Acknowledges(seg, Other(e))
      /\ Numbered(seg, Other(e)) /\ Tells(seg, Other(e), far)
  BY ModestFacts DEF Pieces, Truthful
<1>2. /\ Good(c, e, read) /\ Sending(c.sender, e) /\ Finishing(c.sender, e)
      /\ Receiving(c.receiver, Other(e), read) /\ Delivers(c.receiver, Other(e))
      /\ Outbound(c).totRead \in Nat
  BY GoodFields DEF Able, Good, Meets
<1>3. /\ Receiving(r, Other(e), read) /\ Delivers(r, Other(e))
      /\ Ended(StreamIn(c.receiver)) => Ended(StreamIn(r))
  BY <1>1, <1>2, ReceivePiece, ReceiveDelivers
<1> HIDE DEF r
<1>4. Kept(c, t, e, read, far) /\ t.sender = c.sender
  BY <1>2, <1>3, OtherReceiver, ReceiverKept
<1>5. /\ Sending(s, e) /\ s.stream = c.sender.stream
      /\ Finishing(s, e) /\ s.finSent = c.sender.finSent
      /\ s.acked = c.sender.acked \/ (s.acked = StreamLen[e] + 2 => far)
  <2>1. CASE ~ seg.ack
    BY <1>2, <2>1
  <2>2. CASE seg.ack
    <3> DEFINE v == AckReceived(c.sender, seg.ackno, seg.win)
    <3>1. PICK q \in 1 .. StreamLen[e] + 2 : seg.ackno = Wrap(q, Isn[e])
      BY <1>1, <2>2 DEF Acknowledges
    <3>2. seg.ackno \in RawValues /\ seg.win \in Nat
      BY <1>1, SegmentFields
    <3>3. Sending(v, e) /\ v.stream = c.sender.stream
      BY <1>1, <1>2, <3>1, <3>2, AckSending
    <3>4. /\ Finishing(v, e) /\ v.finSent = c.sender.finSent
          /\ v.acked = c.sender.acked \/ v.acked = q
      BY <1>2, <3>1, <3>2, AckFinishing
    <3>5. q = StreamLen[e] + 2 => far
      BY <1>1, <2>2, <3>1 DEF Tells
    <3> HIDE DEF v
    <3>6. v.acked = c.sender.acked \/ (v.acked = StreamLen[e] + 2 => far)
      BY <3>4, <3>5
    <3> QED
      BY <2>2, <3>3, <3>4, <3>6 DEF v
  <2> QED
    BY <2>1, <2>2
<1>6. Absorb(c, seg) = u
  BY DEF Absorb, r
<1> HIDE DEF s, t
<1>7. Able(t, e, read, far) /\ Outbound(t) = Outbound(c)
  BY <1>4, KeptAble DEF Outbound
<1>8. Grown(t, u, e, read)
  <2>1. Good(t, e, read) /\ s.stream.totRead >= Outbound(t).totRead
    BY <1>2, <1>5, <1>7 DEF Able, Outbound
  <2> QED
    BY <1>5, <2>1, OtherSender
<1>9. Kept(t, u, e, read, far)
  BY <1>4, <1>5, <1>7, <1>8, SenderKept
<1> HIDE DEF u
<1> QED
  BY <1>4, <1>6, <1>9, KeptTwice

\* An empty segment is queued when fill_window has none to send: then the SYN has gone,
\* for else it would have sent that.
LEMMA OwedKept ==
  ASSUME Modest, NEW e \in Ends, NEW read \in 0 .. StreamLen[Other(e)], NEW far,
         NEW c, Able(c, e, read, far), SegmentsSent(c) = 0
  PROVE  Kept(c, [c EXCEPT !.sender = SendEmptySegment(c.sender)], e, read, far)
<1> DEFINE s == SendEmptySegment(c.sender)
<1>1. Good(c, e, read) /\ Sending(c.sender, e) /\ Finishing(c.sender, e) /\ WithinRound
      /\ Outbound(c).totRead \in Nat
  BY GoodFields DEF Able, Good, Meets, Modest
<1>2. c.sender.nextSeqno # 0
  <2>1. FillWindow(c.sender).segmentsOut \in Seq(Segments)
    BY <1>1, FillSending, SenderFields DEF Sending
  <2>2. FillWindow(c.sender).segmentsOut = <<>>
    BY <2>1, EmptySeq DEF SegmentsSent
  <2> QED
    BY <1>1, <2>2, FillFinishing
<1>3. Sending(s, e) /\ s.stream = c.sender.stream
  BY <1>1, EmptySending
<1>4. Finishing(s, e) /\ s.acked = c.sender.acked /\ s.finSent = c.sender.finSent
  BY <1>1, <1>2, EmptyFinishing
<1> HIDE DEF s
<1>5. Grown(c, [c EXCEPT !.sender = s], e, read)
  BY <1>1, <1>3, OtherSender DEF Outbound
<1> QED
  BY <1>4, <1>5, SenderKept DEF s

\* segment_received: the answer.
LEMMA RespondKept ==
  ASSUME Modest, NEW e \in Ends, NEW read \in 0 .. StreamLen[Other(e)], NEW far,
         NEW c, Able(c, e, read, far), NEW seg
  PROVE  Kept(c, Respond(c, seg), e, read, far)
<1> DEFINE t == [c EXCEPT !.sender = SendEmptySegment(c.sender)]
<1>1. CASE ~ (SegmentsSent(c) = 0 /\ OwesAck(seg))
  BY <1>1, FillKept DEF Respond
<1>2. CASE SegmentsSent(c) = 0 /\ OwesAck(seg)
  <2>1. Kept(c, t, e, read, far)
    BY <1>2, OwedKept
  <2>2. Respond(c, seg) = FillWindowAndSend(t)
    BY <1>2 DEF Respond
  <2> HIDE DEF t
  <2>3. Kept(t, FillWindowAndSend(t), e, read, far)
    BY <2>1, KeptAble, FillKept
  <2> QED
    BY <2>1, <2>2, <2>3, KeptTwice
<1> QED
  BY <1>1, <1>2

\* segment_received as a whole.
LEMMA SegmentKept ==
  ASSUME Modest, NEW e \in Ends, NEW read \in 0 .. StreamLen[Other(e)], NEW far,
         NEW c, Able(c, e, read, far), NEW seg, Truthful(seg, e, read, far)
  PROVE  Kept(c, SegmentReceived(c, seg), e, read, far)
<1> DEFINE active == c.active2 /\ ~ ConfirmsPassiveClose(c, seg)
           confirmed == [c EXCEPT !.active2 = active]
           reset == [c EXCEPT !.active2 = FALSE]
           noted == NoteFin(confirmed, seg)
           absorbed == Absorb(noted, seg)
           answered == Respond(absorbed, seg)
           closed == CloseIfDone(answered, seg)
<1>1. Kept(c, c, e, read, far)
  BY FlagsKept, 0 \in Nat
<1>2. Kept(c, WithError(reset), e, read, far)
  <2>1. Kept(c, reset, e, read, far)
    BY FlagsKept, 0 \in Nat
  <2> HIDE DEF reset
  <2>2. Kept(reset, WithError(reset), e, read, far)
    BY <2>1, KeptAble, ErrorKept
  <2> QED
    BY <2>1, <2>2, KeptTwice
<1>3. Kept(c, closed, e, read, far)
  <2>1. active \in BOOLEAN
    OBVIOUS
  <2> HIDE DEF active
  <2>2. Kept(c, confirmed, e, read, far)
    BY <2>1, FlagsKept, 0 \in Nat
  <2> HIDE DEF confirmed
  <2>3. Kept(c, noted, e, read, far)
    BY <2>2, KeptAble, NoteFinKept, KeptTwice
  <2> HIDE DEF noted
  <2>4. Kept(c, absorbed, e, read, far)
    BY <2>3, KeptAble, AbsorbKept, KeptTwice
  <2> HIDE DEF absorbed
  <2>5. Kept(c, answered, e, read, far)
    BY <2>4, KeptAble, RespondKept, KeptTwice
  <2> HIDE DEF answered
  <2> QED
    BY <2>5, KeptAble, CloseKept, KeptTwice
<1>4. SegmentReceived(c, seg) \in {c, WithError(reset), closed}
  BY DEF SegmentReceived
<1> HIDE DEF closed, reset
<1> QED
  BY <1>1, <1>2, <1>3, <1>4

\* The outbound stream changes otherwise than by being read from.
LEMMA StreamKept ==
  ASSUME NEW e \in Ends, NEW read, NEW far, NEW c, Able(c, e, read, far),
         NEW b, Flowing(b, e), b.totRead = Outbound(c).totRead,
         b.eof2 => c.sender.nextSeqno > 0 /\ b.totWrite = StreamLen[e],
         c.sender.finSent => Eof(b)
  PROVE  Kept(c, [c EXCEPT !.sender.stream = b], e, read, far)
<1> DEFINE s == [c.sender EXCEPT !.stream = b]
           t == [c EXCEPT !.sender = s]
<1>1. /\ Good(c, e, read) /\ Sending(c.sender, e) /\ Finishing(c.sender, e)
      /\ Outbound(c).totRead \in Nat /\ c.sender \in Senders(e)
  BY GoodFields DEF Able, Good, Meets, Sending
<1>2. Sending(s, e) /\ s.stream.totRead = Outbound(c).totRead
  BY <1>1, StreamSending DEF Outbound
<1>3. Finishing(s, e) /\ s.acked = c.sender.acked /\ s.finSent = c.sender.finSent
  BY <1>1, StreamFinishing
<1>4. [c EXCEPT !.sender.stream = b] = t
  OBVIOUS
<1> HIDE DEF s
<1>5. Grown(c, t, e, read)
  BY <1>1, <1>2, OtherSender
<1> QED
  BY <1>3, <1>4, <1>5, SenderKept

\* What is written goes into the stream, which has not been ended.
LEMMA AcceptKept ==
  ASSUME Modest, NEW e \in Ends, NEW read \in 0 .. StreamLen[Other(e)], NEW far,
         NEW c, Able(c, e, read, far), NEW n \in Nat \ {0},
         Outbound(c).totWrite + n <= StreamLen[e]
  PROVE  Kept(c, [c EXCEPT !.sender.stream =
                    Write(Outbound(c), Excerpt(Outbound(c).totWrite, n))], e, read, far)
<1> DEFINE b == Write(Outbound(c), Excerpt(Outbound(c).totWrite, n))
<1>1. /\ Flowing(Outbound(c), e) /\ Finishing(c.sender, e)
      /\ Outbound(c).totWrite \in Nat /\ StreamLen[e] \in Nat
      /\ Outbound(c) \in Streams(SendCapacity)
  BY FlowFields DEF Able, Good, Meets, Sending, Outbound, Flowing
<1>2. ~ Outbound(c).eof2 /\ ~ c.sender.finSent
  BY <1>1 DEF Finishing, Outbound, Eof
<1>3. b.eof2 = Outbound(c).eof2
  BY <1>1 DEF Write, Streams
<1>4. Flowing(b, e) /\ b.totRead = Outbound(c).totRead
  BY <1>1, WriteFlows
<1> HIDE DEF b
<1>5. Kept(c, [c EXCEPT !.sender.stream = b], e, read, far)
  BY <1>2, <1>3, <1>4, StreamKept
<1> QED
  BY <1>5 DEF b

\* write, before the stream is ended.
LEMMA WriteKept ==
  ASSUME Modest, NEW e \in Ends, NEW read \in 0 .. StreamLen[Other(e)], NEW far,
         NEW c, Able(c, e, read, far), NEW n \in Nat \ {0},
         Outbound(c).totWrite + n <= StreamLen[e]
  PROVE  Kept(c, ConnectionWrite(c, Excerpt(Outbound(c).totWrite, n)), e, read, far)
<1> DEFINE t == [c EXCEPT !.sender.stream =
                   Write(Outbound(c), Excerpt(Outbound(c).totWrite, n))]
<1>1. Kept(c, t, e, read, far)
  BY AcceptKept
<1>2. ConnectionWrite(c, Excerpt(Outbound(c).totWrite, n))
        = IF ~ Active(c) THEN c ELSE FillWindowAndSend(t)
  BY DEF ConnectionWrite, Outbound
<1> HIDE DEF t
<1>3. Kept(c, FillWindowAndSend(t), e, read, far)
  BY <1>1, KeptAble, FillKept, KeptTwice
<1>4. Kept(c, c, e, read, far)
  BY FlagsKept, 0 \in Nat
<1> QED
  BY <1>2, <1>3, <1>4

\* The stream is ended, when all is written and the SYN acknowledged.
LEMMA EndedKept ==
  ASSUME Modest, NEW e \in Ends, NEW read \in 0 .. StreamLen[Other(e)], NEW far,
         NEW c, Able(c, e, read, far), Outbound(c).totWrite = StreamLen[e],
         c.sender.acked > 0
  PROVE  Kept(c, [c EXCEPT !.sender.stream = EndInput(Outbound(c))], e, read, far)
<1> DEFINE b == EndInput(Outbound(c))
<1>1. /\ Flowing(Outbound(c), e) /\ Finishing(c.sender, e)
      /\ c.sender.nextSeqno \in Nat /\ c.sender.acked \in Nat
  BY SenderFields DEF Able, Good, Meets, Sending, Outbound, SizeTs
<1>2. c.sender.nextSeqno > 0
  BY <1>1 DEF Finishing
<1>3. b.totWrite = StreamLen[e] /\ (Eof(Outbound(c)) => Eof(b))
  BY <1>1, StreamMarks
<1>4. Flowing(b, e) /\ b.totRead = Outbound(c).totRead
  BY <1>1, EndFlows
<1> HIDE DEF b
<1>5. c.sender.finSent => Eof(b)
  BY <1>1, <1>3 DEF Finishing, Outbound
<1>6. Kept(c, [c EXCEPT !.sender.stream = b], e, read, far)
  BY <1>2, <1>3, <1>4, <1>5, StreamKept
<1> QED
  BY <1>6 DEF b

\* end_input_stream.
LEMMA EndKept ==
  ASSUME Modest, NEW e \in Ends, NEW read \in 0 .. StreamLen[Other(e)], NEW far,
         NEW c, Able(c, e, read, far), Outbound(c).totWrite = StreamLen[e],
         c.sender.acked > 0
  PROVE  Kept(c, EndInputStream(c), e, read, far)
<1> DEFINE t == [c EXCEPT !.sender.stream = EndInput(Outbound(c))]
<1>1. Kept(c, t, e, read, far)
  BY EndedKept
<1>2. EndInputStream(c) = IF ~ Active(c) THEN c ELSE FillWindowAndSend(t)
  BY DEF EndInputStream, Outbound
<1> HIDE DEF t
<1>3. Kept(c, FillWindowAndSend(t), e, read, far)
  BY <1>1, KeptAble, FillKept, KeptTwice
<1>4. Kept(c, c, e, read, far)
  BY FlagsKept, 0 \in Nat
<1> QED
  BY <1>2, <1>3, <1>4

\* The application reads from the inbound stream.
LEMMA ReadKept ==
  ASSUME Modest, NEW e \in Ends, NEW read \in 0 .. StreamLen[Other(e)], NEW far,
         NEW c, Able(c, e, read, far), NEW n \in 1 .. BufferSize(Inbound(c))
  PROVE  /\ Kept(c, ConnectionRead(c, n), e, read, far)
         /\ ConnectionRead(c, n).sender = c.sender
<1> DEFINE r == ReadIn(c.receiver, n)
<1>1. /\ Good(c, e, read) /\ Receiving(c.receiver, Other(e), read)
      /\ Delivers(c.receiver, Other(e)) /\ WithinRound /\ Other(e) \in Ends
  BY ModestFacts DEF Able, Good, Meets
<1>2. Delivers(r, Other(e)) /\ (Ended(StreamIn(c.receiver)) => Ended(StreamIn(r)))
  BY <1>1, ReadDelivers
<1>3. Grown(c, ConnectionRead(c, n), e, read)
  BY <1>1, ReadGrows
<1>4. ConnectionRead(c, n) = [c EXCEPT !.receiver = r]
  BY DEF ConnectionRead
<1> HIDE DEF r
<1> QED
  BY <1>2, <1>3, <1>4, ReceiverKept

\* tick, up to fill_window_and_send or sendRST: the clock, whether the end has lingered
\* for long enough, and the sender's own tick.
Lingered(c, ms) ==
  LET later == [c EXCEPT !.idle = Smaller(@ + ms, LingerTime)]
  IN  IF LingeredOut(later)
      THEN [later EXCEPT !.linger = FALSE, !.active2 = FALSE] ELSE later

Timed(c, ms) == [Lingered(c, ms) EXCEPT !.sender = TickSender(@, ms)]

\* The clock, and the end of the lingering.
LEMMA LingeredKept ==
  ASSUME Modest, NEW e \in Ends, NEW read \in 0 .. StreamLen[Other(e)], NEW far,
         NEW c, Able(c, e, read, far), NEW ms \in Nat
  PROVE  Kept(c, Lingered(c, ms), e, read, far)
<1> DEFINE idle == Smaller(c.idle + ms, LingerTime)
           later == [c EXCEPT !.idle = idle]
           timed == IF LingeredOut(later)
                    THEN [later EXCEPT !.linger = FALSE, !.active2 = FALSE] ELSE later
<1>1. Lingered(c, ms) = timed
  BY DEF Lingered
<1>2. Kept(c, later, e, read, far)
  <2>1. LingerTime \in Nat /\ c.idle \in Nat
    BY ConnectionAssumption, SenderAssumption, GoodFields DEF LingerTime, Able
  <2>2. idle \in Nat
    BY <2>1 DEF Smaller
  <2> HIDE DEF idle
  <2> QED
    BY <2>2, FlagsKept, TRUE \in BOOLEAN
<1> HIDE DEF later
<1>3. Able(later, e, read, far)
  BY <1>2, KeptAble
<1>4. Kept(later, timed, e, read, far)
  BY <1>3, FlagsKept, 0 \in Nat
<1> HIDE DEF timed
<1> QED
  BY <1>1, <1>2, <1>4, KeptTwice

\* And the sender's own tick.
LEMMA TimedKept ==
  ASSUME Modest, NEW e \in Ends, NEW read \in 0 .. StreamLen[Other(e)], NEW far,
         NEW c, Able(c, e, read, far), NEW ms \in Nat
  PROVE  Kept(c, Timed(c, ms), e, read, far)
<1> DEFINE timed == Lingered(c, ms)
           s == TickSender(timed.sender, ms)
           ticked == [timed EXCEPT !.sender = s]
<1>1. Timed(c, ms) = ticked
  BY DEF Timed
<1>2. Kept(c, timed, e, read, far)
  BY LingeredKept
<1> HIDE DEF timed
<1>3. /\ Able(timed, e, read, far) /\ Good(timed, e, read) /\ Sending(timed.sender, e)
      /\ Finishing(timed.sender, e) /\ Outbound(timed).totRead \in Nat /\ WithinRound
  <2>1. Able(timed, e, read, far)
    BY <1>2, KeptAble
  <2> QED
    BY <2>1, GoodFields DEF Able, Good, Meets, Modest
<1>4. /\ Sending(s, e) /\ s.stream = timed.sender.stream
      /\ Finishing(s, e) /\ s.acked = timed.sender.acked
      /\ s.finSent = timed.sender.finSent
  <2> DEFINE u == Elapse(timed.sender, ms)
  <2>1. Sending(u, e) /\ u.stream = timed.sender.stream
    BY <1>3, ElapseSending
  <2>2. Finishing(u, e) /\ u.acked = timed.sender.acked /\ u.finSent = timed.sender.finSent
    BY <1>3, ElapseFinishing
  <2> HIDE DEF u
  <2>3. Sending(Retransmit(u), e) /\ Retransmit(u).stream = u.stream
    BY <1>3, <2>1, RetransmitSending
  <2>4. /\ Finishing(Retransmit(u), e) /\ Retransmit(u).acked = u.acked
        /\ Retransmit(u).finSent = u.finSent
    BY <2>1, <2>2, RetransmitFinishing
  <2> QED
    BY <2>1, <2>2, <2>3, <2>4 DEF TickSender, u
<1> HIDE DEF s
<1>5. Grown(timed, ticked, e, read)
  BY <1>3, <1>4, OtherSender DEF Outbound
<1>6. Kept(timed, ticked, e, read, far)
  BY <1>3, <1>4, <1>5, SenderKept
<1> QED
  BY <1>1, <1>2, <1>6, KeptTwice

\* tick of the connection.  It gives up only after retransmissions, so after the SYN.
LEMMA TickKept ==
  ASSUME Modest, NEW e \in Ends, NEW read \in 0 .. StreamLen[Other(e)], NEW far,
         NEW c, Able(c, e, read, far), NEW ms \in Nat
  PROVE  Kept(c, TickConnection(c, ms), e, read, far)
<1> DEFINE ticked == Timed(c, ms)
<1>1. /\ TickConnection(c, ms) \in {c, SendRST(ticked), FillWindowAndSend(ticked)}
      /\ TickConnection(c, ms) # c /\ TickConnection(c, ms) # FillWindowAndSend(ticked)
           => GivesUp(ticked)
  BY DEF TickConnection, Timed, Lingered
<1>2. Kept(c, ticked, e, read, far)
  BY TimedKept
<1> HIDE DEF ticked
<1>3. Able(ticked, e, read, far)
  BY <1>2, KeptAble
<1>4. ASSUME GivesUp(ticked) PROVE Kept(c, SendRST(ticked), e, read, far)
  <2>1. Finishing(ticked.sender, e) /\ ticked.sender.crtx > MaxRetxAttempts
        /\ MaxRetxAttempts \in Nat
    BY <1>3, <1>4, ConnectionAssumption DEF Able, Meets, GivesUp
  <2>2. ticked.sender.nextSeqno # 0
    BY <2>1 DEF Finishing
  <2> QED
    BY <1>2, <1>3, <2>2, ResetKept, KeptTwice
<1>5. Kept(c, FillWindowAndSend(ticked), e, read, far)
  BY <1>2, <1>3, FillKept, KeptTwice
<1>6. Kept(c, c, e, read, far)
  BY FlagsKept, 0 \in Nat
<1> QED
  BY <1>1, <1>4, <1>5, <1>6
-----------------------------------------------------------------------------
(***************************************************************************)
(* The two endpoints again, each with what it knows of the other's stream. *)
(***************************************************************************)
\* Whether the other end has had the whole of e's stream, or an error.
Far(e) == Ended(Inbound(conn[Other(e)]))

\* Segments of end e, which has had the other's stream or not, that are true.
Truths(e, read, ended) ==
  {seg \in Pieces(e, read) : Numbered(seg, e) /\ Tells(seg, e, ended)}

\* Each end is in order and knows of the other's only what is so, and what is on its
\* way to it is true.
DInv ==
  /\ IInv
  /\ \A e \in Ends : Meets(conn[e], e, Far(e))
  /\ \A e \in Ends : net[e] \in Seq(Truths(Other(e), Read(Other(e)), Far(e)))

\* A queue whose elements are known.
LEMMA QueueOfKnown ==
  ASSUME NEW S, NEW queue \in Seq(S), NEW T, \A i \in DOMAIN queue : queue[i] \in T
  PROVE  queue \in Seq(T)
<1>1. /\ Len(queue) \in Nat /\ DOMAIN queue = 1 .. Len(queue)
      /\ queue = [k \in 1 .. Len(queue) |-> queue[k]]
  BY LenProperties
<1>2. queue \in [1 .. Len(queue) -> T]
  BY <1>1
<1> QED
  BY <1>1, <1>2

\* What is true stays so when the end reads more, or has had the other's stream.
LEMMA TruthsMore ==
  ASSUME NEW e \in Ends, NEW read \in Nat, NEW more \in Nat, read <= more,
         NEW ended, NEW later, ended => later
  PROVE  \A queue \in Seq(Truths(e, read, ended)) : queue \in Seq(Truths(e, more, later))
<1>1. ASSUME NEW seg \in Truths(e, read, ended) PROVE seg \in Truths(e, more, later)
  <2>1. seg \in Segments /\ Piece(seg, e, read) /\ Acknowledges(seg, e)
    BY DEF Truths, Pieces
  <2>2. Piece(seg, e, more)
    BY <2>1, PieceMore
  <2>3. Numbered(seg, e) /\ Tells(seg, e, later)
    BY DEF Truths, Tells
  <2> QED
    BY <2>1, <2>2, <2>3 DEF Truths, Pieces
<1>2. Truths(e, read, ended) \subseteq Truths(e, more, later)
  BY <1>1
<1> QED
  BY <1>2

\* What the invariant says of both ends.
LEMMA DInvFields ==
  ASSUME Modest, DInv, NEW e \in Ends
  PROVE  /\ IInv /\ WithinRound /\ Other(e) \in Ends /\ Other(Other(e)) = e /\ Other(e) # e
         /\ Able(conn[e], e, Read(Other(e)), Far(e))
         /\ Able(conn[Other(e)], Other(e), Read(e), Far(Other(e)))
         /\ Read(e) \in 0 .. StreamLen[e] /\ Read(Other(e)) \in 0 .. StreamLen[Other(e)]
         /\ StreamLen[e] \in Nat
         /\ net[e] \in Seq(Truths(Other(e), Read(Other(e)), Far(e)))
         /\ net[Other(e)] \in Seq(Truths(e, Read(e), Far(Other(e))))
<1>1. /\ IInv /\ WithinRound
      /\ \A f \in Ends : Meets(conn[f], f, Far(f))
      /\ \A f \in Ends : net[f] \in Seq(Truths(Other(f), Read(Other(f)), Far(f)))
  BY DEF DInv, Modest
<1>2. /\ Other(e) \in Ends /\ Other(Other(e)) = e /\ Other(e) # e
      /\ Good(conn[e], e, Read(Other(e))) /\ Good(conn[Other(e)], Other(e), Read(e))
      /\ Read(e) \in 0 .. StreamLen[e] /\ Read(Other(e)) \in 0 .. StreamLen[Other(e)]
      /\ StreamLen[e] \in Nat
  BY <1>1, IInvFields
<1>3. net[Other(e)] \in Seq(Truths(Other(Other(e)), Read(Other(Other(e))), Far(Other(e))))
  BY <1>1, <1>2
<1>4. net[Other(e)] \in Seq(Truths(e, Read(e), Far(Other(e))))
  BY <1>2, <1>3
<1> QED
  BY <1>1, <1>2, <1>4 DEF Able

\* A step of one end, which takes rest for what was on its way to it.
LEMMA BecomeTrue ==
  ASSUME Modest, DInv, NEW e \in Ends, NEW c,
         Kept(conn[e], c, e, Read(Other(e)), Far(e)),
         NEW rest \in Seq(Truths(Other(e), Read(Other(e)), Far(e))), Become(e, c, rest)
  PROVE  DInv'
<1> DEFINE o == Other(e)
           t == [c EXCEPT !.segmentsOut = <<>>]
           more == Outbound(c).totRead
           ended == Ended(Inbound(c))
<1>1. /\ IInv /\ WithinRound /\ o \in Ends /\ Other(o) = e /\ o # e
      /\ Able(conn[o], o, Read(e), Far(o)) /\ Read(e) \in 0 .. StreamLen[e]
      /\ StreamLen[e] \in Nat /\ net[o] \in Seq(Truths(e, Read(e), Far(o)))
  BY DInvFields
<1>2. /\ Grown(conn[e], c, e, Read(o)) /\ Meets(c, e, Far(e))
      /\ Far(o) => ended
  BY <1>1 DEF Kept, Far
<1>3. IInv'
  <2>1. Truths(Other(e), Read(Other(e)), Far(e)) \subseteq Pieces(Other(e), Read(Other(e)))
    BY DEF Truths
  <2>2. rest \in Seq(Pieces(Other(e), Read(Other(e))))
    BY <2>1
  <2> QED
    BY <1>1, <1>2, <2>2, BecomeStep
<1>4. /\ conn' = [conn EXCEPT ![e] = t]
      /\ net' = [net EXCEPT ![e] = rest, ![o] = net[o] \o c.segmentsOut]
  BY <1>1 DEF Become
<1>5. /\ c \in Connections(e, Read(o)) /\ more \in Nat /\ more >= Read(e)
      /\ c.segmentsOut \in Seq(Pieces(e, more))
  BY <1>2, GoodFields DEF Grown, Good, Read
<1>6. /\ t.sender = c.sender /\ t.receiver = c.receiver /\ t.segmentsOut = <<>>
      /\ t.finsent = c.finsent
  BY <1>5 DEF Connections
<1> HIDE DEF t, o, more, ended
<1>7. /\ conn'[e] = t /\ conn'[o] = conn[o]
      /\ net'[e] = rest /\ net'[o] = net[o] \o c.segmentsOut
  <2>1. conn = [f \in Ends |-> conn[f]] /\ net = [f \in Ends |-> net[f]]
    BY <1>1 DEF IInv
  <2> QED
    BY <1>1, <1>4, <2>1
<1>8. /\ Read(e)' = more /\ Read(o)' = Read(o)
      /\ Far(e)' = Far(e) /\ Far(o)' = ended
  BY <1>1, <1>6, <1>7 DEF Read, Far, Outbound, Inbound, more, ended, o
<1>9. Meets(t, e, Far(e))
  <2>1. Inbound(t) = Inbound(c) /\ DOMAIN <<>> = {}
    BY <1>6 DEF Inbound
  <2> QED
    BY <1>2, <1>6, <2>1 DEF Meets
<1>10. Meets(conn[o], o, ended)
  BY <1>1, <1>2 DEF Able, Meets
<1>11. net[o] \o c.segmentsOut \in Seq(Truths(e, more, ended))
  <2>1. Read(e) \in Nat /\ Read(e) <= more
    BY <1>1, <1>5
  <2>2. net[o] \in Seq(Truths(e, more, ended))
    BY <1>1, <1>2, <1>5, <2>1, TruthsMore
  <2>3. \A i \in DOMAIN c.segmentsOut : c.segmentsOut[i] \in Truths(e, more, ended)
    <3>1. \A i \in DOMAIN c.segmentsOut : c.segmentsOut[i] \in Pieces(e, more)
      BY <1>5
    <3> QED
      BY <1>2, <3>1 DEF Meets, Truths, ended
  <2>4. c.segmentsOut \in Seq(Truths(e, more, ended))
    BY <1>5, <2>3, QueueOfKnown
  <2> QED
    BY <2>2, <2>4, ConcatProperties
<1>12. Ends = {e, o}
  BY <1>1 DEF Ends, Other, o
<1>13. \A f \in Ends : Meets(conn'[f], f, Far(f)')
  BY <1>7, <1>8, <1>9, <1>10, <1>12
<1>14. \A f \in Ends : net'[f] \in Seq(Truths(Other(f), Read(Other(f))', Far(f)'))
  <2>1. net'[e] \in Seq(Truths(o, Read(o)', Far(e)'))
    BY <1>7, <1>8 DEF o
  <2>2. net'[o] \in Seq(Truths(e, Read(e)', Far(o)'))
    BY <1>7, <1>8, <1>11
  <2> QED
    BY <1>1, <1>12, <2>1, <2>2 DEF o
<1> QED
  BY <1>3, <1>13, <1>14 DEF DInv

\* Two connections before their first segment.
LEMMA InitDInv == ASSUME Modest, Init PROVE DInv
<1>1. IInv
  BY InitIInv DEF Modest
<1>2. ASSUME NEW e \in Ends
      PROVE  Meets(NewConnection(Isn[e]), e, Far(e))
  <2> DEFINE c == NewConnection(Isn[e])
             s == NewSender(Isn[e], SendCapacity)
             r == NewReceiver(RecvCapacity)
  <2>1. /\ c.sender = s /\ c.receiver = r /\ c.finsent = FALSE /\ c.segmentsOut = <<>>
    BY DEF NewConnection
  <2>2. Finishing(s, e) /\ s.acked = 0
    BY NewFinishing
  <2>3. StreamLen[e] \in Nat /\ NoEof # 0 /\ DOMAIN <<>> = {}
    <3>1. Word \in Nat /\ Word > 4
      BY WidthAssumption
    <3>2. NoEof # 0
      BY <3>1 DEF NoEof, SizeT
    <3> QED
      BY <3>2, ModestFacts
  <2>4. /\ r.status = LISTEN /\ r.cp = 0 /\ r.isn = 0
        /\ r.reassembler.unasb = 0 /\ r.reassembler.eof2 = NoEof
    BY DEF NewReceiver, NewReassembler
  <2> HIDE DEF c, s, r
  <2>5. Delivers(r, Other(e))
    BY <2>3, <2>4 DEF Delivers, Early
  <2>6. Meets(c, e, Far(e))
    BY <2>1, <2>2, <2>3, <2>5 DEF Meets
  <2> QED
    BY <2>6 DEF c
<1>3. \A e \in Ends : Meets(conn[e], e, Far(e))
  BY <1>2 DEF Init
<1>4. \A e \in Ends : net[e] \in Seq(Truths(Other(e), Read(Other(e)), Far(e)))
  BY EmptySeq DEF Init
<1> QED
  BY <1>1, <1>3, <1>4 DEF DInv

\* A segment is delivered, in turn or not, for the first time or again.
LEMMA NetworkTrue ==
  ASSUME Modest, DInv, NEW e \in Ends, Network(e)
  PROVE  DInv'
<1> DEFINE S == Truths(Other(e), Read(Other(e)), Far(e))
<1>1. /\ Able(conn[e], e, Read(Other(e)), Far(e)) /\ IInv /\ WithinRound
      /\ Read(Other(e)) \in 0 .. StreamLen[Other(e)] /\ net[e] \in Seq(S)
  BY DInvFields
<1>2. ASSUME NEW seg \in S, NEW rest \in Seq(S),
             Become(e, SegmentReceived(conn[e], seg), rest)
      PROVE  DInv'
  <2>1. Truthful(seg, e, Read(Other(e)), Far(e))
    BY DEF Truths, Truthful
  <2>2. Kept(conn[e], SegmentReceived(conn[e], seg), e, Read(Other(e)), Far(e))
    BY <1>1, <2>1, SegmentKept
  <2> QED
    BY <1>2, <2>2, BecomeTrue
<1>3. CASE Deliver(e)
  <2>1. net[e] # <<>> /\ Become(e, SegmentReceived(conn[e], Head(net[e])), Tail(net[e]))
    BY <1>3 DEF Deliver
  <2>2. Head(net[e]) \in S /\ Tail(net[e]) \in Seq(S)
    BY <1>1, <2>1, HeadTailProperties
  <2> HIDE DEF S
  <2> QED
    BY <1>2, <2>1, <2>2
<1>4. CASE Overtake(e)
  <2>1. PICK i \in 2 .. Len(net[e]) :
          Become(e, SegmentReceived(conn[e], net[e][i]), Without(net[e], i))
    BY <1>4 DEF Overtake
  <2>2. net[e][i] \in S /\ Without(net[e], i) \in Seq(S)
    BY <1>1, <2>1, WithoutIsSeq
  <2> HIDE DEF S
  <2> QED
    BY <1>2, <2>1, <2>2
<1>5. CASE Repeat(e)
  <2>1. PICK i \in 1 .. Len(net[e]) :
          Become(e, SegmentReceived(conn[e], net[e][i]), net[e])
    BY <1>5 DEF Repeat
  <2>2. net[e][i] \in S
    BY <1>1, <2>1, WithoutIsSeq
  <2> HIDE DEF S
  <2> QED
    BY <1>1, <1>2, <2>1, <2>2
<1>6. CASE Lose(e)
  <2>1. PICK i \in 1 .. Len(net[e]) :
          net' = [net EXCEPT ![e] = Without(net[e], i)] /\ conn' = conn
    BY <1>6 DEF Lose
  <2>2. Without(net[e], i) \in Seq(S)
    BY <1>1, <2>1, WithoutIsSeq
  <2>3. net = [f \in Ends |-> net[f]]
    BY <1>1 DEF IInv
  <2>4. IInv'
    BY <1>1, <1>6, NetworkStep DEF Network
  <2> DEFINE rest == Without(net[e], i)
  <2> HIDE DEF rest
  <2>5. net' = [net EXCEPT ![e] = rest] /\ rest \in Seq(S)
    BY <2>1, <2>2 DEF rest
  <2>6. \A f \in Ends : net'[f] = IF f = e THEN rest ELSE net[f]
    BY <2>3, <2>5
  <2>7. \A f \in Ends : net'[f] \in Seq(Truths(Other(f), Read(Other(f)), Far(f)))
    BY <2>5, <2>6 DEF DInv
  <2> QED
    BY <2>1, <2>4, <2>7 DEF DInv, Read, Far
<1> QED
  BY <1>3, <1>4, <1>5, <1>6 DEF Network

\* The application and the clock of one end.
LEMMA LocalTrue ==
  ASSUME Modest, DInv, NEW e \in Ends, App(e) \/ Tick(e)
  PROVE  DInv'
<1> DEFINE c == conn[e]
           o == Other(e)
<1>1. /\ Able(c, e, Read(o), Far(e)) /\ Good(c, e, Read(o)) /\ IInv /\ WithinRound
      /\ Read(o) \in 0 .. StreamLen[o] /\ StreamLen[e] \in Nat /\ o \in Ends
      /\ Other(o) = e /\ o # e /\ net[e] \in Seq(Truths(o, Read(o), Far(e)))
  BY DInvFields DEF Able
<1>2. CASE AppConnect(e)
  <2>1. Become(e, Connect(c), net[e])
    BY <1>2 DEF AppConnect
  <2>2. Kept(c, Connect(c), e, Read(o), Far(e))
    BY <1>1, FillKept DEF Connect
  <2> QED
    BY <1>1, <2>1, <2>2, BecomeTrue
<1>3. CASE AppWrite(e)
  <2> DEFINE n == Left(e)
  <2>1. n > 0 /\ Become(e, ConnectionWrite(c, Unwritten(e)), net[e])
    BY <1>3 DEF AppWrite, CanWrite
  <2>2. Outbound(c).totWrite \in Nat
    BY <1>1, FlowFields DEF Good, Sending, Outbound
  <2>3. n \in Nat \ {0} /\ Outbound(c).totWrite + n <= StreamLen[e]
    BY <1>1, <2>1, <2>2 DEF Left
  <2>4. Unwritten(e) = Excerpt(Outbound(c).totWrite, n)
    BY DEF Unwritten, Excerpt
  <2> HIDE DEF n
  <2>5. Kept(c, ConnectionWrite(c, Unwritten(e)), e, Read(o), Far(e))
    BY <1>1, <2>3, <2>4, WriteKept
  <2> QED
    BY <1>1, <2>1, <2>5, BecomeTrue
<1>4. CASE AppEnd(e)
  <2>1. /\ Become(e, EndInputStream(c), net[e])
        /\ Left(e) = 0 /\ c.sender.acked > 0
    BY <1>4 DEF AppEnd, CanEnd, Established
  <2>2. Outbound(c).totWrite = StreamLen[e]
    <3>1. Outbound(c).totWrite \in Nat
      BY <1>1, FlowFields DEF Good, Sending, Outbound
    <3> QED
      BY <1>1, <2>1, <3>1 DEF Left
  <2>3. Kept(c, EndInputStream(c), e, Read(o), Far(e))
    BY <1>1, <2>1, <2>2, EndKept
  <2> QED
    BY <1>1, <2>1, <2>3, BecomeTrue
<1>5. CASE AppRead(e)
  <2> DEFINE n == BufferSize(Inbound(c))
             t == ConnectionRead(c, n)
  <2>1. n > 0 /\ conn' = [conn EXCEPT ![e] = t] /\ net' = net
    BY <1>5 DEF AppRead, CanRead
  <2>2. n \in 1 .. n
    <3>1. Inbound(c) \in Streams(RecvCapacity)
      BY <1>1 DEF Good, Receiving, Receivers, Reassemblers, Inbound, StreamIn
    <3>2. Inbound(c).cap \in Int /\ Inbound(c).rem \in Int
      BY <3>1, ConnectionAssumption DEF Streams
    <3> QED
      BY <2>1, <3>2 DEF BufferSize
  <2>3. Kept(c, t, e, Read(o), Far(e)) /\ t.sender = c.sender
    BY <1>1, <2>2, ReadKept
  <2>4. IInv'
    BY <1>1, LocalStep
  <2> HIDE DEF t, o
  <2>5. conn = [f \in Ends |-> conn[f]]
    BY <1>1 DEF IInv
  <2>6. conn'[e] = t /\ conn'[o] = conn[o]
    BY <1>1, <2>1, <2>5
  <2>7. /\ \A f \in Ends : Read(f)' = Read(f)
        /\ Far(e)' = Far(e) /\ (Far(o) => Far(o)')
    <3>1. Outbound(t) = Outbound(c)
      BY <2>3 DEF Outbound
    <3>2. \A f \in Ends : conn'[f] = IF f = e THEN t ELSE conn[f]
      BY <2>1, <2>5
    <3> QED
      BY <1>1, <2>3, <2>6, <3>1, <3>2 DEF Read, Far, Kept, o
  <2>8. Ends = {e, o}
    BY <1>1 DEF Ends, Other, o
  <2>9. Meets(t, e, Far(e)) /\ Meets(conn[o], o, Far(o)')
    BY <1>1, <2>3, <2>7 DEF Kept, DInv, Meets
  <2>10. \A f \in Ends : Meets(conn'[f], f, Far(f)')
    BY <2>6, <2>7, <2>8, <2>9
  <2>11. \A f \in Ends : net'[f] \in Seq(Truths(Other(f), Read(Other(f))', Far(f)'))
    <3>1. net'[e] \in Seq(Truths(o, Read(o)', Far(e)'))
      BY <1>1, <2>1, <2>7
    <3>2. net[o] \in Seq(Truths(e, Read(e), Far(o))) /\ Read(e) \in 0 .. StreamLen[e]
      BY DInvFields DEF o
    <3>3. net[o] \in Seq(Truths(e, Read(e), Far(o)'))
      <4> DEFINE before == Far(o)
                 later == Far(o)'
                 read == Read(e)
      <4>1. read \in Nat /\ read <= read /\ (before => later)
        BY <1>1, <2>7, <3>2
      <4>2. net[o] \in Seq(Truths(e, read, before))
        BY <3>2
      <4> HIDE DEF before, later, read
      <4>3. net[o] \in Seq(Truths(e, read, later))
        BY <4>1, <4>2, TruthsMore
      <4> QED
        BY <4>3 DEF later, read
    <3>4. net'[o] \in Seq(Truths(e, Read(e)', Far(o)'))
      BY <2>1, <2>7, <3>3
    <3> QED
      BY <1>1, <2>8, <3>1, <3>4 DEF o
  <2> QED
    BY <2>4, <2>10, <2>11 DEF DInv
<1>6. CASE Tick(e)
  <2>1. Become(e, TickConnection(c, 1), net[e])
    BY <1>6 DEF Tick
  <2>2. Kept(c, TickConnection(c, 1), e, Read(o), Far(e))
    BY <1>1, TickKept
  <2> QED
    BY <1>1, <2>1, <2>2, BecomeTrue
<1> QED
  BY <1>2, <1>3, <1>4, <1>5, <1>6 DEF App

\* Every step of an end, of an application, of a clock and of the network.
LEMMA NextKeepsDInv == ASSUME Modest PROVE DInv /\ [Next]_vars => DInv'
<1> SUFFICES ASSUME DInv, [Next]_vars PROVE DInv'
  OBVIOUS
<1>1. CASE Next
  BY <1>1, NetworkTrue, LocalTrue DEF Next
<1>2. CASE UNCHANGED vars
  BY <1>2 DEF vars, DInv, IInv, Read, Far
<1> QED
  BY <1>1, <1>2
-----------------------------------------------------------------------------
(***************************************************************************)
(* Which ends stop: the last position sent is outstanding until it is      *)
(* acknowledged, and fill_window leaves an ended stream without its FIN    *)
(* only when the window is full.                                           *)
(***************************************************************************)
\* The segment with the last position sent is outstanding, unless all is acknowledged.
Awaited(s, e) ==
  s.acked < s.nextSeqno =>
    \E o \in s.outstanding :
      /\ LengthInSequenceSpace(o.seg) \in 1 .. s.nextSeqno
      /\ o.seg.seqno = Wrap(s.nextSeqno - LengthInSequenceSpace(o.seg), Isn[e])

\* Once the SYN has been sent the window is open.
Ready(s, e) ==
  /\ Awaited(s, e)
  /\ s.nextSeqno > 0 => s.window >= 1

\* fill_window has gone as far as it could.
Filled(s) == Eof(s.stream) /\ ~ s.finSent => Room(s) <= 0

\* The FIN and all before it have been acknowledged.
Settled(s, e) == s.finSent /\ s.acked = StreamLen[e] + 2

\* What a step of the sender keeps.
Steady(s, t, e) == Ready(t, e) /\ (Settled(s, e) => Settled(t, e))

\* Nothing but the queue, the timers or the stream of a sender changes.
Akin(s, t) ==
  /\ t.nextSeqno = s.nextSeqno /\ t.acked = s.acked /\ t.window = s.window
  /\ t.finSent = s.finSent
  /\ \A o \in s.outstanding : \E q \in t.outstanding : o.seg = q.seg

\* Such a step keeps what is outstanding, and leaves no FIN to send that was not there.
LEMMA AkinSteady ==
  ASSUME NEW e, NEW s, Ready(s, e), NEW t, Akin(s, t)
  PROVE  /\ Steady(s, t, e)
         /\ Filled(s) /\ (Eof(t.stream) => Eof(s.stream)) => Filled(t)
<1>1. Awaited(t, e)
  <2> SUFFICES ASSUME s.acked < s.nextSeqno
               PROVE  \E o \in t.outstanding :
                        /\ LengthInSequenceSpace(o.seg) \in 1 .. s.nextSeqno
                        /\ o.seg.seqno = Wrap(s.nextSeqno - LengthInSequenceSpace(o.seg), Isn[e])
    BY DEF Awaited, Akin
  <2>1. PICK o \in s.outstanding :
          /\ LengthInSequenceSpace(o.seg) \in 1 .. s.nextSeqno
          /\ o.seg.seqno = Wrap(s.nextSeqno - LengthInSequenceSpace(o.seg), Isn[e])
    BY DEF Ready, Awaited
  <2>2. PICK q \in t.outstanding : o.seg = q.seg
    BY DEF Akin
  <2> QED
    BY <2>1, <2>2
<1>2. Filled(s) /\ (Eof(t.stream) => Eof(s.stream)) => Filled(t)
  BY DEF Filled, Room, Akin
<1> QED
  BY <1>1, <1>2 DEF Steady, Ready, Settled, Akin

\* So does none at all.
LEMMA SameSteady == ASSUME NEW e, NEW s, Ready(s, e) PROVE Steady(s, s, e)
BY DEF Steady

\* One step of the sender after another.
LEMMA SteadyTwice ==
  ASSUME NEW e, NEW s, NEW t, NEW u, Steady(s, t, e), Steady(t, u, e)
  PROVE  Steady(s, u, e)
BY DEF Steady

\* A segment that starts where the sender is goes out.
LEMMA SentReady ==
  ASSUME NEW e \in Ends, NEW s, NEW t, NEW seg, GoesOut(s, t, seg), s.nextSeqno \in Nat,
         NEW n \in Nat \ {0}, LengthInSequenceSpace(seg) = n,
         seg.seqno = Wrap(s.nextSeqno, Isn[e]), t.nextSeqno = s.nextSeqno + n,
         t.window >= 1
  PROVE  Ready(t, e)
<1>1. PICK left : t.outstanding = s.outstanding \cup {[seg |-> seg, left |-> left]}
  BY DEF GoesOut
<1> DEFINE new == [seg |-> seg, left |-> left]
<1>2. new \in t.outstanding /\ new.seg = seg
  BY <1>1
<1> HIDE DEF new
<1>3. t.nextSeqno - n = s.nextSeqno /\ n \in 1 .. t.nextSeqno
  OBVIOUS
<1> QED
  BY <1>2, <1>3 DEF Ready, Awaited

\* The SYN.  The stream has not been ended, so there is no FIN to send.
LEMMA SynReady ==
  ASSUME Modest, NEW e \in Ends, NEW s, Sending(s, e), Finishing(s, e), s.window = NoWindow
  PROVE  Steady(s, SendSyn(s), e) /\ Filled(SendSyn(s))
<1> DEFINE fin == Eof(s.stream)
           seg == [EmptySegment EXCEPT !.seqno = s.isn, !.syn = TRUE, !.fin = fin]
           u == Transmit(s, seg)
           t == SendSyn(s)
<1>1. /\ s \in Senders(e) /\ s.isn = Isn[e] /\ Isn[e] \in RawValues
      /\ s.nextSeqno = 0 /\ ~ s.finSent /\ ~ s.stream.eof2
  <2>1. s \in Senders(e)
    BY DEF Sending
  <2> QED
    BY <2>1, SenderFields, ModestFacts DEF Sending, Counting, Finishing
<1>2. fin = FALSE
  BY <1>1 DEF Eof
<1> HIDE DEF fin
<1>3. /\ seg \in Segments /\ seg.seqno = Isn[e] /\ seg.syn = TRUE /\ seg.fin = FALSE
      /\ seg.payload = <<>>
  BY <1>1, <1>2, NothingIsSegment DEF Segments, TCPSegments
<1>4. t = [u EXCEPT !.window = 1, !.nextSeqno = 1 + One(fin), !.finSent = fin]
  BY DEF SendSyn, fin
<1>5. 1 + One(fin) = 1
  BY <1>2 DEF One
<1> HIDE DEF seg
<1>6. /\ u \in Senders(e) /\ u.stream = s.stream /\ u.acked = s.acked
      /\ u.outstanding = s.outstanding \cup {[seg |-> seg, left |-> s.rto]}
      /\ \A i \in DOMAIN u.segmentsOut :
           \/ \E k \in DOMAIN s.segmentsOut : u.segmentsOut[i] = s.segmentsOut[k]
           \/ u.segmentsOut[i] = seg
  BY <1>1, <1>3, TransmitShape
<1> HIDE DEF u
<1>7. /\ t.stream = s.stream /\ t.nextSeqno = 1 /\ t.acked = s.acked /\ t.finSent = FALSE
      /\ t.outstanding = u.outstanding /\ t.segmentsOut = u.segmentsOut /\ t.window = 1
  BY <1>2, <1>4, <1>5, <1>6 DEF Senders
<1> HIDE DEF t
<1>8. GoesOut(s, t, seg)
  BY <1>3, <1>6, <1>7 DEF GoesOut
<1>9. LengthInSequenceSpace(seg) = 1 /\ seg.seqno = Wrap(s.nextSeqno, Isn[e])
  <2>1. LengthInSequenceSpace(seg) = 1
    BY <1>3, EmptySeq DEF LengthInSequenceSpace, One
  <2> QED
    BY <1>1, <1>3, <2>1, WrapOfZero
<1>10. Ready(t, e)
  BY <1>1, <1>7, <1>8, <1>9, SentReady
<1>11. ~ Eof(t.stream)
  BY <1>1, <1>7 DEF Eof
<1> QED
  BY <1>1, <1>10, <1>11 DEF Steady, Settled, Filled, t

\* One turn of the loop.
LEMMA TurnReady ==
  ASSUME Modest, NEW e \in Ends, NEW s, Sending(s, e), Finishing(s, e), Ready(s, e),
         s.window # NoWindow
  PROVE  Steady(s, FillOne(s), e) /\ Filled(FillOne(s))
<1> DEFINE len == Smaller(MaxPayload, Smaller(BufferSize(s.stream), Room(s)))
           drained == PopOutput(s.stream, len)
           fin == FinGoes(s, drained, len)
           seg == [EmptySegment EXCEPT !.seqno = NextSeqno(s), !.fin = fin,
                     !.payload = PeekOutput(s.stream, len)]
           t == [Transmit(s, seg) EXCEPT !.stream = drained, !.finSent = fin,
                   !.crtx = 0, !.nextSeqno = @ + len + One(fin)]
<1>1. FillOne(s) = IF s.finSent \/ Room(s) <= 0 \/ (len = 0 /\ ~ fin) THEN s ELSE t
  BY DEF FillOne
<1>2. /\ s \in Senders(e) /\ Flowing(s.stream, e) /\ s.isn = Isn[e]
      /\ s.stream.totRead \in Nat /\ BufferSize(s.stream) \in Nat
      /\ s.window \in Int /\ s.acked \in Nat
      /\ MaxPayload \in Nat /\ MaxPayload >= 1 /\ Isn[e] \in RawValues
      /\ s.nextSeqno # 0 /\ s.nextSeqno \in Nat
  <2>1. s \in Senders(e) /\ Flowing(s.stream, e) /\ s.nextSeqno # 0
    BY DEF Sending, Counting
  <2>2. s.acked \in Nat
    BY <2>1, SenderFields DEF SizeTs
  <2>3. MaxPayload \in Nat /\ MaxPayload >= 1
    BY SenderAssumption
  <2> QED
    BY <2>1, <2>2, <2>3, SenderFields, FlowFields, ModestFacts
<1>3. Room(s) \in Int
  BY <1>2 DEF Room
<1>4. Steady(s, s, e)
  BY SameSteady
<1>5. CASE s.finSent \/ Room(s) <= 0
  BY <1>1, <1>4, <1>5 DEF Filled
<1>6. CASE ~ s.finSent /\ Room(s) > 0
  <2>1. /\ len \in 0 .. BufferSize(s.stream) /\ len \in Nat /\ len <= Room(s)
        /\ (len = 0 => BufferSize(s.stream) = 0)
    BY <1>2, <1>3, <1>6 DEF Smaller
  <2> HIDE DEF len
  <2>2. /\ Flowing(drained, e) /\ drained.totRead = s.stream.totRead + len
        /\ PeekOutput(s.stream, len) = Excerpt(s.stream.totRead, len)
    BY <1>2, <2>1, PopFlows
  <2>3. fin <=> Eof(drained) /\ Room(s) > len
    BY DEF FinGoes
  <2>3b. fin \in BOOLEAN
    BY DEF FinGoes, Eof, BufferEmpty
  <2>4. len = 0 /\ Eof(s.stream) => Eof(drained)
    <3> SUFFICES ASSUME len = 0, Eof(s.stream) PROVE Eof(drained)
      OBVIOUS
    <3>1. drained.eof2 = s.stream.eof2
      <4> DEFINE m == SubSeq(s.stream.buf, Smaller(len, Len(s.stream.buf)) + 1, Len(s.stream.buf))
      <4>1. drained \in [cap : {s.stream.cap}, rem : {s.stream.rem + len},
                   totRead : {s.stream.totRead + len}, totWrite : {s.stream.totWrite},
                   eof2 : {s.stream.eof2}, error : {s.stream.error}, buf : {m}]
        BY <1>2 DEF PopOutput, Streams, Flowing
      <4> HIDE DEF drained, m
      <4> QED
        BY <4>1
    <3>2. drained.rem = s.stream.rem /\ drained.cap = s.stream.cap
      <4>1. s.stream.rem \in Nat /\ s.stream.cap = SendCapacity /\ SendCapacity \in Nat
        BY <1>2, FlowFields
      <4>2. drained.cap = SendCapacity /\ drained.rem \in Nat
        BY <2>2, FlowFields
      <4>3. BufferSize(s.stream) = SendCapacity - s.stream.rem
        BY <1>2, FlowFields
      <4>4. s.stream \in Streams(SendCapacity)
        BY <1>2 DEF Flowing
      <4>5. drained.rem = s.stream.rem + len
        BY <4>1, <4>4 DEF PopOutput, Streams
      <4> HIDE DEF drained
      <4> QED
        BY <4>1, <4>2, <4>5
    <3> HIDE DEF drained
    <3> QED
      BY <3>1, <3>2 DEF Eof, BufferEmpty
  <2> HIDE DEF drained, fin
  <2>5. CASE len = 0 /\ ~ fin
    <3>1. FillOne(s) = s
      BY <1>1, <2>5
    <3>2. ~ Eof(s.stream)
      BY <1>3, <1>6, <2>3, <2>4, <2>5
    <3> QED
      BY <1>4, <3>1, <3>2 DEF Filled
  <2>6. CASE ~ (len = 0 /\ ~ fin)
    <3>1. FillOne(s) = t
      BY <1>1, <1>3, <1>6, <2>6
    <3>2. /\ seg \in Segments /\ seg.seqno = Wrap(s.nextSeqno, Isn[e]) /\ seg.syn = FALSE
          /\ seg.fin = fin /\ seg.payload = Excerpt(s.stream.totRead, len)
      <4>1. NextSeqno(s) \in RawValues /\ NextSeqno(s) = Wrap(s.nextSeqno, Isn[e])
        BY <1>2, WrapRounds DEF NextSeqno
      <4>2. Excerpt(s.stream.totRead, len) \in Seq(Nat)
        BY <1>2, <2>1, ExcerptIsSeq
      <4> QED
        BY <2>2, <2>3b, <4>1, <4>2, NothingIsSegment DEF Segments, TCPSegments
    <3> HIDE DEF seg
    <3> DEFINE n == len + One(fin)
    <3>3. LengthInSequenceSpace(seg) = n /\ n \in Nat \ {0} /\ One(fin) \in {0, 1}
          /\ (~ fin => One(fin) = 0)
      <4>1. Len(seg.payload) = len
        BY <1>2, <2>1, <3>2, ExcerptIsSeq
      <4>2. One(fin) \in {0, 1} /\ (fin => One(fin) = 1) /\ (~ fin => One(fin) = 0)
            /\ One(FALSE) = 0
        BY DEF One
      <4>3. LengthInSequenceSpace(seg) = len + 0 + One(fin)
        BY <3>2, <4>1, <4>2 DEF LengthInSequenceSpace
      <4> QED
        BY <2>1, <2>6, <4>2, <4>3
    <3> DEFINE u == Transmit(s, seg)
    <3>4. /\ u \in Senders(e) /\ u.nextSeqno = s.nextSeqno /\ u.acked = s.acked
          /\ u.outstanding = s.outstanding \cup {[seg |-> seg, left |-> s.rto]}
          /\ \A i \in DOMAIN u.segmentsOut :
               \/ \E k \in DOMAIN s.segmentsOut : u.segmentsOut[i] = s.segmentsOut[k]
               \/ u.segmentsOut[i] = seg
      BY <1>2, <3>2, TransmitShape
    <3>5. u.window = s.window
      BY <1>2 DEF Transmit, Senders
    <3> HIDE DEF u
    <3> DEFINE next == s.nextSeqno + len + One(fin)
    <3>6. next = s.nextSeqno + n /\ next \in Nat
      BY <1>2, <2>1, <3>3
    <3>7. t = [u EXCEPT !.stream = drained, !.finSent = fin, !.crtx = 0, !.nextSeqno = next]
      <4>1. t = [u EXCEPT !.stream = drained, !.finSent = fin, !.crtx = 0,
                          !.nextSeqno = u.nextSeqno + len + One(fin)]
        BY DEF u
      <4> HIDE DEF t
      <4> QED
        BY <3>4, <4>1
    <3> HIDE DEF t, next, n
    <3>8. /\ t.stream = drained /\ t.finSent = fin /\ t.nextSeqno = next
          /\ t.acked = s.acked /\ t.window = s.window
          /\ t.outstanding = u.outstanding /\ t.segmentsOut = u.segmentsOut
      BY <3>4, <3>5, <3>7 DEF Senders
    <3>9. GoesOut(s, t, seg)
      BY <3>2, <3>4, <3>8 DEF GoesOut
    <3>10. t.window >= 1
      BY <1>2, <3>8 DEF Ready
    <3>11. Ready(t, e)
      BY <1>2, <3>2, <3>3, <3>6, <3>8, <3>9, <3>10, SentReady
    <3>12. Filled(t)
      <4> SUFFICES ASSUME Eof(drained), ~ fin PROVE Room(t) <= 0
        BY <3>8 DEF Filled
      <4>1. Room(s) <= len
        BY <1>3, <2>1, <2>3
      <4>2. next = s.nextSeqno + len
        BY <1>2, <2>1, <3>3 DEF next
      <4> QED
        BY <1>2, <2>1, <3>8, <4>1, <4>2 DEF Room
    <3> QED
      BY <1>6, <3>1, <3>11, <3>12 DEF Steady, Settled
  <2> QED
    BY <2>5, <2>6
<1> QED
  BY <1>3, <1>5, <1>6

\* The loop, by induction on the number of turns.
LEMMA TurnsReady ==
  ASSUME Modest, NEW e \in Ends, NEW s, Sending(s, e), Finishing(s, e), Ready(s, e),
         s.window # NoWindow, NEW n \in Nat, NEW f, Turns(s, n, f)
  PROVE  Steady(s, f[n], e) /\ (n > 0 => Filled(f[n]))
<1> DEFINE Held(k) == /\ Onward(s, f[k], e) /\ Finishing(f[k], e)
                      /\ Steady(s, f[k], e) /\ (k > 0 => Filled(f[k]))
           P == {k \in Nat : k <= n => Held(k)}
<1>1. \A k \in 0 .. n : f[k] = IF k = 0 THEN s ELSE FillOne(f[k - 1])
  BY DEF Turns
<1>2. 0 \in P
  <2>1. f[0] = s
    BY <1>1
  <2>2. s.stream.totRead \in Nat
    BY FlowFields DEF Sending
  <2>3. Steady(s, s, e)
    BY SameSteady
  <2> QED
    BY <2>1, <2>2, <2>3 DEF Onward
<1>3. ASSUME NEW k \in Nat, k \in P PROVE k + 1 \in P
  <2> SUFFICES ASSUME k + 1 <= n PROVE Held(k + 1)
    BY <1>3
  <2>1. Held(k)
    BY <1>3
  <2>2. f[k + 1] = FillOne(f[k])
    BY <1>1, <1>3
  <2>3. WithinRound
    BY DEF Modest
  <2>4. Onward(f[k], f[k + 1], e)
    BY <2>1, <2>2, <2>3, TurnSending DEF Onward
  <2>5. Finishing(f[k + 1], e)
    BY <2>1, <2>2, TurnFinishing DEF Onward
  <2>6. Steady(f[k], f[k + 1], e) /\ Filled(f[k + 1])
    BY <2>1, <2>2, TurnReady DEF Onward, Steady
  <2>7. Onward(s, f[k + 1], e)
    BY <2>1, <2>4, OnwardTwice
  <2>8. Steady(s, f[k + 1], e)
    BY <2>1, <2>6, SteadyTwice
  <2> QED
    BY <2>5, <2>6, <2>7, <2>8
<1> HIDE DEF P
<1>4. \A k \in Nat : k \in P
  BY <1>2, <1>3, EveryNumber
<1> QED
  BY <1>4 DEF P

\* fill_window.
LEMMA FillReady ==
  ASSUME Modest, NEW e \in Ends, NEW s, Sending(s, e), Finishing(s, e), Ready(s, e)
  PROVE  Steady(s, FillWindow(s), e) /\ Filled(FillWindow(s))
<1> DEFINE turns == BufferSize(s.stream) + 1
<1>1. turns \in Nat /\ turns > 0
  BY FlowFields DEF Sending
<1>2. CASE s.finSent
  BY <1>2, SameSteady DEF FillWindow, Filled
<1>3. CASE ~ s.finSent /\ s.window = NoWindow
  <2>1. FillWindow(s) = SendSyn(s)
    BY <1>3 DEF FillWindow
  <2> QED
    BY <1>3, <2>1, SynReady
<1>4. CASE ~ s.finSent /\ s.window # NoWindow
  <2> DEFINE f == CHOOSE g : Turns(s, turns, g)
  <2>1. FillWindow(s) = f[turns]
    BY <1>4 DEF FillWindow, Turns
  <2>2. Turns(s, turns, f)
    BY <1>1, TurnsExist
  <2> HIDE DEF f, turns
  <2>3. Steady(s, f[turns], e) /\ Filled(f[turns])
    BY <1>1, <1>4, <2>2, TurnsReady
  <2> QED
    BY <2>1, <2>3
<1> QED
  BY <1>2, <1>3, <1>4

\* ack_received: the segment with the last position stays until that is acknowledged.
LEMMA AckReady ==
  ASSUME Modest, NEW e \in Ends, NEW s, Sending(s, e), Finishing(s, e), Ready(s, e),
         NEW q \in 1 .. StreamLen[e] + 2, NEW ackno \in RawValues,
         ackno = Wrap(q, Isn[e]), NEW win \in Nat
  PROVE  Steady(s, AckReceived(s, ackno, win), e)
<1> DEFINE acked == Unwrap(ackno, s.isn, s.acked)
           new == acked > s.acked
           rto == IF new THEN RetxTimeout ELSE s.rto
           left == {o \in s.outstanding : ~ Acknowledged(s, o.seg, acked)}
           f == [o \in left |-> [o EXCEPT !.left = IF new THEN rto ELSE @]]
           out == {[o EXCEPT !.left = IF new THEN rto ELSE @] : o \in left}
           t == [s EXCEPT !.acked = acked, !.window = Larger(1, win),
                   !.zeroWindow = (win = 0), !.rto = rto, !.outstanding = out]
<1>1. /\ s \in Senders(e) /\ s.isn = Isn[e] /\ s.nextSeqno \in Nat /\ s.acked \in SizeTs
      /\ s.outstanding \subseteq Timers /\ Isn[e] \in RawValues
      /\ StreamLen[e] \in Nat /\ WithinRound /\ StreamLen[e] + 3 <= Round
      /\ Round \in Nat \ {0, 1} /\ s.nextSeqno <= StreamLen[e] + 2
  <2>1. WithinRound
    BY DEF Modest
  <2> QED
    BY <2>1, SenderFields, CountFields, PairFacts DEF Sending
<1>2. acked \in SizeTs
  BY ONLY <1>1, UnwrapAbove, ackno \in RawValues DEF WithinRound
<1> HIDE DEF acked
<1>3. AckReceived(s, ackno, win) = IF ~ Credible(s, acked) THEN s ELSE t
  BY DEF AckReceived, acked
<1>4. CASE ~ Credible(s, acked)
  BY <1>3, <1>4, SameSteady
<1>5. CASE Credible(s, acked)
  <2>1. acked <= s.nextSeqno /\ acked >= s.acked /\ acked \in Nat /\ s.acked \in Nat
    BY <1>1, <1>2, <1>5 DEF Credible, SizeTs
  <2> HIDE DEF rto, new
  <2>2. \A o \in left : f[o].seg = o.seg
    BY <1>1 DEF Timers
  <2>3. \A o \in left : \E k \in out : k.seg = o.seg
    <3>1. out = {f[o] : o \in left}
      OBVIOUS
    <3> HIDE DEF f, left, out
    <3> QED
      BY <2>2, <3>1
  <2> HIDE DEF out
  <2>4. /\ t.nextSeqno = s.nextSeqno /\ t.acked = acked /\ t.window = Larger(1, win)
        /\ t.finSent = s.finSent /\ t.outstanding = out
    BY <1>1 DEF Senders
  <2> HIDE DEF t
  <2>5. ASSUME acked < s.nextSeqno
        PROVE  \E o \in left :
                 /\ LengthInSequenceSpace(o.seg) \in 1 .. s.nextSeqno
                 /\ o.seg.seqno = Wrap(s.nextSeqno - LengthInSequenceSpace(o.seg), Isn[e])
    <3>1. PICK o \in s.outstanding :
            /\ LengthInSequenceSpace(o.seg) \in 1 .. s.nextSeqno
            /\ o.seg.seqno = Wrap(s.nextSeqno - LengthInSequenceSpace(o.seg), Isn[e])
      <4>1. s.acked < s.nextSeqno
        BY <1>1, <2>1, <2>5
      <4> QED
        BY <4>1 DEF Ready, Awaited
    <3> DEFINE n == LengthInSequenceSpace(o.seg)
               p == s.nextSeqno - n
               u == Unwrap(o.seg.seqno, s.isn, acked)
    <3>2. o.seg.seqno \in RawValues
      BY <1>1, SegmentFields DEF Timers
    <3>3. u \in SizeTs /\ Wrap(u, Isn[e]) = o.seg.seqno
      BY ONLY <1>1, <1>2, <3>2, UnwrapAbove DEF WithinRound
    <3>4. Acknowledged(s, o.seg, acked) <=> u + n <= acked
      BY DEF Acknowledged
    <3> HIDE DEF u, n
    <3>5. n \in 1 .. s.nextSeqno /\ o.seg.seqno = Wrap(p, Isn[e])
      BY <3>1 DEF n
    <3>6. p \in RawValues /\ p \in Nat /\ u \in Nat /\ p + n = s.nextSeqno /\ n \in Nat
      BY <1>1, <3>3, <3>5 DEF RawValues, SizeTs
    <3> HIDE DEF p
    <3>7. u = p \/ u >= p + Round
      BY ONLY <1>1, <3>3, <3>5, <3>6, SamePlace
    <3>8. ~ (u + n <= acked)
      BY <1>1, <2>1, <2>5, <3>6, <3>7
    <3> QED
      BY <3>1, <3>4, <3>8
  <2> HIDE DEF left
  <2>6. Awaited(t, e)
    <3> SUFFICES ASSUME acked < s.nextSeqno
                 PROVE  \E o \in t.outstanding :
                          /\ LengthInSequenceSpace(o.seg) \in 1 .. s.nextSeqno
                          /\ o.seg.seqno
                               = Wrap(s.nextSeqno - LengthInSequenceSpace(o.seg), Isn[e])
      BY <2>4 DEF Awaited
    <3>1. PICK o \in left :
            /\ LengthInSequenceSpace(o.seg) \in 1 .. s.nextSeqno
            /\ o.seg.seqno = Wrap(s.nextSeqno - LengthInSequenceSpace(o.seg), Isn[e])
      BY <2>5
    <3>2. PICK k \in out : k.seg = o.seg
      BY <2>3
    <3> QED
      BY <2>4, <3>1, <3>2
  <2>7. t.window >= 1
    BY <2>4 DEF Larger
  <2>8. Settled(s, e) => Settled(t, e)
    BY <1>1, <2>1, <2>4 DEF Settled
  <2> QED
    BY <1>3, <1>5, <2>6, <2>7, <2>8 DEF Steady, Ready
<1> QED
  BY <1>4, <1>5

\* ms milliseconds pass.
LEMMA ElapseAkin ==
  ASSUME NEW e \in Ends, NEW s \in Senders(e), NEW ms
  PROVE  Akin(s, Elapse(s, ms)) /\ Elapse(s, ms).stream = s.stream
<1> DEFINE f == [o \in s.outstanding |-> [o EXCEPT !.left = @ - ms]]
           out == {[o EXCEPT !.left = @ - ms] : o \in s.outstanding}
           t == [s EXCEPT !.outstanding = out]
<1>1. s.outstanding \subseteq Timers
  BY SenderFields
<1>2. \A o \in s.outstanding : f[o].seg = o.seg
  BY <1>1 DEF Timers
<1>3. Elapse(s, ms) = t
  BY DEF Elapse
<1>4. out = {f[o] : o \in s.outstanding}
  OBVIOUS
<1> HIDE DEF f, out
<1>5. \A o \in s.outstanding : \E q \in out : o.seg = q.seg
  BY <1>2, <1>4
<1>6. /\ t.stream = s.stream /\ t.nextSeqno = s.nextSeqno /\ t.acked = s.acked
      /\ t.finSent = s.finSent /\ t.window = s.window /\ t.outstanding = out
  BY DEF Senders
<1> HIDE DEF t
<1> QED
  BY <1>3, <1>5, <1>6 DEF Akin

\* A segment is sent again, or none.
LEMMA RetransmitAkin ==
  ASSUME NEW e \in Ends, NEW s \in Senders(e)
  PROVE  Akin(s, Retransmit(s)) /\ Retransmit(s).stream = s.stream
<1> DEFINE rto == IF s.zeroWindow THEN s.rto ELSE (2 * s.rto) % UIntRange
           queue == Append(s.segmentsOut, Oldest(s).seg)
           f == [o \in s.outstanding |-> [o EXCEPT !.left = rto]]
           out == Restarted(s, rto)
           count == s.crtx + 1
           t == [s EXCEPT !.rto = rto, !.crtx = count, !.segmentsOut = queue,
                          !.outstanding = out]
<1>1. Retransmit(s) = IF Expired(s) = {} THEN s ELSE t
  BY DEF Retransmit
<1> HIDE DEF rto, queue, count
<1>2. s.outstanding \subseteq Timers
  BY SenderFields
<1>3. \A o \in s.outstanding : f[o].seg = o.seg
  BY <1>2 DEF Timers
<1>4. out = {f[o] : o \in s.outstanding}
  BY DEF Restarted
<1> HIDE DEF f, out
<1>5. \A o \in s.outstanding : \E q \in out : o.seg = q.seg
  BY <1>3, <1>4
<1>6. /\ t.stream = s.stream /\ t.nextSeqno = s.nextSeqno /\ t.acked = s.acked
      /\ t.finSent = s.finSent /\ t.window = s.window /\ t.outstanding = out
  BY DEF Senders
<1> HIDE DEF t
<1>7. Akin(s, t) /\ Akin(s, s)
  BY <1>5, <1>6 DEF Akin
<1> QED
  BY <1>1, <1>6, <1>7

\* An empty segment is queued, or taken from the queue, or the stream changes.
LEMMA QueueAkin ==
  ASSUME NEW e \in Ends, NEW s \in Senders(e), NEW queue, NEW b
  PROVE  /\ Akin(s, SendEmptySegment(s)) /\ SendEmptySegment(s).stream = s.stream
         /\ Akin(s, [s EXCEPT !.segmentsOut = queue])
         /\ [s EXCEPT !.segmentsOut = queue].stream = s.stream
         /\ Akin(s, [s EXCEPT !.stream = b])
         /\ [s EXCEPT !.stream = b].stream = b
BY DEF Akin, SendEmptySegment, Senders

\* One step of this kind after another.
LEMMA AkinTwice ==
  ASSUME NEW s, NEW t, NEW u, Akin(s, t), Akin(t, u)
  PROVE  Akin(s, u)
<1>1. ASSUME NEW o \in s.outstanding PROVE \E q \in u.outstanding : o.seg = q.seg
  <2>1. PICK q \in t.outstanding : o.seg = q.seg
    BY DEF Akin
  <2> QED
    BY <2>1 DEF Akin
<1> QED
  BY <1>1 DEF Akin

\* With nothing in flight a FIN that has been sent has been acknowledged.
LEMMA FinAcknowledged ==
  ASSUME NEW e \in Ends, NEW s \in Senders(e), Finishing(s, e), BytesInFlight(s) = 0,
         s.finSent
  PROVE  s.acked = StreamLen[e] + 2
<1>1. IsFiniteSet(s.outstanding) /\ s.outstanding \subseteq Timers
  BY SenderFields DEF Finishing
<1>2. ASSUME NEW o \in s.outstanding, o.seg.fin PROVE FALSE
  <2>1. LengthInSequenceSpace(o.seg) <= 0
    BY <1>1, NothingInFlight
  <2>2. Len(o.seg.payload) \in Nat
    BY <1>1, SegmentFields DEF Timers
  <2>3. LengthInSequenceSpace(o.seg) = Len(o.seg.payload) + One(o.seg.syn) + 1
    BY <1>2 DEF LengthInSequenceSpace, One
  <2>4. One(o.seg.syn) \in Nat
    BY DEF One
  <2> QED
    BY <2>1, <2>2, <2>3, <2>4
<1> QED
  BY <1>2 DEF Finishing

\* Everything read and nothing in flight: then the FIN has been sent, for there was room
\* for it, and acknowledged.
LEMMA DoneSettled ==
  ASSUME Modest, NEW e \in Ends, NEW s, Sending(s, e), Finishing(s, e), Ready(s, e),
         Filled(s), Eof(s.stream), BytesInFlight(s) = 0
  PROVE  Settled(s, e)
<1>1. /\ s \in Senders(e) /\ s.nextSeqno \in Nat /\ s.acked \in Nat /\ s.window \in Int
      /\ s.outstanding \subseteq Timers /\ IsFiniteSet(s.outstanding)
      /\ s.nextSeqno > 0
  <2>1. s \in Senders(e)
    BY DEF Sending
  <2> QED
    BY <2>1, SenderFields DEF Finishing, SizeTs, Eof
<1>2. s.finSent
  <2> SUFFICES ASSUME ~ s.finSent PROVE FALSE
    OBVIOUS
  <2>1. s.acked + s.window - s.nextSeqno <= 0 /\ s.window >= 1
    BY <1>1 DEF Filled, Room, Ready
  <2>2. s.acked < s.nextSeqno
    BY <1>1, <2>1
  <2>3. PICK o \in s.outstanding : LengthInSequenceSpace(o.seg) \in 1 .. s.nextSeqno
    BY <2>2 DEF Ready, Awaited
  <2>4. LengthInSequenceSpace(o.seg) <= 0
    BY <1>1, NothingInFlight
  <2> QED
    BY <1>1, <2>3, <2>4
<1> QED
  BY <1>1, <1>2, FinAcknowledged DEF Settled
-----------------------------------------------------------------------------
(***************************************************************************)
(* The endpoint again: it stops without an error only when all it had to   *)
(* send has been acknowledged.                                             *)
(***************************************************************************)
\* Within a handler that began with an active endpoint.
Runs(c, e) == Active(c) \/ Settled(c.sender, e)

\* Between the handlers.
Stops(c, e) ==
  /\ Ready(c.sender, e) /\ Filled(c.sender)
  /\ Runs(c, e) \/ Inbound(c).error

\* Everything read and nothing in flight.
LEMMA DoneRuns ==
  ASSUME Modest, NEW e \in Ends, NEW read, NEW far, NEW c, Able(c, e, read, far),
         Ready(c.sender, e), Filled(c.sender), OutboundDone(c)
  PROVE  Settled(c.sender, e)
<1>1. Sending(c.sender, e) /\ Finishing(c.sender, e)
  BY DEF Able, Good, Meets
<1> QED
  BY <1>1, DoneSettled DEF OutboundDone, Outbound

\* fill_window_and_send.
LEMMA FillRuns ==
  ASSUME Modest, NEW e \in Ends, NEW read, NEW far, NEW c, Able(c, e, read, far),
         Ready(c.sender, e)
  PROVE  LET t == FillWindowAndSend(c)
         IN  /\ Ready(t.sender, e) /\ Filled(t.sender) /\ (Runs(c, e) => Runs(t, e))
             /\ t.receiver = c.receiver
<1> DEFINE sender == FillWindow(c.sender)
           sent == sender.segmentsOut
           stamped == [i \in DOMAIN sent |-> Stamp(c, sent[i])]
           emptied == [sender EXCEPT !.segmentsOut = <<>>]
           idle == IF sent = <<>> THEN c.idle ELSE 0
           fin == c.finsent \/ \E i \in DOMAIN sent : sent[i].fin
           queue == c.segmentsOut \o stamped
           t == [c EXCEPT !.sender = emptied, !.segmentsOut = queue, !.idle = idle,
                          !.finsent = fin]
<1>1. /\ Sending(c.sender, e) /\ Finishing(c.sender, e) /\ WithinRound
      /\ c \in Connections(e, read)
  BY DEF Able, Good, Meets, Modest
<1>2. FillWindowAndSend(c) = t
  BY DEF FillWindowAndSend
<1>3. Steady(c.sender, sender, e) /\ Filled(sender)
  BY <1>1, FillReady
<1>4. sender \in Senders(e)
  BY <1>1, FillSending DEF Sending
<1> HIDE DEF sender, sent, stamped
<1>5. Steady(sender, emptied, e) /\ Filled(emptied)
  <2>1. Akin(sender, emptied) /\ emptied.stream = sender.stream
    BY <1>4, QueueAkin
  <2>2. Ready(sender, e)
    BY <1>3 DEF Steady
  <2> QED
    BY <1>3, <2>1, <2>2, AkinSteady
<1>6. Steady(c.sender, emptied, e)
  BY <1>3, <1>5, SteadyTwice
<1> HIDE DEF emptied, queue, idle, fin
<1>7. t.sender = emptied /\ t.receiver = c.receiver /\ t.active2 = c.active2
  BY <1>1 DEF Connections
<1> HIDE DEF t
<1> QED
  BY <1>2, <1>5, <1>6, <1>7 DEF Steady, Runs, Active

\* The sender changes, but not what it has sent and heard.
LEMMA AkinRuns ==
  ASSUME NEW e \in Ends, NEW read, NEW c \in Connections(e, read), Ready(c.sender, e),
         NEW s, Akin(c.sender, s)
  PROVE  LET t == [c EXCEPT !.sender = s]
         IN  /\ Ready(t.sender, e) /\ (Runs(c, e) => Runs(t, e))
             /\ t.receiver = c.receiver /\ t.sender = s
<1> DEFINE t == [c EXCEPT !.sender = s]
<1>1. t.sender = s /\ t.receiver = c.receiver /\ t.active2 = c.active2
  BY DEF Connections
<1> HIDE DEF t
<1>2. Steady(c.sender, s, e)
  BY AkinSteady
<1>3. Ready(t.sender, e) /\ (Runs(c, e) => Runs(t, e)) /\ t.receiver = c.receiver /\ t.sender = s
  BY <1>1, <1>2 DEF Steady, Runs, Active
<1> QED
  BY <1>3 DEF t

\* Both streams get an error.
LEMMA ErrorStops ==
  ASSUME Modest, NEW e \in Ends, NEW read, NEW far, NEW c, Able(c, e, read, far),
         Ready(c.sender, e), Filled(c.sender)
  PROVE  Stops(WithError(c), e)
<1> DEFINE b == SetError(Outbound(c))
           s == [c.sender EXCEPT !.stream = b]
           r == [c.receiver EXCEPT !.reassembler.out = SetError(@)]
           t == [c EXCEPT !.sender = s, !.receiver = r]
<1>1. /\ c \in Connections(e, read) /\ c.sender \in Senders(e) /\ Other(e) \in Ends
      /\ Receiving(c.receiver, Other(e), read) /\ Delivers(c.receiver, Other(e))
      /\ Outbound(c) \in Streams(SendCapacity)
  BY ModestFacts DEF Able, Good, Meets, Sending, Flowing, Outbound
<1>2. WithError(c) = t
  BY DEF WithError, Outbound
<1>3. StreamIn(r).error
  BY <1>1, ErrorDelivers
<1>4. Eof(b) => Eof(Outbound(c))
  <2>1. b.eof2 = Outbound(c).eof2 /\ b.rem = Outbound(c).rem /\ b.cap = Outbound(c).cap
    BY <1>1 DEF SetError, Streams
  <2> QED
    BY <2>1 DEF Eof, BufferEmpty
<1> HIDE DEF b, r
<1>5. Akin(c.sender, s) /\ s.stream = b
  BY <1>1, QueueAkin
<1> HIDE DEF s
<1>6. Ready(s, e) /\ Filled(s)
  BY <1>4, <1>5, AkinSteady DEF Steady, Outbound
<1>7. t.sender = s /\ t.receiver = r
  BY <1>1 DEF Connections
<1> HIDE DEF t
<1> QED
  BY <1>2, <1>3, <1>6, <1>7 DEF Stops, Inbound

\* sendRST.
LEMMA ResetStops ==
  ASSUME Modest, NEW e \in Ends, NEW read \in 0 .. StreamLen[Other(e)], NEW far,
         NEW c, Able(c, e, read, far), c.sender.nextSeqno # 0,
         Ready(c.sender, e), Filled(c.sender)
  PROVE  Stops(SendRST(c), e)
<1> DEFINE empty == SendEmptySegment(c.sender)
           queue == empty.segmentsOut
           s == [empty EXCEPT !.segmentsOut = Tail(queue)]
           more == Append(c.segmentsOut, [Head(queue) EXCEPT !.rst = TRUE])
           u == Reset(c)
<1>1. c \in Connections(e, read) /\ c.sender \in Senders(e) /\ Sending(c.sender, e)
  BY GoodFields DEF Able, Good, Sending
<1>2. Akin(c.sender, empty) /\ empty.stream = c.sender.stream
  BY <1>1, QueueAkin
<1>3. empty \in Senders(e)
  BY <1>1, EmptySending DEF Sending, Modest
<1>4. u = [c EXCEPT !.active2 = FALSE, !.sender = s, !.segmentsOut = more]
  BY DEF Reset
<1> HIDE DEF empty, queue, more
<1>5. Akin(empty, s) /\ s.stream = empty.stream
  BY <1>3, QueueAkin
<1> HIDE DEF s
<1>6. Akin(c.sender, s) /\ s.stream = c.sender.stream
  BY <1>2, <1>5, AkinTwice
<1>7. Ready(s, e) /\ Filled(s)
  BY <1>6, AkinSteady DEF Steady
<1>8. u.sender = s
  BY <1>1, <1>4 DEF Connections
<1> HIDE DEF u
<1>9. Kept(c, u, e, read, far) /\ SendRST(c) = WithError(u)
  BY MarkKept DEF u
<1>10. Able(u, e, read, far)
  BY <1>9, KeptAble
<1> QED
  BY <1>7, <1>8, <1>9, <1>10, ErrorStops

\* A flag or the clock changes, the sender and the receiver do not.
LEMMA FlagFields ==
  ASSUME NEW e, NEW read, NEW c \in Connections(e, read),
         NEW linger, NEW active, NEW idle
  PROVE  /\ \A t \in {[c EXCEPT !.active2 = active],
                      [c EXCEPT !.linger = linger, !.active2 = active]} :
              t.sender = c.sender /\ t.receiver = c.receiver /\ t.active2 = active
         /\ \A t \in {[c EXCEPT !.linger = linger], [c EXCEPT !.idle = idle]} :
              t.sender = c.sender /\ t.receiver = c.receiver /\ t.active2 = c.active2
BY DEF Connections

\* segment_received: the receiver takes the segment in, the sender its acknowledgment.
LEMMA AbsorbRuns ==
  ASSUME Modest, NEW e \in Ends, NEW read \in 0 .. StreamLen[Other(e)], NEW far,
         NEW c, Able(c, e, read, far), NEW seg, Truthful(seg, e, read, far),
         Ready(c.sender, e)
  PROVE  Ready(Absorb(c, seg).sender, e) /\ (Runs(c, e) => Runs(Absorb(c, seg), e))
<1> DEFINE r == Receive(c.receiver, seg)
           s == IF seg.ack THEN AckReceived(c.sender, seg.ackno, seg.win) ELSE c.sender
           t == [c EXCEPT !.receiver = r, !.sender = s]
<1>1. /\ Other(Other(e)) = e /\ seg \in Segments /\ Acknowledges(seg, Other(e))
      /\ Sending(c.sender, e) /\ Finishing(c.sender, e) /\ c \in Connections(e, read)
  BY ModestFacts, GoodFields DEF Pieces, Truthful, Able, Good, Meets
<1>2. Steady(c.sender, s, e)
  <2>1. CASE ~ seg.ack
    BY <2>1, SameSteady
  <2>2. CASE seg.ack
    <3>1. PICK q \in 1 .. StreamLen[e] + 2 : seg.ackno = Wrap(q, Isn[e])
      BY <1>1, <2>2 DEF Acknowledges
    <3>2. seg.ackno \in RawValues /\ seg.win \in Nat
      BY <1>1, SegmentFields
    <3>3. Steady(c.sender, AckReceived(c.sender, seg.ackno, seg.win), e)
      BY <1>1, <3>1, <3>2, AckReady
    <3> QED
      BY <2>2, <3>3
  <2> QED
    BY <2>1, <2>2
<1>3. Absorb(c, seg) = t
  BY DEF Absorb
<1> HIDE DEF r, s
<1>4. t.sender = s /\ t.active2 = c.active2
  BY <1>1 DEF Connections
<1> HIDE DEF t
<1> QED
  BY <1>2, <1>3, <1>4 DEF Steady, Runs, Active

\* segment_received: the answer.
LEMMA RespondRuns ==
  ASSUME Modest, NEW e \in Ends, NEW read \in 0 .. StreamLen[Other(e)], NEW far,
         NEW c, Able(c, e, read, far), NEW seg, Ready(c.sender, e)
  PROVE  LET t == Respond(c, seg)
         IN  Ready(t.sender, e) /\ Filled(t.sender) /\ (Runs(c, e) => Runs(t, e))
<1> DEFINE s == SendEmptySegment(c.sender)
           t == [c EXCEPT !.sender = s]
<1>1. CASE ~ (SegmentsSent(c) = 0 /\ OwesAck(seg))
  <2>1. Respond(c, seg) = FillWindowAndSend(c)
    BY <1>1 DEF Respond
  <2> QED
    BY <2>1, FillRuns
<1>2. CASE SegmentsSent(c) = 0 /\ OwesAck(seg)
  <2>1. Able(t, e, read, far)
    BY <1>2, OwedKept, KeptAble
  <2>2. Respond(c, seg) = FillWindowAndSend(t)
    BY <1>2 DEF Respond
  <2>3. c \in Connections(e, read) /\ c.sender \in Senders(e)
    BY GoodFields DEF Able, Good, Sending
  <2>4. Akin(c.sender, s)
    BY <2>3, QueueAkin
  <2> HIDE DEF s
  <2>5. Ready(t.sender, e) /\ (Runs(c, e) => Runs(t, e))
    BY <2>3, <2>4, AkinRuns
  <2> HIDE DEF t
  <2> QED
    BY <2>1, <2>2, <2>5, FillRuns
<1> QED
  BY <1>1, <1>2

\* segment_received as a whole: both ways of stopping without a reset find everything
\* read and nothing in flight.
LEMMA SegmentStops ==
  ASSUME Modest, NEW e \in Ends, NEW read \in 0 .. StreamLen[Other(e)], NEW far,
         NEW c, Able(c, e, read, far), NEW seg, Truthful(seg, e, read, far), Stops(c, e)
  PROVE  Stops(SegmentReceived(c, seg), e)
<1> DEFINE active == c.active2 /\ ~ ConfirmsPassiveClose(c, seg)
           confirmed == [c EXCEPT !.active2 = active]
           reset == [c EXCEPT !.active2 = FALSE]
           noted == NoteFin(confirmed, seg)
           absorbed == Absorb(noted, seg)
           answered == Respond(absorbed, seg)
           closed == CloseIfDone(answered, seg)
<1>1. c \in Connections(e, read) /\ Ready(c.sender, e) /\ Filled(c.sender)
  BY GoodFields DEF Able, Stops
<1>2. SegmentReceived(c, seg) \in {c, WithError(reset)} \/ (Active(c) /\ SegmentReceived(c, seg) = closed)
  BY DEF SegmentReceived
<1>3. Stops(WithError(reset), e)
  <2>1. Able(reset, e, read, far)
    BY FlagsKept, KeptAble, 0 \in Nat
  <2>2. reset.sender = c.sender
    BY <1>1, FlagFields
  <2> HIDE DEF reset
  <2> QED
    BY <1>1, <2>1, <2>2, ErrorStops
<1>4. ASSUME Active(c) PROVE Stops(closed, e)
  <2>1. active \in BOOLEAN /\ (active \/ ConfirmsPassiveClose(c, seg))
    BY <1>4 DEF Active
  <2> HIDE DEF active
  <2>2. Able(confirmed, e, read, far)
    BY <2>1, FlagsKept, KeptAble, 0 \in Nat
  <2>3. confirmed.sender = c.sender /\ confirmed.active2 = active
    BY <1>1, FlagFields
  <2>4. Runs(confirmed, e)
    <3>1. ConfirmsPassiveClose(c, seg) => Settled(c.sender, e)
      BY <1>1, DoneRuns DEF ConfirmsPassiveClose
    <3> QED
      BY <2>1, <2>3, <3>1 DEF Runs, Active
  <2> HIDE DEF confirmed
  <2>5. Able(noted, e, read, far)
    BY <2>2, NoteFinKept, KeptAble
  <2>6. noted.sender = c.sender /\ Runs(noted, e)
    <3>1. confirmed \in Connections(e, read)
      BY <2>2, GoodFields DEF Able
    <3>2. noted \in {confirmed, [confirmed EXCEPT !.linger = FALSE]}
      BY DEF NoteFin
    <3> HIDE DEF noted
    <3>3. noted.sender = confirmed.sender /\ noted.active2 = confirmed.active2
      <4> DEFINE quick == [confirmed EXCEPT !.linger = FALSE]
      <4>1. quick.sender = confirmed.sender /\ quick.active2 = confirmed.active2
        BY <3>1 DEF Connections
      <4> HIDE DEF quick
      <4>2. noted = confirmed \/ noted = quick
        BY <3>2 DEF quick
      <4> QED
        BY <4>1, <4>2
    <3> QED
      BY <2>3, <2>4, <3>3 DEF Runs, Active
  <2> HIDE DEF noted
  <2>7. Able(absorbed, e, read, far)
    BY <2>5, AbsorbKept, KeptAble
  <2>8. Ready(absorbed.sender, e) /\ Runs(absorbed, e)
    BY <1>1, <2>5, <2>6, AbsorbRuns
  <2> HIDE DEF absorbed
  <2>9. Able(answered, e, read, far)
    BY <2>7, RespondKept, KeptAble
  <2>10. Ready(answered.sender, e) /\ Filled(answered.sender) /\ Runs(answered, e)
    BY <2>7, <2>8, RespondRuns
  <2> HIDE DEF answered
  <2>11. CASE closed = answered
    BY <2>10, <2>11 DEF Stops
  <2>12. CASE OutboundDone(answered) /\ closed = [answered EXCEPT !.active2 = FALSE]
    <3>1. Settled(answered.sender, e)
      BY <2>9, <2>10, <2>12, DoneRuns
    <3>2. answered \in Connections(e, read)
      BY <2>9, GoodFields DEF Able
    <3>3. closed.sender = answered.sender
      BY <2>12, <3>2, FlagFields
    <3> HIDE DEF closed
    <3> QED
      BY <2>10, <3>1, <3>3 DEF Stops, Runs
  <2> QED
    BY <2>11, <2>12 DEF CloseIfDone
<1> HIDE DEF closed, reset
<1> QED
  BY <1>2, <1>3, <1>4

\* The outbound stream changes and the window is filled, in an active endpoint.
LEMMA StreamStops ==
  ASSUME Modest, NEW e \in Ends, NEW read \in 0 .. StreamLen[Other(e)], NEW far,
         NEW c, Able(c, e, read, far), Stops(c, e), Active(c), NEW b,
         Able([c EXCEPT !.sender.stream = b], e, read, far)
  PROVE  Stops(FillWindowAndSend([c EXCEPT !.sender.stream = b]), e)
<1> DEFINE s == [c.sender EXCEPT !.stream = b]
           t == [c EXCEPT !.sender = s]
<1>1. c \in Connections(e, read) /\ c.sender \in Senders(e)
  BY GoodFields DEF Able, Good, Sending
<1>2. Akin(c.sender, s)
  BY <1>1, QueueAkin
<1>3. [c EXCEPT !.sender.stream = b] = t
  OBVIOUS
<1> HIDE DEF s
<1>4. Ready(t.sender, e) /\ Runs(t, e)
  BY <1>1, <1>2, AkinRuns DEF Stops, Runs
<1>5. Able(t, e, read, far)
  BY <1>3
<1> HIDE DEF t
<1> QED
  BY <1>3, <1>4, <1>5, FillRuns DEF Stops

\* write.
LEMMA WriteStops ==
  ASSUME Modest, NEW e \in Ends, NEW read \in 0 .. StreamLen[Other(e)], NEW far,
         NEW c, Able(c, e, read, far), Stops(c, e), NEW n \in Nat \ {0},
         Outbound(c).totWrite + n <= StreamLen[e]
  PROVE  Stops(ConnectionWrite(c, Excerpt(Outbound(c).totWrite, n)), e)
<1> DEFINE b == Write(Outbound(c), Excerpt(Outbound(c).totWrite, n))
           t == [c EXCEPT !.sender.stream = b]
<1>1. ConnectionWrite(c, Excerpt(Outbound(c).totWrite, n))
        = IF ~ Active(c) THEN c ELSE FillWindowAndSend(t)
  BY DEF ConnectionWrite, Outbound
<1>2. Able(t, e, read, far)
  BY AcceptKept, KeptAble
<1> HIDE DEF b
<1>3. Active(c) => Stops(FillWindowAndSend(t), e)
  BY <1>2, StreamStops
<1> QED
  BY <1>1, <1>3

\* end_input_stream.
LEMMA EndStops ==
  ASSUME Modest, NEW e \in Ends, NEW read \in 0 .. StreamLen[Other(e)], NEW far,
         NEW c, Able(c, e, read, far), Stops(c, e), Outbound(c).totWrite = StreamLen[e],
         c.sender.acked > 0
  PROVE  Stops(EndInputStream(c), e)
<1> DEFINE b == EndInput(Outbound(c))
           t == [c EXCEPT !.sender.stream = b]
<1>1. EndInputStream(c) = IF ~ Active(c) THEN c ELSE FillWindowAndSend(t)
  BY DEF EndInputStream, Outbound
<1>2. Able(t, e, read, far)
  BY EndedKept, KeptAble
<1> HIDE DEF b
<1>3. Active(c) => Stops(FillWindowAndSend(t), e)
  BY <1>2, StreamStops
<1> QED
  BY <1>1, <1>3

\* connect.
LEMMA ConnectStops ==
  ASSUME Modest, NEW e \in Ends, NEW read, NEW far,
         NEW c, Able(c, e, read, far), Stops(c, e)
  PROVE  Stops(Connect(c), e)
BY FillRuns DEF Stops, Connect, Inbound

\* The application reads.
LEMMA ReadStops ==
  ASSUME NEW e \in Ends, NEW read, NEW far, Other(e) \in Ends,
         NEW c, Able(c, e, read, far), Stops(c, e), NEW n
  PROVE  Stops(ConnectionRead(c, n), e)
<1> DEFINE r == ReadIn(c.receiver, n)
           t == [c EXCEPT !.receiver = r]
<1>1. /\ c \in Connections(e, read) /\ Receiving(c.receiver, Other(e), read)
      /\ Delivers(c.receiver, Other(e))
  BY GoodFields DEF Able, Good, Meets
<1>2. StreamIn(r).error = StreamIn(c.receiver).error
  BY <1>1, ReadDelivers
<1>3. ConnectionRead(c, n) = t
  BY DEF ConnectionRead
<1> HIDE DEF r
<1>4. t.sender = c.sender /\ t.receiver = r /\ t.active2 = c.active2
  BY <1>1 DEF Connections
<1> HIDE DEF t
<1> QED
  BY <1>2, <1>3, <1>4 DEF Stops, Runs, Active, Inbound

\* tick, up to fill_window_and_send or sendRST.  The end that has lingered for long enough
\* has everything read and nothing in flight.
LEMMA TimedStops ==
  ASSUME Modest, NEW e \in Ends, NEW read \in 0 .. StreamLen[Other(e)], NEW far,
         NEW c, Able(c, e, read, far), Stops(c, e), Active(c), NEW ms \in Nat
  PROVE  LET t == Timed(c, ms)
         IN  Ready(t.sender, e) /\ Filled(t.sender) /\ Runs(t, e)
<1> DEFINE timed == Lingered(c, ms)
           later == [c EXCEPT !.idle = Smaller(@ + ms, LingerTime)]
           u == Elapse(timed.sender, ms)
           s == TickSender(timed.sender, ms)
           t == [timed EXCEPT !.sender = s]
<1>1. c \in Connections(e, read) /\ Ready(c.sender, e) /\ Filled(c.sender)
  BY GoodFields DEF Able, Stops
<1>2. later.sender = c.sender /\ later.active2 = c.active2 /\ later.receiver = c.receiver
  BY <1>1, FlagFields
<1>3. timed \in {later, [later EXCEPT !.linger = FALSE, !.active2 = FALSE]}
      /\ (timed # later => LingeredOut(later))
  BY DEF Lingered
<1> HIDE DEF later, timed
<1>4. timed.sender = c.sender /\ Runs(timed, e)
  <2>1. CASE timed = later
    BY <1>2, <2>1 DEF Runs, Active
  <2>2. CASE timed # later
    <3>1. OutboundDone(c)
      BY <1>2, <1>3, <2>2 DEF LingeredOut, OutboundDone, Outbound
    <3>2. Settled(c.sender, e)
      BY <1>1, <3>1, DoneRuns
    <3>3. later \in [sender : {later.sender}, receiver : {later.receiver},
                     linger : {later.linger}, active2 : {later.active2},
                     finsent : {later.finsent}, idle : {later.idle},
                     segmentsOut : {later.segmentsOut}]
      BY <1>1 DEF later, Connections
    <3>4. timed.sender = later.sender
      BY <1>3, <2>2, <3>3
    <3> QED
      BY <1>2, <3>2, <3>4 DEF Runs
  <2> QED
    BY <2>1, <2>2
<1>5. Able(timed, e, read, far)
  BY LingeredKept, KeptAble DEF timed
<1>6. timed \in Connections(e, read) /\ timed.sender \in Senders(e) /\ Sending(timed.sender, e)
      /\ WithinRound
  BY <1>5, GoodFields DEF Able, Good, Sending, Modest
<1>7. Akin(timed.sender, u) /\ u.stream = timed.sender.stream
  BY <1>6, ElapseAkin
<1>8. u \in Senders(e)
  BY <1>6, ElapseSending DEF Sending
<1>9. s = Retransmit(u)
  BY DEF TickSender
<1> HIDE DEF u, s
<1>10. Akin(u, s) /\ s.stream = u.stream
  BY <1>8, <1>9, RetransmitAkin
<1>11. Akin(timed.sender, s) /\ s.stream = timed.sender.stream
  BY <1>7, <1>10, AkinTwice
<1>12. Filled(s)
  BY <1>1, <1>4, <1>11, AkinSteady
<1>13. Ready(t.sender, e) /\ Runs(t, e) /\ t.sender = s
  BY <1>1, <1>4, <1>6, <1>11, AkinRuns
<1>14. Timed(c, ms) = t
  BY DEF Timed, timed, s
<1> HIDE DEF t
<1> QED
  BY <1>12, <1>13, <1>14

\* tick of the connection.
LEMMA TickStops ==
  ASSUME Modest, NEW e \in Ends, NEW read \in 0 .. StreamLen[Other(e)], NEW far,
         NEW c, Able(c, e, read, far), Stops(c, e), NEW ms \in Nat
  PROVE  Stops(TickConnection(c, ms), e)
<1> DEFINE ticked == Timed(c, ms)
           t == TickConnection(c, ms)
<1>1. \/ t = c
      \/ Active(c) /\ GivesUp(ticked) /\ t = SendRST(ticked)
      \/ Active(c) /\ t = FillWindowAndSend(ticked)
  BY DEF TickConnection, Timed, Lingered
<1>2. Able(ticked, e, read, far)
  BY TimedKept, KeptAble
<1>3. Active(c) => Ready(ticked.sender, e) /\ Filled(ticked.sender) /\ Runs(ticked, e)
  BY TimedStops
<1> HIDE DEF ticked, t
<1>4. CASE Active(c) /\ GivesUp(ticked) /\ t = SendRST(ticked)
  <2>1. Finishing(ticked.sender, e) /\ ticked.sender.crtx > MaxRetxAttempts
        /\ MaxRetxAttempts \in Nat
    BY <1>2, <1>4, ConnectionAssumption DEF Able, Meets, GivesUp
  <2>2. ticked.sender.nextSeqno # 0
    BY <2>1 DEF Finishing
  <2> QED
    BY <1>2, <1>3, <1>4, <2>2, ResetStops DEF t
<1>5. CASE Active(c) /\ t = FillWindowAndSend(ticked)
  BY <1>2, <1>3, <1>5, FillRuns DEF Stops, t
<1> QED
  BY <1>1, <1>4, <1>5 DEF t
-----------------------------------------------------------------------------
(***************************************************************************)
(* The two endpoints, each of which stops only so.                         *)
(***************************************************************************)
\* DInv, and each end has stopped only with everything acknowledged or after a reset.
EInv == DInv /\ \A e \in Ends : Stops(conn[e], e)

\* A new connection is active and has sent nothing.
LEMMA NewStops ==
  ASSUME NEW e \in Ends
  PROVE  Stops(NewConnection(Isn[e]), e)
<1> DEFINE s == NewSender(Isn[e], SendCapacity)
           c == NewConnection(Isn[e])
<1>1. s.nextSeqno = 0 /\ s.acked = 0 /\ ~ s.stream.eof2
  BY DEF NewSender, NewByteStream
<1>2. c.sender = s /\ c.active2 = TRUE
  BY DEF NewConnection
<1> HIDE DEF s, c
<1>3. Ready(s, e) /\ Filled(s)
  BY <1>1 DEF Ready, Awaited, Filled, Eof
<1> QED
  BY <1>2, <1>3 DEF Stops, Runs, Active, c

\* A step of one end.
LEMMA BecomeStops ==
  ASSUME Modest, EInv, NEW e \in Ends, NEW c,
         Kept(conn[e], c, e, Read(Other(e)), Far(e)), Stops(c, e), NEW rest,
         Become(e, c, rest)
  PROVE  \A f \in Ends : Stops(conn'[f], f)
<1> DEFINE t == [c EXCEPT !.segmentsOut = <<>>]
<1>1. c \in Connections(e, Read(Other(e)))
  BY GoodFields DEF Kept, Grown
<1>2. t.sender = c.sender /\ t.receiver = c.receiver /\ t.active2 = c.active2
  BY <1>1 DEF Connections
<1>3. conn' = [conn EXCEPT ![e] = t]
  BY DEF Become
<1> HIDE DEF t
<1>4. Stops(t, e)
  BY <1>2 DEF Stops, Runs, Active, Inbound
<1>5. conn = [f \in Ends |-> conn[f]]
  BY DEF EInv, DInv, IInv
<1>6. \A f \in Ends : conn'[f] = IF f = e THEN t ELSE conn[f]
  BY <1>3, <1>5
<1> QED
  BY <1>4, <1>6 DEF EInv

\* A segment is delivered, in turn or not, for the first time or again.
LEMMA NetworkStops ==
  ASSUME Modest, EInv, NEW e \in Ends, Network(e)
  PROVE  \A f \in Ends : Stops(conn'[f], f)
<1> DEFINE S == Truths(Other(e), Read(Other(e)), Far(e))
<1>1. /\ Able(conn[e], e, Read(Other(e)), Far(e)) /\ Stops(conn[e], e)
      /\ Read(Other(e)) \in 0 .. StreamLen[Other(e)] /\ net[e] \in Seq(S)
  BY DInvFields DEF EInv
<1>2. ASSUME NEW seg \in S, NEW rest, Become(e, SegmentReceived(conn[e], seg), rest)
      PROVE  \A f \in Ends : Stops(conn'[f], f)
  <2>1. Truthful(seg, e, Read(Other(e)), Far(e))
    BY DEF Truths, Truthful
  <2>2. /\ Kept(conn[e], SegmentReceived(conn[e], seg), e, Read(Other(e)), Far(e))
        /\ Stops(SegmentReceived(conn[e], seg), e)
    BY <1>1, <2>1, SegmentKept, SegmentStops
  <2> QED
    BY <1>2, <2>2, BecomeStops
<1>3. CASE Deliver(e)
  <2>1. net[e] # <<>> /\ Become(e, SegmentReceived(conn[e], Head(net[e])), Tail(net[e]))
    BY <1>3 DEF Deliver
  <2>2. Head(net[e]) \in S
    BY <1>1, <2>1, HeadTailProperties
  <2> HIDE DEF S
  <2> QED
    BY <1>2, <2>1, <2>2
<1>4. CASE Overtake(e)
  <2>1. PICK i \in 2 .. Len(net[e]) :
          Become(e, SegmentReceived(conn[e], net[e][i]), Without(net[e], i))
    BY <1>4 DEF Overtake
  <2>2. net[e][i] \in S
    BY <1>1, <2>1, WithoutIsSeq
  <2> HIDE DEF S
  <2> QED
    BY <1>2, <2>1, <2>2
<1>5. CASE Repeat(e)
  <2>1. PICK i \in 1 .. Len(net[e]) :
          Become(e, SegmentReceived(conn[e], net[e][i]), net[e])
    BY <1>5 DEF Repeat
  <2>2. net[e][i] \in S
    BY <1>1, <2>1, WithoutIsSeq
  <2> HIDE DEF S
  <2> QED
    BY <1>2, <2>1, <2>2
<1>6. CASE Lose(e)
  BY <1>6 DEF Lose, EInv
<1> QED
  BY <1>3, <1>4, <1>5, <1>6 DEF Network

\* The application and the clock of one end.
LEMMA LocalStops ==
  ASSUME Modest, EInv, NEW e \in Ends, App(e) \/ Tick(e)
  PROVE  \A f \in Ends : Stops(conn'[f], f)
<1> DEFINE c == conn[e]
           o == Other(e)
<1>1. /\ Able(c, e, Read(o), Far(e)) /\ Stops(c, e) /\ Good(c, e, Read(o))
      /\ Read(o) \in 0 .. StreamLen[o] /\ StreamLen[e] \in Nat /\ o \in Ends
      /\ conn = [f \in Ends |-> conn[f]]
  BY DInvFields DEF EInv, DInv, IInv, Able
<1>2. CASE AppConnect(e)
  <2>1. Become(e, Connect(c), net[e])
    BY <1>2 DEF AppConnect
  <2>2. Kept(c, Connect(c), e, Read(o), Far(e)) /\ Stops(Connect(c), e)
    BY <1>1, FillKept, ConnectStops DEF Connect
  <2> QED
    BY <2>1, <2>2, BecomeStops
<1>3. CASE AppWrite(e)
  <2> DEFINE n == Left(e)
  <2>1. n > 0 /\ Become(e, ConnectionWrite(c, Unwritten(e)), net[e])
    BY <1>3 DEF AppWrite, CanWrite
  <2>2. Outbound(c).totWrite \in Nat
    BY <1>1, FlowFields DEF Good, Sending, Outbound
  <2>3. n \in Nat \ {0} /\ Outbound(c).totWrite + n <= StreamLen[e]
    BY <1>1, <2>1, <2>2 DEF Left
  <2>4. Unwritten(e) = Excerpt(Outbound(c).totWrite, n)
    BY DEF Unwritten, Excerpt
  <2> HIDE DEF n
  <2>5. /\ Kept(c, ConnectionWrite(c, Unwritten(e)), e, Read(o), Far(e))
        /\ Stops(ConnectionWrite(c, Unwritten(e)), e)
    BY <1>1, <2>3, <2>4, WriteKept, WriteStops
  <2> QED
    BY <2>1, <2>5, BecomeStops
<1>4. CASE AppEnd(e)
  <2>1. /\ Become(e, EndInputStream(c), net[e])
        /\ Left(e) = 0 /\ c.sender.acked > 0
    BY <1>4 DEF AppEnd, CanEnd, Established
  <2>2. Outbound(c).totWrite = StreamLen[e]
    <3>1. Outbound(c).totWrite \in Nat
      BY <1>1, FlowFields DEF Good, Sending, Outbound
    <3> QED
      BY <1>1, <2>1, <3>1 DEF Left
  <2>3. Kept(c, EndInputStream(c), e, Read(o), Far(e)) /\ Stops(EndInputStream(c), e)
    BY <1>1, <2>1, <2>2, EndKept, EndStops
  <2> QED
    BY <2>1, <2>3, BecomeStops
<1>5. CASE AppRead(e)
  <2> DEFINE t == ConnectionRead(c, BufferSize(Inbound(c)))
  <2>1. conn' = [conn EXCEPT ![e] = t]
    BY <1>5 DEF AppRead
  <2>2. Stops(t, e)
    BY <1>1, ReadStops
  <2> HIDE DEF t
  <2>3. \A f \in Ends : conn'[f] = IF f = e THEN t ELSE conn[f]
    BY <1>1, <2>1
  <2> QED
    BY <2>2, <2>3 DEF EInv
<1>6. CASE Tick(e)
  <2>1. Become(e, TickConnection(c, 1), net[e])
    BY <1>6 DEF Tick
  <2>2. /\ Kept(c, TickConnection(c, 1), e, Read(o), Far(e))
        /\ Stops(TickConnection(c, 1), e)
    BY <1>1, TickKept, TickStops
  <2> QED
    BY <2>1, <2>2, BecomeStops
<1> QED
  BY <1>2, <1>3, <1>4, <1>5, <1>6 DEF App

\* At the start.
LEMMA InitEInv == ASSUME Modest, Init PROVE EInv
<1>1. DInv
  BY InitDInv
<1>2. \A e \in Ends : Stops(conn[e], e)
  BY NewStops DEF Init
<1> QED
  BY <1>1, <1>2 DEF EInv

\* Every step of an end, of an application, of a clock and of the network.
LEMMA NextKeepsEInv == ASSUME Modest PROVE EInv /\ [Next]_vars => EInv'
<1> SUFFICES ASSUME EInv, [Next]_vars PROVE EInv'
  OBVIOUS
<1>1. DInv'
  BY NextKeepsDInv DEF EInv
<1>2. \A f \in Ends : Stops(conn'[f], f)
  <2>1. CASE Next
    BY <2>1, NetworkStops, LocalStops DEF Next
  <2>2. CASE UNCHANGED vars
    BY <2>2 DEF vars, EInv
  <2> QED
    BY <2>1, <2>2
<1> QED
  BY <1>1, <1>2 DEF EInv

\* The last position is acknowledged only when the other end has had the stream.
LEMMA EInvDelivered == ASSUME Modest, EInv PROVE DoneMeansDelivered
<1> SUFFICES ASSUME NEW e \in Ends,
                    \/ OutboundDone(conn[e]) /\ conn[e].finsent
                    \/ ~ Active(conn[e]) /\ ~ Inbound(conn[e]).error
             PROVE  InputEnded(Inbound(conn[Other(e)])) \/ Inbound(conn[Other(e)]).error
  BY DEF DoneMeansDelivered
<1> DEFINE s == conn[e].sender
<1>1. /\ s \in Senders(e) /\ Finishing(s, e) /\ (conn[e].finsent => s.finSent)
      /\ (s.acked = StreamLen[e] + 2 => Far(e)) /\ Stops(conn[e], e)
  BY DInvFields DEF EInv, Able, Meets, Good, Sending
<1>2. CASE OutboundDone(conn[e]) /\ conn[e].finsent
  BY <1>1, <1>2, FinAcknowledged DEF OutboundDone, Far, Ended
<1>3. CASE ~ Active(conn[e]) /\ ~ Inbound(conn[e]).error
  BY <1>1, <1>3 DEF Stops, Runs, Settled, Far, Ended
<1> QED
  BY <1>2, <1>3

\* An end whose sender has sent its FIN and has nothing in flight, and an end that stops
\* without an error (both ways of closing in segment_received, and the lingering in tick),
\* has delivered its whole stream, unless the other end has failed: fill_window,
\* ack_received, segment_received and tick of both ends, for any stream that is not empty.
THEOREM DoneMeansDeliveredHolds ==
  ASSUME Modest PROVE Spec => []DoneMeansDelivered
<1>1. Init => EInv
  BY InitEInv
<1>2. EInv /\ [Next]_vars => EInv'
  BY NextKeepsEInv
<1>3. EInv => DoneMeansDelivered
  BY EInvDelivered
<1> QED
  BY <1>1, <1>2, <1>3, PTL DEF Spec
=============================================================================
