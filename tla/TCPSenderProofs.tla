-------------------------- MODULE TCPSenderProofs --------------------------
(***************************************************************************)
(* The sender for every stream, capacity, payload size, window and initial *)
(* sequence number: what is outstanding is exactly what has been sent and  *)
(* not acknowledged, in pieces that lie side by side; the FIN comes last;  *)
(* nothing goes beyond the window; the timers run out in the order of the  *)
(* segments, and what is sent again is the first segment that is missing.  *)
(***************************************************************************)
EXTENDS TCPSenderSpec, SharedLemmas, SequenceTheorems, TLAPS

\* Every position that something sent can begin or end at: the SYN at 0, the bytes,
\* the FIN at FinPosition, and the position past it.
Positions == 0 .. FinPosition + 1

\* Where a segment begins and ends, whatever has been acknowledged.
At(seg) == CHOOSE p \in Positions : seg.seqno = Wrap(p, Isn)
End(seg) == At(seg) + LengthInSequenceSpace(seg)

Segments == TCPSegments(Byte)
Timers == [seg : Segments, left : Int]

Senders ==
  [isn : {Isn}, stream : ByteStreams(Byte), nextSeqno : Positions,
   window : Nat \cup {NoWindow}, acked : Positions, outstanding : SUBSET Timers,
   rto : 1 .. UIntRange - 1, crtx : Nat, finSent : BOOLEAN, zeroWindow : BOOLEAN,
   segmentsOut : Seq(Segments)]

\* The outbound stream holds the bytes from totRead on.
StreamSound(b) ==
  /\ b.rem + Len(b.buf) = b.cap
  /\ b.totRead + Len(b.buf) = b.totWrite /\ b.totWrite <= StreamLen
  /\ \A k \in DOMAIN b.buf : b.buf[k] = b.totRead + k - 1
  /\ b.eof2 => b.totWrite = StreamLen

\* A segment has something in it, and that is what belongs at its position.
SegmentSound(seg) ==
  /\ At(seg) \in Positions /\ seg.seqno = Wrap(At(seg), Isn)
  /\ At(seg) < End(seg)
  /\ seg.syn <=> At(seg) = 0
  /\ \A k \in DOMAIN seg.payload : seg.payload[k] = At(seg) + k - 2
  /\ seg.fin <=> End(seg) = FinPosition + 1

\* The counters agree with each other and with the stream.
CountersSound(s) ==
  /\ s.acked <= s.nextSeqno
  /\ s.nextSeqno = 0 <=> s.window = NoWindow
  /\ s.window # 0
  /\ s.finSent <=> s.nextSeqno = FinPosition + 1
  /\ s.nextSeqno = 0 => s.stream.totRead = 0
  /\ s.nextSeqno > 0 => s.stream.totRead + 1 + One(s.finSent) = s.nextSeqno

\* What is outstanding: sound segments, each with something that is not
\* acknowledged, side by side from the acknowledged position to the next.
SegmentsSound(s) ==
  /\ \A o \in s.outstanding :
       SegmentSound(o.seg) /\ s.acked < End(o.seg) /\ End(o.seg) <= s.nextSeqno
  /\ \A o, p \in s.outstanding :
       o # p => End(o.seg) <= At(p.seg) \/ End(p.seg) <= At(o.seg)
  /\ \A i \in s.acked .. s.nextSeqno - 1 :
       \E o \in s.outstanding : i \in At(o.seg) .. End(o.seg) - 1

TimersSound(s) ==
  /\ \A o \in s.outstanding : o.left \in 1 .. s.rto
  /\ \A o, p \in s.outstanding : At(o.seg) < At(p.seg) => o.left <= p.left

SenderSound(s) ==
  /\ StreamSound(s.stream)
  /\ CountersSound(s)
  /\ SegmentsSound(s)
  /\ TimersSound(s)

\* The inductive invariant.
IInv == snd \in Senders /\ SenderSound(snd)
-----------------------------------------------------------------------------
\* A position of the stream survives wrap and unwrap, whatever is acknowledged.
LEMMA Unwraps ==
  ASSUME NEW x \in 0 .. FinPosition + 2, NEW cp \in Positions
  PROVE  Unwrap(Wrap(x, Isn), Isn, cp) = x
<1>1. x \in Nat /\ cp \in Nat /\ x <= StreamLen + 3 /\ cp <= StreamLen + 2
  BY SenderSpecAssumption DEF Positions, FinPosition
<1>2. cp + 2 * Round <= Word
  BY <1>1, SenderSpecAssumption, WidthAssumption
<1>3. 2 * Distance(x, cp) < Round
  BY <1>1, SenderSpecAssumption, WidthAssumption DEF Distance
<1> QED
  BY <1>1, <1>2, <1>3, SenderSpecAssumption, UnwrapInvertsWrap

\* A segment is at the position that its number was made from.
LEMMA WhereIs ==
  ASSUME NEW x \in Positions, NEW seg, seg.seqno = Wrap(x, Isn)
  PROVE  At(seg) = x
<1>1. \A p \in Positions : Wrap(p, Isn) = Wrap(x, Isn) => p = x
  <2> SUFFICES ASSUME NEW p \in Positions, Wrap(p, Isn) = Wrap(x, Isn) PROVE p = x
    OBVIOUS
  <2>1. {0, p, x} \subseteq 0 .. FinPosition + 2 /\ 0 \in Positions
    BY SenderSpecAssumption DEF Positions, FinPosition
  <2> QED
    BY <2>1, Unwraps
<1> QED
  BY <1>1 DEF At

\* What the code computes from the number of a segment is where it is.
LEMMA PositionIsAt ==
  ASSUME NEW seg, At(seg) \in Positions, seg.seqno = Wrap(At(seg), Isn),
         NEW cp \in Positions
  PROVE  Unwrap(seg.seqno, Isn, cp) = At(seg)
<1>1. At(seg) \in 0 .. FinPosition + 2
  BY SenderSpecAssumption DEF Positions, FinPosition
<1> QED
  BY <1>1, Unwraps
-----------------------------------------------------------------------------
(***************************************************************************)
(* What the operations on the outbound stream do to it.                    *)
(***************************************************************************)
\* A sound stream holds at most its capacity; BufferSize counts what it holds.
LEMMA StreamFields ==
  ASSUME NEW b \in ByteStreams(Byte), StreamSound(b)
  PROVE  /\ b.buf \in Seq(Byte) /\ Len(b.buf) \in Nat /\ b.rem \in Nat /\ b.cap \in Nat
         /\ b.totRead \in Nat /\ b.totWrite \in Nat /\ b.eof2 \in BOOLEAN
         /\ BufferSize(b) = Len(b.buf)
         /\ BufferEmpty(b) <=> Len(b.buf) = 0
         /\ Eof(b) <=> Len(b.buf) = 0 /\ b.eof2
<1>1. /\ b.buf \in Seq(Byte) /\ b.rem \in Nat /\ b.cap \in Nat
      /\ b.totRead \in Nat /\ b.totWrite \in Nat /\ b.eof2 \in BOOLEAN
  BY DEF ByteStreams
<1>2. Len(b.buf) \in Nat
  BY <1>1
<1> QED
  BY <1>1, <1>2 DEF StreamSound, BufferSize, BufferEmpty, Eof

\* Reading takes the first bytes, which are those after the ones already read.
LEMMA PopSound ==
  ASSUME NEW b \in ByteStreams(Byte), StreamSound(b), NEW len \in 0 .. Len(b.buf)
  PROVE  /\ PopOutput(b, len) \in ByteStreams(Byte)
         /\ StreamSound(PopOutput(b, len))
         /\ PopOutput(b, len).totRead = b.totRead + len
         /\ Len(PopOutput(b, len).buf) = Len(b.buf) - len
         /\ PeekOutput(b, len) \in Seq(Byte)
         /\ Len(PeekOutput(b, len)) = len
         /\ \A k \in 1 .. len : PeekOutput(b, len)[k] = b.totRead + k - 1
<1>1. /\ b.buf \in Seq(Byte) /\ Len(b.buf) \in Nat /\ b.rem \in Nat /\ b.cap \in Nat
      /\ b.totRead \in Nat /\ b.totWrite \in Nat /\ b.eof2 \in BOOLEAN
  BY StreamFields
<1> DEFINE left == SubSeq(b.buf, len + 1, Len(b.buf))
           peek == SubSeq(b.buf, 1, len)
<1>2. Smaller(len, Len(b.buf)) = len
  BY <1>1 DEF Smaller
<1>3. PopOutput(b, len) =
        [b EXCEPT !.buf = left, !.rem = b.rem + len, !.totRead = b.totRead + len]
  BY <1>2 DEF PopOutput
<1>4. PeekOutput(b, len) = peek
  BY <1>2 DEF PeekOutput
<1>5. /\ left \in Seq(Byte) /\ Len(left) = Len(b.buf) - len
      /\ \A k \in 1 .. Len(left) : left[k] = b.buf[len + k]
  <2>1. \A i \in len + 1 .. Len(b.buf) : b.buf[i] \in Byte
    BY <1>1
  <2>2. /\ left \in Seq(Byte)
        /\ Len(left) = IF len + 1 <= Len(b.buf) THEN Len(b.buf) - (len + 1) + 1 ELSE 0
        /\ \A k \in 1 .. Len(b.buf) - (len + 1) + 1 : left[k] = b.buf[len + 1 + k - 1]
    BY <1>1, <2>1, SubSeqProperties
  <2> HIDE DEF left
  <2> QED
    BY <1>1, <2>2
<1>6. /\ peek \in Seq(Byte) /\ Len(peek) = len
      /\ \A k \in 1 .. len : peek[k] = b.buf[k]
  <2>1. \A i \in 1 .. len : b.buf[i] \in Byte
    BY <1>1
  <2>2. /\ peek \in Seq(Byte)
        /\ Len(peek) = IF 1 <= len THEN len - 1 + 1 ELSE 0
        /\ \A k \in 1 .. len - 1 + 1 : peek[k] = b.buf[1 + k - 1]
    BY <1>1, <2>1, SubSeqProperties
  <2> HIDE DEF peek
  <2> QED
    BY <1>1, <2>2
<1> HIDE DEF left, peek
<1>7. /\ PopOutput(b, len) \in ByteStreams(Byte)
      /\ PopOutput(b, len).buf = left /\ PopOutput(b, len).cap = b.cap
      /\ PopOutput(b, len).rem = b.rem + len /\ PopOutput(b, len).totRead = b.totRead + len
      /\ PopOutput(b, len).totWrite = b.totWrite /\ PopOutput(b, len).eof2 = b.eof2
  <2> DEFINE t == [b EXCEPT !.buf = left, !.rem = b.rem + len, !.totRead = b.totRead + len]
  <2>1. b.rem + len \in Nat /\ b.totRead + len \in Nat
    BY <1>1
  <2>2. /\ t \in ByteStreams(Byte)
        /\ t.buf = left /\ t.cap = b.cap
        /\ t.rem = b.rem + len /\ t.totRead = b.totRead + len
        /\ t.totWrite = b.totWrite /\ t.eof2 = b.eof2
    BY <1>5, <2>1 DEF ByteStreams
  <2> QED
    BY <1>3, <2>2
<1>8. StreamSound(PopOutput(b, len))
  <2>1. DOMAIN left = 1 .. Len(left) /\ DOMAIN b.buf = 1 .. Len(b.buf)
    BY <1>1, <1>5
  <2>2. \A k \in DOMAIN left : left[k] = b.totRead + len + k - 1
    <3> SUFFICES ASSUME NEW k \in DOMAIN left PROVE left[k] = b.totRead + len + k - 1
      OBVIOUS
    <3>1. len + k \in DOMAIN b.buf /\ left[k] = b.buf[len + k]
      BY <1>1, <1>5, <2>1
    <3> QED
      BY <1>1, <2>1, <3>1 DEF StreamSound
  <2> QED
    BY <1>1, <1>5, <1>7, <2>1, <2>2 DEF StreamSound
<1>9. \A k \in 1 .. len : peek[k] = b.totRead + k - 1
  <2>1. 1 .. len \subseteq DOMAIN b.buf
    BY <1>1
  <2> QED
    BY <1>6, <2>1 DEF StreamSound
<1> QED
  BY <1>4, <1>5, <1>6, <1>7, <1>8, <1>9
-----------------------------------------------------------------------------
(***************************************************************************)
(* What is outstanding after each kind of change.                          *)
(***************************************************************************)
\* The fields of a sender have their types.
LEMMA SenderFields ==
  ASSUME NEW s \in Senders
  PROVE  /\ s.isn = Isn /\ s.stream \in ByteStreams(Byte)
         /\ s.nextSeqno \in Nat /\ s.nextSeqno \in Positions
         /\ s.acked \in Nat /\ s.acked \in Positions
         /\ s.window \in Int /\ s.rto \in Nat \ {0} /\ s.rto < UIntRange
         /\ s.crtx \in Nat /\ s.finSent \in BOOLEAN /\ s.zeroWindow \in BOOLEAN
         /\ s.outstanding \subseteq Timers /\ s.segmentsOut \in Seq(Segments)
<1>1. Positions \subseteq Nat /\ 1 .. UIntRange - 1 \subseteq Nat \ {0}
  BY SenderAssumption, SenderSpecAssumption DEF Positions, FinPosition
<1>2. Nat \cup {NoWindow} \subseteq Int
  BY DEF NoWindow
<1>3. /\ s.isn = Isn /\ s.stream \in ByteStreams(Byte)
      /\ s.nextSeqno \in Positions /\ s.acked \in Positions
      /\ s.window \in Nat \cup {NoWindow} /\ s.rto \in 1 .. UIntRange - 1
      /\ s.crtx \in Nat /\ s.finSent \in BOOLEAN /\ s.zeroWindow \in BOOLEAN
      /\ s.outstanding \subseteq Timers /\ s.segmentsOut \in Seq(Segments)
  BY DEF Senders
<1>4. s.rto < UIntRange
  BY <1>3, SenderAssumption
<1> QED
  BY <1>1, <1>2, <1>3, <1>4

\* The lengths of a segment are numbers.
LEMMA SegmentFields ==
  ASSUME NEW seg \in Segments
  PROVE  /\ seg.payload \in Seq(Byte) /\ Len(seg.payload) \in Nat
         /\ seg.syn \in BOOLEAN /\ seg.fin \in BOOLEAN
         /\ LengthInSequenceSpace(seg) \in Nat
         /\ At(seg) \in Positions => At(seg) \in Nat /\ End(seg) \in Nat
<1>1. /\ seg.payload \in Seq(Byte) /\ seg.syn \in BOOLEAN /\ seg.fin \in BOOLEAN
  BY DEF Segments, TCPSegments
<1>2. Len(seg.payload) \in Nat
  BY <1>1
<1>3. LengthInSequenceSpace(seg) \in Nat
  <2>1. One(seg.syn) \in Nat /\ One(seg.fin) \in Nat
    BY DEF One
  <2> QED
    BY <1>2, <2>1 DEF LengthInSequenceSpace
<1>4. ASSUME At(seg) \in Positions PROVE At(seg) \in Nat /\ End(seg) \in Nat
  <2>1. At(seg) \in Nat
    BY <1>4, SenderSpecAssumption DEF Positions, FinPosition
  <2> QED
    BY <1>3, <2>1 DEF End
<1> QED
  BY <1>1, <1>2, <1>3, <1>4, Zenon

\* A sound segment begins and ends at numbers.
LEMMA SoundEnds ==
  ASSUME NEW s \in Senders, SegmentsSound(s), NEW o \in s.outstanding
  PROVE  /\ o.seg \in Segments /\ o.left \in Int /\ SegmentSound(o.seg)
         /\ At(o.seg) \in Nat /\ At(o.seg) \in Positions /\ End(o.seg) \in Nat
         /\ At(o.seg) < End(o.seg)
         /\ s.acked < End(o.seg) /\ End(o.seg) <= s.nextSeqno
<1>1. o.seg \in Segments /\ o.left \in Int
  BY SenderFields DEF Timers
<1>2. SegmentSound(o.seg) /\ s.acked < End(o.seg) /\ End(o.seg) <= s.nextSeqno
  BY DEF SegmentsSound
<1> QED
  BY <1>1, <1>2, SegmentFields DEF SegmentSound

\* The segments of t are those of s when their counters and timers are.
LEMMA SameSegments ==
  ASSUME NEW s, NEW t, SegmentsSound(s), TimersSound(s),
         t.outstanding = s.outstanding, t.acked = s.acked,
         t.nextSeqno = s.nextSeqno, t.rto = s.rto
  PROVE  SegmentsSound(t) /\ TimersSound(t)
  BY DEF SegmentsSound, TimersSound

\* A sound segment at the next position, with a full timer, joins the others.
LEMMA OneMore ==
  ASSUME NEW s \in Senders, SegmentsSound(s), TimersSound(s), s.acked <= s.nextSeqno,
         NEW seg \in Segments, SegmentSound(seg), At(seg) = s.nextSeqno,
         NEW t, t.outstanding = s.outstanding \cup {[seg |-> seg, left |-> s.rto]},
         t.acked = s.acked, t.nextSeqno = End(seg), t.rto = s.rto
  PROVE  SegmentsSound(t) /\ TimersSound(t)
<1> DEFINE new == [seg |-> seg, left |-> s.rto]
<1>1. new.seg = seg /\ new.left = s.rto
  OBVIOUS
<1> HIDE DEF new
<1>2. /\ s.acked \in Nat /\ s.nextSeqno \in Nat /\ s.rto \in Nat \ {0}
      /\ At(seg) \in Nat /\ End(seg) \in Nat /\ At(seg) < End(seg)
  BY SenderFields, SegmentFields DEF SegmentSound
<1>3. \A o \in s.outstanding :
        /\ SegmentSound(o.seg) /\ At(o.seg) \in Nat /\ End(o.seg) \in Nat
        /\ At(o.seg) < End(o.seg) /\ s.acked < End(o.seg) /\ End(o.seg) <= s.nextSeqno
        /\ o.left \in 1 .. s.rto
  BY SoundEnds DEF TimersSound
<1>4. \A o \in t.outstanding : o \in s.outstanding \/ o = new
  BY DEF new
<1>5. s.outstanding \subseteq t.outstanding /\ new \in t.outstanding
  BY DEF new
<1>6. SegmentsSound(t)
  <2>1. \A o \in t.outstanding :
          SegmentSound(o.seg) /\ t.acked < End(o.seg) /\ End(o.seg) <= t.nextSeqno
    <3> SUFFICES ASSUME NEW o \in t.outstanding
                 PROVE  SegmentSound(o.seg) /\ t.acked < End(o.seg) /\ End(o.seg) <= t.nextSeqno
      OBVIOUS
    <3>1. CASE o \in s.outstanding
      BY <1>2, <1>3, <3>1
    <3>2. CASE o = new
      BY <1>1, <1>2, <3>2
    <3> QED
      BY <1>4, <3>1, <3>2
  <2>2. ASSUME NEW o \in t.outstanding, NEW p \in t.outstanding, o # p
        PROVE  End(o.seg) <= At(p.seg) \/ End(p.seg) <= At(o.seg)
    <3>1. CASE o \in s.outstanding /\ p \in s.outstanding
      BY <2>2, <3>1 DEF SegmentsSound
    <3>2. CASE o = new /\ p \in s.outstanding
      BY <1>1, <1>3, <3>2
    <3>3. CASE o \in s.outstanding /\ p = new
      BY <1>1, <1>3, <3>3
    <3> QED
      BY <1>4, <2>2, <3>1, <3>2, <3>3
  <2>3. ASSUME NEW i \in t.acked .. t.nextSeqno - 1
        PROVE  \E o \in t.outstanding : i \in At(o.seg) .. End(o.seg) - 1
    <3>1. CASE i < s.nextSeqno
      <4>1. i \in s.acked .. s.nextSeqno - 1
        BY <1>2, <2>3, <3>1
      <4>2. PICK o \in s.outstanding : i \in At(o.seg) .. End(o.seg) - 1
        BY <4>1 DEF SegmentsSound
      <4> QED
        BY <1>5, <4>2
    <3>2. CASE i >= s.nextSeqno
      <4>1. i \in At(new.seg) .. End(new.seg) - 1
        BY <1>1, <1>2, <2>3, <3>2
      <4> QED
        BY <1>5, <4>1
    <3> QED
      BY <1>2, <2>3, <3>1, <3>2
  <2> QED
    BY <2>1, <2>2, <2>3 DEF SegmentsSound
<1>7. TimersSound(t)
  <2>1. \A o \in t.outstanding : o.left \in 1 .. t.rto
    BY <1>1, <1>2, <1>3, <1>4
  <2>2. ASSUME NEW o \in t.outstanding, NEW p \in t.outstanding, At(o.seg) < At(p.seg)
        PROVE  o.left <= p.left
    <3>1. CASE o \in s.outstanding /\ p \in s.outstanding
      BY <2>2, <3>1 DEF TimersSound
    <3>2. CASE o = new /\ p \in s.outstanding
      BY <1>1, <1>3, <1>2, <2>2, <3>2
    <3>3. CASE p = new
      BY <1>1, <1>2, <2>1, <3>3
    <3> QED
      BY <1>4, <3>1, <3>2, <3>3
  <2> QED
    BY <2>1, <2>2 DEF TimersSound
<1> QED
  BY <1>6, <1>7
-----------------------------------------------------------------------------
(***************************************************************************)
(* fill_window.                                                            *)
(***************************************************************************)
\* What Transmit does to the fields of a sender.
LEMMA TransmitFields ==
  ASSUME NEW s \in Senders, NEW seg \in Segments
  PROVE  LET t == Transmit(s, seg)
         IN  /\ t \in Senders
             /\ t.segmentsOut = Append(s.segmentsOut, seg)
             /\ t.outstanding = s.outstanding \cup {[seg |-> seg, left |-> s.rto]}
             /\ t.stream = s.stream /\ t.nextSeqno = s.nextSeqno /\ t.window = s.window
             /\ t.acked = s.acked /\ t.rto = s.rto /\ t.crtx = s.crtx
             /\ t.finSent = s.finSent
<1> DEFINE queue == Append(s.segmentsOut, seg)
           more == s.outstanding \cup {[seg |-> seg, left |-> s.rto]}
<1>1. queue \in Seq(Segments)
  BY SenderFields
<1>2. more \in SUBSET Timers
  <2>1. s.outstanding \subseteq Timers /\ s.rto \in Int
    BY SenderFields
  <2> QED
    BY <2>1 DEF Timers
<1>3. Transmit(s, seg) = [s EXCEPT !.segmentsOut = queue, !.outstanding = more]
  BY DEF Transmit
<1> HIDE DEF queue, more
<1>4. LET t == Transmit(s, seg)
      IN  /\ t \in Senders
          /\ t.segmentsOut = queue /\ t.outstanding = more
          /\ t.stream = s.stream /\ t.nextSeqno = s.nextSeqno /\ t.window = s.window
          /\ t.acked = s.acked /\ t.rto = s.rto /\ t.crtx = s.crtx
          /\ t.finSent = s.finSent
  BY <1>1, <1>2, <1>3 DEF Senders
<1> QED
  BY <1>4 DEF queue, more

\* The segment that the others are made from.
LEMMA NothingIsSegment ==
  /\ EmptySegment \in Segments
  /\ EmptySegment.payload = <<>> /\ ~ EmptySegment.syn /\ ~ EmptySegment.fin
<1>1. 0 \in RawValues /\ <<>> \in Seq(Byte)
  BY WidthAssumption DEF RawValues
<1> QED
  BY <1>1 DEF EmptySegment, Segments, TCPSegments

\* The SYN is at position 0.
LEMMA WrapOfZero == Wrap(0, Isn) = Isn
<1>1. 0 % Round = 0 /\ Isn % Round = Isn
  BY WidthAssumption, SenderSpecAssumption DEF RawValues
<1> QED
  BY <1>1, SenderSpecAssumption DEF Wrap, RawValues

\* The first call of fill_window.
LEMMA SynSound ==
  ASSUME NEW s \in Senders, SenderSound(s), s.window = NoWindow
  PROVE  SendSyn(s) \in Senders /\ SenderSound(SendSyn(s))
<1> DEFINE fin == Eof(s.stream)
           seg == [EmptySegment EXCEPT !.seqno = s.isn, !.syn = TRUE, !.fin = fin]
           t == SendSyn(s)
<1>1. /\ s.stream \in ByteStreams(Byte) /\ StreamSound(s.stream)
      /\ s.nextSeqno = 0 /\ s.acked = 0 /\ s.stream.totRead = 0
      /\ SegmentsSound(s) /\ TimersSound(s)
  BY SenderFields DEF SenderSound, CountersSound
<1>2. fin \in BOOLEAN /\ (fin => StreamLen = 0)
  <2>1. fin <=> Len(s.stream.buf) = 0 /\ s.stream.eof2
    BY <1>1, StreamFields
  <2> QED
    BY <1>1, <2>1, StreamFields DEF StreamSound, Eof
<1> HIDE DEF fin
<1>3. /\ seg \in Segments /\ seg.seqno = Isn /\ seg.syn = TRUE /\ seg.fin = fin
      /\ seg.payload = <<>>
  <2>1. s.isn = Isn /\ Isn \in RawValues
    BY SenderFields, SenderSpecAssumption
  <2> QED
    BY <1>2, <2>1, NothingIsSegment DEF Segments, TCPSegments
<1>4. LengthInSequenceSpace(seg) = 1 + One(fin)
  <2>1. Len(seg.payload) = 0 /\ One(seg.syn) = 1 /\ One(seg.fin) = One(fin)
    BY <1>3 DEF One
  <2>2. One(fin) \in Nat
    BY DEF One
  <2> HIDE DEF seg
  <2> QED
    BY <2>1, <2>2 DEF LengthInSequenceSpace
<1>5. /\ t = [Transmit(s, seg) EXCEPT !.window = 1, !.nextSeqno = 1 + One(fin), !.finSent = fin]
  BY DEF SendSyn, fin
<1> HIDE DEF seg
<1>6. 1 + One(fin) \in Positions /\ 0 \in Positions
  BY <1>2, SenderSpecAssumption DEF One, Positions, FinPosition
<1>7. /\ t \in Senders
      /\ t.outstanding = s.outstanding \cup {[seg |-> seg, left |-> s.rto]}
      /\ t.stream = s.stream /\ t.nextSeqno = 1 + One(fin) /\ t.window = 1
      /\ t.acked = s.acked /\ t.rto = s.rto /\ t.finSent = fin
  <2> DEFINE u == Transmit(s, seg)
  <2>1. /\ u \in Senders
        /\ u.outstanding = s.outstanding \cup {[seg |-> seg, left |-> s.rto]}
        /\ u.stream = s.stream /\ u.acked = s.acked /\ u.rto = s.rto
    BY <1>3, TransmitFields
  <2> HIDE DEF u
  <2>2. t = [u EXCEPT !.window = 1, !.nextSeqno = 1 + One(fin), !.finSent = fin]
    BY <1>5 DEF u
  <2> HIDE DEF t
  <2>3. /\ t \in Senders /\ t.outstanding = u.outstanding
        /\ t.stream = u.stream /\ t.nextSeqno = 1 + One(fin) /\ t.window = 1
        /\ t.acked = u.acked /\ t.rto = u.rto /\ t.finSent = fin
    BY <1>2, <1>6, <2>1, <2>2 DEF Senders
  <2> QED
    BY <2>1, <2>3
<1> HIDE DEF t
<1>8. At(seg) = 0 /\ End(seg) = 1 + One(fin)
  <2>1. At(seg) = 0
    BY <1>3, <1>6, WrapOfZero, WhereIs
  <2> QED
    BY <1>2, <1>4, <2>1 DEF End, One
<1>9. SegmentSound(seg)
  BY <1>2, <1>3, <1>6, <1>8, WrapOfZero, SenderSpecAssumption
     DEF SegmentSound, One, FinPosition
<1>10. CountersSound(t)
  BY <1>1, <1>2, <1>7, SenderSpecAssumption DEF CountersSound, One, FinPosition, NoWindow
<1>11. SegmentsSound(t) /\ TimersSound(t)
  BY <1>1, <1>3, <1>7, <1>8, <1>9, OneMore
<1> QED
  BY <1>1, <1>7, <1>10, <1>11 DEF SenderSound, t

\* What the loop of fill_window makes of s is sound, and what it has sent lies in the
\* window.
Turned(s, t) ==
  /\ t \in Senders /\ SenderSound(t)
  /\ t.window = s.window /\ t.acked = s.acked /\ t.crtx <= s.crtx
  /\ t.nextSeqno = s.nextSeqno \/ t.nextSeqno <= s.acked + s.window

\* One turn of the loop.
LEMMA TurnSound ==
  ASSUME NEW s \in Senders, SenderSound(s), s.window # NoWindow
  PROVE  Turned(s, FillOne(s))
<1> DEFINE len == Smaller(MaxPayload, Smaller(BufferSize(s.stream), Room(s)))
           stream == PopOutput(s.stream, len)
           fin == FinGoes(s, stream, len)
           seg == [EmptySegment EXCEPT !.seqno = NextSeqno(s), !.fin = fin,
                     !.payload = PeekOutput(s.stream, len)]
           next == s.nextSeqno + len + One(fin)
           t == [Transmit(s, seg) EXCEPT !.stream = stream, !.finSent = fin,
                   !.crtx = 0, !.nextSeqno = @ + len + One(fin)]
<1>1. FillOne(s) = IF s.finSent \/ Room(s) <= 0 \/ (len = 0 /\ ~ fin) THEN s ELSE t
  BY DEF FillOne
<1>2. s.crtx \in Nat
  BY SenderFields
<1>3. CASE s.finSent \/ Room(s) <= 0 \/ (len = 0 /\ ~ fin)
  <2>1. FillOne(s) = s
    BY <1>1, <1>3
  <2> QED
    BY <1>2, <2>1 DEF Turned
<1>4. CASE ~ (s.finSent \/ Room(s) <= 0 \/ (len = 0 /\ ~ fin))
  <2>1. FillOne(s) = t
    BY <1>1, <1>4
  <2>2. /\ s.stream \in ByteStreams(Byte) /\ StreamSound(s.stream)
        /\ s.isn = Isn /\ s.nextSeqno \in Positions /\ s.nextSeqno \in Nat \ {0}
        /\ s.acked \in Nat /\ s.window \in Int /\ s.acked <= s.nextSeqno
        /\ s.stream.totRead \in Nat /\ s.stream.totRead + 1 = s.nextSeqno
        /\ Len(s.stream.buf) \in Nat
        /\ SegmentsSound(s) /\ TimersSound(s)
    BY <1>4, SenderFields, StreamFields DEF SenderSound, CountersSound, One
  <2>3. Room(s) \in Int /\ Room(s) > 0 /\ Room(s) = s.acked + s.window - s.nextSeqno
    BY <1>4, <2>2 DEF Room
  <2>4. len \in 0 .. Len(s.stream.buf) /\ len <= Room(s)
    BY <2>2, <2>3, StreamFields, SenderAssumption DEF Smaller
  <2> HIDE DEF len
  <2>5. /\ stream \in ByteStreams(Byte) /\ StreamSound(stream)
        /\ stream.totRead = s.stream.totRead + len
        /\ PeekOutput(s.stream, len) \in Seq(Byte)
        /\ Len(PeekOutput(s.stream, len)) = len
        /\ \A k \in 1 .. len : PeekOutput(s.stream, len)[k] = s.stream.totRead + k - 1
    BY <2>2, <2>4, PopSound
  <2> HIDE DEF stream
  <2>6. fin \in BOOLEAN /\ (fin <=> Eof(stream) /\ Room(s) > len)
    BY DEF FinGoes, Eof, BufferEmpty
  <2> HIDE DEF fin
  <2>7. /\ next \in Nat /\ next \in Positions /\ next > s.nextSeqno
        /\ next <= s.acked + s.window
        /\ fin <=> next = FinPosition + 1
        /\ stream.totRead + 1 + One(fin) = next
    <3> DEFINE one == One(fin)
               pos == s.nextSeqno
    <3>1. one \in {0, 1} /\ (fin <=> one = 1)
      BY DEF One
    <3>2. next = pos + len + one /\ pos \in Nat /\ len \in Nat
      BY <2>2, <2>4
    <3>3. /\ stream.totRead \in Nat /\ Len(stream.buf) \in Nat
          /\ stream.totRead + Len(stream.buf) <= StreamLen
          /\ Eof(stream) => stream.totRead = StreamLen
      BY <2>5, StreamFields DEF StreamSound
    <3>4. stream.totRead + 1 = pos + len
      <4>1. stream.totRead = s.stream.totRead + len
        BY <2>5
      <4>2. s.stream.totRead + 1 = pos /\ s.stream.totRead \in Nat /\ len \in Nat
        BY <2>2, <2>4
      <4> HIDE DEF pos
      <4> QED
        BY <4>1, <4>2
    <3> HIDE DEF one, pos, next
    <3>5. next \in Nat /\ stream.totRead + 1 + one = next
      BY <3>1, <3>2, <3>3, <3>4
    <3>6. pos + len <= StreamLen + 1 /\ (fin => pos + len = StreamLen + 1)
      BY <2>6, <3>2, <3>3, <3>4, SenderSpecAssumption
    <3>7. next <= StreamLen + 2 /\ (fin <=> next = StreamLen + 2)
      BY <3>1, <3>2, <3>6, SenderSpecAssumption
    <3>8. next > pos
      BY <1>4, <3>1, <3>2
    <3>9. len + one <= Room(s)
      BY <2>3, <2>4, <2>6, <3>1, <3>2
    <3>10. next <= s.acked + s.window
      BY <2>2, <2>3, <3>1, <3>2, <3>9 DEF pos
    <3>11. next \in Positions /\ FinPosition + 1 = StreamLen + 2
      BY <3>5, <3>7, SenderSpecAssumption DEF Positions, FinPosition
    <3> QED
      BY <3>5, <3>7, <3>8, <3>10, <3>11 DEF one, pos
  <2> HIDE DEF next
  <2>8. /\ seg \in Segments /\ seg.seqno = Wrap(s.nextSeqno, Isn)
        /\ seg.payload = PeekOutput(s.stream, len) /\ seg.fin = fin /\ seg.syn = FALSE
    <3>1. NextSeqno(s) \in RawValues /\ NextSeqno(s) = Wrap(s.nextSeqno, Isn)
      BY <2>2, SenderSpecAssumption, WrapRounds DEF NextSeqno
    <3> QED
      BY <2>5, <2>6, <3>1, NothingIsSegment DEF Segments, TCPSegments
  <2>9. /\ t = [Transmit(s, seg) EXCEPT !.stream = stream, !.finSent = fin,
                  !.crtx = 0, !.nextSeqno = next]
    <3>1. Transmit(s, seg).nextSeqno = s.nextSeqno
      BY <2>8, TransmitFields
    <3> HIDE DEF seg
    <3> QED
      BY <3>1 DEF next
  <2> HIDE DEF seg, t
  <2>10. /\ t \in Senders
         /\ t.outstanding = s.outstanding \cup {[seg |-> seg, left |-> s.rto]}
         /\ t.stream = stream /\ t.nextSeqno = next /\ t.window = s.window
         /\ t.acked = s.acked /\ t.rto = s.rto /\ t.crtx = 0 /\ t.finSent = fin
    <3> DEFINE u == Transmit(s, seg)
    <3>1. /\ u \in Senders
          /\ u.outstanding = s.outstanding \cup {[seg |-> seg, left |-> s.rto]}
          /\ u.acked = s.acked /\ u.rto = s.rto /\ u.window = s.window
      BY <2>8, TransmitFields
    <3>2. t = [u EXCEPT !.stream = stream, !.finSent = fin, !.crtx = 0, !.nextSeqno = next]
      BY <2>9
    <3> HIDE DEF u
    <3>3. /\ t \in Senders /\ t.outstanding = u.outstanding
          /\ t.stream = stream /\ t.nextSeqno = next /\ t.window = u.window
          /\ t.acked = u.acked /\ t.rto = u.rto /\ t.crtx = 0 /\ t.finSent = fin
      BY <2>5, <2>6, <2>7, <3>1, <3>2 DEF Senders
    <3> QED
      BY <3>1, <3>3
  <2>11. At(seg) = s.nextSeqno /\ End(seg) = next
    <3>1. At(seg) = s.nextSeqno
      BY <2>2, <2>8, WhereIs
    <3>2. LengthInSequenceSpace(seg) = len + One(fin)
      <4>1. Len(seg.payload) = len /\ One(seg.syn) = 0 /\ One(seg.fin) = One(fin)
        BY <2>5, <2>8 DEF One
      <4>2. One(fin) \in Nat
        BY DEF One
      <4> QED
        BY <2>4, <4>1, <4>2 DEF LengthInSequenceSpace
    <3>3. One(fin) \in Nat
      BY DEF One
    <3> QED
      BY <2>2, <2>4, <3>1, <3>2, <3>3 DEF End, next
  <2>12. SegmentSound(seg)
    <3>1. DOMAIN seg.payload = 1 .. len
      BY <2>4, <2>5, <2>8
    <3>2. \A k \in 1 .. len : seg.payload[k] = At(seg) + k - 2
      <4> SUFFICES ASSUME NEW k \in 1 .. len PROVE seg.payload[k] = At(seg) + k - 2
        OBVIOUS
      <4>1. seg.payload[k] = s.stream.totRead + k - 1
        BY <2>5, <2>8
      <4>2. At(seg) = s.stream.totRead + 1 /\ k \in Int
        BY <2>2, <2>4, <2>11
      <4> QED
        BY <2>2, <4>1, <4>2
    <3> QED
      BY <2>2, <2>7, <2>8, <2>11, <3>1, <3>2 DEF SegmentSound
  <2>13. SegmentsSound(t) /\ TimersSound(t)
    BY <2>2, <2>8, <2>10, <2>11, <2>12, OneMore
  <2>14. CountersSound(t)
    BY <1>4, <2>2, <2>7, <2>10 DEF CountersSound, SenderSound
  <2>15. SenderSound(t)
    BY <2>5, <2>10, <2>13, <2>14 DEF SenderSound
  <2> QED
    BY <1>2, <2>1, <2>7, <2>10, <2>15 DEF Turned
<1> QED
  BY <1>3, <1>4

\* Two turns are a turn as far as Turned tells.
LEMMA TurnedTwice ==
  ASSUME NEW s, NEW t, NEW u, s \in Senders, Turned(s, t), Turned(t, u)
  PROVE  Turned(s, u)
<1>1. s.crtx \in Nat /\ t.crtx \in Nat /\ u.crtx \in Nat
  BY SenderFields DEF Turned
<1> QED
  BY <1>1 DEF Turned

\* The turns of the loop, one after the other.
Turns(s, n, f) == f = [k \in 0 .. n |-> IF k = 0 THEN s ELSE FillOne(f[k - 1])]

\* The loop is a function of the number of turns.
LEMMA TurnsExist == ASSUME NEW s PROVE \A n \in Nat : \E f : Turns(s, n, f)
<1> DEFINE P == {n \in Nat : \E f : Turns(s, n, f)}
<1>1. 0 \in P
  <2> DEFINE f == [k \in 0 .. 0 |-> s]
  <2>1. Turns(s, 0, f)
    BY DEF Turns
  <2> QED
    BY <2>1
<1>2. ASSUME NEW n \in Nat, n \in P PROVE n + 1 \in P
  <2>1. PICK f : Turns(s, n, f)
    BY <1>2
  <2> DEFINE g == [k \in 0 .. n + 1 |-> IF k = n + 1 THEN FillOne(f[n]) ELSE f[k]]
  <2>2. \A k \in 0 .. n : f[k] = IF k = 0 THEN s ELSE FillOne(f[k - 1])
    BY <2>1 DEF Turns
  <2>3. \A k \in 0 .. n + 1 : g[k] = IF k = 0 THEN s ELSE FillOne(g[k - 1])
    <3> SUFFICES ASSUME NEW k \in 0 .. n + 1
                 PROVE  g[k] = IF k = 0 THEN s ELSE FillOne(g[k - 1])
      OBVIOUS
    <3>1. CASE k = n + 1
      <4>1. g[k] = FillOne(f[n]) /\ k - 1 = n /\ n \in 0 .. n + 1 /\ n # n + 1 /\ k # 0
        BY <1>2, <3>1
      <4>2. g[k - 1] = f[n]
        BY <4>1
      <4> QED
        BY <4>1, <4>2
    <3>2. CASE k # n + 1
      <4>1. k \in 0 .. n /\ g[k] = f[k]
        BY <1>2, <3>2
      <4>2. k # 0 => k - 1 \in 0 .. n + 1 /\ k - 1 # n + 1 /\ g[k - 1] = f[k - 1]
        BY <1>2, <4>1
      <4> QED
        BY <2>2, <4>1, <4>2
    <3> QED
      BY <3>1, <3>2
  <2>4. Turns(s, n + 1, g)
    <3>1. g = [k \in 0 .. n + 1 |-> g[k]]
      OBVIOUS
    <3> HIDE DEF g
    <3> QED
      BY <2>3, <3>1 DEF Turns
  <2> QED
    BY <1>2, <2>4
<1> HIDE DEF P
<1>3. \A n \in Nat : n \in P
  BY <1>1, <1>2, EveryNumber
<1> QED
  BY <1>3 DEF P

\* All the turns keep the sender sound and within the window.
LEMMA TurnsSound ==
  ASSUME NEW s \in Senders, SenderSound(s), s.window # NoWindow, NEW n \in Nat,
         NEW f, Turns(s, n, f)
  PROVE  Turned(s, f[n])
<1> DEFINE P == {k \in Nat : k <= n => Turned(s, f[k])}
<1>1. \A k \in 0 .. n : f[k] = IF k = 0 THEN s ELSE FillOne(f[k - 1])
  BY DEF Turns
<1>2. 0 \in P
  <2>1. f[0] = s
    BY <1>1
  <2>2. s.crtx \in Nat
    BY SenderFields
  <2> QED
    BY <2>1, <2>2 DEF Turned
<1>3. ASSUME NEW k \in Nat, k \in P PROVE k + 1 \in P
  <2> SUFFICES ASSUME k + 1 <= n PROVE Turned(s, f[k + 1])
    BY <1>3
  <2>1. Turned(s, f[k])
    BY <1>3
  <2>2. f[k + 1] = FillOne(f[k])
    BY <1>1, <1>3
  <2>3. Turned(f[k], f[k + 1])
    BY <2>1, <2>2, TurnSound DEF Turned
  <2> QED
    BY <2>1, <2>3, TurnedTwice
<1> HIDE DEF P
<1>4. \A k \in Nat : k \in P
  BY <1>2, <1>3, EveryNumber
<1> QED
  BY <1>4 DEF P

\* fill_window.
LEMMA FillSound ==
  ASSUME NEW s \in Senders, SenderSound(s)
  PROVE  /\ FillWindow(s) \in Senders /\ SenderSound(FillWindow(s))
         /\ FillWindow(s).crtx <= s.crtx
         /\ s.nextSeqno > 0 => Turned(s, FillWindow(s))
<1> DEFINE turns == BufferSize(s.stream) + 1
<1>1. turns \in Nat
  BY SenderFields, StreamFields DEF SenderSound
<1>2. s.crtx \in Nat /\ s.nextSeqno \in Nat
  BY SenderFields
<1>3. CASE s.finSent
  BY <1>2, <1>3 DEF FillWindow, Turned
<1>4. CASE ~ s.finSent /\ s.window = NoWindow
  <2>1. FillWindow(s) = SendSyn(s)
    BY <1>4 DEF FillWindow
  <2>2. s.nextSeqno = 0
    BY <1>4 DEF SenderSound, CountersSound
  <2>3. SendSyn(s).crtx <= s.crtx
    BY <1>2 DEF SendSyn, Transmit
  <2> QED
    BY <1>2, <1>4, <2>1, <2>2, <2>3, SynSound
<1>5. CASE ~ s.finSent /\ s.window # NoWindow
  <2> DEFINE f == CHOOSE g : Turns(s, turns, g)
  <2>1. FillWindow(s) = f[turns]
    BY <1>5 DEF FillWindow, Turns
  <2>2. Turns(s, turns, f)
    BY <1>1, TurnsExist
  <2> HIDE DEF f, turns
  <2>3. Turned(s, f[turns])
    BY <1>1, <1>5, <2>2, TurnsSound
  <2> QED
    BY <2>1, <2>3 DEF Turned
<1> QED
  BY <1>3, <1>4, <1>5
-----------------------------------------------------------------------------
(***************************************************************************)
(* ack_received and tick: segments go, timers change.                      *)
(***************************************************************************)
\* The segments that are not wholly acknowledged stay, each with the timer that left
\* gives it.
Kept(s, acked, left) ==
  {[seg |-> o.seg, left |-> left[o]] : o \in {q \in s.outstanding : acked < End(q.seg)}}

\* Dropping what is acknowledged and changing the timers alike keeps them sound.
LEMMA KeptSound ==
  ASSUME NEW s \in Senders, SegmentsSound(s),
         NEW t, NEW left \in [s.outstanding -> Int], t.rto \in Nat,
         t.acked \in s.acked .. s.nextSeqno, t.nextSeqno = s.nextSeqno,
         t.outstanding = Kept(s, t.acked, left),
         \A o \in s.outstanding : left[o] \in 1 .. t.rto,
         \A o, p \in s.outstanding : At(o.seg) < At(p.seg) => left[o] <= left[p]
  PROVE  SegmentsSound(t) /\ TimersSound(t)
<1>1. s.acked \in Nat /\ s.nextSeqno \in Nat /\ t.acked \in Nat
  BY SenderFields
<1>2. \A q \in t.outstanding : \E o \in s.outstanding :
        /\ t.acked < End(o.seg) /\ q.seg = o.seg /\ q.left = left[o]
        /\ q = [seg |-> o.seg, left |-> left[o]]
  BY DEF Kept
<1>3. \A o \in s.outstanding :
        t.acked < End(o.seg) => \E q \in t.outstanding : q.seg = o.seg
  <2> SUFFICES ASSUME NEW o \in s.outstanding, t.acked < End(o.seg)
               PROVE  \E q \in t.outstanding : q.seg = o.seg
    OBVIOUS
  <2> DEFINE q == [seg |-> o.seg, left |-> left[o]]
  <2>1. q \in t.outstanding /\ q.seg = o.seg
    BY DEF Kept
  <2> QED
    BY <2>1
<1>4. \A q \in t.outstanding :
        SegmentSound(q.seg) /\ t.acked < End(q.seg) /\ End(q.seg) <= t.nextSeqno
  BY <1>2, SoundEnds
<1>5. ASSUME NEW q \in t.outstanding, NEW r \in t.outstanding, q # r
      PROVE  End(q.seg) <= At(r.seg) \/ End(r.seg) <= At(q.seg)
  <2>1. PICK o \in s.outstanding : q.seg = o.seg /\ q = [seg |-> o.seg, left |-> left[o]]
    BY <1>2
  <2>2. PICK p \in s.outstanding : r.seg = p.seg /\ r = [seg |-> p.seg, left |-> left[p]]
    BY <1>2
  <2>3. o # p
    BY <1>5, <2>1, <2>2
  <2> QED
    BY <2>1, <2>2, <2>3 DEF SegmentsSound
<1>6. ASSUME NEW i \in t.acked .. t.nextSeqno - 1
      PROVE  \E q \in t.outstanding : i \in At(q.seg) .. End(q.seg) - 1
  <2>1. i \in s.acked .. s.nextSeqno - 1 /\ i \in Nat /\ i >= t.acked
    BY <1>1, <1>6
  <2>2. PICK o \in s.outstanding : i \in At(o.seg) .. End(o.seg) - 1
    BY <2>1 DEF SegmentsSound
  <2>3. t.acked < End(o.seg)
    BY <1>1, <2>1, <2>2, SoundEnds
  <2> QED
    BY <1>3, <2>2, <2>3
<1>7. \A q \in t.outstanding : q.left \in 1 .. t.rto
  BY <1>2
<1>8. ASSUME NEW q \in t.outstanding, NEW r \in t.outstanding, At(q.seg) < At(r.seg)
      PROVE  q.left <= r.left
  <2>1. PICK o \in s.outstanding : q.seg = o.seg /\ q.left = left[o]
    BY <1>2
  <2>2. PICK p \in s.outstanding : r.seg = p.seg /\ r.left = left[p]
    BY <1>2
  <2> QED
    BY <1>8, <2>1, <2>2
<1> QED
  BY <1>4, <1>5, <1>6, <1>7, <1>8 DEF SegmentsSound, TimersSound

\* Changing the timer of one that is outstanding.
LEMMA NewTimer ==
  ASSUME NEW o \in Timers, NEW ms \in Int
  PROVE  /\ [o EXCEPT !.left = ms] = [seg |-> o.seg, left |-> ms]
         /\ [o EXCEPT !.left = ms] \in Timers
  BY DEF Timers

\* ack_received.
LEMMA AckSound ==
  ASSUME NEW s \in Senders, SenderSound(s), s.nextSeqno > 0,
         NEW p \in 0 .. s.nextSeqno + 1, NEW win \in Nat
  PROVE  LET t == AckReceived(s, Wrap(p, Isn), win)
         IN  t \in Senders /\ SenderSound(t) /\ t.nextSeqno = s.nextSeqno /\ t.crtx = s.crtx
<1> DEFINE new == p > s.acked
           rto == IF new THEN RetxTimeout ELSE s.rto
           left == [o \in s.outstanding |-> IF new THEN rto ELSE o.left]
           stay == {o \in s.outstanding : ~ Acknowledged(s, o.seg, p)}
           more == {[o EXCEPT !.left = IF new THEN rto ELSE @] : o \in stay}
           t == [s EXCEPT !.acked = p, !.window = Larger(1, win),
                   !.zeroWindow = (win = 0), !.rto = rto, !.outstanding = more]
<1>1. /\ s.isn = Isn /\ s.acked \in Nat /\ s.acked \in Positions
      /\ s.nextSeqno \in Nat /\ s.nextSeqno \in Positions /\ s.rto \in Nat \ {0}
      /\ s.outstanding \subseteq Timers /\ SegmentsSound(s) /\ TimersSound(s)
      /\ CountersSound(s)
  BY SenderFields DEF SenderSound
<1>2. Unwrap(Wrap(p, Isn), s.isn, s.acked) = p
  <2>1. p \in 0 .. FinPosition + 2
    BY <1>1, SenderSpecAssumption DEF Positions, FinPosition
  <2> QED
    BY <1>1, <2>1, Unwraps
<1>3. AckReceived(s, Wrap(p, Isn), win) = IF ~ Credible(s, p) THEN s ELSE t
  BY <1>2 DEF AckReceived
<1>4. CASE ~ Credible(s, p)
  BY <1>3, <1>4
<1>5. CASE Credible(s, p)
  <2>1. AckReceived(s, Wrap(p, Isn), win) = t
    BY <1>3, <1>5
  <2>2. p \in s.acked .. s.nextSeqno /\ p \in Positions
    BY <1>1, <1>5, SenderSpecAssumption DEF Credible, Positions, FinPosition
  <2>3. rto \in 1 .. UIntRange - 1 /\ rto \in Nat
    BY <1>1, SenderFields, SenderAssumption DEF Senders
  <2> HIDE DEF new
  <2>4. left \in [s.outstanding -> Int]
    BY <1>1, <2>3 DEF Timers
  <2>5. stay = {o \in s.outstanding : p < End(o.seg)}
    <3> SUFFICES ASSUME NEW o \in s.outstanding
                 PROVE  Acknowledged(s, o.seg, p) <=> ~ (p < End(o.seg))
      OBVIOUS
    <3>1. Unwrap(o.seg.seqno, s.isn, p) = At(o.seg)
      BY <1>1, <2>2, SoundEnds, PositionIsAt DEF SegmentSound
    <3>2. p \in Nat /\ End(o.seg) \in Nat
      BY <1>1, SoundEnds
    <3> QED
      BY <3>1, <3>2 DEF Acknowledged, End
  <2> HIDE DEF rto, stay
  <2>6. more = Kept(s, p, left) /\ more \in SUBSET Timers
    <3>1. \A o \in stay :
            /\ o \in s.outstanding /\ o \in Timers
            /\ (IF new THEN rto ELSE o.left) = left[o] /\ left[o] \in Int
      BY <1>1, <2>4, <2>5
    <3>2. \A o \in stay :
            /\ [o EXCEPT !.left = IF new THEN rto ELSE @] = [seg |-> o.seg, left |-> left[o]]
            /\ [o EXCEPT !.left = IF new THEN rto ELSE @] \in Timers
      BY <3>1, NewTimer
    <3> HIDE DEF left
    <3>3. more = {[seg |-> o.seg, left |-> left[o]] : o \in stay}
      <4>1. \A x : x \in more => \E o \in stay : x = [seg |-> o.seg, left |-> left[o]]
        BY <3>2
      <4>2. \A o \in stay : [seg |-> o.seg, left |-> left[o]] \in more
        BY <3>2
      <4> HIDE DEF more
      <4> QED
        BY <4>1, <4>2
    <3>4. more \in SUBSET Timers
      BY <3>2
    <3> HIDE DEF more, left
    <3> QED
      BY <2>5, <3>3, <3>4 DEF Kept
  <2>7. Larger(1, win) \in Nat \ {0}
    BY DEF Larger
  <2> HIDE DEF more
  <2>8. /\ t \in Senders
        /\ t.acked = p /\ t.window = Larger(1, win) /\ t.rto = rto /\ t.outstanding = more
        /\ t.nextSeqno = s.nextSeqno /\ t.stream = s.stream /\ t.finSent = s.finSent
        /\ t.crtx = s.crtx
    BY <2>2, <2>3, <2>6, <2>7 DEF Senders
  <2> HIDE DEF t
  <2>9. SegmentsSound(t) /\ TimersSound(t)
    <3>1. \A o \in s.outstanding : left[o] \in 1 .. rto
      BY <1>1, <2>3 DEF TimersSound, rto
    <3>2. \A o, q \in s.outstanding : At(o.seg) < At(q.seg) => left[o] <= left[q]
      BY <1>1, <2>3 DEF TimersSound
    <3> HIDE DEF left
    <3> QED
      BY <1>1, <2>2, <2>3, <2>4, <2>6, <2>8, <3>1, <3>2, KeptSound
  <2>10. CountersSound(t)
    BY <1>1, <2>2, <2>7, <2>8 DEF CountersSound, NoWindow
  <2>11. SenderSound(t)
    BY <2>8, <2>9, <2>10 DEF SenderSound
  <2> QED
    BY <2>1, <2>8, <2>11
<1> QED
  BY <1>4, <1>5

\* The sender after ms milliseconds, with its segments as they were.
LEMMA ElapseFields ==
  ASSUME NEW s \in Senders, NEW ms \in Nat
  PROVE  LET t == Elapse(s, ms)
         IN  /\ t \in Senders
             /\ t.stream = s.stream /\ t.nextSeqno = s.nextSeqno /\ t.window = s.window
             /\ t.acked = s.acked /\ t.rto = s.rto /\ t.crtx = s.crtx
             /\ t.finSent = s.finSent /\ t.zeroWindow = s.zeroWindow
             /\ t.segmentsOut = s.segmentsOut
             /\ t.outstanding = {[seg |-> o.seg, left |-> o.left - ms] : o \in s.outstanding}
<1> DEFINE more == {[o EXCEPT !.left = @ - ms] : o \in s.outstanding}
           t == [s EXCEPT !.outstanding = more]
<1>1. \A o \in s.outstanding :
        /\ o \in Timers /\ o.left - ms \in Int
        /\ [o EXCEPT !.left = @ - ms] = [seg |-> o.seg, left |-> o.left - ms]
        /\ [o EXCEPT !.left = @ - ms] \in Timers
  <2> SUFFICES ASSUME NEW o \in s.outstanding
               PROVE  /\ o \in Timers /\ o.left - ms \in Int
                      /\ [o EXCEPT !.left = @ - ms] = [seg |-> o.seg, left |-> o.left - ms]
                      /\ [o EXCEPT !.left = @ - ms] \in Timers
    OBVIOUS
  <2>1. o \in Timers /\ o.left - ms \in Int
    BY SenderFields DEF Timers
  <2> QED
    BY <2>1, NewTimer
<1>2. more \in SUBSET Timers
  BY <1>1
<1>3. more = {[seg |-> o.seg, left |-> o.left - ms] : o \in s.outstanding}
  <2>1. \A x : x \in more => \E o \in s.outstanding : x = [seg |-> o.seg, left |-> o.left - ms]
    BY <1>1
  <2>2. \A o \in s.outstanding : [seg |-> o.seg, left |-> o.left - ms] \in more
    BY <1>1
  <2> HIDE DEF more
  <2> QED
    BY <2>1, <2>2
<1>4. Elapse(s, ms) = t
  BY DEF Elapse
<1> HIDE DEF more
<1>5. /\ t \in Senders /\ t.outstanding = more
      /\ t.stream = s.stream /\ t.nextSeqno = s.nextSeqno /\ t.window = s.window
      /\ t.acked = s.acked /\ t.rto = s.rto /\ t.crtx = s.crtx
      /\ t.finSent = s.finSent /\ t.zeroWindow = s.zeroWindow
      /\ t.segmentsOut = s.segmentsOut
  BY <1>2 DEF Senders
<1> QED
  BY <1>3, <1>4, <1>5

\* When a timer has run out, the segment sent again is the one that holds the first
\* position not acknowledged.
LEMMA OldestIsFirst ==
  ASSUME NEW s \in Senders, SenderSound(s), NEW ms \in Nat, Expired(Elapse(s, ms)) # {}
  PROVE  LET seg == Oldest(Elapse(s, ms)).seg
         IN  /\ \E o \in s.outstanding : o.seg = seg
             /\ s.acked \in At(seg) .. End(seg) - 1
<1> DEFINE e == Elapse(s, ms)
<1>1. /\ e \in Senders /\ e.acked = s.acked /\ e.isn = Isn
      /\ e.outstanding = {[seg |-> o.seg, left |-> o.left - ms] : o \in s.outstanding}
  BY ElapseFields, SenderFields
<1> HIDE DEF e
<1>2. /\ s.acked \in Nat /\ s.acked \in Positions /\ s.nextSeqno \in Nat
      /\ SegmentsSound(s) /\ TimersSound(s)
  BY SenderFields DEF SenderSound
<1>3. PICK q \in s.outstanding : q.left - ms <= 0
  <2>1. PICK x \in e.outstanding : x.left <= 0
    BY DEF Expired, e
  <2> QED
    BY <1>1, <2>1
<1>4. /\ At(q.seg) \in Nat /\ End(q.seg) \in Nat /\ q.left \in Int
      /\ s.acked < End(q.seg) /\ End(q.seg) <= s.nextSeqno
  BY <1>2, <1>3, SoundEnds
<1>5. PICK o \in s.outstanding : s.acked \in At(o.seg) .. End(o.seg) - 1
  <2>1. s.acked \in s.acked .. s.nextSeqno - 1
    BY <1>2, <1>4
  <2> QED
    BY <1>2, <2>1 DEF SegmentsSound
<1>6. At(o.seg) \in Nat /\ End(o.seg) \in Nat /\ o.left \in Int
  BY <1>2, <1>5, SoundEnds
<1>7. \A p \in s.outstanding : p # o => At(o.seg) < At(p.seg)
  <2> SUFFICES ASSUME NEW p \in s.outstanding, p # o PROVE At(o.seg) < At(p.seg)
    OBVIOUS
  <2>1. /\ At(p.seg) \in Nat /\ End(p.seg) \in Nat /\ s.acked < End(p.seg)
    BY <1>2, SoundEnds
  <2>2. End(o.seg) <= At(p.seg) \/ End(p.seg) <= At(o.seg)
    BY <1>2, <1>5 DEF SegmentsSound
  <2> QED
    BY <1>2, <1>5, <1>6, <2>1, <2>2
<1> DEFINE first == [seg |-> o.seg, left |-> o.left - ms]
<1>8. first \in Expired(e)
  <2>1. o.left <= q.left
    <3>1. CASE q = o
      BY <1>6, <3>1
    <3>2. CASE q # o
      BY <1>2, <1>3, <1>5, <1>7, <3>2 DEF TimersSound
    <3> QED
      BY <3>1, <3>2
  <2>2. first.left = o.left - ms /\ first.left <= 0
    BY <1>3, <1>4, <1>6, <2>1
  <2>3. first \in e.outstanding
    BY <1>1, <1>5
  <2> HIDE DEF first
  <2> QED
    BY <2>2, <2>3 DEF Expired
<1>9. \A x \in Expired(e) :
        /\ PositionOf(e, x.seg) = At(x.seg)
        /\ \E p \in s.outstanding : x = [seg |-> p.seg, left |-> p.left - ms]
  <2> SUFFICES ASSUME NEW x \in Expired(e)
               PROVE  /\ PositionOf(e, x.seg) = At(x.seg)
                      /\ \E p \in s.outstanding : x = [seg |-> p.seg, left |-> p.left - ms]
    OBVIOUS
  <2>1. PICK p \in s.outstanding : x = [seg |-> p.seg, left |-> p.left - ms]
    BY <1>1 DEF Expired
  <2>2. x.seg = p.seg /\ At(p.seg) \in Positions /\ p.seg.seqno = Wrap(At(p.seg), Isn)
    BY <1>2, <2>1, SoundEnds DEF SegmentSound
  <2>3. Unwrap(x.seg.seqno, Isn, s.acked) = At(x.seg)
    BY <1>2, <2>2, PositionIsAt
  <2> QED
    BY <1>1, <2>1, <2>3 DEF PositionOf
<1>10. \A x \in Expired(e) : x # first => At(o.seg) < At(x.seg)
  <2> SUFFICES ASSUME NEW x \in Expired(e), x # first PROVE At(o.seg) < At(x.seg)
    OBVIOUS
  <2>1. PICK p \in s.outstanding : x = [seg |-> p.seg, left |-> p.left - ms]
    BY <1>9
  <2>2. p # o /\ x.seg = p.seg
    BY <2>1
  <2> QED
    BY <1>7, <2>2
<1>11. first.seg = o.seg
  OBVIOUS
<1> HIDE DEF first
<1>12. \A x \in Expired(e) : PositionOf(e, first.seg) <= PositionOf(e, x.seg)
  <2> SUFFICES ASSUME NEW x \in Expired(e)
               PROVE  PositionOf(e, first.seg) <= PositionOf(e, x.seg)
    OBVIOUS
  <2>1. At(x.seg) \in Nat
    BY <1>2, <1>9, SoundEnds
  <2> QED
    BY <1>6, <1>8, <1>9, <1>10, <1>11, <2>1
<1>13. Oldest(e) = first
  <2>1. /\ Oldest(e) \in Expired(e)
        /\ \A x \in Expired(e) : PositionOf(e, Oldest(e).seg) <= PositionOf(e, x.seg)
    BY <1>8, <1>12 DEF Oldest
  <2>2. At(Oldest(e).seg) <= At(o.seg)
    BY <1>8, <1>9, <1>11, <2>1
  <2>3. At(Oldest(e).seg) \in Nat
    BY <1>2, <1>9, <2>1, SoundEnds
  <2> QED
    BY <1>6, <1>10, <2>1, <2>2, <2>3
<1> QED
  BY <1>5, <1>11, <1>13 DEF e

\* tick.
LEMMA TickSound ==
  ASSUME NEW s \in Senders, SenderSound(s), NEW ms \in Nat \ {0}, s.rto <= MaxRto
  PROVE  LET t == TickSender(s, ms)
         IN  /\ t \in Senders /\ SenderSound(t) /\ t.nextSeqno = s.nextSeqno
             /\ \/ t.crtx = s.crtx
                \/ /\ t.crtx = s.crtx + 1
                   /\ \E o \in s.outstanding :
                        /\ t.segmentsOut = Append(s.segmentsOut, o.seg)
                        /\ s.acked \in At(o.seg) .. End(o.seg) - 1
<1> DEFINE e == Elapse(s, ms)
<1>1. /\ e \in Senders
      /\ e.stream = s.stream /\ e.nextSeqno = s.nextSeqno /\ e.window = s.window
      /\ e.acked = s.acked /\ e.rto = s.rto /\ e.crtx = s.crtx
      /\ e.finSent = s.finSent /\ e.zeroWindow = s.zeroWindow
      /\ e.segmentsOut = s.segmentsOut
      /\ e.outstanding = {[seg |-> o.seg, left |-> o.left - ms] : o \in s.outstanding}
  BY ElapseFields
<1>2. /\ s.acked \in Nat /\ s.nextSeqno \in Nat /\ s.rto \in Nat \ {0} /\ s.crtx \in Nat
      /\ s.acked \in s.acked .. s.nextSeqno
      /\ s.outstanding \subseteq Timers /\ s.segmentsOut \in Seq(Segments)
      /\ StreamSound(s.stream) /\ SegmentsSound(s) /\ TimersSound(s) /\ CountersSound(s)
  BY SenderFields DEF SenderSound, CountersSound
<1>3. \A o \in s.outstanding : s.acked < End(o.seg) /\ o.left \in Nat \ {0} /\ o.left <= s.rto
  BY <1>2, SoundEnds DEF TimersSound
<1>4. TickSender(s, ms) = Retransmit(e)
  BY DEF TickSender
<1>5. CASE Expired(e) = {}
  <2> DEFINE left == [o \in s.outstanding |-> o.left - ms]
  <2>1. TickSender(s, ms) = e
    BY <1>4, <1>5 DEF Retransmit
  <2> HIDE DEF e
  <2>2. \A o \in s.outstanding : left[o] \in 1 .. s.rto
    <3> SUFFICES ASSUME NEW o \in s.outstanding PROVE o.left - ms \in 1 .. s.rto
      OBVIOUS
    <3> DEFINE x == [seg |-> o.seg, left |-> o.left - ms]
    <3>1. x \in e.outstanding /\ x.left = o.left - ms
      BY <1>1
    <3>2. ~ (x.left <= 0)
      BY <1>5, <3>1 DEF Expired
    <3> QED
      BY <1>2, <1>3, <3>1, <3>2
  <2>3. \A o, p \in s.outstanding : At(o.seg) < At(p.seg) => left[o] <= left[p]
    <3> SUFFICES ASSUME NEW o \in s.outstanding, NEW p \in s.outstanding,
                        At(o.seg) < At(p.seg)
                 PROVE  o.left - ms <= p.left - ms
      OBVIOUS
    <3>1. o.left <= p.left
      BY <1>2 DEF TimersSound
    <3> QED
      BY <1>3, <3>1
  <2>4. left \in [s.outstanding -> Int]
    BY <1>3
  <2>5. e.outstanding = Kept(s, s.acked, left)
    BY <1>1, <1>3 DEF Kept
  <2> HIDE DEF left
  <2>6. SegmentsSound(e) /\ TimersSound(e)
    BY <1>1, <1>2, <2>2, <2>3, <2>4, <2>5, KeptSound
  <2>7. CountersSound(e)
    BY <1>1, <1>2 DEF CountersSound
  <2>8. SenderSound(e)
    BY <1>1, <1>2, <2>6, <2>7 DEF SenderSound
  <2> QED
    BY <1>1, <2>1, <2>8
<1>6. CASE Expired(e) # {}
  <2> DEFINE rto == IF e.zeroWindow THEN e.rto ELSE (2 * e.rto) % UIntRange
             seg == Oldest(e).seg
             more == Restarted(e, rto)
             queue == Append(e.segmentsOut, seg)
             t == [e EXCEPT !.rto = rto, !.crtx = @ + 1, !.segmentsOut = queue,
                     !.outstanding = more]
             left == [o \in s.outstanding |-> rto]
  <2>1. TickSender(s, ms) = t
    BY <1>4, <1>6 DEF Retransmit
  <2>2. PICK o \in s.outstanding : o.seg = seg /\ s.acked \in At(seg) .. End(seg) - 1
    BY <1>2, <1>6, OldestIsFirst
  <2> HIDE DEF e, seg
  <2>3. rto \in Nat /\ rto \in 1 .. UIntRange - 1
    <3>1. 2 * s.rto \in 1 .. UIntRange - 1 /\ s.rto \in 1 .. UIntRange - 1
      BY <1>2, SenderSpecAssumption, SenderAssumption
    <3>2. (2 * s.rto) % UIntRange = 2 * s.rto
      BY <3>1, SenderAssumption
    <3> QED
      BY <1>1, <3>1, <3>2
  <2> HIDE DEF rto
  <2>4. seg \in Segments
    BY <1>2, <2>2 DEF Timers
  <2>5. more = {[seg |-> p.seg, left |-> rto] : p \in s.outstanding} /\ more \in SUBSET Timers
    <3>1. \A x \in e.outstanding :
            /\ [x EXCEPT !.left = rto] = [seg |-> x.seg, left |-> rto]
            /\ [x EXCEPT !.left = rto] \in Timers
      BY <1>1, <2>3, NewTimer, SenderFields
    <3>2. \A x \in more : \E p \in s.outstanding : x = [seg |-> p.seg, left |-> rto]
      BY <1>1, <3>1 DEF Restarted
    <3>3. ASSUME NEW p \in s.outstanding PROVE [seg |-> p.seg, left |-> rto] \in more
      <4> DEFINE x == [seg |-> p.seg, left |-> p.left - ms]
      <4>1. x \in e.outstanding /\ x.seg = p.seg
        BY <1>1
      <4> HIDE DEF x
      <4>2. [x EXCEPT !.left = rto] = [seg |-> p.seg, left |-> rto]
        BY <3>1, <4>1
      <4> QED
        BY <4>1, <4>2 DEF Restarted
    <3>4. more \in SUBSET Timers
      BY <3>1 DEF Restarted
    <3> HIDE DEF more
    <3> QED
      BY <3>2, <3>3, <3>4
  <2> HIDE DEF more
  <2>6. queue \in Seq(Segments) /\ queue = Append(s.segmentsOut, seg)
    BY <1>1, <1>2, <2>4
  <2> HIDE DEF queue
  <2>7. /\ t \in Senders /\ t.rto = rto /\ t.crtx = s.crtx + 1
        /\ t.segmentsOut = queue /\ t.outstanding = more
        /\ t.stream = s.stream /\ t.nextSeqno = s.nextSeqno /\ t.window = s.window
        /\ t.acked = s.acked /\ t.finSent = s.finSent
    <3>1. e.crtx + 1 \in Nat
      BY <1>1, <1>2
    <3> QED
      BY <1>1, <2>3, <2>5, <2>6, <3>1 DEF Senders
  <2> HIDE DEF t
  <2>8. SegmentsSound(t) /\ TimersSound(t)
    <3>1. left \in [s.outstanding -> Int] /\ \A p \in s.outstanding : left[p] = rto
      BY <2>3
    <3>2. t.outstanding = Kept(s, t.acked, left)
      BY <1>3, <2>5, <2>7, <3>1 DEF Kept
    <3>3. \A p \in s.outstanding : left[p] \in 1 .. rto
      BY <2>3, <3>1
    <3>4. \A p, q \in s.outstanding : left[p] <= left[q]
      BY <2>3, <3>1
    <3> HIDE DEF left
    <3> QED
      BY <1>2, <2>3, <2>7, <3>1, <3>2, <3>3, <3>4, KeptSound
  <2>9. CountersSound(t)
    BY <1>2, <2>7 DEF CountersSound
  <2>10. SenderSound(t)
    BY <1>2, <2>7, <2>8, <2>9 DEF SenderSound
  <2> QED
    BY <2>1, <2>2, <2>6, <2>7, <2>10
<1> QED
  BY <1>5, <1>6
-----------------------------------------------------------------------------
(***************************************************************************)
(* The owner's calls that leave what is outstanding alone.                 *)
(***************************************************************************)
\* The owner takes the queue.
LEMMA TakenSound ==
  ASSUME IInv
  PROVE  /\ Taken \in Senders /\ SenderSound(Taken)
         /\ Taken.segmentsOut = <<>> /\ Taken.stream = snd.stream
         /\ Taken.nextSeqno = snd.nextSeqno /\ Taken.acked = snd.acked
         /\ Taken.window = snd.window /\ Taken.outstanding = snd.outstanding
         /\ Taken.rto = snd.rto /\ Taken.crtx = snd.crtx
<1>1. snd \in Senders /\ SenderSound(snd)
  BY DEF IInv
<1>2. /\ Taken \in Senders
      /\ Taken.segmentsOut = <<>> /\ Taken.stream = snd.stream
      /\ Taken.nextSeqno = snd.nextSeqno /\ Taken.acked = snd.acked
      /\ Taken.window = snd.window /\ Taken.outstanding = snd.outstanding
      /\ Taken.rto = snd.rto /\ Taken.crtx = snd.crtx /\ Taken.finSent = snd.finSent
  <2>1. <<>> \in Seq(Segments)
    OBVIOUS
  <2> QED
    BY <1>1, <2>1 DEF Taken, Senders
<1>3. SegmentsSound(Taken) /\ TimersSound(Taken)
  BY <1>1, <1>2, SameSegments DEF SenderSound
<1>4. CountersSound(Taken)
  BY <1>1, <1>2 DEF SenderSound, CountersSound
<1> QED
  BY <1>1, <1>2, <1>3, <1>4 DEF SenderSound

\* Replacing the stream by a sound one of which as much has been read.
LEMMA StreamChanged ==
  ASSUME NEW s \in Senders, SenderSound(s), NEW b \in ByteStreams(Byte), StreamSound(b),
         b.totRead = s.stream.totRead
  PROVE  LET t == [s EXCEPT !.stream = b]
         IN  t \in Senders /\ SenderSound(t) /\ t.nextSeqno = s.nextSeqno /\ t.crtx = s.crtx
<1> DEFINE t == [s EXCEPT !.stream = b]
<1>1. /\ t \in Senders /\ t.stream = b
      /\ t.nextSeqno = s.nextSeqno /\ t.acked = s.acked /\ t.window = s.window
      /\ t.outstanding = s.outstanding /\ t.rto = s.rto /\ t.crtx = s.crtx
      /\ t.finSent = s.finSent
  BY DEF Senders
<1> HIDE DEF t
<1>2. SegmentsSound(t) /\ TimersSound(t)
  BY <1>1, SameSegments DEF SenderSound
<1>3. CountersSound(t)
  BY <1>1 DEF SenderSound, CountersSound
<1>4. t \in Senders /\ SenderSound(t) /\ t.nextSeqno = s.nextSeqno /\ t.crtx = s.crtx
  BY <1>1, <1>2, <1>3 DEF SenderSound
<1> QED
  BY <1>4 DEF t

\* write with bytes that fit.
LEMMA WriteSound ==
  ASSUME NEW b \in ByteStreams(Byte), StreamSound(b), ~ b.eof2,
         NEW n \in 1 .. Smaller(StreamLen - b.totWrite, b.rem)
  PROVE  LET c == Write(b, [k \in 1 .. n |-> b.totWrite + k - 1])
         IN  c \in ByteStreams(Byte) /\ StreamSound(c) /\ c.totRead = b.totRead
<1> DEFINE data == [k \in 1 .. n |-> b.totWrite + k - 1]
           buf == b.buf \o data
           c == [b EXCEPT !.buf = buf, !.rem = b.rem - n, !.totWrite = b.totWrite + n]
<1>1. /\ b.buf \in Seq(Byte) /\ Len(b.buf) \in Nat /\ b.rem \in Nat /\ b.cap \in Nat
      /\ b.totRead \in Nat /\ b.totWrite \in Nat /\ b.eof2 \in BOOLEAN
      /\ DOMAIN b.buf = 1 .. Len(b.buf)
  BY StreamFields
<1>2. n \in Nat /\ n <= StreamLen - b.totWrite /\ n <= b.rem
  BY <1>1, SenderSpecAssumption DEF Smaller
<1>3. data \in Seq(Byte) /\ Len(data) = n
  <2>1. \A k \in 1 .. n : b.totWrite + k - 1 \in Byte
    BY <1>1, <1>2, SenderSpecAssumption DEF Byte
  <2>2. data \in [1 .. n -> Byte]
    BY <2>1
  <2> QED
    BY <1>2, <2>2
<1>4. Writable(b, data) = n
  BY <1>1, <1>2, <1>3 DEF Writable, Smaller
<1>5. \A k \in 1 .. n : data[k] = b.totWrite + k - 1
  OBVIOUS
<1> HIDE DEF data
<1>6. Accepted(b, data) = data
  BY <1>3, <1>4 DEF Accepted
<1>7. Write(b, data) = c
  BY <1>4, <1>6 DEF Write
<1>8. /\ buf \in Seq(Byte) /\ Len(buf) = Len(b.buf) + n
      /\ \A i \in 1 .. Len(b.buf) + n :
           buf[i] = IF i <= Len(b.buf) THEN b.buf[i] ELSE data[i - Len(b.buf)]
  BY <1>1, <1>3, ConcatProperties
<1> HIDE DEF buf
<1>9. /\ c \in ByteStreams(Byte) /\ c.buf = buf /\ c.rem = b.rem - n /\ c.cap = b.cap
      /\ c.totWrite = b.totWrite + n /\ c.totRead = b.totRead /\ c.eof2 = b.eof2
  <2>1. b.rem - n \in Nat /\ b.totWrite + n \in Nat
    BY <1>1, <1>2
  <2> QED
    BY <1>8, <2>1 DEF ByteStreams
<1> HIDE DEF c
<1>10. /\ b.rem + Len(b.buf) = b.cap /\ b.totRead + Len(b.buf) = b.totWrite
  BY DEF StreamSound
<1>11. \A i \in DOMAIN buf : buf[i] = b.totRead + i - 1
  <2> SUFFICES ASSUME NEW i \in DOMAIN buf PROVE buf[i] = b.totRead + i - 1
    OBVIOUS
  <2>1. i \in 1 .. Len(b.buf) + n
    BY <1>8
  <2>2. CASE i <= Len(b.buf)
    <3>1. i \in DOMAIN b.buf
      BY <1>1, <2>1, <2>2
    <3> QED
      BY <1>8, <2>1, <2>2, <3>1 DEF StreamSound
  <2>3. CASE ~ (i <= Len(b.buf))
    <3>1. i - Len(b.buf) \in 1 .. n /\ buf[i] = data[i - Len(b.buf)]
      BY <1>1, <1>2, <1>8, <2>1, <2>3
    <3>2. buf[i] = b.totWrite + (i - Len(b.buf)) - 1
      BY <1>5, <3>1
    <3> QED
      BY <1>1, <1>10, <2>1, <3>2
  <2> QED
    BY <2>2, <2>3
<1>12. StreamSound(c)
  <2>1. /\ (b.rem - n) + (Len(b.buf) + n) = b.cap
        /\ b.totRead + (Len(b.buf) + n) = b.totWrite + n /\ b.totWrite + n <= StreamLen
    <3> DEFINE held == Len(b.buf)
    <3>1. held \in Nat /\ b.rem + held = b.cap /\ b.totRead + held = b.totWrite
      BY <1>1, <1>10
    <3>2. StreamLen \in Nat
      BY SenderSpecAssumption
    <3> HIDE DEF held
    <3>3. (b.rem - n) + (held + n) = b.cap /\ b.totRead + (held + n) = b.totWrite + n
      BY <1>1, <1>2, <3>1
    <3>4. b.totWrite + n <= StreamLen
      BY <1>1, <1>2, <3>2
    <3> QED
      BY <3>3, <3>4 DEF held
  <2> QED
    BY <1>8, <1>9, <1>11, <2>1 DEF StreamSound
<1>13. Write(b, data) \in ByteStreams(Byte) /\ StreamSound(Write(b, data))
       /\ Write(b, data).totRead = b.totRead
  BY <1>7, <1>9, <1>12
<1> QED
  BY <1>13 DEF data

\* send_empty_segment.
LEMMA EmptySound ==
  ASSUME NEW s \in Senders, SenderSound(s)
  PROVE  LET t == SendEmptySegment(s)
         IN  t \in Senders /\ SenderSound(t) /\ t.nextSeqno = s.nextSeqno /\ t.crtx = 0
<1> DEFINE seg == [EmptySegment EXCEPT !.seqno = NextSeqno(s)]
           queue == Append(s.segmentsOut, seg)
           t == [s EXCEPT !.crtx = 0, !.segmentsOut = queue]
<1>1. /\ s.isn = Isn /\ s.nextSeqno \in Nat /\ s.segmentsOut \in Seq(Segments)
  BY SenderFields
<1>2. NextSeqno(s) \in RawValues
  BY <1>1, SenderSpecAssumption, WrapRounds DEF NextSeqno
<1>3. seg \in Segments
  BY <1>2, NothingIsSegment DEF Segments, TCPSegments
<1> HIDE DEF seg
<1>4. queue \in Seq(Segments)
  BY <1>1, <1>3
<1>5. SendEmptySegment(s) = t
  BY DEF SendEmptySegment, seg
<1> HIDE DEF queue
<1>6. /\ t \in Senders /\ t.crtx = 0 /\ t.stream = s.stream
      /\ t.nextSeqno = s.nextSeqno /\ t.acked = s.acked /\ t.window = s.window
      /\ t.outstanding = s.outstanding /\ t.rto = s.rto /\ t.finSent = s.finSent
  BY <1>4 DEF Senders
<1> HIDE DEF t
<1>7. SegmentsSound(t) /\ TimersSound(t)
  BY <1>6, SameSegments DEF SenderSound
<1>8. CountersSound(t)
  BY <1>6 DEF SenderSound, CountersSound
<1>9. SenderSound(t)
  BY <1>6, <1>7, <1>8 DEF SenderSound
<1> QED
  BY <1>5, <1>6, <1>9
-----------------------------------------------------------------------------
(***************************************************************************)
(* The invariant.                                                          *)
(***************************************************************************)
\* A new sender is sound.
LEMMA InitIInv == Init => IInv
<1> SUFFICES ASSUME Init PROVE IInv
  OBVIOUS
<1> DEFINE b == NewByteStream(SendCapacity)
<1>1. b \in ByteStreams(Byte) /\ StreamSound(b) /\ b.totRead = 0
  <2>1. <<>> \in Seq(Byte) /\ Len(<<>>) = 0 /\ DOMAIN <<>> = {}
    OBVIOUS
  <2>2. b = [cap |-> SendCapacity, rem |-> SendCapacity, totRead |-> 0, totWrite |-> 0,
             eof2 |-> FALSE, error |-> FALSE, buf |-> <<>>]
    BY DEF NewByteStream
  <2> QED
    BY <2>1, <2>2, SenderSpecAssumption DEF ByteStreams, StreamSound
<1> HIDE DEF b
<1>2. snd = [isn |-> Isn, stream |-> b, nextSeqno |-> 0,
             window |-> NoWindow, acked |-> 0, outstanding |-> {}, rto |-> RetxTimeout,
             crtx |-> 0, finSent |-> FALSE, zeroWindow |-> FALSE, segmentsOut |-> <<>>]
  BY DEF Init, NewSender, b
<1>3. snd \in Senders
  <2>1. 0 \in Positions /\ RetxTimeout \in 1 .. UIntRange - 1 /\ <<>> \in Seq(Segments)
    BY SenderAssumption, SenderSpecAssumption DEF Positions, FinPosition
  <2> QED
    BY <1>1, <1>2, <2>1 DEF Senders
<1>4. SegmentsSound(snd) /\ TimersSound(snd)
  BY <1>2 DEF SegmentsSound, TimersSound
<1>5. CountersSound(snd)
  BY <1>1, <1>2, SenderSpecAssumption DEF CountersSound, FinPosition, NoWindow
<1> QED
  BY <1>1, <1>2, <1>3, <1>4, <1>5 DEF IInv, SenderSound

\* Each action, and what it may do to the next sequence number and to crtx.
LEMMA AppWriteStep ==
  ASSUME IInv, AppWrite
  PROVE  IInv' /\ snd'.nextSeqno = snd.nextSeqno /\ snd'.crtx = snd.crtx
<1>1. /\ Taken \in Senders /\ SenderSound(Taken) /\ Taken.stream = snd.stream
      /\ Taken.nextSeqno = snd.nextSeqno /\ Taken.crtx = snd.crtx
  BY TakenSound
<1> HIDE DEF Taken
<1>2. PICK n \in 1 .. Smaller(StreamLen - snd.stream.totWrite, snd.stream.rem) :
        /\ ~ InputEnded(snd.stream)
        /\ snd' = [Taken EXCEPT !.stream =
                     Write(@, [k \in 1 .. n |-> snd.stream.totWrite + k - 1])]
  BY DEF AppWrite
<1> DEFINE b == Write(snd.stream, [k \in 1 .. n |-> snd.stream.totWrite + k - 1])
<1>3. snd.stream \in ByteStreams(Byte) /\ StreamSound(snd.stream)
  BY SenderFields DEF IInv, SenderSound
<1>4. b \in ByteStreams(Byte) /\ StreamSound(b) /\ b.totRead = snd.stream.totRead
  BY <1>2, <1>3, WriteSound DEF InputEnded
<1>5. snd' = [Taken EXCEPT !.stream = b]
  BY <1>1, <1>2
<1> HIDE DEF b
<1> QED
  BY <1>1, <1>4, <1>5, StreamChanged DEF IInv

\* end_input() on the outbound stream.
LEMMA AppEndStep ==
  ASSUME IInv, AppEnd
  PROVE  IInv' /\ snd'.nextSeqno = snd.nextSeqno /\ snd'.crtx = snd.crtx
<1>1. /\ Taken \in Senders /\ SenderSound(Taken) /\ Taken.stream = snd.stream
      /\ Taken.nextSeqno = snd.nextSeqno /\ Taken.crtx = snd.crtx
  BY TakenSound
<1> DEFINE b == EndInput(snd.stream)
<1>2. snd.stream \in ByteStreams(Byte) /\ StreamSound(snd.stream)
  BY SenderFields DEF IInv, SenderSound
<1>3. /\ b \in ByteStreams(Byte)
      /\ b.buf = snd.stream.buf /\ b.rem = snd.stream.rem /\ b.cap = snd.stream.cap
      /\ b.totRead = snd.stream.totRead /\ b.totWrite = snd.stream.totWrite
  BY <1>2 DEF EndInput, ByteStreams
<1>4. snd' = [Taken EXCEPT !.stream = b] /\ snd.stream.totWrite = StreamLen
  BY <1>1 DEF AppEnd
<1> HIDE DEF b
<1>5. StreamSound(b)
  BY <1>2, <1>3, <1>4 DEF StreamSound
<1> QED
  BY <1>1, <1>3, <1>4, <1>5, StreamChanged DEF IInv

\* fill_window().
LEMMA FillStep ==
  ASSUME IInv, Fill
  PROVE  /\ IInv' /\ snd'.crtx <= snd.crtx
         /\ \/ snd.nextSeqno = 0 \/ snd'.nextSeqno = snd.nextSeqno
            \/ snd'.nextSeqno <= snd.acked + snd.window
<1>1. /\ Taken \in Senders /\ SenderSound(Taken) /\ Taken.nextSeqno = snd.nextSeqno
      /\ Taken.acked = snd.acked /\ Taken.window = snd.window /\ Taken.crtx = snd.crtx
      /\ Taken.nextSeqno \in Nat
  BY TakenSound, SenderFields
<1> HIDE DEF Taken
<1>2. snd' = FillWindow(Taken)
  BY DEF Fill
<1>3. /\ snd' \in Senders /\ SenderSound(snd') /\ snd'.crtx <= Taken.crtx
      /\ Taken.nextSeqno > 0 => Turned(Taken, snd')
  BY <1>1, <1>2, FillSound
<1> QED
  BY <1>1, <1>3 DEF IInv, Turned

\* ack_received().
LEMMA PeerAckStep ==
  ASSUME IInv, PeerAck
  PROVE  IInv' /\ snd'.nextSeqno = snd.nextSeqno /\ snd'.crtx = snd.crtx
<1>1. /\ Taken \in Senders /\ SenderSound(Taken)
      /\ Taken.nextSeqno = snd.nextSeqno /\ Taken.crtx = snd.crtx
  BY TakenSound
<1> HIDE DEF Taken
<1>2. PICK p \in 0 .. snd.nextSeqno + 1, win \in Windows :
        snd.nextSeqno > 0 /\ snd' = AckReceived(Taken, Wrap(p, Isn), win)
  BY DEF PeerAck
<1>3. win \in Nat
  BY <1>2, SenderSpecAssumption
<1> QED
  BY <1>1, <1>2, <1>3, AckSound DEF IInv

\* tick().
LEMMA TickStep ==
  ASSUME IInv, Tick
  PROVE  /\ IInv' /\ snd'.nextSeqno = snd.nextSeqno
         /\ \/ snd'.crtx = snd.crtx
            \/ \E o \in snd.outstanding :
                 /\ snd'.segmentsOut = <<o.seg>>
                 /\ snd.acked \in At(o.seg) .. End(o.seg) - 1
<1>1. /\ Taken \in Senders /\ SenderSound(Taken)
      /\ Taken.nextSeqno = snd.nextSeqno /\ Taken.crtx = snd.crtx
      /\ Taken.acked = snd.acked /\ Taken.outstanding = snd.outstanding
      /\ Taken.segmentsOut = <<>> /\ Taken.rto = snd.rto
  BY TakenSound
<1> HIDE DEF Taken
<1>2. PICK ms \in Milliseconds : snd.rto <= MaxRto /\ snd' = TickSender(Taken, ms)
  BY DEF Tick
<1>3. ms \in Nat \ {0}
  BY <1>2, SenderSpecAssumption
<1>4. /\ snd' \in Senders /\ SenderSound(snd') /\ snd'.nextSeqno = Taken.nextSeqno
      /\ \/ snd'.crtx = Taken.crtx
         \/ \E o \in Taken.outstanding :
              /\ snd'.segmentsOut = Append(Taken.segmentsOut, o.seg)
              /\ Taken.acked \in At(o.seg) .. End(o.seg) - 1
  BY <1>1, <1>2, <1>3, TickSound
<1>5. \A seg : Append(<<>>, seg) = <<seg>>
  OBVIOUS
<1> QED
  BY <1>1, <1>4, <1>5 DEF IInv

\* send_empty_segment().
LEMMA SendEmptyStep ==
  ASSUME IInv, SendEmpty
  PROVE  IInv' /\ snd'.nextSeqno = snd.nextSeqno /\ snd'.crtx = 0
<1>1. Taken \in Senders /\ SenderSound(Taken) /\ Taken.nextSeqno = snd.nextSeqno
  BY TakenSound
<1> HIDE DEF Taken
<1> QED
  BY <1>1, EmptySound DEF SendEmpty, IInv

\* Every step keeps the sender sound.
LEMMA NextKeepsIInv == IInv /\ [Next]_vars => IInv'
<1> SUFFICES ASSUME IInv, [Next]_vars PROVE IInv'
  OBVIOUS
<1>1. CASE UNCHANGED vars
  BY <1>1 DEF vars, IInv
<1> QED
  BY <1>1, AppWriteStep, AppEndStep, FillStep, PeerAckStep, TickStep, SendEmptyStep DEF Next

\* The sender is sound in every state.
LEMMA AlwaysSound == Spec => []IInv
  BY InitIInv, NextKeepsIInv, PTL DEF Spec
-----------------------------------------------------------------------------
(***************************************************************************)
(* What it gives.                                                          *)
(***************************************************************************)
\* What the properties call the place of a segment is where it is.
LEMMA Places ==
  ASSUME IInv, NEW o \in snd.outstanding
  PROVE  First(o.seg) = At(o.seg) /\ Past(o.seg) = End(o.seg)
<1>1. /\ snd.isn = Isn /\ snd.acked \in Positions
      /\ At(o.seg) \in Positions /\ o.seg.seqno = Wrap(At(o.seg), Isn)
  BY SenderFields, SoundEnds DEF IInv, SenderSound, SegmentSound
<1>2. First(o.seg) = At(o.seg)
  BY <1>1, PositionIsAt DEF First, PositionOf
<1> QED
  BY <1>2 DEF Past, End

\* Side by side and with no gap: each number is in exactly one segment.
LEMMA IInvCovers == IInv => EverythingCovered
<1> SUFFICES ASSUME IInv PROVE EverythingCovered
  OBVIOUS
<1>1. /\ snd \in Senders /\ SegmentsSound(snd)
      /\ snd.acked \in Nat /\ snd.nextSeqno \in Nat
  BY SenderFields DEF IInv, SenderSound
<1>2. ASSUME NEW p \in snd.acked .. snd.nextSeqno - 1
      PROVE  Cardinality({o \in snd.outstanding :
                            p \in First(o.seg) .. Past(o.seg) - 1}) = 1
  <2>1. PICK o \in snd.outstanding : p \in At(o.seg) .. End(o.seg) - 1
    BY <1>1, <1>2 DEF SegmentsSound
  <2>2. ASSUME NEW q \in snd.outstanding, p \in At(q.seg) .. End(q.seg) - 1
        PROVE  q = o
    <3> SUFFICES ASSUME q # o PROVE FALSE
      OBVIOUS
    <3>1. End(o.seg) <= At(q.seg) \/ End(q.seg) <= At(o.seg)
      BY <1>1 DEF SegmentsSound
    <3>2. /\ At(o.seg) \in Nat /\ End(o.seg) \in Nat
          /\ At(q.seg) \in Nat /\ End(q.seg) \in Nat
      BY <1>1, SoundEnds
    <3> QED
      BY <2>1, <2>2, <3>1, <3>2
  <2>3. {q \in snd.outstanding : p \in First(q.seg) .. Past(q.seg) - 1} = {o}
    <3>1. \A q \in snd.outstanding :
            p \in First(q.seg) .. Past(q.seg) - 1 <=> p \in At(q.seg) .. End(q.seg) - 1
      BY Places
    <3> QED
      BY <2>1, <2>2, <3>1
  <2> QED
    BY <2>3, FS_Singleton
<1>3. ASSUME NEW o \in snd.outstanding
      PROVE  /\ Truthful(o.seg)
             /\ snd.acked < Past(o.seg) /\ Past(o.seg) <= snd.nextSeqno
  <2>1. First(o.seg) = At(o.seg) /\ Past(o.seg) = End(o.seg)
    BY <1>3, Places
  <2>2. /\ SegmentSound(o.seg) /\ At(o.seg) \in Nat /\ At(o.seg) < End(o.seg)
        /\ snd.acked < End(o.seg) /\ End(o.seg) <= snd.nextSeqno
        /\ o.seg \in Segments
    BY <1>1, <1>3, SoundEnds
  <2>3. LengthInSequenceSpace(o.seg) > 0
    BY <2>2, SegmentFields DEF End
  <2> QED
    BY <2>1, <2>2, <2>3 DEF Truthful, SegmentSound
<1> QED
  BY <1>2, <1>3 DEF EverythingCovered

\* The counters and timers of a sound sender.
LEMMA IInvOrders == IInv => FinIsLast /\ TimersInOrder
<1> SUFFICES ASSUME IInv PROVE FinIsLast /\ TimersInOrder
  OBVIOUS
<1>1. FinIsLast
  BY DEF IInv, SenderSound, CountersSound, FinIsLast
<1>2. TimersInOrder
  BY Places DEF IInv, SenderSound, TimersSound, TimersInOrder
<1> QED
  BY <1>1, <1>2

\* Every number sent and not acknowledged is in one outstanding segment with the
\* right content (fill_window, ack_received, tick).
THEOREM EverythingIsCovered == Spec => []EverythingCovered
  BY AlwaysSound, IInvCovers, PTL

\* The FIN is sent once, after every byte (fill_window).
THEOREM FinComesLast == Spec => []FinIsLast
  BY AlwaysSound, IInvOrders, PTL

\* The timers run out in the order of the segments (fill_window, tick).
THEOREM TimersRunOutInOrder == Spec => []TimersInOrder
  BY AlwaysSound, IInvOrders, PTL

\* fill_window sends nothing new beyond the window.
THEOREM NewDataWithinWindow == Spec => WithinWindow
<1> DEFINE Allowed ==
      snd'.nextSeqno # snd.nextSeqno /\ snd.nextSeqno > 0 =>
        snd'.nextSeqno <= snd.acked + snd.window
<1>1. IInv /\ [Next]_vars => [Allowed]_vars
  <2> SUFFICES ASSUME IInv, Next PROVE Allowed
    BY DEF vars
  <2>1. snd.nextSeqno \in Nat
    BY SenderFields DEF IInv
  <2> QED
    BY <2>1, AppWriteStep, AppEndStep, FillStep, PeerAckStep, TickStep, SendEmptyStep DEF Next
<1> QED
  BY <1>1, AlwaysSound, PTL DEF Spec, WithinWindow

\* tick sends again the segment that the peer needs next.
THEOREM RetransmitsWhatIsMissing == Spec => RetransmitsFirstMissing
<1> DEFINE Missing ==
      snd'.crtx > snd.crtx =>
        /\ Len(snd'.segmentsOut) = 1
        /\ snd.acked \in First(snd'.segmentsOut[1]) .. Past(snd'.segmentsOut[1]) - 1
<1>1. IInv /\ [Next]_vars => [Missing]_vars
  <2> SUFFICES ASSUME IInv, Next, snd'.crtx > snd.crtx
               PROVE  /\ Len(snd'.segmentsOut) = 1
                      /\ snd.acked \in First(snd'.segmentsOut[1])
                                         .. Past(snd'.segmentsOut[1]) - 1
    BY DEF vars
  <2>1. snd.crtx \in Nat /\ snd'.crtx \in Nat
    <3>1. IInv'
      BY NextKeepsIInv
    <3> QED
      BY <3>1, SenderFields DEF IInv
  <2>2. Tick
    BY <2>1, AppWriteStep, AppEndStep, FillStep, PeerAckStep, SendEmptyStep DEF Next
  <2>3. PICK o \in snd.outstanding :
          /\ snd'.segmentsOut = <<o.seg>>
          /\ snd.acked \in At(o.seg) .. End(o.seg) - 1
    BY <2>1, <2>2, TickStep
  <2>4. snd'.segmentsOut[1] = o.seg /\ Len(snd'.segmentsOut) = 1
    BY <2>3
  <2> QED
    BY <2>3, <2>4, Places
<1> QED
  BY <1>1, AlwaysSound, PTL DEF Spec, RetransmitsFirstMissing
=============================================================================
