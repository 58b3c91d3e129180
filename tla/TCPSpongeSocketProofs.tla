------------------------ MODULE TCPSpongeSocketProofs ------------------------
(***************************************************************************)
(* A ByteStream between any writer and any reader, and the socket, whose   *)
(* rules 2 and 3 are such a writer and such a reader.                      *)
(*                                                                         *)
(* For every capacity and every stream, a ByteStream hands over exactly    *)
(* what it accepted, and its counters agree with its buffer.  For every    *)
(* owner and every peer whose streams are shorter than half a round of     *)
(* sequence numbers, the socket loses no byte between the owner and the    *)
(* connection and repeats none; the owner's end of file has its reason;    *)
(* only a reset makes the thread die; and the connection goes from state   *)
(* to state as RFC 793 draws it.                                           *)
(*                                                                         *)
(* The invariant of the socket is IInv.  It says of each part what the     *)
(* others rely on: Sending of the sender, Receiving of the receiver, Conn  *)
(* of the connection, Tied of the socket around it, Carried of the bytes   *)
(* between the owner and the streams, Looping of the event loop, Hearing   *)
(* of the peer.  Moves says what no step of the connection undoes; the     *)
(* order of the states follows from it.                                    *)
(***************************************************************************)
EXTENDS TCPSpongeSocketSpec, ByteStreamSpec, SharedLemmas, SequenceTheorems,
        FiniteSetTheorems

(***************************************************************************)
(* The stream: the writer's byte number i is i itself, so what was         *)
(* accepted is Run(0, totWrite); the inductive invariant cuts it where the *)
(* reader is.                                                              *)
(***************************************************************************)
\* The n bytes after the first a.
Run(a, n) == [i \in 1 .. n |-> a + i]

\* A run of bytes is a sequence of that length.
LEMMA RunIsSeq ==
  ASSUME NEW a \in Nat, NEW n \in Nat
  PROVE  Run(a, n) \in Seq(Nat) /\ Len(Run(a, n)) = n
  BY DEF Run

\* Two adjoining runs make one.
LEMMA RunConcat ==
  ASSUME NEW a \in Nat, NEW m \in Nat, NEW n \in Nat
  PROVE  Run(a, m) \o Run(a + m, n) = Run(a, m + n)
  BY DEF Run

\* The first j bytes of a run, and the rest.
LEMMA RunSplit ==
  ASSUME NEW a \in Nat, NEW n \in Nat, NEW j \in 0 .. n
  PROVE  /\ SubSeq(Run(a, n), 1, j) = Run(a, j)
         /\ SubSeq(Run(a, n), j + 1, n) = Run(a + j, n - j)
  BY DEF Run

\* Its members are the numbers it runs through.
LEMMA RunInRange ==
  ASSUME NEW a \in Nat, NEW n \in Nat, NEW t \in Nat, a + n <= t
  PROVE  Run(a, n) \in Seq(1 .. t)
  BY DEF Run
-----------------------------------------------------------------------------
\* The reader has the bytes up to totRead, the buffer those from there up to
\* totWrite, and the room left is the rest of the capacity.
StreamInv ==
  /\ stream \in [cap : {Capacity}, rem : 0 .. Capacity, totRead : Nat,
                 totWrite : 0 .. Total, eof2 : BOOLEAN, error : BOOLEAN,
                 buf : Seq(Nat)]
  /\ stream.totWrite = stream.totRead + (Capacity - stream.rem)
  /\ stream.buf = Run(stream.totRead, Capacity - stream.rem)
  /\ read = Run(0, stream.totRead)

LEMMA StreamInitInv == StreamInit => StreamInv
  BY StreamAssumption DEF StreamInit, StreamInv, NewByteStream, Run

\* write: the accepted bytes continue the run in the buffer.
LEMMA WriteKeepsStreamInv == StreamInv /\ WriteBytes => StreamInv'
<1> SUFFICES ASSUME StreamInv, WriteBytes PROVE StreamInv'
  OBVIOUS
<1>1. PICK n \in 1 .. Total - stream.totWrite :
        /\ stream' = Write(stream, [i \in 1 .. n |-> stream.totWrite + i])
        /\ read' = read
  BY DEF WriteBytes
<1> DEFINE data == Run(stream.totWrite, n)
           m    == Smaller(n, stream.rem)
<1>2. /\ n \in Nat /\ m \in 0 .. n /\ m <= stream.rem /\ stream.totWrite \in Nat
      /\ stream.totWrite + n <= Total
  BY <1>1, StreamAssumption DEF StreamInv, Smaller
<1>3. Len(data) = n /\ SubSeq(data, 1, m) = Run(stream.totWrite, m)
  BY <1>2, RunIsSeq, RunSplit
<1>4. Writable(stream, data) = m
  BY <1>3 DEF Writable
<1>5. stream' = [stream EXCEPT !.buf = @ \o Run(stream.totWrite, m),
                               !.rem = @ - m, !.totWrite = @ + m]
  BY <1>1, <1>3, <1>4 DEF Write, Accepted, Run
<1>6. stream.buf \o Run(stream.totWrite, m)
        = Run(stream.totRead, Capacity - stream.rem + m)
  <2>1. Capacity - stream.rem \in Nat /\ stream.totRead \in Nat /\ m \in Nat
    BY <1>2, StreamAssumption DEF StreamInv
  <2>2. stream.buf = Run(stream.totRead, Capacity - stream.rem)
    BY DEF StreamInv
  <2>3. stream.totWrite = stream.totRead + (Capacity - stream.rem)
    BY DEF StreamInv
  <2> HIDE DEF m
  <2>4. Run(stream.totRead, Capacity - stream.rem)
          \o Run(stream.totRead + (Capacity - stream.rem), m)
        = Run(stream.totRead, Capacity - stream.rem + m)
    BY ONLY <2>1, RunConcat
  <2> QED
    BY <2>2, <2>3, <2>4
<1>7. /\ stream.rem - m \in 0 .. Capacity
      /\ stream.totWrite + m \in 0 .. Total
      /\ Capacity - stream.rem + m = Capacity - (stream.rem - m)
      /\ stream.totWrite + m = stream.totRead + (Capacity - (stream.rem - m))
      /\ Capacity - stream.rem + m \in Nat /\ stream.totRead \in Nat
  <2>1. /\ stream.rem \in 0 .. Capacity /\ stream.totRead \in Nat
        /\ stream.totWrite = stream.totRead + (Capacity - stream.rem)
    BY DEF StreamInv
  <2> HIDE DEF m
  <2> QED
    BY <1>2, <2>1, StreamAssumption
<1>8. Run(stream.totRead, Capacity - stream.rem + m) \in Seq(Nat)
  BY <1>7, RunIsSeq
<1>9. stream' = [stream EXCEPT
                   !.buf = Run(stream.totRead, Capacity - (stream.rem - m)),
                   !.rem = stream.rem - m, !.totWrite = stream.totWrite + m]
  BY <1>5, <1>6, <1>7
<1> HIDE DEF m, data
<1>10. Run(stream.totRead, Capacity - (stream.rem - m)) \in Seq(Nat)
  BY <1>7, <1>8
<1>11. stream' \in [cap : {Capacity}, rem : 0 .. Capacity, totRead : Nat,
                   totWrite : 0 .. Total, eof2 : BOOLEAN, error : BOOLEAN,
                   buf : Seq(Nat)]
  BY <1>7, <1>9, <1>10 DEF StreamInv
<1>12. /\ stream'.totRead = stream.totRead
       /\ stream'.rem = stream.rem - m
       /\ stream'.totWrite = stream.totWrite + m
       /\ stream'.buf = Run(stream.totRead, Capacity - (stream.rem - m))
  BY <1>9 DEF StreamInv
<1>13. read' = Run(0, stream'.totRead)
  BY <1>1, <1>12 DEF StreamInv
<1> QED
  BY ONLY <1>7, <1>11, <1>12, <1>13 DEF StreamInv

\* read: the bytes taken from the front of the buffer continue the reader's run.
LEMMA ReadKeepsStreamInv == StreamInv /\ ReadBytes => StreamInv'
<1> SUFFICES ASSUME StreamInv, ReadBytes PROVE StreamInv'
  OBVIOUS
<1>1. PICK n \in 1 .. BufferSize(stream) :
        /\ read' = read \o PeekOutput(stream, n)
        /\ stream' = PopOutput(stream, n)
  BY DEF ReadBytes
<1> DEFINE size == Capacity - stream.rem
<1>2. /\ size \in Nat /\ n \in 1 .. size /\ stream.totRead \in Nat
      /\ size - n \in Nat /\ stream.totRead + n \in Nat
  BY <1>1, StreamAssumption DEF StreamInv, BufferSize
<1>3. Len(stream.buf) = size
  BY <1>2, RunIsSeq DEF StreamInv
<1>4. Smaller(n, Len(stream.buf)) = n
  BY <1>2, <1>3 DEF Smaller
<1> HIDE DEF size
<1>4a. stream.buf = Run(stream.totRead, size) /\ n \in 0 .. size
  BY <1>2 DEF StreamInv, size
<1>4b. /\ SubSeq(Run(stream.totRead, size), 1, n) = Run(stream.totRead, n)
      /\ SubSeq(Run(stream.totRead, size), n + 1, size)
           = Run(stream.totRead + n, size - n)
  BY <1>2, <1>4a, RunSplit
<1>5. PeekOutput(stream, n) = Run(stream.totRead, n)
  BY <1>4, <1>4a, <1>4b DEF PeekOutput
<1>6. SubSeq(stream.buf, n + 1, Len(stream.buf)) = Run(stream.totRead + n, size - n)
  BY <1>3, <1>4a, <1>4b
<1>7. stream' = [stream EXCEPT !.buf = Run(stream.totRead + n, size - n),
                               !.rem = @ + n, !.totRead = @ + n]
  BY <1>1, <1>4, <1>6 DEF PopOutput
<1>8. read' = Run(0, stream.totRead + n)
  <2>1. read = Run(0, stream.totRead)
    BY DEF StreamInv
  <2>2. Run(0, stream.totRead) \o Run(0 + stream.totRead, n)
          = Run(0, stream.totRead + n)
    <3>1. n \in Nat /\ stream.totRead \in Nat /\ 0 \in Nat
      BY <1>2
    <3> QED
      BY <3>1, RunConcat
  <2>3. 0 + stream.totRead = stream.totRead
    BY <1>2
  <2> QED
    BY <1>1, <1>5, <2>1, <2>2, <2>3
<1>9. Run(stream.totRead + n, size - n) \in Seq(Nat)
  BY <1>2, RunIsSeq
<1>10. /\ stream.rem + n \in 0 .. Capacity
       /\ size - n = Capacity - (stream.rem + n)
       /\ stream.totWrite = stream.totRead + n + (Capacity - (stream.rem + n))
  <2>1. /\ stream.rem \in 0 .. Capacity /\ stream.totRead \in Nat
        /\ stream.totWrite = stream.totRead + (Capacity - stream.rem)
    BY <1>2 DEF StreamInv
  <2> QED
    BY ONLY <1>2, <2>1, StreamAssumption DEF size
<1>11. stream' = [stream EXCEPT !.buf = Run(stream.totRead + n, Capacity - (stream.rem + n)),
                                !.rem = stream.rem + n, !.totRead = stream.totRead + n]
  BY <1>7, <1>10
<1>12. /\ Run(stream.totRead + n, Capacity - (stream.rem + n)) \in Seq(Nat)
       /\ stream.totRead + n \in Nat
  BY <1>2, <1>9, <1>10
<1> HIDE DEF size
<1>13. stream' \in [cap : {Capacity}, rem : 0 .. Capacity, totRead : Nat,
                   totWrite : 0 .. Total, eof2 : BOOLEAN, error : BOOLEAN,
                   buf : Seq(Nat)]
  BY <1>10, <1>11, <1>12 DEF StreamInv
<1>14. /\ stream'.totRead = stream.totRead + n
       /\ stream'.rem = stream.rem + n
       /\ stream'.totWrite = stream.totWrite
       /\ stream'.buf = Run(stream.totRead + n, Capacity - (stream.rem + n))
  BY <1>11 DEF StreamInv
<1> QED
  BY ONLY <1>8, <1>10, <1>13, <1>14 DEF StreamInv

LEMMA NextKeepsStreamInv == StreamInv /\ [StreamNext]_streamVars => StreamInv'
<1> SUFFICES ASSUME StreamInv, [StreamNext]_streamVars PROVE StreamInv'
  OBVIOUS
<1>1. CASE WriteBytes
  BY <1>1, WriteKeepsStreamInv
<1>2. CASE CloseInput
  BY <1>2 DEF StreamInv, CloseInput, EndInput
<1>3. CASE ReportError
  BY <1>3 DEF StreamInv, ReportError, SetError
<1>4. CASE ReadBytes
  BY <1>4, ReadKeepsStreamInv
<1>5. CASE UNCHANGED streamVars
  BY <1>5 DEF StreamInv, streamVars
<1> QED
  BY <1>1, <1>2, <1>3, <1>4, <1>5 DEF StreamNext

LEMMA StreamInvHolds == StreamSpec => []StreamInv
  BY StreamInitInv, NextKeepsStreamInv, PTL DEF StreamSpec
-----------------------------------------------------------------------------
\* The stream has the fields and types of the class (byte_stream.hh:14-22).
THEOREM StreamTypeCorrect == StreamSpec => []TypeOK
<1>1. StreamInv => TypeOK
  <2> SUFFICES ASSUME StreamInv PROVE TypeOK
    OBVIOUS
  <2>1. /\ Capacity - stream.rem \in Nat /\ stream.totRead \in Nat
        /\ stream.totRead + (Capacity - stream.rem) <= Total
    BY StreamAssumption DEF StreamInv
  <2>2. stream.buf \in Seq(1 .. Total)
    BY <2>1, RunInRange, StreamAssumption DEF StreamInv
  <2>3. read \in Seq(1 .. Total)
    BY <2>1, RunInRange, StreamAssumption DEF StreamInv
  <2> QED
    BY <2>2, <2>3, StreamAssumption DEF StreamInv, TypeOK, ByteStreams
<1> QED
  BY <1>1, StreamInvHolds, PTL

\* buffer_size, remaining_capacity and eof, computed from the counters, speak of
\* the bytes really held (byte_stream.cc:54-64).
THEOREM AccountingHolds == StreamSpec => []Accounting
<1>1. StreamInv => Accounting
  <2> SUFFICES ASSUME StreamInv PROVE Accounting
    OBVIOUS
  <2>1. Capacity - stream.rem \in Nat /\ stream.totRead \in Nat
    BY StreamAssumption DEF StreamInv
  <2>2. Len(stream.buf) = Capacity - stream.rem /\ Len(read) = stream.totRead
    BY <2>1, RunIsSeq DEF StreamInv
  <2> QED
    BY <2>2, StreamAssumption DEF StreamInv, Accounting, BufferSize
<1> QED
  BY <1>1, StreamInvHolds, PTL

\* What was read followed by what is buffered is what was accepted: no byte is
\* lost, repeated or out of order (byte_stream.cc:20-48).
THEOREM FifoHolds == StreamSpec => []Fifo
<1>1. StreamInv => Fifo
  <2> SUFFICES ASSUME StreamInv PROVE Fifo
    OBVIOUS
  <2>1. Capacity - stream.rem \in Nat /\ stream.totRead \in Nat
    BY StreamAssumption DEF StreamInv
  <2>2. read \o stream.buf = Run(0, stream.totWrite)
    <3>1. /\ read = Run(0, stream.totRead)
          /\ stream.buf = Run(stream.totRead, Capacity - stream.rem)
          /\ stream.totWrite = stream.totRead + (Capacity - stream.rem)
      BY DEF StreamInv
    <3>2. 0 + stream.totRead = stream.totRead
      BY <2>1
    <3>3. Run(0, stream.totRead) \o Run(0 + stream.totRead, Capacity - stream.rem)
            = Run(0, stream.totRead + (Capacity - stream.rem))
      BY <2>1, RunConcat
    <3> QED
      BY <3>1, <3>2, <3>3
  <2>3. Run(0, stream.totWrite) = [i \in 1 .. stream.totWrite |-> i]
    BY StreamAssumption DEF Run, StreamInv
  <2> QED
    BY <2>2, <2>3 DEF Fifo
<1> QED
  BY <1>1, StreamInvHolds, PTL
-----------------------------------------------------------------------------
(***************************************************************************)
(* The socket.                                                             *)
(***************************************************************************)
\* A stream is shorter than half a round of sequence numbers, so that no position is
\* taken for one a round away, and than the largest size_t with the window it meets.
SocketBounds ==
  /\ 2 * (OwnerLen + 3) < Round
  /\ 2 * (PeerLen + 3) < Round
  /\ PeerLen + RecvCapacity < Word - 1

\* What is known of the constants.
LEMMA SocketFacts ==
  ASSUME SocketBounds
  PROVE  /\ Round \in Nat /\ Word \in Nat /\ Word >= 4 * Round /\ 0 \in RawValues
         /\ OwnerLen \in Nat /\ PeerLen \in Nat /\ MaxInbox \in Nat /\ PeerWindow \in Nat
         /\ SendCapacity \in Nat /\ RecvCapacity \in Nat /\ UInt16Max \in Nat
         /\ LingerFactor \in Nat /\ MaxRetxAttempts \in Nat
         /\ MaxPayload \in Nat /\ MaxPayload >= 1 /\ RetxTimeout \in Nat
         /\ UIntRange \in Nat \ {0} /\ PipeSize \in Nat /\ PipeSize >= 1 /\ TickMs \in Nat
         /\ Bounds(RecvCapacity, PeerLen)
<1>1. Round \in Nat /\ Word \in Nat /\ Word >= 4 * Round /\ 0 \in RawValues
  BY WidthAssumption DEF RawValues
<1>2. /\ OwnerLen \in Nat /\ PeerLen \in Nat /\ MaxInbox \in Nat /\ PeerWindow \in Nat
      /\ SendCapacity \in Nat /\ RecvCapacity \in Nat /\ UInt16Max \in Nat
      /\ LingerFactor \in Nat /\ MaxRetxAttempts \in Nat
  BY SocketAssumption, ConnectionAssumption
<1>3. /\ MaxPayload \in Nat /\ MaxPayload >= 1 /\ RetxTimeout \in Nat
      /\ UIntRange \in Nat \ {0} /\ PipeSize \in Nat /\ PipeSize >= 1 /\ TickMs \in Nat
  BY SocketAssumption, SenderAssumption, PipeAssumption
<1>4. Bounds(RecvCapacity, PeerLen)
  BY <1>2 DEF Bounds, SocketBounds
<1> QED
  BY <1>1, <1>2, <1>3, <1>4

\* A position of either stream is the number in the header.
LEMMA Near ==
  ASSUME SocketBounds, NEW x \in Nat, 2 * x < Round
  PROVE  /\ Wrap(x, 0) = x /\ x \in RawValues
         /\ \A cp \in Nat : 2 * cp < Round => Unwrap(x, 0, cp) = x
<1>1. Round \in Nat \ {0} /\ Word \in Nat /\ Word >= 4 * Round /\ 0 \in RawValues
  BY WidthAssumption, SocketFacts
<1>2. x \in 0 .. Round - 1
  BY <1>1
<1>3. x % Round = x
  BY <1>1, <1>2, SMTT(20)
<1>4. Wrap(x, 0) = x
  BY <1>3 DEF Wrap
<1>5. ASSUME NEW cp \in Nat, 2 * cp < Round PROVE Unwrap(x, 0, cp) = x
  <2>1. cp + 2 * Round <= Word /\ 2 * Distance(x, cp) < Round
    BY <1>1, <1>5 DEF Distance
  <2>2. Unwrap(Wrap(x, 0), 0, cp) = x
    BY <1>1, <2>1, UnwrapInvertsWrap
  <2> QED
    BY <1>4, <2>2
<1> QED
  BY <1>2, <1>4, <1>5 DEF RawValues
-----------------------------------------------------------------------------
(***************************************************************************)
(* The sender.  The initial sequence number is 0, so that a position is    *)
(* its own sequence number.                                                *)
(***************************************************************************)
Outgoing == {seg \in TCPSegments(Nat) : Len(seg.payload) <= MaxPayload}

Timers == [seg : Outgoing, left : Int]

\* The position after a segment.
End(seg) == seg.seqno + LengthInSequenceSpace(seg)

Senders ==
  [isn : {0}, stream : Streams(SendCapacity), nextSeqno : Nat, window : Int,
   acked : Nat, outstanding : SUBSET Timers, rto : Nat, crtx : Nat,
   finSent : BOOLEAN, zeroWindow : BOOLEAN, segmentsOut : Seq(Outgoing)]

\* The stream holds what the owner has written and the sender has not read.
Flowing(b) ==
  /\ b \in Streams(SendCapacity)
  /\ b.totWrite = b.totRead + (SendCapacity - b.rem)
  /\ b.totWrite <= OwnerLen
  /\ b.buf = Excerpt(b.totRead, SendCapacity - b.rem)

\* Before the SYN nothing has been read from the stream, and afterwards a position
\* has been used for the SYN, for each byte read and for the FIN.
Counting(s) ==
  /\ s.nextSeqno = 0 =>
       s.window = NoWindow /\ s.stream.totRead = 0 /\ ~ s.finSent /\ s.outstanding = {}
  /\ s.nextSeqno > 0 =>
       s.window >= 1 /\ s.nextSeqno = 1 + s.stream.totRead + One(s.finSent)
  /\ s.finSent => Eof(s.stream)

\* What is outstanding has been sent, and holds the last position sent unless that
\* is acknowledged.
Covering(s) ==
  /\ s.acked <= s.nextSeqno
  /\ BytesInFlight(s) <= s.nextSeqno
  /\ \A o \in s.outstanding : End(o.seg) <= s.nextSeqno
  /\ s.nextSeqno > s.acked =>
       \E o \in s.outstanding :
         End(o.seg) = s.nextSeqno /\ LengthInSequenceSpace(o.seg) > 0

Sending(s) ==
  /\ s \in Senders /\ IsFiniteSet(s.outstanding)
  /\ Flowing(s.stream) /\ Counting(s) /\ Covering(s)

\* fill_window has gone as far as it could: an ended stream all of which has been
\* read lacks its FIN only for want of room.
Filled(s) == Eof(s.stream) /\ ~ s.finSent => Room(s) <= 0

\* What a sender may become: it sends more, and what it has sent is acknowledged.
Later(s, t) ==
  /\ s.nextSeqno <= t.nextSeqno
  /\ s.nextSeqno - BytesInFlight(s) <= t.nextSeqno - BytesInFlight(t)
  /\ s.finSent => t.finSent /\ BytesInFlight(t) <= BytesInFlight(s)
  /\ s.stream.error => t.stream.error
  /\ Eof(s.stream) => Eof(t.stream)

\* Neither write, end_input nor set_error.
SameInput(b, d) == d.totWrite = b.totWrite /\ d.eof2 = b.eof2 /\ d.error = b.error

\* The types of a sender's fields.
LEMMA SenderFields ==
  ASSUME NEW s \in Senders
  PROVE  /\ s.isn = 0 /\ s.stream \in Streams(SendCapacity) /\ s.nextSeqno \in Nat
         /\ s.window \in Int /\ s.acked \in Nat /\ s.outstanding \subseteq Timers
         /\ s.rto \in Nat /\ s.crtx \in Nat /\ s.finSent \in BOOLEAN
         /\ s.zeroWindow \in BOOLEAN /\ s.segmentsOut \in Seq(Outgoing)
  BY DEF Senders

\* The fields of a segment, and how far it reaches.
LEMMA SegmentFields ==
  ASSUME SocketBounds, NEW seg \in Outgoing
  PROVE  /\ seg.syn \in BOOLEAN /\ seg.ack \in BOOLEAN /\ seg.fin \in BOOLEAN
         /\ seg.rst \in BOOLEAN /\ seg.seqno \in RawValues /\ seg.ackno \in RawValues
         /\ seg.win \in Nat /\ seg.payload \in Seq(Nat) /\ Len(seg.payload) \in Nat
         /\ seg.seqno \in Nat /\ seg.seqno < Round
         /\ LengthInSequenceSpace(seg) \in 0 .. MaxPayload + 2
         /\ LengthInSequenceSpace(seg) \in Nat
         /\ End(seg) \in Nat /\ End(seg) <= Round + MaxPayload + 2
<1>1. /\ seg.syn \in BOOLEAN /\ seg.ack \in BOOLEAN /\ seg.fin \in BOOLEAN
      /\ seg.rst \in BOOLEAN /\ seg.seqno \in RawValues /\ seg.ackno \in RawValues
      /\ seg.win \in Nat /\ seg.payload \in Seq(Nat) /\ Len(seg.payload) <= MaxPayload
  BY DEF Outgoing, TCPSegments
<1>2. Len(seg.payload) \in Nat
  BY <1>1, LenProperties
<1>3. seg.seqno \in Nat /\ seg.seqno < Round /\ Round \in Nat /\ MaxPayload \in Nat
  <2>1. Round \in Nat /\ MaxPayload \in Nat
    BY SocketFacts
  <2> QED
    BY <1>1, <2>1 DEF RawValues
<1>4. One(seg.syn) \in 0 .. 1 /\ One(seg.fin) \in 0 .. 1
  BY DEF One
<1>5. LengthInSequenceSpace(seg) \in 0 .. MaxPayload + 2
  BY <1>1, <1>2, <1>3, <1>4 DEF LengthInSequenceSpace
<1> QED
  BY <1>1, <1>2, <1>3, <1>5 DEF End

\* The empty segment.
LEMMA NothingIsSegment ==
  ASSUME SocketBounds
  PROVE  /\ EmptySegment \in Outgoing
         /\ EmptySegment.payload = <<>> /\ ~ EmptySegment.syn /\ ~ EmptySegment.fin
         /\ ~ EmptySegment.ack /\ ~ EmptySegment.rst
<1>1. 0 \in RawValues /\ <<>> \in Seq(Nat) /\ Len(<<>>) = 0 /\ 0 <= MaxPayload
  BY SocketFacts
<1> QED
  BY <1>1 DEF EmptySegment, Outgoing, TCPSegments
-----------------------------------------------------------------------------
\* The sequence numbers that a set of timed segments takes.
Taken(S) == UNION {{o} \X (1 .. LengthInSequenceSpace(o.seg)) : o \in S}

LEMMA TakenIs ==
  ASSUME NEW s
  PROVE  BytesInFlight(s) = Cardinality(Taken(s.outstanding))
  BY DEF BytesInFlight, Taken

\* One segment takes as many as its length.
LEMMA TakenByOne ==
  ASSUME SocketBounds, NEW o \in Timers
  PROVE  /\ IsFiniteSet({o} \X (1 .. LengthInSequenceSpace(o.seg)))
         /\ Cardinality({o} \X (1 .. LengthInSequenceSpace(o.seg)))
              = LengthInSequenceSpace(o.seg)
<1> DEFINE n == LengthInSequenceSpace(o.seg)
<1>1. n \in Nat
  BY SegmentFields DEF Timers
<1> HIDE DEF n
<1>2. IsFiniteSet(1 .. n) /\ Cardinality(1 .. n) = n
  BY <1>1, FS_Interval
<1>3. IsFiniteSet({o}) /\ Cardinality({o}) = 1
  BY FS_Singleton
<1>4. /\ IsFiniteSet({o} \X (1 .. n))
      /\ Cardinality({o} \X (1 .. n)) = Cardinality({o}) * Cardinality(1 .. n)
  BY <1>2, <1>3, FS_Product
<1> QED
  BY <1>1, <1>2, <1>3, <1>4 DEF n

\* What a function makes of a finite set is finite.
LEMMA ImageIsFinite ==
  ASSUME NEW S, IsFiniteSet(S), NEW f, f = [x \in S |-> f[x]]
  PROVE  IsFiniteSet({f[x] : x \in S})
<1> DEFINE T == {f[x] : x \in S}
<1>1. f \in Surjection(S, T)
  BY DEF Surjection
<1> HIDE DEF T
<1>2. IsFiniteSet(T)
  BY <1>1, FS_Surjection
<1> QED
  BY <1>2 DEF T

LEMMA TakenIsFinite ==
  ASSUME SocketBounds, NEW S \in SUBSET Timers, IsFiniteSet(S)
  PROVE  IsFiniteSet(Taken(S)) /\ Cardinality(Taken(S)) \in Nat
<1> DEFINE f == [x \in S |-> {x} \X (1 .. LengthInSequenceSpace(x.seg))]
           C == {f[x] : x \in S}
<1>1. IsFiniteSet(C)
  <2>1. f = [x \in S |-> f[x]]
    OBVIOUS
  <2> HIDE DEF f
  <2> QED
    BY <2>1, ImageIsFinite
<1>2. \A T \in C : IsFiniteSet(T)
  <2> SUFFICES ASSUME NEW x \in S PROVE IsFiniteSet(f[x])
    OBVIOUS
  <2> QED
    BY TakenByOne
<1>3. UNION C = Taken(S)
  BY DEF Taken
<1> HIDE DEF C
<1>4. IsFiniteSet(UNION C)
  BY <1>1, <1>2, FS_UNION
<1> QED
  BY <1>3, <1>4, FS_CardinalityType

\* One more segment takes no more than its length.
LEMMA TakenAdds ==
  ASSUME SocketBounds, NEW S \in SUBSET Timers, IsFiniteSet(S), NEW o \in Timers
  PROVE  /\ IsFiniteSet(S \cup {o})
         /\ Cardinality(Taken(S \cup {o}))
              <= Cardinality(Taken(S)) + LengthInSequenceSpace(o.seg)
<1> DEFINE T == {o} \X (1 .. LengthInSequenceSpace(o.seg))
           U == Taken(S)
<1>1. Taken(S \cup {o}) = U \cup T
  BY DEF Taken
<1>2. IsFiniteSet(U) /\ IsFiniteSet(T) /\ Cardinality(T) = LengthInSequenceSpace(o.seg)
  BY TakenIsFinite, TakenByOne
<1> HIDE DEF T, U
<1>3. /\ Cardinality(U \cup T) = Cardinality(U) + Cardinality(T) - Cardinality(U \cap T)
      /\ Cardinality(U) \in Nat /\ Cardinality(T) \in Nat
  BY <1>2, FS_Union, FS_CardinalityType
<1>4. Cardinality(U \cap T) \in Nat
  <2>1. IsFiniteSet(U \cap T)
    <3>1. U \cap T \in SUBSET U
      OBVIOUS
    <3> HIDE DEF U
    <3> QED
      BY <1>2, <3>1, FS_Subset
  <2> QED
    BY <2>1, FS_CardinalityType
<1>5. IsFiniteSet(S \cup {o})
  BY FS_AddElement
<1>6. Cardinality(U \cup T) <= Cardinality(U) + Cardinality(T)
  BY ONLY <1>3, <1>4
<1> QED
  BY <1>1, <1>2, <1>5, <1>6 DEF U

\* Segments forgotten, the timers of the others changed: no more is taken.
Thinned(S, T) ==
  \E f : /\ f = [x \in DOMAIN f |-> f[x]] /\ DOMAIN f \subseteq S
         /\ T = {f[x] : x \in DOMAIN f} /\ \A x \in DOMAIN f : f[x].seg = x.seg

LEMMA TakenThins ==
  ASSUME SocketBounds, NEW S \in SUBSET Timers, IsFiniteSet(S),
         NEW T \in SUBSET Timers, Thinned(S, T)
  PROVE  IsFiniteSet(T) /\ Cardinality(Taken(T)) <= Cardinality(Taken(S))
<1>1. PICK f : /\ f = [x \in DOMAIN f |-> f[x]] /\ DOMAIN f \subseteq S
               /\ T = {f[x] : x \in DOMAIN f} /\ \A x \in DOMAIN f : f[x].seg = x.seg
  BY DEF Thinned
<1> DEFINE R == DOMAIN f
<1>2. IsFiniteSet(R)
  BY <1>1, FS_Subset
<1>3. IsFiniteSet(T)
  BY <1>1, <1>2, ImageIsFinite
<1>4. IsFiniteSet(Taken(R)) /\ IsFiniteSet(Taken(S)) /\ Taken(R) \subseteq Taken(S)
  <2>1. R \in SUBSET Timers
    BY <1>1
  <2>2. Taken(R) \subseteq Taken(S)
    BY <1>1 DEF Taken
  <2> QED
    BY <1>2, <2>1, <2>2, TakenIsFinite
<1> DEFINE g == [p \in Taken(R) |-> <<f[p[1]], p[2]>>]
<1>5. g \in Surjection(Taken(R), Taken(T))
  <2>1. ASSUME NEW p \in Taken(R) PROVE g[p] \in Taken(T)
    <3>1. PICK o \in R : p \in {o} \X (1 .. LengthInSequenceSpace(o.seg))
      BY <2>1 DEF Taken
    <3>2. p[1] = o /\ p[2] \in 1 .. LengthInSequenceSpace(o.seg)
      BY <3>1
    <3>3. f[o] \in T /\ LengthInSequenceSpace(f[o].seg) = LengthInSequenceSpace(o.seg)
      BY <1>1
    <3>4. <<f[o], p[2]>> \in {f[o]} \X (1 .. LengthInSequenceSpace(f[o].seg))
      BY <3>2, <3>3
    <3> QED
      BY <2>1, <3>2, <3>3, <3>4 DEF Taken
  <2>2. ASSUME NEW q \in Taken(T) PROVE \E p \in Taken(R) : g[p] = q
    <3>1. PICK y \in T : q \in {y} \X (1 .. LengthInSequenceSpace(y.seg))
      BY <2>2 DEF Taken
    <3>2. PICK o \in R : y = f[o]
      BY <1>1
    <3>3. q[2] \in 1 .. LengthInSequenceSpace(o.seg) /\ q = <<f[o], q[2]>>
      BY <1>1, <3>1, <3>2
    <3>4. <<o, q[2]>> \in {o} \X (1 .. LengthInSequenceSpace(o.seg))
      BY <3>3
    <3>5. <<o, q[2]>> \in Taken(R)
      BY <3>2, <3>4 DEF Taken
    <3> QED
      BY <3>3, <3>5
  <2>3. g \in [Taken(R) -> Taken(T)]
    BY <2>1
  <2> HIDE DEF g
  <2> QED
    BY <2>2, <2>3 DEF Surjection
<1> HIDE DEF g
<1>6. Cardinality(Taken(T)) <= Cardinality(Taken(R)) /\ IsFiniteSet(Taken(T))
  BY <1>4, <1>5, FS_Surjection
<1>7. Cardinality(Taken(R)) <= Cardinality(Taken(S))
  BY <1>4, FS_Subset
<1>8. /\ Cardinality(Taken(T)) \in Nat /\ Cardinality(Taken(R)) \in Nat
      /\ Cardinality(Taken(S)) \in Nat
  BY <1>4, <1>6, FS_CardinalityType
<1> HIDE DEF R
<1> QED
  BY <1>3, <1>6, <1>7, <1>8

\* When nothing is in flight nothing that takes up sequence numbers is outstanding.
LEMMA NothingInFlight ==
  ASSUME SocketBounds, NEW s, s \in Senders, IsFiniteSet(s.outstanding),
         BytesInFlight(s) = 0, NEW o \in s.outstanding
  PROVE  LengthInSequenceSpace(o.seg) = 0
<1>1. s.outstanding \in SUBSET Timers
  BY SenderFields
<1>2. Taken(s.outstanding) = {}
  BY <1>1, TakenIsFinite, TakenIs, FS_EmptySet
<1>3. o \in Timers /\ LengthInSequenceSpace(o.seg) \in Nat
  BY <1>1, SegmentFields DEF Timers
<1>4. SUFFICES ASSUME LengthInSequenceSpace(o.seg) > 0 PROVE FALSE
  BY <1>3
<1>5. 1 \in 1 .. LengthInSequenceSpace(o.seg)
  BY <1>3, <1>4
<1>6. <<o, 1>> \in {o} \X (1 .. LengthInSequenceSpace(o.seg))
  BY <1>5
<1>7. <<o, 1>> \in Taken(s.outstanding)
  BY <1>6 DEF Taken
<1> QED
  BY <1>2, <1>7

\* The number in flight is one.
LEMMA InFlightType ==
  ASSUME SocketBounds, NEW s, s \in Senders, IsFiniteSet(s.outstanding)
  PROVE  BytesInFlight(s) \in Nat
  BY SenderFields, TakenIsFinite, TakenIs
-----------------------------------------------------------------------------
\* A stream holds at most its capacity.
LEMMA FlowFields ==
  ASSUME SocketBounds, NEW b, Flowing(b)
  PROVE  /\ b \in Streams(SendCapacity) /\ b.cap = SendCapacity /\ SendCapacity \in Nat
         /\ b.rem \in 0 .. SendCapacity /\ b.totRead \in Nat /\ b.totWrite \in Nat
         /\ b.eof2 \in BOOLEAN /\ b.error \in BOOLEAN
         /\ b.totRead <= b.totWrite /\ b.totWrite <= OwnerLen /\ b.totRead <= OwnerLen
         /\ OwnerLen \in Nat
         /\ BufferSize(b) = SendCapacity - b.rem /\ BufferSize(b) \in Nat
         /\ b.totWrite = b.totRead + BufferSize(b)
         /\ (BufferEmpty(b) <=> BufferSize(b) = 0)
         /\ (BufferEmpty(b) <=> b.totRead = b.totWrite)
         /\ Len(b.buf) = BufferSize(b)
<1>1. SendCapacity \in Nat /\ OwnerLen \in Nat
  BY SocketFacts
<1>2. /\ b.cap = SendCapacity /\ b.rem \in 0 .. SendCapacity /\ b.totRead \in Nat
      /\ b.totWrite \in Nat /\ b.eof2 \in BOOLEAN /\ b.error \in BOOLEAN
  BY DEF Flowing, Streams
<1>3. /\ b.totWrite = b.totRead + (SendCapacity - b.rem) /\ b.totWrite <= OwnerLen
      /\ b.buf = Excerpt(b.totRead, SendCapacity - b.rem) /\ b \in Streams(SendCapacity)
  BY DEF Flowing
<1>4. SendCapacity - b.rem \in Nat
  BY <1>1, <1>2
<1>5. Len(b.buf) = SendCapacity - b.rem
  BY <1>2, <1>3, <1>4, ExcerptIsSeq
<1>6. BufferSize(b) = SendCapacity - b.rem
  BY <1>2 DEF BufferSize
<1>7. BufferEmpty(b) <=> SendCapacity - b.rem = 0
  BY <1>1, <1>2 DEF BufferEmpty
<1> QED
  BY <1>1, <1>2, <1>3, <1>4, <1>5, <1>6, <1>7

\* What is known of a sender's numbers.
LEMMA CountFields ==
  ASSUME SocketBounds, NEW s, Sending(s)
  PROVE  /\ s \in Senders /\ IsFiniteSet(s.outstanding) /\ Flowing(s.stream)
         /\ s.nextSeqno \in 0 .. OwnerLen + 2 /\ s.nextSeqno \in Nat
         /\ 2 * s.nextSeqno < Round /\ Round \in Nat
         /\ s.acked \in Nat /\ s.acked <= s.nextSeqno /\ 2 * s.acked < Round
         /\ BytesInFlight(s) \in Nat /\ BytesInFlight(s) <= s.nextSeqno
         /\ s.finSent \in BOOLEAN /\ s.window \in Int
         /\ (s.nextSeqno = 0 <=> s.window = NoWindow)
         /\ (s.finSent => s.nextSeqno > 0)
<1>1. s \in Senders /\ IsFiniteSet(s.outstanding) /\ Flowing(s.stream)
  BY DEF Sending
<1>2. /\ s.nextSeqno \in Nat /\ s.acked \in Nat /\ s.finSent \in BOOLEAN /\ s.window \in Int
      /\ BytesInFlight(s) \in Nat
  BY <1>1, SenderFields, InFlightType
<1>3. s.stream.totRead \in Nat /\ s.stream.totRead <= OwnerLen /\ OwnerLen \in Nat
  BY <1>1, FlowFields
<1>4. One(s.finSent) \in 0 .. 1 /\ Round \in Nat /\ 2 * (OwnerLen + 3) < Round
  BY SocketFacts DEF One, SocketBounds
<1>5. /\ s.nextSeqno = 0 => s.window = NoWindow /\ ~ s.finSent
      /\ s.nextSeqno > 0 => s.window >= 1 /\ s.nextSeqno = 1 + s.stream.totRead + One(s.finSent)
  BY DEF Sending, Counting
<1>6. s.acked <= s.nextSeqno /\ BytesInFlight(s) <= s.nextSeqno
  BY DEF Sending, Covering
<1>7. s.nextSeqno \in 0 .. OwnerLen + 2
  BY <1>2, <1>3, <1>4, <1>5
<1>8. s.nextSeqno = 0 <=> s.window = NoWindow
  BY <1>2, <1>5 DEF NoWindow
<1>9. s.finSent => s.nextSeqno > 0
  BY <1>2, <1>5
<1>10. 2 * s.nextSeqno < Round /\ 2 * s.acked < Round
  BY ONLY <1>2, <1>3, <1>4, <1>6, <1>7
<1> QED
  BY <1>1, <1>2, <1>4, <1>6, <1>7, <1>8, <1>9, <1>10

\* Becoming later, twice.
LEMMA LaterTwice ==
  ASSUME SocketBounds, NEW s, Sending(s), NEW t, Sending(t), NEW u, Sending(u),
         Later(s, t), Later(t, u)
  PROVE  Later(s, u)
<1>1. /\ s.nextSeqno \in Nat /\ t.nextSeqno \in Nat /\ u.nextSeqno \in Nat
      /\ BytesInFlight(s) \in Nat /\ BytesInFlight(t) \in Nat /\ BytesInFlight(u) \in Nat
  BY CountFields
<1> QED
  BY <1>1 DEF Later

LEMMA LaterSelf ==
  ASSUME SocketBounds, NEW s, Sending(s)
  PROVE  Later(s, s)
<1>1. s.nextSeqno \in Nat /\ BytesInFlight(s) \in Nat
  BY CountFields
<1> QED
  BY <1>1 DEF Later

\* A sender that has forgotten segments up to a position acknowledged, or changed
\* their timers, or its queue.
LEMMA FewerSending ==
  ASSUME SocketBounds, NEW s, Sending(s), NEW t, t \in Senders,
         t.stream = s.stream, t.nextSeqno = s.nextSeqno, t.finSent = s.finSent,
         t.window = s.window \/ (s.nextSeqno > 0 /\ t.window >= 1),
         Thinned(s.outstanding, t.outstanding),
         t.acked \in s.acked .. s.nextSeqno,
         \A o \in s.outstanding : End(o.seg) > t.acked =>
           \E p \in t.outstanding : p.seg = o.seg
  PROVE  Sending(t) /\ Later(s, t)
<1>1. /\ s.nextSeqno \in Nat /\ s.acked \in Nat /\ s.acked <= s.nextSeqno
      /\ BytesInFlight(s) \in Nat /\ BytesInFlight(s) <= s.nextSeqno
      /\ s \in Senders /\ IsFiniteSet(s.outstanding)
  BY CountFields
<1>2. IsFiniteSet(t.outstanding) /\ BytesInFlight(t) <= BytesInFlight(s)
      /\ BytesInFlight(t) \in Nat
  <2>1. s.outstanding \in SUBSET Timers /\ t.outstanding \in SUBSET Timers
    BY <1>1, SenderFields
  <2>2. IsFiniteSet(t.outstanding)
        /\ Cardinality(Taken(t.outstanding)) <= Cardinality(Taken(s.outstanding))
    BY <1>1, <2>1, TakenThins
  <2> QED
    BY <2>1, <2>2, TakenIs, InFlightType
<1>3. \A p \in t.outstanding : \E o \in s.outstanding : p.seg = o.seg
  <2>1. PICK f : /\ f = [x \in DOMAIN f |-> f[x]] /\ DOMAIN f \subseteq s.outstanding
                 /\ t.outstanding = {f[x] : x \in DOMAIN f}
                 /\ \A x \in DOMAIN f : f[x].seg = x.seg
    BY DEF Thinned
  <2> QED
    BY <2>1
<1>4. Covering(t)
  <2>1. \A p \in t.outstanding : End(p.seg) <= t.nextSeqno
    BY <1>3 DEF Sending, Covering
  <2>2. ASSUME t.nextSeqno > t.acked
        PROVE  \E p \in t.outstanding :
                 End(p.seg) = t.nextSeqno /\ LengthInSequenceSpace(p.seg) > 0
    <3>1. s.nextSeqno > s.acked
      BY <1>1, <2>2
    <3>2. PICK o \in s.outstanding :
            End(o.seg) = s.nextSeqno /\ LengthInSequenceSpace(o.seg) > 0
      BY <3>1 DEF Sending, Covering
    <3>3. PICK p \in t.outstanding : p.seg = o.seg
      BY <2>2, <3>2
    <3> QED
      BY <3>2, <3>3
  <2>3. t.acked <= t.nextSeqno /\ BytesInFlight(t) <= t.nextSeqno
    BY <1>1, <1>2
  <2> QED
    BY <2>1, <2>2, <2>3 DEF Covering
<1>5. Counting(t)
  <2>1. t.nextSeqno = 0 => t.outstanding = {}
    BY <1>3 DEF Sending, Counting
  <2>2. Counting(s)
    BY DEF Sending
  <2> QED
    BY <1>1, <2>1, <2>2 DEF Counting
<1>6. Later(s, t)
  BY <1>1, <1>2 DEF Later
<1> QED
  BY <1>2, <1>4, <1>5, <1>6 DEF Sending

\* The set itself, and the set with every timer changed.
LEMMA ThinnedTimers ==
  ASSUME NEW S, NEW R \in SUBSET S, NEW left, NEW T,
         T = {[o EXCEPT !.left = left[o]] : o \in R}
  PROVE  Thinned(S, T)
<1> DEFINE f == [x \in R |-> [x EXCEPT !.left = left[x]]]
<1>1. \A o \in R : [o EXCEPT !.left = left[o]].seg = o.seg
  OBVIOUS
<1>2. /\ f = [x \in DOMAIN f |-> f[x]] /\ DOMAIN f \subseteq S
      /\ T = {f[x] : x \in DOMAIN f} /\ \A x \in DOMAIN f : f[x].seg = x.seg
  BY <1>1
<1> HIDE DEF f
<1> QED
  BY <1>2 DEF Thinned

LEMMA ThinnedNot == ASSUME NEW S PROVE Thinned(S, S)
<1> DEFINE f == [x \in S |-> x]
<1>1. /\ f = [x \in DOMAIN f |-> f[x]] /\ DOMAIN f \subseteq S
      /\ S = {f[x] : x \in DOMAIN f} /\ \A x \in DOMAIN f : f[x].seg = x.seg
  OBVIOUS
<1> HIDE DEF f
<1> QED
  BY <1>1 DEF Thinned
-----------------------------------------------------------------------------
\* An acknowledgment, whatever it is of: only a credible one counts.
LEMMA AckSending ==
  ASSUME SocketBounds, NEW s, Sending(s), s.nextSeqno > 0, NEW ackno \in Nat, NEW win \in Nat
  PROVE  LET t == AckReceived(s, ackno, win)
         IN  /\ Sending(t) /\ Later(s, t) /\ t.stream = s.stream /\ t.finSent = s.finSent
             /\ t.nextSeqno = s.nextSeqno /\ t.segmentsOut = s.segmentsOut
<1> DEFINE acked == Unwrap(ackno, s.isn, s.acked)
           new == acked > s.acked
           rto == IF new THEN RetxTimeout ELSE s.rto
           rest == {o \in s.outstanding : ~ Acknowledged(s, o.seg, acked)}
           out == {[o EXCEPT !.left = IF new THEN rto ELSE @] : o \in rest}
           t == [s EXCEPT !.acked = acked, !.window = Larger(1, win),
                   !.zeroWindow = (win = 0), !.rto = rto, !.outstanding = out]
<1>1. /\ s \in Senders /\ s.isn = 0 /\ s.nextSeqno \in Nat /\ s.acked \in Nat
      /\ s.rto \in Nat /\ s.outstanding \subseteq Timers /\ 2 * s.nextSeqno < Round
      /\ s.acked <= s.nextSeqno /\ Round \in Nat /\ 0 \in RawValues /\ Word >= 4 * Round
      /\ Word \in Nat
  BY CountFields, SenderFields, SocketFacts
<1>2. acked \in Int
  <2>1. Wrap(s.acked, 0) \in Nat
    BY <1>1, SMTT(20) DEF Wrap
  <2>2. Forward(ackno, Wrap(s.acked, 0)) \in Int /\ Back(ackno, Wrap(s.acked, 0)) \in Int
    BY <1>1, <2>1 DEF Forward, Back
  <2> QED
    BY <1>1, <2>2 DEF Unwrap, SizeT
<1>3. AckReceived(s, ackno, win) = IF ~ Credible(s, acked) THEN s ELSE t
  BY DEF AckReceived
<1>2a. acked = Unwrap(ackno, s.isn, s.acked)
  OBVIOUS
<1> HIDE DEF acked
<1>4. CASE ~ Credible(s, acked)
  BY <1>3, <1>4, LaterSelf
<1>5. CASE Credible(s, acked)
  <2>1. acked \in s.acked .. s.nextSeqno /\ 2 * acked < Round /\ acked \in Nat
    BY <1>1, <1>2, <1>5 DEF Credible
  <2>2. rto \in Nat
    BY <1>1, SocketFacts
  <2>3. Larger(1, win) \in Nat /\ Larger(1, win) >= 1
    BY DEF Larger
  <2> HIDE DEF rto, new
  <2>4. out \in SUBSET Timers
    <3> SUFFICES ASSUME NEW o \in s.outstanding
                 PROVE  [o EXCEPT !.left = IF new THEN rto ELSE @] \in Timers
      OBVIOUS
    <3>1. o \in Timers
      BY <1>1
    <3>2. (IF new THEN rto ELSE o.left) \in Int
      BY <2>2, <3>1 DEF Timers
    <3> QED
      BY <3>1, <3>2 DEF Timers
  <2>5. Thinned(s.outstanding, out)
    <3> DEFINE left == [o \in rest |-> IF new THEN rto ELSE o.left]
    <3>1. rest \in SUBSET s.outstanding
      OBVIOUS
    <3>2. out = {[o EXCEPT !.left = left[o]] : o \in rest}
      OBVIOUS
    <3> HIDE DEF out, rest, left
    <3> QED
      BY ONLY <3>1, <3>2, ThinnedTimers
  <2>6. \A o \in s.outstanding : End(o.seg) > acked => \E p \in out : p.seg = o.seg
    <3> SUFFICES ASSUME NEW o \in s.outstanding, End(o.seg) > acked
                 PROVE  \E p \in out : p.seg = o.seg
      OBVIOUS
    <3>1. o \in Timers /\ o.seg \in Outgoing
      BY <1>1 DEF Timers
    <3>2. /\ o.seg.seqno \in Nat /\ LengthInSequenceSpace(o.seg) \in Nat
          /\ End(o.seg) <= s.nextSeqno
      BY <3>1, SegmentFields DEF Sending, Covering
    <3>3. 2 * o.seg.seqno < Round
      BY <1>1, <3>2 DEF End
    <3>4. Unwrap(o.seg.seqno, s.isn, acked) = o.seg.seqno
      BY <1>1, <1>2, <2>1, <3>2, <3>3, Near
    <3>5. ~ Acknowledged(s, o.seg, acked)
      BY <1>2, <3>2, <3>4 DEF Acknowledged, End
    <3>6. o \in rest
      BY <3>5
    <3>7. [o EXCEPT !.left = IF new THEN rto ELSE @].seg = o.seg
      BY <3>1 DEF Timers
    <3> QED
      BY <3>6, <3>7
  <2> HIDE DEF out
  <2> DEFINE width == Larger(1, win)
             zero == win = 0
  <2>6a. zero \in BOOLEAN /\ width \in Int
    BY <2>3
  <2>6b. t = [s EXCEPT !.acked = acked, !.window = width, !.zeroWindow = zero, !.rto = rto,
                       !.outstanding = out]
    OBVIOUS
  <2> HIDE DEF width, zero, t
  <2>7. /\ t \in Senders /\ t.stream = s.stream /\ t.nextSeqno = s.nextSeqno
        /\ t.finSent = s.finSent /\ t.window = width /\ t.outstanding = out
        /\ t.segmentsOut = s.segmentsOut /\ t.acked = acked
    BY <1>1, <2>1, <2>2, <2>4, <2>6a, <2>6b DEF Senders
  <2>7a. t.window >= 1
    BY <2>3, <2>7 DEF width
  <2>8. Sending(t) /\ Later(s, t)
    BY <2>1, <2>7a, <2>5, <2>6, <2>7, FewerSending
  <2> QED
    BY <1>3, <1>5, <2>7, <2>8 DEF t
<1> QED
  BY <1>4, <1>5

\* ms milliseconds pass.
LEMMA ElapseSending ==
  ASSUME SocketBounds, NEW s, Sending(s), NEW ms \in Nat
  PROVE  LET t == Elapse(s, ms)
         IN  /\ Sending(t) /\ Later(s, t) /\ t.stream = s.stream /\ t.finSent = s.finSent
             /\ t.nextSeqno = s.nextSeqno /\ t.segmentsOut = s.segmentsOut
<1> DEFINE out == {[o EXCEPT !.left = @ - ms] : o \in s.outstanding}
           t == [s EXCEPT !.outstanding = out]
<1>1. /\ s \in Senders /\ s.outstanding \subseteq Timers /\ s.acked \in Nat
      /\ s.nextSeqno \in Nat /\ s.acked <= s.nextSeqno
  BY CountFields, SenderFields
<1>2. \A o \in s.outstanding : /\ [o EXCEPT !.left = @ - ms] \in Timers
                               /\ [o EXCEPT !.left = @ - ms].seg = o.seg
  <2> SUFFICES ASSUME NEW o \in s.outstanding
               PROVE  /\ [o EXCEPT !.left = @ - ms] \in Timers
                      /\ [o EXCEPT !.left = @ - ms].seg = o.seg
    OBVIOUS
  <2>1. o \in Timers
    BY <1>1
  <2>2. o.left - ms \in Int
    BY <2>1 DEF Timers
  <2> QED
    BY <2>1, <2>2 DEF Timers
<1>3. out \in SUBSET Timers /\ \A o \in s.outstanding : \E p \in out : p.seg = o.seg
  BY <1>2
<1>4. Thinned(s.outstanding, out)
  <2> DEFINE left == [o \in s.outstanding |-> o.left - ms]
             S == s.outstanding
  <2>1. out = {[o EXCEPT !.left = left[o]] : o \in S} /\ S \in SUBSET S
    OBVIOUS
  <2> HIDE DEF out, left, S
  <2>2. Thinned(S, out)
    BY ONLY <2>1, ThinnedTimers
  <2> QED
    BY <2>2 DEF S
<1>5. Elapse(s, ms) = t
  BY DEF Elapse
<1> HIDE DEF out
<1>6. /\ t \in Senders /\ t.stream = s.stream /\ t.nextSeqno = s.nextSeqno
      /\ t.finSent = s.finSent /\ t.window = s.window /\ t.outstanding = out
      /\ t.segmentsOut = s.segmentsOut /\ t.acked = s.acked
  BY <1>1, <1>3 DEF Senders
<1> HIDE DEF t
<1>7. Sending(t) /\ Later(s, t)
  BY <1>1, <1>3, <1>4, <1>6, FewerSending
<1> QED
  BY <1>5, <1>6, <1>7

\* A queue that grows by something of its kind.
LEMMA QueueGrows ==
  ASSUME NEW S, NEW queue \in Seq(S), NEW x \in S
  PROVE  /\ Append(queue, x) \in Seq(S) /\ Append(queue, x) # <<>>
         /\ \E i \in DOMAIN Append(queue, x) : Append(queue, x)[i] = x
         /\ \A i \in DOMAIN queue : i \in DOMAIN Append(queue, x) /\ Append(queue, x)[i] = queue[i]
<1>1. /\ Append(queue, x) \in Seq(S) /\ Len(Append(queue, x)) = Len(queue) + 1
      /\ \A i \in 1 .. Len(queue) : Append(queue, x)[i] = queue[i]
      /\ Append(queue, x)[Len(queue) + 1] = x /\ Append(queue, x) # <<>>
  BY AppendProperties
<1>2. /\ DOMAIN Append(queue, x) = 1 .. Len(queue) + 1 /\ DOMAIN queue = 1 .. Len(queue)
      /\ Len(queue) \in Nat
  BY <1>1, LenProperties
<1>3. Len(queue) + 1 \in 1 .. Len(queue) + 1 /\ 1 .. Len(queue) \subseteq 1 .. Len(queue) + 1
  BY <1>2
<1> QED
  BY ONLY <1>1, <1>2, <1>3, Zenon

\* A changed queue, and the count of retransmissions and their timeout.
LEMMA QueueSending ==
  ASSUME SocketBounds, NEW s, Sending(s), NEW queue \in Seq(Outgoing), NEW count \in Nat
  PROVE  LET t == [s EXCEPT !.crtx = count, !.segmentsOut = queue]
         IN  /\ Sending(t) /\ Later(s, t) /\ t.stream = s.stream /\ t.finSent = s.finSent
             /\ t.nextSeqno = s.nextSeqno /\ t.segmentsOut = queue
             /\ t.acked = s.acked /\ t.window = s.window /\ BytesInFlight(t) = BytesInFlight(s)
<1> DEFINE t == [s EXCEPT !.crtx = count, !.segmentsOut = queue]
<1>1. s \in Senders /\ s.acked \in Nat /\ s.nextSeqno \in Nat /\ s.acked <= s.nextSeqno
  BY CountFields
<1>2. /\ t \in Senders /\ t.stream = s.stream /\ t.nextSeqno = s.nextSeqno
      /\ t.finSent = s.finSent /\ t.window = s.window /\ t.outstanding = s.outstanding
      /\ t.segmentsOut = queue /\ t.acked = s.acked
  BY <1>1 DEF Senders
<1> HIDE DEF t
<1>3. Thinned(s.outstanding, t.outstanding)
  BY <1>2, ThinnedNot
<1>4. \A o \in s.outstanding : \E p \in t.outstanding : p.seg = o.seg
  BY <1>2
<1>5. Sending(t) /\ Later(s, t)
  BY <1>1, <1>2, <1>3, <1>4, FewerSending
<1>6. BytesInFlight(t) = BytesInFlight(s)
  BY <1>2, TakenIs
<1> QED
  BY <1>2, <1>5, <1>6 DEF t

\* send_empty_segment.
LEMMA EmptySending ==
  ASSUME SocketBounds, NEW s, Sending(s)
  PROVE  LET t == SendEmptySegment(s)
         IN  /\ Sending(t) /\ Later(s, t) /\ t.stream = s.stream /\ t.finSent = s.finSent
             /\ t.nextSeqno = s.nextSeqno /\ t.segmentsOut # <<>>
             /\ t.segmentsOut \in Seq(Outgoing)
             /\ t.acked = s.acked /\ t.window = s.window /\ BytesInFlight(t) = BytesInFlight(s)
<1> DEFINE seg == [EmptySegment EXCEPT !.seqno = NextSeqno(s)]
           queue == Append(s.segmentsOut, seg)
<1>1. s.segmentsOut \in Seq(Outgoing) /\ NextSeqno(s) \in RawValues
  <2>1. s \in Senders /\ s.isn = 0 /\ s.nextSeqno \in Nat /\ 2 * s.nextSeqno < Round
        /\ s.segmentsOut \in Seq(Outgoing)
    BY CountFields, SenderFields
  <2>2. NextSeqno(s) = s.nextSeqno /\ s.nextSeqno \in RawValues
    BY <2>1, Near DEF NextSeqno
  <2> QED
    BY <2>1, <2>2
<1>2. seg \in Outgoing
  BY <1>1, NothingIsSegment DEF Outgoing, TCPSegments
<1>3. queue \in Seq(Outgoing) /\ queue # <<>>
  <2> HIDE DEF seg
  <2> QED
    BY <1>1, <1>2, QueueGrows
<1>4. SendEmptySegment(s) = [s EXCEPT !.crtx = 0, !.segmentsOut = queue]
  BY DEF SendEmptySegment
<1> DEFINE t == [s EXCEPT !.crtx = 0, !.segmentsOut = queue]
<1> HIDE DEF queue
<1>5. /\ Sending(t) /\ Later(s, t) /\ t.stream = s.stream /\ t.finSent = s.finSent
      /\ t.nextSeqno = s.nextSeqno /\ t.segmentsOut = queue
      /\ t.acked = s.acked /\ t.window = s.window /\ BytesInFlight(t) = BytesInFlight(s)
  BY <1>3, QueueSending
<1> HIDE DEF t
<1> QED
  BY <1>3, <1>4, <1>5 DEF t

\* The oldest of the segments whose time is up.
LEMMA OldestIsSent ==
  ASSUME SocketBounds, NEW s, Sending(s), Expired(s) # {}
  PROVE  Oldest(s) \in s.outstanding
<1> DEFINE Pos == {PositionOf(s, o.seg) : o \in Expired(s)}
<1>1. /\ s.isn = 0 /\ s.acked \in Nat /\ 2 * s.acked < Round /\ s.nextSeqno \in Nat
      /\ 2 * s.nextSeqno < Round /\ Round \in Nat
      /\ s.outstanding \subseteq Timers /\ Expired(s) \subseteq s.outstanding
  BY CountFields, SenderFields DEF Expired
<1>2. \A o \in Expired(s) : PositionOf(s, o.seg) \in Nat
  <2> SUFFICES ASSUME NEW o \in Expired(s) PROVE PositionOf(s, o.seg) \in Nat
    OBVIOUS
  <2>1. o.seg \in Outgoing
    BY <1>1 DEF Timers
  <2>2. /\ o.seg.seqno \in Nat /\ LengthInSequenceSpace(o.seg) \in Nat
        /\ End(o.seg) <= s.nextSeqno
    BY <1>1, <2>1, SegmentFields DEF Sending, Covering
  <2>3. 2 * o.seg.seqno < Round
    BY <1>1, <2>2 DEF End
  <2>4. Unwrap(o.seg.seqno, s.isn, s.acked) = o.seg.seqno
    BY <1>1, <2>2, <2>3, Near
  <2> QED
    BY <2>2, <2>4 DEF PositionOf
<1>3. Pos \in SUBSET Nat /\ Pos # {}
  BY <1>2
<1>4. PICK x \in Pos : \A y \in Pos : x <= y
  BY <1>3, LeastElement
<1>5. \E o \in Expired(s) :
        \A p \in Expired(s) : PositionOf(s, o.seg) <= PositionOf(s, p.seg)
  BY <1>4
<1>6. Oldest(s) \in Expired(s)
  BY <1>5 DEF Oldest
<1> QED
  BY <1>1, <1>6

\* tick sends the oldest outstanding segment once more, and nothing else.
LEMMA RetransmitSending ==
  ASSUME SocketBounds, NEW s, Sending(s)
  PROVE  LET t == Retransmit(s)
         IN  /\ Sending(t) /\ Later(s, t) /\ t.stream = s.stream /\ t.finSent = s.finSent
             /\ t.nextSeqno = s.nextSeqno
<1> DEFINE rto == IF s.zeroWindow THEN s.rto ELSE (2 * s.rto) % UIntRange
           seg == Oldest(s).seg
           queue == Append(s.segmentsOut, seg)
           out == Restarted(s, rto)
           t == [s EXCEPT !.rto = rto, !.crtx = @ + 1, !.segmentsOut = queue,
                          !.outstanding = out]
<1>1. Retransmit(s) = IF Expired(s) = {} THEN s ELSE t
  BY DEF Retransmit
<1>2. CASE Expired(s) = {}
  BY <1>1, <1>2, LaterSelf
<1>3. CASE Expired(s) # {}
  <2>1. /\ s \in Senders /\ s.rto \in Nat /\ s.crtx \in Nat
        /\ s.outstanding \subseteq Timers /\ s.segmentsOut \in Seq(Outgoing)
        /\ s.acked \in Nat /\ s.nextSeqno \in Nat /\ s.acked <= s.nextSeqno
    BY SenderFields, CountFields
  <2>2. rto \in Nat
    <3>1. UIntRange \in Nat \ {0}
      BY SocketFacts
    <3>2. 2 * s.rto \in Int
      BY <2>1
    <3>3. (2 * s.rto) % UIntRange \in Nat
      BY <3>1, <3>2
    <3> QED
      BY <2>1, <3>3
  <2>3. seg \in Outgoing
    BY <1>3, <2>1, OldestIsSent DEF Timers
  <2> HIDE DEF rto, seg
  <2>4. queue \in Seq(Outgoing)
    BY <2>1, <2>3, QueueGrows
  <2>5. \A o \in s.outstanding : /\ [o EXCEPT !.left = rto] \in Timers
                                 /\ [o EXCEPT !.left = rto].seg = o.seg
    <3> SUFFICES ASSUME NEW o \in s.outstanding
                 PROVE  [o EXCEPT !.left = rto] \in Timers /\ [o EXCEPT !.left = rto].seg = o.seg
      OBVIOUS
    <3>1. o \in Timers
      BY <2>1
    <3> QED
      BY <2>2, <3>1 DEF Timers
  <2>6. out \in SUBSET Timers /\ \A o \in s.outstanding : \E p \in out : p.seg = o.seg
    BY <2>5 DEF Restarted
  <2>7. Thinned(s.outstanding, out)
    <3> DEFINE left == [o \in s.outstanding |-> rto]
               S == s.outstanding
    <3>1. out = {[o EXCEPT !.left = left[o]] : o \in S} /\ S \in SUBSET S
      BY DEF Restarted
    <3> HIDE DEF out, left, S
    <3>2. Thinned(S, out)
      BY ONLY <3>1, ThinnedTimers
    <3> QED
      BY <3>2 DEF S
  <2> HIDE DEF queue, out
  <2> DEFINE count == s.crtx + 1
  <2>8. /\ t \in Senders /\ t.stream = s.stream /\ t.nextSeqno = s.nextSeqno
        /\ t.finSent = s.finSent /\ t.window = s.window /\ t.outstanding = out
        /\ t.acked = s.acked
    <3>1. t = [s EXCEPT !.rto = rto, !.crtx = count, !.segmentsOut = queue,
                        !.outstanding = out]
      OBVIOUS
    <3>2. count \in Nat
      BY <2>1
    <3> HIDE DEF t, count
    <3> QED
      BY <2>1, <2>2, <2>4, <2>6, <3>1, <3>2 DEF Senders
  <2> HIDE DEF t
  <2>9. Sending(t) /\ Later(s, t)
    BY <2>1, <2>6, <2>7, <2>8, FewerSending
  <2> QED
    BY <1>1, <1>3, <2>8, <2>9
<1> QED
  BY <1>2, <1>3

\* tick.
LEMMA TickSending ==
  ASSUME SocketBounds, NEW s, Sending(s), NEW ms \in Nat
  PROVE  LET t == TickSender(s, ms)
         IN  /\ Sending(t) /\ Later(s, t) /\ t.stream = s.stream /\ t.finSent = s.finSent
             /\ t.nextSeqno = s.nextSeqno
<1> DEFINE u == Elapse(s, ms)
           t == Retransmit(u)
<1>1. /\ Sending(u) /\ Later(s, u) /\ u.stream = s.stream /\ u.finSent = s.finSent
      /\ u.nextSeqno = s.nextSeqno
  BY ElapseSending
<1> HIDE DEF u
<1>2. /\ Sending(t) /\ Later(u, t) /\ t.stream = u.stream /\ t.finSent = u.finSent
      /\ t.nextSeqno = u.nextSeqno
  BY <1>1, RetransmitSending
<1>3. TickSender(s, ms) = t
  BY DEF TickSender, u
<1> HIDE DEF t
<1>4. Later(s, t)
  BY <1>1, <1>2, LaterTwice
<1> QED
  BY <1>1, <1>2, <1>3, <1>4
-----------------------------------------------------------------------------
\* write: what is accepted continues the stream.
LEMMA WriteFlows ==
  ASSUME SocketBounds, NEW b, Flowing(b), NEW n \in Nat, b.totWrite + n <= OwnerLen
  PROVE  LET d == Write(b, Excerpt(b.totWrite, n))
         IN  /\ Flowing(d) /\ d.totRead = b.totRead /\ d.eof2 = b.eof2 /\ d.error = b.error
             /\ d.totWrite = b.totWrite + Smaller(n, b.rem)
             /\ Writable(b, Excerpt(b.totWrite, n)) = Smaller(n, b.rem)
<1> DEFINE data == Excerpt(b.totWrite, n)
           m == Smaller(n, b.rem)
           size == SendCapacity - b.rem
<1>1. /\ b \in Streams(SendCapacity) /\ SendCapacity \in Nat
      /\ b.rem \in 0 .. SendCapacity /\ b.totRead \in Nat /\ b.totWrite \in Nat
      /\ b.totWrite = b.totRead + size /\ size \in Nat /\ OwnerLen \in Nat
  BY FlowFields DEF Flowing
<1>1a. b.buf = Excerpt(b.totRead, size)
  BY DEF Flowing
<1>2. Len(data) = n
  BY <1>1, ExcerptIsSeq
<1>3. m \in 0 .. n /\ m <= b.rem /\ m \in Nat
  BY <1>1 DEF Smaller
<1>4. Writable(b, data) = m
  BY <1>2 DEF Writable
<1> HIDE DEF m
<1>5. Accepted(b, data) = Excerpt(b.totWrite, m)
  <2>1. SubSeq(data, 1, m) = Excerpt(b.totWrite, m)
    BY ONLY <1>1, <1>3, n \in Nat, ExcerptSplit
  <2> QED
    BY <1>4, <2>1 DEF Accepted
<1> HIDE DEF data
<1>6. b.buf \o Accepted(b, data) = Excerpt(b.totRead, size + m)
  <2> HIDE DEF size
  <2>1. Excerpt(b.totRead, size) \o Excerpt(b.totRead + size, m) = Excerpt(b.totRead, size + m)
    BY ONLY <1>1, <1>3, ExcerptConcat
  <2> QED
    BY ONLY <1>1, <1>1a, <1>5, <2>1
<1>7. Write(b, data) = [b EXCEPT !.buf = Excerpt(b.totRead, size + m), !.rem = b.rem - m,
                                 !.totWrite = b.totWrite + m]
  BY <1>4, <1>6 DEF Write
<1>8. /\ size + m = SendCapacity - (b.rem - m) /\ size + m \in Nat
      /\ b.rem - m \in 0 .. SendCapacity /\ b.totWrite + m \in Nat
      /\ b.totWrite + m = b.totRead + (size + m) /\ b.totWrite + m <= OwnerLen
  BY <1>1, <1>3
<1>9. Excerpt(b.totRead, size + m) \in Seq(Nat)
  BY <1>1, <1>8, ExcerptIsSeq
<1> HIDE DEF size
<1> DEFINE t == Write(b, data)
<1>10. /\ t \in Streams(SendCapacity) /\ t.buf = Excerpt(b.totRead, size + m)
       /\ t.rem = b.rem - m /\ t.totWrite = b.totWrite + m /\ t.totRead = b.totRead
       /\ t.eof2 = b.eof2 /\ t.error = b.error
  BY <1>1, <1>7, <1>8, <1>9 DEF Streams
<1> HIDE DEF t
<1>11. Flowing(t)
  BY <1>8, <1>10 DEF Flowing
<1> QED
  BY <1>4, <1>10, <1>11 DEF t, data, m

\* pop_output and peek_output: the first bytes, which follow those read before.
LEMMA PopFlows ==
  ASSUME SocketBounds, NEW b, Flowing(b), NEW n \in 0 .. BufferSize(b)
  PROVE  LET d == PopOutput(b, n)
         IN  /\ Flowing(d) /\ d.totRead = b.totRead + n /\ SameInput(b, d)
             /\ PeekOutput(b, n) = Excerpt(b.totRead, n)
<1> DEFINE size == SendCapacity - b.rem
<1>1. /\ b \in Streams(SendCapacity) /\ SendCapacity \in Nat
      /\ b.rem \in 0 .. SendCapacity /\ b.totRead \in Nat /\ b.totWrite \in Nat
      /\ size \in Nat /\ n \in 0 .. size /\ n \in Nat /\ Len(b.buf) = size
      /\ b.totWrite <= OwnerLen
  BY FlowFields
<1>1a. b.totWrite = b.totRead + size /\ b.buf = Excerpt(b.totRead, size)
  BY DEF Flowing
<1>2. Smaller(n, size) = n
  BY <1>1 DEF Smaller
<1>2b. size = SendCapacity - b.rem
  OBVIOUS
<1> HIDE DEF size
<1>3. /\ SubSeq(b.buf, 1, n) = Excerpt(b.totRead, n)
      /\ SubSeq(b.buf, n + 1, size) = Excerpt(b.totRead + n, size - n)
  <2>2. /\ SubSeq(Excerpt(b.totRead, size), 1, n) = Excerpt(b.totRead, n)
        /\ SubSeq(Excerpt(b.totRead, size), n + 1, size) = Excerpt(b.totRead + n, size - n)
    BY ONLY <1>1, ExcerptSplit, Zenon
  <2> QED
    BY ONLY <1>1a, <2>2, Zenon
<1>4. PopOutput(b, n) = [b EXCEPT !.buf = Excerpt(b.totRead + n, size - n),
                                  !.rem = b.rem + n, !.totRead = b.totRead + n]
  BY <1>1, <1>2, <1>3 DEF PopOutput
<1>5. PeekOutput(b, n) = Excerpt(b.totRead, n)
  BY <1>1, <1>2, <1>3 DEF PeekOutput
<1>6. /\ size - n = SendCapacity - (b.rem + n) /\ size - n \in Nat
      /\ b.rem + n \in 0 .. SendCapacity /\ b.totRead + n \in Nat
      /\ b.totWrite = (b.totRead + n) + (size - n)
  <2>1. n \in Int /\ n <= size /\ n >= 0
    BY <1>1
  <2>2. size - n \in Nat
    BY ONLY <1>1, <2>1
  <2>3. b.totRead + n \in Nat
    BY ONLY <1>1, <2>1
  <2>4. b.rem + n \in 0 .. SendCapacity
    BY ONLY <1>1, <1>2b, <2>1
  <2>5. b.totWrite = (b.totRead + n) + (size - n)
    BY ONLY <1>1, <1>1a, <2>1
  <2>6. size - n = SendCapacity - (b.rem + n)
    BY ONLY <1>1, <1>2b, <2>1
  <2> QED
    BY <2>2, <2>3, <2>4, <2>5, <2>6
<1>7. Excerpt(b.totRead + n, size - n) \in Seq(Nat)
  BY <1>6, ExcerptIsSeq
<1> DEFINE t == PopOutput(b, n)
<1>8. /\ t \in Streams(SendCapacity) /\ t.buf = Excerpt(b.totRead + n, size - n)
      /\ t.rem = b.rem + n /\ t.totWrite = b.totWrite /\ t.totRead = b.totRead + n
      /\ t.eof2 = b.eof2 /\ t.error = b.error
  BY <1>1, <1>4, <1>6, <1>7 DEF Streams
<1> HIDE DEF t
<1>9. Flowing(t)
  BY <1>1, <1>6, <1>8 DEF Flowing
<1> QED
  BY <1>5, <1>8, <1>9 DEF t, SameInput

\* end_input and set_error leave the bytes alone.
LEMMA EndFlows ==
  ASSUME NEW b, Flowing(b)
  PROVE  /\ Flowing(EndInput(b)) /\ EndInput(b).totRead = b.totRead
         /\ EndInput(b).totWrite = b.totWrite /\ EndInput(b).eof2 = TRUE
         /\ EndInput(b).error = b.error /\ (Eof(EndInput(b)) <=> BufferEmpty(b))
         /\ Flowing(SetError(b)) /\ SetError(b).totRead = b.totRead
         /\ SetError(b).totWrite = b.totWrite /\ SetError(b).eof2 = b.eof2
         /\ SetError(b).error = TRUE /\ (Eof(SetError(b)) <=> Eof(b))
<1>1. b \in Streams(SendCapacity)
  BY DEF Flowing
<1>2. /\ EndInput(b) \in Streams(SendCapacity) /\ EndInput(b).totRead = b.totRead
      /\ EndInput(b).totWrite = b.totWrite /\ EndInput(b).rem = b.rem
      /\ EndInput(b).buf = b.buf /\ EndInput(b).cap = b.cap /\ EndInput(b).eof2 = TRUE
      /\ EndInput(b).error = b.error
  BY <1>1 DEF EndInput, Streams
<1>3. /\ SetError(b) \in Streams(SendCapacity) /\ SetError(b).totRead = b.totRead
      /\ SetError(b).totWrite = b.totWrite /\ SetError(b).rem = b.rem
      /\ SetError(b).buf = b.buf /\ SetError(b).cap = b.cap /\ SetError(b).eof2 = b.eof2
      /\ SetError(b).error = TRUE
  BY <1>1 DEF SetError, Streams
<1>4. Flowing(EndInput(b)) /\ Flowing(SetError(b))
  BY <1>2, <1>3 DEF Flowing
<1>5. (Eof(EndInput(b)) <=> BufferEmpty(b)) /\ (Eof(SetError(b)) <=> Eof(b))
  BY <1>2, <1>3 DEF Eof, BufferEmpty
<1> QED
  BY <1>2, <1>3, <1>4, <1>5

\* Writing, ending and reporting an error change the stream alone.
LEMMA StreamSending ==
  ASSUME SocketBounds, NEW s, Sending(s), NEW b, Flowing(b), b.totRead = s.stream.totRead,
         Eof(s.stream) => Eof(b), s.stream.error => b.error
  PROVE  LET t == [s EXCEPT !.stream = b]
         IN  /\ Sending(t) /\ Later(s, t) /\ t.stream = b /\ t.nextSeqno = s.nextSeqno
             /\ t.finSent = s.finSent /\ t.segmentsOut = s.segmentsOut
             /\ t.window = s.window /\ t.acked = s.acked
             /\ BytesInFlight(t) = BytesInFlight(s)
<1> DEFINE t == [s EXCEPT !.stream = b]
<1>1. s \in Senders /\ b \in Streams(SendCapacity) /\ Counting(s) /\ Covering(s)
      /\ IsFiniteSet(s.outstanding) /\ s.nextSeqno \in Nat /\ BytesInFlight(s) \in Nat
  BY CountFields DEF Sending, Flowing
<1>2. /\ t \in Senders /\ t.stream = b /\ t.nextSeqno = s.nextSeqno
      /\ t.window = s.window /\ t.finSent = s.finSent /\ t.acked = s.acked
      /\ t.outstanding = s.outstanding /\ t.segmentsOut = s.segmentsOut
  BY <1>1 DEF Senders
<1> HIDE DEF t
<1>3. BytesInFlight(t) = BytesInFlight(s)
  BY <1>2, TakenIs
<1>4. Counting(t)
  BY <1>1, <1>2 DEF Counting
<1>5. Covering(t)
  BY <1>1, <1>2, <1>3 DEF Covering
<1>6. Later(s, t)
  BY <1>1, <1>2, <1>3 DEF Later
<1> QED
  BY <1>1, <1>2, <1>3, <1>4, <1>5, <1>6 DEF Sending, t
-----------------------------------------------------------------------------
\* A segment that starts where the sender is and is put among those outstanding.
LEMMA TransmitCovering ==
  ASSUME SocketBounds, NEW s, Sending(s), NEW seg \in Outgoing, NEW t, t \in Senders,
         t.outstanding = s.outstanding \cup {[seg |-> seg, left |-> s.rto]},
         t.acked = s.acked, seg.seqno = s.nextSeqno, t.nextSeqno = End(seg),
         LengthInSequenceSpace(seg) > 0
  PROVE  /\ IsFiniteSet(t.outstanding) /\ Covering(t)
         /\ s.nextSeqno <= t.nextSeqno
         /\ s.nextSeqno - BytesInFlight(s) <= t.nextSeqno - BytesInFlight(t)
<1> DEFINE o == [seg |-> seg, left |-> s.rto]
           n == LengthInSequenceSpace(seg)
<1>1. /\ s \in Senders /\ s.nextSeqno \in Nat /\ s.acked \in Nat /\ s.acked <= s.nextSeqno
      /\ BytesInFlight(s) \in Nat /\ BytesInFlight(s) <= s.nextSeqno
      /\ IsFiniteSet(s.outstanding) /\ s.outstanding \subseteq Timers /\ s.rto \in Nat
      /\ n \in Nat /\ n > 0 /\ t.nextSeqno = s.nextSeqno + n
  BY CountFields, SenderFields, SegmentFields DEF End
<1>2. o \in Timers /\ o.seg = seg
  BY <1>1 DEF Timers
<1> HIDE DEF o, n
<1>3. /\ IsFiniteSet(t.outstanding) /\ BytesInFlight(t) <= BytesInFlight(s) + n
      /\ BytesInFlight(t) \in Nat
  <2>1. /\ IsFiniteSet(s.outstanding \cup {o})
        /\ Cardinality(Taken(s.outstanding \cup {o}))
             <= Cardinality(Taken(s.outstanding)) + LengthInSequenceSpace(o.seg)
    BY <1>1, <1>2, TakenAdds
  <2> QED
    BY <1>2, <2>1, TakenIs, InFlightType DEF o, n
<1>4. /\ s.nextSeqno <= t.nextSeqno
      /\ s.nextSeqno - BytesInFlight(s) <= t.nextSeqno - BytesInFlight(t)
      /\ BytesInFlight(t) <= t.nextSeqno /\ t.acked <= t.nextSeqno
  BY <1>1, <1>3
<1>5. \A p \in t.outstanding : End(p.seg) <= t.nextSeqno
  <2> SUFFICES ASSUME NEW p \in t.outstanding PROVE End(p.seg) <= t.nextSeqno
    OBVIOUS
  <2>1. CASE p = o
    <3>1. End(p.seg) = t.nextSeqno
      BY <1>2, <2>1
    <3> QED
      BY <1>1, <3>1
  <2>2. CASE p # o
    <3>1. p \in s.outstanding
      BY <2>2 DEF o
    <3>2. p.seg \in Outgoing /\ End(p.seg) <= s.nextSeqno
      BY <1>1, <3>1 DEF Sending, Covering, Timers
    <3> QED
      BY <1>1, <3>2, SegmentFields
  <2> QED
    BY <2>1, <2>2
<1>6. o \in t.outstanding /\ End(o.seg) = t.nextSeqno /\ LengthInSequenceSpace(o.seg) > 0
  BY <1>2 DEF o
<1> QED
  BY <1>3, <1>4, <1>5, <1>6 DEF Covering

\* What a turn of the loop, or the SYN, makes of a sender.
Turned(s, t) ==
  /\ Sending(t) /\ Later(s, t) /\ t.nextSeqno > 0
  /\ SameInput(s.stream, t.stream)
  /\ \A i \in DOMAIN s.segmentsOut :
       i \in DOMAIN t.segmentsOut /\ t.segmentsOut[i] = s.segmentsOut[i]
  /\ t.finSent => s.finSent \/ \E i \in DOMAIN t.segmentsOut : t.segmentsOut[i].fin

LEMMA TurnedTwice ==
  ASSUME SocketBounds, NEW s, Sending(s), NEW t, NEW u, Turned(s, t), Turned(t, u)
  PROVE  Turned(s, u)
<1>1. Later(s, u)
  BY LaterTwice DEF Turned
<1>2. u.finSent => s.finSent \/ \E i \in DOMAIN u.segmentsOut : u.segmentsOut[i].fin
  BY DEF Turned
<1>3. \A i \in DOMAIN s.segmentsOut :
        i \in DOMAIN u.segmentsOut /\ u.segmentsOut[i] = s.segmentsOut[i]
  BY DEF Turned
<1> QED
  BY <1>1, <1>2, <1>3 DEF Turned, SameInput

LEMMA TurnedSelf ==
  ASSUME SocketBounds, NEW s, Sending(s), s.nextSeqno > 0
  PROVE  Turned(s, s)
  BY LaterSelf DEF Turned, SameInput

\* The SYN.
LEMMA SynSending ==
  ASSUME SocketBounds, NEW s, Sending(s), s.window = NoWindow
  PROVE  Turned(s, SendSyn(s)) /\ Filled(SendSyn(s))
<1> DEFINE fin == Eof(s.stream)
           seg == [EmptySegment EXCEPT !.seqno = s.isn, !.syn = TRUE, !.fin = fin]
           o == [seg |-> seg, left |-> s.rto]
           queue == Append(s.segmentsOut, seg)
           out == s.outstanding \cup {o}
           next == 1 + One(fin)
           t == [s EXCEPT !.segmentsOut = queue, !.outstanding = out,
                          !.window = 1, !.nextSeqno = next, !.finSent = fin]
<1>1. /\ s \in Senders /\ s.nextSeqno = 0 /\ s.isn = 0 /\ Flowing(s.stream)
      /\ s.outstanding \subseteq Timers /\ s.rto \in Nat /\ s.segmentsOut \in Seq(Outgoing)
      /\ 0 \in RawValues
  <2>1. s \in Senders /\ s.nextSeqno = 0 /\ Flowing(s.stream)
    BY CountFields
  <2> QED
    BY <2>1, SenderFields, SocketFacts
<1>2. s.stream.totRead = 0 /\ ~ s.finSent
  BY <1>1 DEF Sending, Counting
<1>3. fin \in BOOLEAN
  BY <1>1 DEF Eof, BufferEmpty, Flowing, Streams
<1>3a. fin = Eof(s.stream)
  OBVIOUS
<1> HIDE DEF fin
<1>4. /\ seg \in Outgoing /\ seg.seqno = 0 /\ seg.syn = TRUE /\ seg.fin = fin
      /\ seg.payload = <<>>
  BY <1>1, <1>3, NothingIsSegment DEF Outgoing, TCPSegments
<1>5. One(fin) \in 0 .. 1 /\ next \in Nat /\ next > 0
  BY DEF One
<1>6. LengthInSequenceSpace(seg) = next /\ End(seg) = next
  <2>1. Len(seg.payload) = 0 /\ One(seg.syn) = 1 /\ One(seg.fin) = One(fin)
    BY <1>4 DEF One
  <2> HIDE DEF seg
  <2>2. LengthInSequenceSpace(seg) = next
    BY <1>5, <2>1 DEF LengthInSequenceSpace
  <2> QED
    BY <1>4, <1>5, <2>2 DEF End
<1>7. SendSyn(s) = t
  <2>1. SendSyn(s) = [Transmit(s, seg) EXCEPT !.window = 1, !.nextSeqno = next, !.finSent = fin]
    BY DEF SendSyn, fin
  <2> HIDE DEF seg, next
  <2>2. Transmit(s, seg) = [s EXCEPT !.segmentsOut = queue, !.outstanding = out]
    BY DEF Transmit
  <2> QED
    BY <2>1, <2>2
<1> HIDE DEF seg, next
<1>8. o \in Timers
  BY <1>1, <1>4 DEF Timers
<1>9. /\ queue \in Seq(Outgoing) /\ \E i \in DOMAIN queue : queue[i] = seg
      /\ \A i \in DOMAIN s.segmentsOut : i \in DOMAIN queue /\ queue[i] = s.segmentsOut[i]
  BY <1>1, <1>4, QueueGrows
<1>10. out \in SUBSET Timers
  BY <1>1, <1>8
<1>10a. out = s.outstanding \cup {[seg |-> seg, left |-> s.rto]}
  OBVIOUS
<1> HIDE DEF queue, out, o
<1>11. /\ t \in Senders /\ t.stream = s.stream /\ t.window = 1 /\ t.finSent = fin
       /\ t.nextSeqno = next /\ t.outstanding = out /\ t.segmentsOut = queue
       /\ t.acked = s.acked
  <2>1. s \in Senders /\ fin \in BOOLEAN /\ next \in Nat /\ queue \in Seq(Outgoing)
        /\ out \in SUBSET Timers /\ 1 \in Int
    BY <1>1, <1>3, <1>5, <1>9, <1>10
  <2> QED
    BY ONLY <2>1 DEF Senders
<1> HIDE DEF t
<1>12. /\ IsFiniteSet(t.outstanding) /\ Covering(t)
       /\ s.nextSeqno <= t.nextSeqno
       /\ s.nextSeqno - BytesInFlight(s) <= t.nextSeqno - BytesInFlight(t)
  BY <1>1, <1>4, <1>5, <1>6, <1>10a, <1>11, TransmitCovering
<1>13. Counting(t)
  <2>1. t.nextSeqno = 1 + t.stream.totRead + One(t.finSent)
    BY <1>2, <1>5, <1>11 DEF next
  <2> QED
    BY <1>3a, <1>5, <1>11, <2>1 DEF Counting
<1>14. Sending(t)
  BY <1>1, <1>11, <1>12, <1>13 DEF Sending
<1>15. Later(s, t)
  BY <1>2, <1>11, <1>12 DEF Later
<1>16. Turned(s, t)
  <2>1. t.finSent => \E i \in DOMAIN t.segmentsOut : t.segmentsOut[i].fin
    BY <1>4, <1>9, <1>11
  <2> QED
    BY <1>5, <1>9, <1>11, <1>14, <1>15, <2>1 DEF Turned, SameInput
<1>17. Filled(t)
  BY <1>3a, <1>11 DEF Filled
<1> QED
  BY <1>7, <1>16, <1>17

\* One turn of the loop.
LEMMA TurnSending ==
  ASSUME SocketBounds, NEW s, Sending(s), s.nextSeqno > 0
  PROVE  Turned(s, FillOne(s)) /\ Filled(FillOne(s))
<1> DEFINE len == Smaller(MaxPayload, Smaller(BufferSize(s.stream), Room(s)))
           drained == PopOutput(s.stream, len)
           fin == FinGoes(s, drained, len)
           seg == [EmptySegment EXCEPT !.seqno = NextSeqno(s), !.fin = fin,
                     !.payload = PeekOutput(s.stream, len)]
           t == [Transmit(s, seg) EXCEPT !.stream = drained, !.finSent = fin,
                   !.crtx = 0, !.nextSeqno = @ + len + One(fin)]
<1>1. FillOne(s) = IF s.finSent \/ Room(s) <= 0 \/ (len = 0 /\ ~ fin) THEN s ELSE t
  BY DEF FillOne
<1>2. /\ s \in Senders /\ Flowing(s.stream) /\ s.isn = 0
      /\ s.stream.totRead \in Nat /\ BufferSize(s.stream) \in Nat
      /\ s.nextSeqno \in Nat /\ s.window \in Int /\ s.acked \in Nat
      /\ MaxPayload \in Nat /\ MaxPayload >= 1 /\ 2 * s.nextSeqno < Round
      /\ s.outstanding \subseteq Timers /\ s.rto \in Nat /\ s.segmentsOut \in Seq(Outgoing)
      /\ s.finSent \in BOOLEAN
      /\ (BufferEmpty(s.stream) <=> BufferSize(s.stream) = 0)
  <2>1. Sending(s)
    OBVIOUS
  <2> QED
    BY <2>1, SenderFields, FlowFields, CountFields, SocketFacts
<1>3. Room(s) \in Int
  BY <1>2 DEF Room
<1>4. s.finSent \/ s.nextSeqno = 1 + s.stream.totRead
  BY <1>2 DEF Sending, Counting, One
<1>5. CASE s.finSent \/ Room(s) <= 0
  <2>1. FillOne(s) = s
    BY <1>1, <1>5
  <2>2. Filled(s)
    BY <1>5 DEF Filled
  <2> QED
    BY <2>1, <2>2, TurnedSelf
<1>6. CASE ~ s.finSent /\ Room(s) > 0
  <2>1. len \in 0 .. BufferSize(s.stream) /\ len \in Nat /\ len <= MaxPayload /\ len <= Room(s)
        /\ (len = 0 => BufferSize(s.stream) = 0)
    BY <1>2, <1>3, <1>6 DEF Smaller
  <2> HIDE DEF len
  <2>2. /\ Flowing(drained) /\ drained.totRead = s.stream.totRead + len
        /\ PeekOutput(s.stream, len) = Excerpt(s.stream.totRead, len)
        /\ SameInput(s.stream, drained)
    BY <1>2, <2>1, PopFlows
  <2>3. /\ drained \in Streams(SendCapacity) /\ drained.totRead \in Nat
        /\ (BufferEmpty(drained) <=> drained.totRead = drained.totWrite)
        /\ (BufferEmpty(s.stream) <=> s.stream.totRead = s.stream.totWrite)
        /\ s.stream.totRead <= s.stream.totWrite /\ drained.totRead <= drained.totWrite
        /\ s.stream.totWrite \in Nat
    BY <1>2, <2>2, FlowFields
  <2>4. fin \in BOOLEAN /\ (fin <=> Eof(drained) /\ Room(s) > len)
    BY DEF FinGoes, Eof, BufferEmpty
  <2>5. Eof(s.stream) => Eof(drained)
    BY <2>1, <2>2, <2>3 DEF Eof, SameInput
  <2> HIDE DEF drained, fin
  <2>6. CASE len = 0 /\ ~ fin
    <3>1. FillOne(s) = s
      BY <1>1, <2>6
    <3>2. ~ Eof(s.stream)
      BY <1>3, <1>6, <2>4, <2>5, <2>6
    <3> QED
      BY <3>1, <3>2, TurnedSelf DEF Filled
  <2>7. CASE ~ (len = 0 /\ ~ fin)
    <3>1. FillOne(s) = t
      BY <1>1, <1>3, <1>6, <2>7
    <3>2. /\ seg \in Outgoing /\ seg.seqno = s.nextSeqno /\ seg.syn = FALSE
          /\ seg.fin = fin /\ Len(seg.payload) = len
      <4>1. NextSeqno(s) = s.nextSeqno /\ s.nextSeqno \in RawValues
        BY <1>2, Near DEF NextSeqno
      <4>2. Excerpt(s.stream.totRead, len) \in Seq(Nat) /\ Len(Excerpt(s.stream.totRead, len)) = len
        BY <1>2, <2>1, ExcerptIsSeq
      <4>3. seg = [EmptySegment EXCEPT !.seqno = s.nextSeqno, !.fin = fin,
                                       !.payload = Excerpt(s.stream.totRead, len)]
        BY <2>2, <4>1
      <4> HIDE DEF seg
      <4> QED
        BY <2>1, <2>4, <4>1, <4>2, <4>3, NothingIsSegment DEF Outgoing, TCPSegments
    <3> DEFINE o == [seg |-> seg, left |-> s.rto]
               queue == Append(s.segmentsOut, seg)
               out == s.outstanding \cup {o}
               next == s.nextSeqno + len + One(fin)
    <3> HIDE DEF seg
    <3>3. One(fin) = (IF fin THEN 1 ELSE 0) /\ next \in Nat /\ next > s.nextSeqno
      BY <1>2, <2>1, <2>4, <2>7 DEF One
    <3>4. LengthInSequenceSpace(seg) = len + One(fin) /\ LengthInSequenceSpace(seg) > 0
          /\ End(seg) = next
      <4>1. One(seg.syn) = 0 /\ One(seg.fin) = One(fin)
        BY <3>2 DEF One
      <4>2. LengthInSequenceSpace(seg) = len + One(fin)
        BY <2>1, <3>2, <3>3, <4>1 DEF LengthInSequenceSpace
      <4> QED
        <5>1. len + One(fin) > 0
          BY <2>1, <2>4, <2>7, <3>3
        <5>2. seg.seqno + (len + One(fin)) = next
          <6>1. One(fin) \in Nat /\ s.nextSeqno \in Nat /\ len \in Nat /\ seg.seqno = s.nextSeqno
            BY <1>2, <2>1, <3>2 DEF One
          <6> QED
            BY ONLY <6>1
        <5> QED
          BY <4>2, <5>1, <5>2 DEF End
    <3>5. t = [s EXCEPT !.segmentsOut = queue, !.outstanding = out, !.stream = drained,
                        !.finSent = fin, !.crtx = 0, !.nextSeqno = next]
      <4>1. Transmit(s, seg) = [s EXCEPT !.segmentsOut = queue, !.outstanding = out]
        BY DEF Transmit
      <4> HIDE DEF queue, out
      <4>2. [s EXCEPT !.segmentsOut = queue, !.outstanding = out].nextSeqno = s.nextSeqno
        BY <1>2 DEF Senders
      <4> QED
        BY <4>1, <4>2
    <3>6. o \in Timers
      BY <1>2, <3>2 DEF Timers
    <3>7. /\ queue \in Seq(Outgoing) /\ \E i \in DOMAIN queue : queue[i] = seg
          /\ \A i \in DOMAIN s.segmentsOut : i \in DOMAIN queue /\ queue[i] = s.segmentsOut[i]
      <4>1. s.segmentsOut \in Seq(Outgoing) /\ seg \in Outgoing
        BY <1>2, <3>2
      <4> QED
        BY ONLY <4>1, QueueGrows
    <3>8. out \in SUBSET Timers /\ out = s.outstanding \cup {[seg |-> seg, left |-> s.rto]}
      BY <1>2, <3>6
    <3> HIDE DEF queue, out, o, t
    <3>9. /\ t \in Senders /\ t.stream = drained /\ t.window = s.window /\ t.finSent = fin
          /\ t.nextSeqno = next /\ t.outstanding = out /\ t.segmentsOut = queue
          /\ t.acked = s.acked
      <4> HIDE DEF next
      <4> QED
        BY <1>2, <2>3, <2>4, <3>3, <3>5, <3>7, <3>8 DEF Senders
    <3>10. /\ IsFiniteSet(t.outstanding) /\ Covering(t)
           /\ s.nextSeqno <= t.nextSeqno
           /\ s.nextSeqno - BytesInFlight(s) <= t.nextSeqno - BytesInFlight(t)
      BY <3>2, <3>4, <3>8, <3>9, TransmitCovering
    <3>11. Counting(t)
      <4>1. t.nextSeqno = 1 + t.stream.totRead + One(t.finSent) /\ t.nextSeqno > 0
        BY <1>2, <1>4, <1>6, <2>1, <2>2, <3>3, <3>9, SMTT(40)
      <4>2. s.window >= 1
        BY DEF Sending, Counting
      <4> QED
        BY <2>4, <3>9, <4>1, <4>2 DEF Counting
    <3>12. Sending(t)
      BY <2>2, <3>9, <3>10, <3>11 DEF Sending
    <3>13. Later(s, t)
      <4>1. s.stream.error => t.stream.error
        BY <2>2, <3>9 DEF SameInput
      <4> QED
        BY <1>6, <2>5, <3>9, <3>10, <4>1 DEF Later
    <3>14. Turned(s, t)
      <4>1. t.finSent => \E i \in DOMAIN t.segmentsOut : t.segmentsOut[i].fin
        BY <3>2, <3>7, <3>9
      <4> QED
        BY <1>2, <2>2, <3>3, <3>7, <3>9, <3>12, <3>13, <4>1 DEF Turned
    <3>15. Filled(t)
      <4> SUFFICES ASSUME Eof(drained), ~ fin PROVE Room(t) <= 0
        BY <3>9 DEF Filled
      <4>1. Room(s) <= len /\ next = s.nextSeqno + len
        BY <1>2, <1>3, <2>1, <2>4, <3>3
      <4> QED
        BY <1>2, <2>1, <3>9, <4>1, SMTT(40) DEF Room
    <3> QED
      BY <3>1, <3>14, <3>15
  <2> QED
    BY <2>6, <2>7
<1> QED
  BY <1>3, <1>5, <1>6

\* The turns of the loop, one after the other.
Turns(s, n, f) == f = [j \in 0 .. n |-> IF j = 0 THEN s ELSE FillOne(f[j - 1])]

\* The loop is a function of the number of turns.
LEMMA TurnsExist == ASSUME NEW s PROVE \A n \in Nat : \E f : Turns(s, n, f)
<1> DEFINE P == {n \in Nat : \E f : Turns(s, n, f)}
<1>1. 0 \in P
  <2> DEFINE f == [j \in 0 .. 0 |-> s]
  <2>1. Turns(s, 0, f)
    BY DEF Turns
  <2> QED
    BY <2>1
<1>2. ASSUME NEW n \in Nat, n \in P PROVE n + 1 \in P
  <2>1. PICK f : Turns(s, n, f)
    BY <1>2
  <2> DEFINE g == [j \in 0 .. n + 1 |-> IF j = n + 1 THEN FillOne(f[n]) ELSE f[j]]
  <2>2. \A j \in 0 .. n : f[j] = IF j = 0 THEN s ELSE FillOne(f[j - 1])
    BY <2>1 DEF Turns
  <2>3. \A j \in 0 .. n + 1 : g[j] = IF j = 0 THEN s ELSE FillOne(g[j - 1])
    <3> SUFFICES ASSUME NEW j \in 0 .. n + 1
                 PROVE  g[j] = IF j = 0 THEN s ELSE FillOne(g[j - 1])
      OBVIOUS
    <3>1. CASE j = n + 1
      <4>1. g[j] = FillOne(f[n]) /\ j - 1 = n /\ n \in 0 .. n + 1 /\ n # n + 1 /\ j # 0
        BY <1>2, <3>1
      <4>2. g[j - 1] = f[n]
        BY <4>1
      <4> QED
        BY <4>1, <4>2
    <3>2. CASE j # n + 1
      <4>1. j \in 0 .. n /\ g[j] = f[j]
        BY <1>2, <3>2
      <4>2. j # 0 => j - 1 \in 0 .. n + 1 /\ j - 1 # n + 1 /\ g[j - 1] = f[j - 1]
        BY <1>2, <4>1
      <4> QED
        BY <2>2, <4>1, <4>2
    <3> QED
      BY <3>1, <3>2
  <2>4. Turns(s, n + 1, g)
    <3>1. g = [j \in 0 .. n + 1 |-> g[j]]
      OBVIOUS
    <3> HIDE DEF g
    <3> QED
      BY <2>3, <3>1 DEF Turns
  <2> QED
    BY <1>2, <2>4
<1> HIDE DEF P
<1>3. \A n \in Nat : n \in P
  BY <1>1, <1>2, EveryNumber
<1> QED
  BY <1>3 DEF P

\* However many turns the loop takes: by induction on their number.
LEMMA TurnsSending ==
  ASSUME SocketBounds, NEW s, Sending(s), s.nextSeqno > 0,
         NEW n \in Nat, n > 0, NEW f, Turns(s, n, f)
  PROVE  Turned(s, f[n]) /\ Filled(f[n])
<1> DEFINE P == {j \in Nat : j <= n => Turned(s, f[j])}
<1>1. \A j \in 0 .. n : f[j] = IF j = 0 THEN s ELSE FillOne(f[j - 1])
  BY DEF Turns
<1>2. 0 \in P
  <2>1. f[0] = s
    BY <1>1
  <2> QED
    BY <2>1, TurnedSelf
<1>3. ASSUME NEW j \in Nat, j \in P PROVE j + 1 \in P
  <2> SUFFICES ASSUME j + 1 <= n PROVE Turned(s, f[j + 1])
    BY <1>3
  <2>1. Turned(s, f[j])
    BY <1>3
  <2>2. f[j + 1] = FillOne(f[j])
    BY <1>1, <1>3
  <2>3. Turned(f[j], f[j + 1])
    BY <2>1, <2>2, TurnSending DEF Turned
  <2> QED
    BY <2>1, <2>3, TurnedTwice
<1> HIDE DEF P
<1>4. \A j \in Nat : j \in P
  BY <1>2, <1>3, EveryNumber
<1>5. Turned(s, f[n]) /\ Turned(s, f[n - 1])
  <2>1. n - 1 \in Nat
    OBVIOUS
  <2> QED
    BY <1>4, <2>1 DEF P
<1>6. f[n] = FillOne(f[n - 1])
  BY <1>1
<1> QED
  BY <1>5, <1>6, TurnSending DEF Turned

\* fill_window: more is sent, as far as the window and the stream allow.
LEMMA FillSending ==
  ASSUME SocketBounds, NEW s, Sending(s)
  PROVE  Turned(s, FillWindow(s)) /\ Filled(FillWindow(s))
<1> DEFINE turns == BufferSize(s.stream) + 1
<1>1. turns \in Nat /\ turns > 0
  <2>1. Flowing(s.stream)
    BY CountFields
  <2>2. BufferSize(s.stream) \in Nat
    BY <2>1, FlowFields
  <2> QED
    BY <2>2
<1>1a. s.nextSeqno \in Nat /\ (s.nextSeqno = 0 <=> s.window = NoWindow)
       /\ (s.finSent => s.nextSeqno > 0)
  BY CountFields
<1>2. CASE s.finSent
  <2>1. FillWindow(s) = s
    BY <1>2 DEF FillWindow
  <2> QED
    BY <1>1a, <1>2, <2>1, TurnedSelf DEF Filled
<1>3. CASE ~ s.finSent /\ s.window = NoWindow
  <2>1. FillWindow(s) = SendSyn(s)
    BY <1>3 DEF FillWindow
  <2> QED
    BY <1>3, <2>1, SynSending
<1>4. CASE ~ s.finSent /\ s.window # NoWindow
  <2> DEFINE f == CHOOSE g : Turns(s, turns, g)
  <2>1. FillWindow(s) = f[turns]
    BY <1>4 DEF FillWindow, Turns
  <2>2. Turns(s, turns, f)
    BY <1>1, TurnsExist
  <2>3. s.nextSeqno > 0
    BY <1>1a, <1>4
  <2> HIDE DEF f, turns
  <2>4. Turned(s, f[turns]) /\ Filled(f[turns])
    BY <1>1, <2>2, <2>3, TurnsSending
  <2> QED
    BY <2>1, <2>4
<1> QED
  BY <1>2, <1>3, <1>4

\* The constructor.
LEMMA NewSending ==
  ASSUME SocketBounds
  PROVE  LET s == NewSender(0, SendCapacity)
         IN  /\ Sending(s) /\ s.nextSeqno = 0 /\ ~ s.finSent /\ ~ s.stream.eof2
             /\ s.stream.totWrite = 0 /\ s.stream.totRead = 0 /\ ~ s.stream.error
             /\ BytesInFlight(s) = 0
<1> DEFINE b == NewByteStream(SendCapacity)
           s == NewSender(0, SendCapacity)
<1>1. SendCapacity \in Nat /\ OwnerLen \in Nat /\ RetxTimeout \in Nat
  BY SocketFacts
<1>2. /\ b \in Streams(SendCapacity) /\ b.buf = <<>> /\ b.rem = SendCapacity
      /\ b.totWrite = 0 /\ b.totRead = 0 /\ b.eof2 = FALSE /\ b.error = FALSE
  BY <1>1 DEF NewByteStream, Streams
<1> HIDE DEF b
<1>3. Excerpt(0, 0) = <<>>
  <2>1. Excerpt(0, 0) \in Seq(Nat) /\ Len(Excerpt(0, 0)) = 0
    BY ExcerptIsSeq
  <2> QED
    BY <2>1, EmptySeq
<1>4. Flowing(b)
  BY <1>1, <1>2, <1>3 DEF Flowing
<1>5. /\ s \in Senders /\ s.stream = b /\ s.nextSeqno = 0 /\ s.window = NoWindow
      /\ s.finSent = FALSE /\ s.outstanding = {} /\ s.acked = 0
  BY <1>1, <1>2 DEF NewSender, Senders, b, NoWindow
<1> HIDE DEF s
<1>6. IsFiniteSet(s.outstanding) /\ BytesInFlight(s) = 0
  <2>1. Taken({}) = {}
    BY DEF Taken
  <2> QED
    BY <1>5, <2>1, TakenIs, FS_EmptySet
<1>7. Counting(s) /\ Covering(s)
  BY <1>2, <1>5, <1>6 DEF Counting, Covering
<1> QED
  BY <1>2, <1>4, <1>5, <1>6, <1>7 DEF Sending, s
-----------------------------------------------------------------------------
(***************************************************************************)
(* The receiver.  The stream of the peer has sofar bytes by now, and is at *)
(* its end when fin.                                                       *)
(***************************************************************************)
Receivers(sofar) ==
  [reassembler : Reassemblers(RecvCapacity, sofar), isn : {0}, cp : 0 .. PeerLen + 1,
   status : {LISTEN, SYN_RECV, FIN_RECV}]

Receiving(rcv, sofar, fin) ==
  /\ rcv \in Receivers(sofar)
  /\ \E last \in BOOLEAN :
       /\ Sound(rcv.reassembler, RecvCapacity, sofar, last)
       /\ last => fin /\ rcv.status # LISTEN

\* What a receiver may become: what has ended stays ended.
Onwards(r, q) ==
  /\ r.status # LISTEN => q.status # LISTEN
  /\ InputEnded(StreamIn(r)) => InputEnded(StreamIn(q))
  /\ Eof(StreamIn(r)) => Eof(StreamIn(q))
  /\ StreamIn(r).error => StreamIn(q).error

\* The fields of a receiver and of its stream.
LEMMA ReceivingFields ==
  ASSUME SocketBounds, NEW sofar \in 0 .. PeerLen, NEW fin \in BOOLEAN,
         NEW rcv, Receiving(rcv, sofar, fin)
  PROVE  LET in == StreamIn(rcv) IN
         /\ rcv.isn = 0 /\ rcv.cp \in 0 .. PeerLen + 1 /\ rcv.status \in {0, 1, 2}
         /\ in \in Streams(RecvCapacity) /\ in.cap = RecvCapacity
         /\ in.rem \in 0 .. RecvCapacity /\ in.totRead \in Nat /\ in.totWrite \in 0 .. sofar
         /\ in.error \in BOOLEAN /\ in.eof2 \in BOOLEAN
         /\ rcv.reassembler.unasb = in.totWrite
         /\ BufferSize(in) \in Nat /\ BufferSize(in) = RecvCapacity - in.rem
         /\ in.totWrite = in.totRead + BufferSize(in)
         /\ (BufferEmpty(in) <=> BufferSize(in) = 0)
         /\ in.buf = Excerpt(in.totRead, BufferSize(in))
         /\ in.eof2 => fin /\ rcv.status # LISTEN /\ in.totWrite = sofar
<1> DEFINE r == rcv.reassembler
<1>1. PICK last \in BOOLEAN : Sound(r, RecvCapacity, sofar, last)
                              /\ (last => fin /\ rcv.status # LISTEN)
  BY DEF Receiving
<1>2. rcv.isn = 0 /\ rcv.cp \in 0 .. PeerLen + 1 /\ rcv.status \in {0, 1, 2}
  BY DEF Receiving, Receivers, LISTEN, SYN_RECV, FIN_RECV
<1> HIDE DEF r
<1>3. /\ RecvCapacity \in Nat /\ sofar \in Nat
      /\ r.unasb \in 0 .. sofar /\ r.out \in Streams(RecvCapacity)
      /\ r.out.cap = RecvCapacity /\ r.out.rem \in 0 .. RecvCapacity
      /\ r.out.totRead \in Nat /\ r.out.totWrite = r.unasb
      /\ r.unasb = r.out.totRead + (RecvCapacity - r.out.rem)
      /\ r.out.buf = Excerpt(r.out.totRead, RecvCapacity - r.out.rem)
  BY ONLY <1>1, Fields
<1>4. r.out.eof2 <=> last /\ r.unasb = sofar
  BY <1>1 DEF Sound
<1>5. r.out.error \in BOOLEAN /\ r.out.eof2 \in BOOLEAN
  BY <1>3 DEF Streams
<1>6. BufferSize(r.out) = RecvCapacity - r.out.rem /\ BufferSize(r.out) \in Nat
  BY <1>3 DEF BufferSize
<1>7. BufferEmpty(r.out) <=> BufferSize(r.out) = 0
  BY <1>3, <1>6 DEF BufferEmpty
<1>8. StreamIn(rcv) = r.out
  BY DEF StreamIn, r
<1> QED
  BY <1>1, <1>2, <1>3, <1>4, <1>5, <1>6, <1>7, <1>8 DEF r

\* A stream that goes on, or comes to its end.
LEMMA ReceivingMore ==
  ASSUME SocketBounds, NEW sofar \in 0 .. PeerLen, NEW fin \in BOOLEAN,
         NEW rcv, Receiving(rcv, sofar, fin),
         NEW more \in sofar .. PeerLen, NEW end \in BOOLEAN, fin => more = sofar /\ end
  PROVE  Receiving(rcv, more, end)
<1> DEFINE r == rcv.reassembler
<1>1. PICK last \in BOOLEAN : Sound(r, RecvCapacity, sofar, last)
                              /\ (last => fin /\ rcv.status # LISTEN)
  BY DEF Receiving
<1>2. CASE fin
  BY <1>2 DEF Receiving
<1>3. CASE ~ fin
  <2>1. Sound(r, RecvCapacity, sofar, FALSE)
    <3>1. last = FALSE
      BY <1>1, <1>3
    <3> QED
      BY <1>1, <3>1
  <2>2. Bounds(RecvCapacity, more) /\ more \in Nat /\ sofar <= more /\ sofar \in Nat
    BY SocketFacts DEF Bounds
  <2> HIDE DEF r
  <2>3. r \in Reassemblers(RecvCapacity, more) /\ r.unasb \in 0 .. sofar
    BY <2>1, <2>2 DEF Sound, Reassemblers
  <2>4. DOMAIN r.stored \subseteq Window(r, more)
    <3>1. Window(r, sofar) \subseteq Window(r, more)
      BY ONLY <2>2 DEF Window
    <3> QED
      BY <2>1, <3>1 DEF Sound
  <2>5. Sound(r, RecvCapacity, more, FALSE)
    BY <2>1, <2>2, <2>3, <2>4 DEF Sound
  <2>6. rcv \in Receivers(more)
    BY <2>3 DEF Receiving, Receivers, r
  <2> QED
    BY <2>5, <2>6 DEF Receiving, r
<1> QED
  BY <1>2, <1>3

\* A piece of the peer's stream, as Coming states it of the segments it numbers.
Piece(seg, sofar, fin) ==
  /\ seg.syn \in BOOLEAN /\ seg.fin \in BOOLEAN /\ seg.payload \in Seq(Nat)
  /\ seg.seqno \in Nat /\ seg.seqno <= sofar + 2
  /\ seg.syn => seg.seqno = 0 /\ seg.payload = <<>> /\ ~ seg.fin
  /\ ~ seg.syn => seg.seqno > 0
  /\ seg.payload # <<>> \/ seg.fin =>
       /\ seg.payload = Excerpt(seg.seqno - 1, Len(seg.payload))
       /\ seg.seqno - 1 + Len(seg.payload) <= sofar
  /\ seg.fin => fin /\ seg.seqno - 1 + Len(seg.payload) = sofar

\* Where it goes.
LEMMA IndexOfPiece ==
  ASSUME SocketBounds, NEW sofar \in 0 .. PeerLen, NEW fin \in BOOLEAN,
         NEW rcv, rcv.isn = 0, rcv.cp \in 0 .. PeerLen + 1,
         NEW seg, Piece(seg, sofar, fin), ~ seg.syn
  PROVE  Index(rcv, seg) = seg.seqno - 1 /\ Index(rcv, seg) \in 0 .. PeerLen + 1
<1> DEFINE x == seg.seqno
           cp == rcv.cp
<1>1. /\ x \in Nat /\ x > 0 /\ 2 * x < Round /\ x <= PeerLen + 2 /\ PeerLen \in Nat
      /\ cp \in Nat /\ 2 * cp < Round
  <2>1. x \in Nat /\ x > 0 /\ x <= sofar + 2
    BY DEF Piece
  <2>2. PeerLen \in Nat /\ Round \in Nat /\ cp \in 0 .. PeerLen + 1 /\ 2 * (PeerLen + 3) < Round
    BY SocketFacts DEF SocketBounds
  <2> HIDE DEF x, cp
  <2> QED
    BY <2>1, <2>2
<1>2. Unwrap(x, rcv.isn, cp) = x
  <2> HIDE DEF x, cp
  <2>1. Unwrap(x, 0, cp) = x
    BY <1>1, Near
  <2> QED
    BY <2>1
<1>3. SizeT(x - 1) = x - 1
  <2>1. Word \in Nat /\ Word >= 4 * Round /\ Round \in Nat
    BY SocketFacts
  <2> HIDE DEF x, cp
  <2> QED
    BY <1>1, <2>1 DEF SizeT
<1> QED
  BY <1>1, <1>2, <1>3 DEF Index

\* An excerpt of the stream comes to the reassembler: what it was, it still is.
LEMMA PushPiece ==
  ASSUME SocketBounds, NEW sofar \in 0 .. PeerLen, NEW fin \in BOOLEAN, NEW last \in BOOLEAN,
         NEW r, Sound(r, RecvCapacity, sofar, last), NEW data \in Seq(Nat),
         NEW i \in Nat, i <= PeerLen + 1, NEW end \in BOOLEAN,
         data # <<>> \/ end => data = Excerpt(i, Len(data)) /\ i + Len(data) <= sofar,
         end => fin /\ i + Len(data) = sofar
  PROVE  LET q == PushSubstring(r, data, i, end) IN
         /\ \E later \in BOOLEAN : /\ Sound(q, RecvCapacity, sofar, later)
                                   /\ later => last \/ end
         /\ q.unasb \in r.unasb .. sofar
         /\ q.out.totRead = r.out.totRead /\ q.out.error = r.out.error
         /\ InputEnded(r.out) => InputEnded(q.out)
         /\ Eof(r.out) => Eof(q.out)
<1> DEFINE q == PushSubstring(r, data, i, end)
<1>0. Len(data) \in Nat /\ sofar \in Nat /\ (data = <<>> => Len(data) = 0)
  BY SocketFacts
<1>1. /\ \E later \in BOOLEAN : /\ Sound(q, RecvCapacity, sofar, later)
                                /\ later => last \/ end
      /\ q.unasb \in r.unasb .. Limit(r)
  <2>1. CASE data # <<>> \/ end
    <3>1. /\ Len(data) \in Nat /\ i + Len(data) <= sofar
          /\ (end => i + Len(data) = sofar) /\ data = Excerpt(i, Len(data))
      BY <1>0, <2>1
    <3>2. /\ Sound(Pushed(r, i, Len(data), end), RecvCapacity, sofar, last \/ end)
          /\ Pushed(r, i, Len(data), end).unasb \in r.unasb .. Limit(r)
      BY ONLY Sound(r, RecvCapacity, sofar, last), i \in Nat, end \in BOOLEAN, <3>1, PushIsSound
    <3>3. Pushed(r, i, Len(data), end) = q
      BY <3>1 DEF Pushed
    <3>4. (last \/ end) \in BOOLEAN
      OBVIOUS
    <3> HIDE DEF q
    <3> QED
      BY ONLY <3>2, <3>3, <3>4
  <2>2. CASE data = <<>> /\ ~ end
    <3>1. SizeT(i + Len(data)) = i
      <4>1. Word \in Nat /\ Word >= 4 * Round /\ Round \in Nat /\ 2 * (PeerLen + 3) < Round
            /\ PeerLen \in Nat
        BY SocketFacts DEF SocketBounds
      <4>2. i + Len(data) = i
        BY <1>0, <2>2
      <4> QED
        BY ONLY <4>1, <4>2, i \in Nat, i <= PeerLen + 1 DEF SizeT
    <3>2. r.unasb \in Nat /\ Limit(r) \in Nat
      <4>1. /\ r.unasb \in 0 .. sofar /\ r.out.rem \in 0 .. RecvCapacity
            /\ Limit(r) = r.unasb + r.out.rem /\ RecvCapacity \in Nat
        BY ONLY Sound(r, RecvCapacity, sofar, last), Fields
      <4> QED
        BY <4>1
    <3>3. /\ Larger(r.unasb, i) \in Nat /\ Larger(r.unasb, i) >= i
          /\ Smaller(i, Limit(r)) \in Nat /\ Smaller(i, Limit(r)) <= i
      BY ONLY <3>2, i \in Nat DEF Larger, Smaller
    <3>4. Fresh(r, data, i) = Larger(r.unasb, i) .. Smaller(i, Limit(r)) - 1
      BY ONLY <3>1 DEF Fresh
    <3>5. Fresh(r, data, i) = {}
      BY ONLY <3>3, <3>4, i \in Nat
    <3>6. /\ Sound(PushSubstring(r, data, i, FALSE), RecvCapacity, sofar, last)
          /\ PushSubstring(r, data, i, FALSE).unasb \in r.unasb .. Limit(r)
      BY ONLY Sound(r, RecvCapacity, sofar, last), <3>5, PushOfNothing
    <3>7. end = FALSE
      BY <2>2
    <3> QED
      BY <3>6, <3>7
  <2> QED
    BY <2>1, <2>2
<1>2. PICK later \in BOOLEAN : Sound(q, RecvCapacity, sofar, later)
  BY <1>1
<1>3. /\ InputEnded(r.out) => InputEnded(q.out)
      /\ q.out.error = r.out.error /\ q.out.totRead = r.out.totRead
  <2>1. sofar \in Nat /\ sofar < NoEof
    BY ONLY Sound(r, RecvCapacity, sofar, last), Fields
  <2>2. r \in Reassemblers(RecvCapacity, sofar) /\ q \in Reassemblers(RecvCapacity, sofar)
    BY <1>2 DEF Sound
  <2> QED
    BY ONLY <2>1, <2>2, EndOfPush
<1>4. q.unasb \in r.unasb .. sofar
  <2> HIDE DEF q
  <2>1. r.unasb \in 0 .. sofar
    BY ONLY Sound(r, RecvCapacity, sofar, last), Fields
  <2>2. q.unasb \in 0 .. sofar
    BY ONLY <1>2, Fields
  <2>3. r.unasb \in Nat /\ Limit(r) \in Int
    BY ONLY Sound(r, RecvCapacity, sofar, last), Fields
  <2> QED
    BY <1>1, <2>1, <2>2, <2>3
<1>5. Eof(r.out) => Eof(q.out)
  <2> HIDE DEF q
  <2>1. /\ r.out.eof2 <=> last /\ r.unasb = sofar
        /\ r.out.cap = RecvCapacity /\ r.out.rem \in 0 .. RecvCapacity
        /\ r.unasb = r.out.totRead + (RecvCapacity - r.out.rem)
        /\ r.out.totRead \in Nat /\ RecvCapacity \in Nat /\ sofar \in Nat
    <3>1. r.out.eof2 <=> last /\ r.unasb = sofar
      BY DEF Sound
    <3> QED
      BY ONLY Sound(r, RecvCapacity, sofar, last), <3>1, Fields
  <2>2. /\ q.out.cap = RecvCapacity /\ q.out.rem \in 0 .. RecvCapacity
        /\ q.unasb = q.out.totRead + (RecvCapacity - q.out.rem)
    BY ONLY <1>2, Fields
  <2>3. ASSUME Eof(r.out) PROVE q.out.rem = RecvCapacity
    <3>1. r.out.rem = RecvCapacity /\ r.unasb = sofar
      BY <2>1, <2>3 DEF Eof, BufferEmpty
    <3>2. q.unasb = sofar
      BY <1>4, <2>1, <3>1
    <3> QED
      BY <1>3, <2>1, <2>2, <3>1, <3>2
  <2> QED
    BY <1>3, <2>2, <2>3 DEF Eof, BufferEmpty, InputEnded
<1> QED
  BY <1>1, <1>3, <1>4, <1>5
-----------------------------------------------------------------------------
\* A receiver with another reassembler, or another stream.
LEMMA ReplaceReassembler ==
  ASSUME NEW sofar, NEW rcv \in Receivers(sofar), NEW q \in Reassemblers(RecvCapacity, sofar)
  PROVE  LET t == [rcv EXCEPT !.reassembler = q]
         IN  /\ t \in Receivers(sofar) /\ t.reassembler = q /\ t.status = rcv.status
             /\ t.isn = rcv.isn /\ t.cp = rcv.cp
  BY DEF Receivers

LEMMA ReplaceOut ==
  ASSUME NEW cap, NEW total, NEW r \in Reassemblers(cap, total), NEW b \in Streams(cap)
  PROVE  LET q == [r EXCEPT !.out = b]
         IN  /\ q \in Reassemblers(cap, total) /\ q.out = b /\ q.unasb = r.unasb
             /\ q.stored = r.stored /\ q.eof2 = r.eof2 /\ q.capacity = r.capacity
  BY DEF Reassemblers

\* The constructor.
LEMMA NewReceiving ==
  ASSUME SocketBounds, NEW fin \in BOOLEAN
  PROVE  LET rcv == NewReceiver(RecvCapacity)
         IN  /\ Receiving(rcv, 0, fin) /\ rcv.status = LISTEN
             /\ StreamIn(rcv).totRead = 0 /\ StreamIn(rcv).totWrite = 0
             /\ ~ StreamIn(rcv).eof2 /\ ~ StreamIn(rcv).error
<1> DEFINE r == NewReassembler(RecvCapacity)
<1>1. Bounds(RecvCapacity, 0)
  <2>1. RecvCapacity \in Nat /\ PeerLen \in Nat /\ PeerLen + RecvCapacity < Word - 1
        /\ Word \in Nat
    BY SocketFacts DEF SocketBounds
  <2> QED
    BY ONLY <2>1 DEF Bounds
<1>2. Sound(r, RecvCapacity, 0, FALSE)
  BY <1>1, NewIsSound
<1>3. r.out.totRead = 0 /\ r.out.totWrite = 0 /\ r.out.eof2 = FALSE /\ r.out.error = FALSE
  BY DEF NewReassembler, NewByteStream
<1> HIDE DEF r
<1>4. NewReceiver(RecvCapacity) = [reassembler |-> r, isn |-> 0, cp |-> 0, status |-> LISTEN]
  BY DEF NewReceiver, r
<1>5. r \in Reassemblers(RecvCapacity, 0)
  BY <1>2 DEF Sound
<1>6. 0 \in 0 .. PeerLen + 1
  BY SocketFacts
<1> DEFINE rcv == NewReceiver(RecvCapacity)
<1>7. rcv \in Receivers(0) /\ rcv.reassembler = r /\ rcv.status = LISTEN
  BY <1>4, <1>5, <1>6 DEF Receivers
<1> HIDE DEF rcv
<1>8. Receiving(rcv, 0, fin)
  BY <1>2, <1>7 DEF Receiving
<1>9. StreamIn(rcv) = r.out
  BY <1>7 DEF StreamIn
<1> QED
  BY <1>3, <1>7, <1>8, <1>9 DEF rcv

\* segment_received: what the receiver was, it still is.
LEMMA ReceiveReceiving ==
  ASSUME SocketBounds, NEW sofar \in 0 .. PeerLen, NEW fin \in BOOLEAN,
         NEW rcv, Receiving(rcv, sofar, fin), NEW seg, Piece(seg, sofar, fin)
  PROVE  LET t == Receive(rcv, seg)
         IN  /\ Receiving(t, sofar, fin) /\ Onwards(rcv, t)
             /\ StreamIn(t).totRead = StreamIn(rcv).totRead
             /\ StreamIn(t).error = StreamIn(rcv).error
             /\ rcv.status = LISTEN => ~ InputEnded(StreamIn(t))
             /\ rcv.status = LISTEN /\ t.status # LISTEN => seg.syn
<1> DEFINE r == rcv.reassembler
           data == seg.payload
           placed == Place(rcv, seg)
           i == placed.cp
           t == Receive(rcv, seg)
<1>1. /\ rcv \in Receivers(sofar) /\ r \in Reassemblers(RecvCapacity, sofar)
      /\ rcv.isn = 0 /\ rcv.cp \in 0 .. PeerLen + 1
  BY DEF Receiving, Receivers
<1>2. PICK last \in BOOLEAN : Sound(r, RecvCapacity, sofar, last)
                              /\ (last => fin /\ rcv.status # LISTEN)
  BY DEF Receiving
<1>3. seg.syn \in BOOLEAN /\ seg.fin \in BOOLEAN /\ data \in Seq(Nat)
  BY DEF Piece
<1>4. /\ placed \in Receivers(sofar) /\ placed.reassembler = r
      /\ seg.syn => placed.status = SYN_RECV
      /\ ~ seg.syn => placed.status = rcv.status /\ placed.cp = Index(rcv, seg)
  <2>1. CASE seg.syn
    <3>1. placed = [rcv EXCEPT !.isn = 0, !.status = SYN_RECV]
      BY <2>1 DEF Place, Piece
    <3> QED
      BY <1>1, <2>1, <3>1 DEF Receivers
  <2>2. CASE ~ seg.syn
    <3> DEFINE x == Index(rcv, seg)
    <3>1. x \in 0 .. PeerLen + 1
      BY <1>1, <2>2, IndexOfPiece
    <3>2. placed = [rcv EXCEPT !.cp = x]
      BY <2>2 DEF Place
    <3> HIDE DEF x
    <3>3. placed \in Receivers(sofar) /\ placed.reassembler = r /\ placed.cp = x
          /\ placed.status = rcv.status
      BY <1>1, <3>1, <3>2 DEF Receivers
    <3> QED
      BY <2>2, <3>3 DEF x
  <2> QED
    BY <1>3, <2>1, <2>2
<1>5. i \in 0 .. PeerLen + 1 /\ i \in Nat /\ i <= PeerLen + 1
  <2>1. i \in 0 .. PeerLen + 1 /\ PeerLen \in Nat
    BY <1>4, SocketFacts DEF Receivers
  <2> HIDE DEF i
  <2> QED
    BY <2>1
<1>6. ~ seg.syn => i = seg.seqno - 1
  BY <1>1, <1>4, IndexOfPiece
<1>7. CASE placed.status = LISTEN
  <2>1. t = placed
    BY <1>7 DEF Receive
  <2>2. ~ seg.syn /\ rcv.status = LISTEN /\ last = FALSE
    BY <1>2, <1>4, <1>7 DEF LISTEN, SYN_RECV
  <2>3. ~ r.out.eof2
    BY <1>2, <2>2 DEF Sound
  <2>4. Receiving(t, sofar, fin)
    BY <1>2, <1>4, <1>7, <2>1, <2>2 DEF Receiving
  <2>5. t.reassembler = r /\ t.status = LISTEN
    BY <1>4, <1>7, <2>1
  <2> HIDE DEF t, placed, r
  <2> QED
    BY <2>2, <2>3, <2>4, <2>5 DEF t, r, Onwards, StreamIn, InputEnded
<1>8. CASE placed.status # LISTEN
  <2> DEFINE q == PushSubstring(r, data, i, seg.fin)
             st == IF seg.fin THEN FIN_RECV ELSE placed.status
  <2>1. t = [placed EXCEPT !.status = IF seg.fin THEN FIN_RECV ELSE @,
                           !.reassembler = PushSubstring(@, data, i, seg.fin)]
    BY <1>8 DEF Receive
  <2>2. t = [placed EXCEPT !.status = st, !.reassembler = q]
    BY <1>4, <2>1
  <2>3. /\ data # <<>> \/ seg.fin => data = Excerpt(i, Len(data)) /\ i + Len(data) <= sofar
        /\ seg.fin => fin /\ i + Len(data) = sofar
    BY <1>6 DEF Piece
  <2>4. /\ \E later \in BOOLEAN : /\ Sound(q, RecvCapacity, sofar, later)
                                  /\ later => last \/ seg.fin
        /\ q.out.totRead = r.out.totRead /\ q.out.error = r.out.error
        /\ InputEnded(r.out) => InputEnded(q.out)
        /\ Eof(r.out) => Eof(q.out)
    <3> HIDE DEF i, data, r
    <3> QED
      BY <1>2, <1>3, <1>5, <2>3, PushPiece
  <2> HIDE DEF q
  <2>5. PICK later \in BOOLEAN : Sound(q, RecvCapacity, sofar, later)
                                 /\ (later => last \/ seg.fin)
    BY <2>4
  <2>6. q \in Reassemblers(RecvCapacity, sofar)
    BY <2>5 DEF Sound
  <2>7. st \in {SYN_RECV, FIN_RECV}
    BY <1>4, <1>8 DEF Receivers
  <2> HIDE DEF st, placed, t
  <2>8. t \in Receivers(sofar) /\ t.reassembler = q /\ t.status = st
    BY <1>4, <2>2, <2>6, <2>7 DEF Receivers
  <2>9. t.status # LISTEN
    BY <2>7, <2>8 DEF LISTEN, SYN_RECV, FIN_RECV
  <2>10. later => fin
    BY <1>2, <2>3, <2>5
  <2>11. Receiving(t, sofar, fin)
    BY <2>5, <2>8, <2>9, <2>10 DEF Receiving
  <2>12. rcv.status = LISTEN => seg.syn /\ ~ InputEnded(q.out)
    <3>1. rcv.status = LISTEN => seg.syn
      BY <1>4, <1>8
    <3>2. rcv.status = LISTEN => ~ later
      BY <1>2, <2>5, <3>1 DEF Piece
    <3> QED
      BY <2>5, <3>1, <3>2 DEF Sound, InputEnded
  <2> HIDE DEF r
  <2>13. StreamIn(t) = q.out /\ StreamIn(rcv) = r.out
    BY <2>8 DEF StreamIn, r
  <2>14. Onwards(rcv, t)
    BY <2>4, <2>9, <2>13 DEF Onwards
  <2> QED
    BY <2>4, <2>11, <2>12, <2>13, <2>14 DEF t
<1> QED
  BY <1>7, <1>8

\* What is acknowledged is a position after the SYN.
LEMMA AcknoOfReceiver ==
  ASSUME SocketBounds, NEW sofar \in 0 .. PeerLen, NEW fin \in BOOLEAN,
         NEW rcv, Receiving(rcv, sofar, fin)
  PROVE  /\ HasAckno(rcv) <=> rcv.status # LISTEN
         /\ HasAckno(rcv) \in BOOLEAN
         /\ rcv.status # LISTEN => Ackno(rcv) \in RawValues /\ Ackno(rcv) > 0
<1>1. /\ rcv.reassembler.unasb \in 0 .. sofar /\ rcv.status \in {0, 1, 2} /\ rcv.isn = 0
      /\ PeerLen \in Nat /\ 2 * (PeerLen + 3) < Round /\ Round \in Nat
  BY SocketFacts DEF SocketBounds, Receiving, Receivers, Reassemblers, LISTEN, SYN_RECV, FIN_RECV
<1>2. ASSUME rcv.status # LISTEN
      PROVE  Ackno(rcv) \in RawValues /\ Ackno(rcv) > 0
  <2> DEFINE x == AckPosition(rcv)
  <2>1. x \in Nat /\ x >= 1 /\ x <= PeerLen + 2
    BY <1>1, <1>2 DEF AckPosition, LISTEN, SYN_RECV
  <2>2. 2 * x < Round
    <3> HIDE DEF x
    <3> QED
      BY <1>1, <2>1
  <2>3. Wrap(x, 0) = x /\ x \in RawValues
    <3> HIDE DEF x
    <3> QED
      BY <2>1, <2>2, Near
  <2> QED
    BY <1>1, <1>2, <2>1, <2>3 DEF Ackno
<1>3. rcv.status = LISTEN => ~ HasAckno(rcv)
  BY DEF HasAckno, Ackno
<1>4. rcv.status # LISTEN => HasAckno(rcv)
  <2>1. rcv.status # LISTEN => Ackno(rcv) > 0 /\ Ackno(rcv) \in Int
    BY <1>1, <1>2 DEF RawValues
  <2> QED
    BY <2>1 DEF HasAckno, NoAckno
<1>5. HasAckno(rcv) \in BOOLEAN
  BY DEF HasAckno
<1> QED
  BY <1>2, <1>3, <1>4, <1>5

\* The loop takes bytes out of the stream.
LEMMA ReadReceiving ==
  ASSUME SocketBounds, NEW sofar \in 0 .. PeerLen, NEW fin \in BOOLEAN,
         NEW rcv, Receiving(rcv, sofar, fin), NEW n \in 0 .. BufferSize(StreamIn(rcv))
  PROVE  LET t == ReadIn(rcv, n)
         IN  /\ Receiving(t, sofar, fin) /\ Onwards(rcv, t) /\ t.status = rcv.status
             /\ StreamIn(t).totRead = StreamIn(rcv).totRead + n
             /\ StreamIn(t).totWrite = StreamIn(rcv).totWrite
             /\ StreamIn(t).error = StreamIn(rcv).error
             /\ StreamIn(t).eof2 = StreamIn(rcv).eof2
<1> DEFINE r == rcv.reassembler
           q == ReadOut(r, n)
           t == ReadIn(rcv, n)
<1>1. rcv \in Receivers(sofar) /\ r \in Reassemblers(RecvCapacity, sofar)
      /\ r.out \in Streams(RecvCapacity)
  BY DEF Receiving, Receivers, Reassemblers
<1>2. PICK last \in BOOLEAN : Sound(r, RecvCapacity, sofar, last)
                              /\ (last => fin /\ rcv.status # LISTEN)
  BY DEF Receiving
<1>3. /\ BufferSize(r.out) \in Nat /\ n \in Nat /\ n <= BufferSize(r.out)
      /\ r.out.rem \in Nat /\ r.out.totRead \in Nat
      /\ r.out.buf \in Seq(Nat) /\ Len(r.out.buf) = BufferSize(r.out)
      /\ RecvCapacity \in Nat /\ r.out.cap = RecvCapacity /\ r.out.rem \in 0 .. RecvCapacity
  <2>1. /\ r.out.cap = RecvCapacity /\ r.out.rem \in 0 .. RecvCapacity
        /\ RecvCapacity \in Nat /\ r.out.totRead \in Nat
        /\ r.out.buf = Excerpt(r.out.totRead, RecvCapacity - r.out.rem)
    BY ONLY <1>2, Fields
  <2>2. RecvCapacity - r.out.rem \in Nat /\ BufferSize(r.out) = RecvCapacity - r.out.rem
        /\ r.out.rem \in Nat
    BY <2>1 DEF BufferSize
  <2>3. r.out.buf \in Seq(Nat) /\ Len(r.out.buf) = RecvCapacity - r.out.rem
    <3> DEFINE a == r.out.totRead
               m == RecvCapacity - r.out.rem
    <3>1. a \in Nat /\ m \in Nat /\ r.out.buf = Excerpt(a, m)
      BY ONLY <2>1, <2>2
    <3> HIDE DEF a, m, r
    <3>2. Excerpt(a, m) \in Seq(Nat) /\ Len(Excerpt(a, m)) = m
      BY <3>1, ExcerptIsSeq
    <3> QED
      BY ONLY <3>1, <3>2 DEF m
  <2>4. n \in 0 .. BufferSize(r.out)
    BY DEF StreamIn
  <2> HIDE DEF r
  <2> QED
    BY ONLY <2>1, <2>2, <2>3, <2>4
<1> HIDE DEF r
<1>4. PopOutput(r.out, n) \in
        [cap : {r.out.cap}, rem : {r.out.rem + n}, totRead : {r.out.totRead + n},
         totWrite : {r.out.totWrite}, eof2 : {r.out.eof2}, error : {r.out.error},
         buf : {SubSeq(r.out.buf, Smaller(n, Len(r.out.buf)) + 1, Len(r.out.buf))}]
  BY <1>1 DEF PopOutput, Streams
<1>5. q.out = PopOutput(r.out, n)
  BY <1>1 DEF ReadOut, Reassemblers
<1>6. Sound(q, RecvCapacity, sofar, last)
  <2>1. CASE n > 0
    <3>1. n \in 1 .. BufferSize(r.out)
      BY <1>3, <2>1
    <3> QED
      BY ONLY <1>2, <3>1, ReadIsSound
  <2>2. CASE n = 0
    <3>1. SubSeq(r.out.buf, Smaller(n, Len(r.out.buf)) + 1, Len(r.out.buf)) = r.out.buf
      <4>1. Smaller(n, Len(r.out.buf)) = 0
        BY <1>3, <2>2 DEF Smaller
      <4> QED
        BY <1>3, <4>1
    <3>2. PopOutput(r.out, n) = r.out
      <4>1. r.out.rem + n = r.out.rem /\ r.out.totRead + n = r.out.totRead
        BY <1>3, <2>2
      <4>2. PopOutput(r.out, n) = [r.out EXCEPT !.buf = r.out.buf, !.rem = r.out.rem,
                                                !.totRead = r.out.totRead]
        BY <3>1, <4>1 DEF PopOutput
      <4>3. r.out = [r.out EXCEPT !.buf = r.out.buf, !.rem = r.out.rem,
                                  !.totRead = r.out.totRead]
        BY <1>1 DEF Streams
      <4> QED
        BY ONLY <4>2, <4>3
    <3>3. q = r
      BY <1>1, <3>2 DEF ReadOut, Reassemblers
    <3> QED
      BY <1>2, <3>3
  <2> QED
    BY <1>3, <2>1, <2>2
<1> DEFINE z == PopOutput(r.out, n)
<1>7. /\ z.rem = r.out.rem + n /\ z.totRead = r.out.totRead + n /\ z.totWrite = r.out.totWrite
      /\ z.eof2 = r.out.eof2 /\ z.error = r.out.error /\ z.cap = r.out.cap
  <2> HIDE DEF z
  <2> QED
    BY <1>4 DEF z
<1> HIDE DEF q, z
<1>8. q \in Reassemblers(RecvCapacity, sofar) /\ q.out = z
  BY <1>5, <1>6 DEF Sound, z
<1>9. t = [rcv EXCEPT !.reassembler = q]
  BY DEF ReadIn, q, r
<1>10. t \in Receivers(sofar) /\ t.reassembler = q /\ t.status = rcv.status
  BY <1>1, <1>8, <1>9, ReplaceReassembler
<1> HIDE DEF t
<1>11. Receiving(t, sofar, fin)
  BY <1>2, <1>6, <1>10 DEF Receiving
<1>12. ASSUME Eof(r.out) PROVE Eof(q.out)
  <2>1. r.out.rem = r.out.cap /\ r.out.eof2
    BY <1>12 DEF Eof, BufferEmpty
  <2>2. n = 0
    BY <1>3, <2>1 DEF BufferSize
  <2>3. q.out.rem = q.out.cap
    BY <1>3, <1>7, <1>8, <2>1, <2>2
  <2>4. q.out.eof2
    BY <1>7, <1>8, <2>1
  <2> QED
    BY <2>3, <2>4 DEF Eof, BufferEmpty
<1>13. StreamIn(t) = q.out /\ StreamIn(rcv) = r.out
  BY <1>10 DEF StreamIn, r
<1>14. Onwards(rcv, t)
  BY <1>7, <1>8, <1>10, <1>12, <1>13 DEF Onwards, InputEnded
<1> QED
  BY <1>7, <1>8, <1>10, <1>11, <1>13, <1>14 DEF t

\* set_error touches nothing that has been received.
LEMMA ErrorReceiving ==
  ASSUME SocketBounds, NEW sofar \in 0 .. PeerLen, NEW fin \in BOOLEAN,
         NEW rcv, Receiving(rcv, sofar, fin)
  PROVE  LET t == [rcv EXCEPT !.reassembler.out = SetError(@)]
         IN  /\ Receiving(t, sofar, fin) /\ Onwards(rcv, t) /\ t.status = rcv.status
             /\ StreamIn(t).totRead = StreamIn(rcv).totRead
             /\ StreamIn(t).totWrite = StreamIn(rcv).totWrite
             /\ StreamIn(t).eof2 = StreamIn(rcv).eof2
             /\ StreamIn(t).error = TRUE
<1> DEFINE r == rcv.reassembler
           z == SetError(r.out)
           q == [r EXCEPT !.out = z]
           t == [rcv EXCEPT !.reassembler.out = SetError(@)]
<1>1. rcv \in Receivers(sofar) /\ r \in Reassemblers(RecvCapacity, sofar)
      /\ r.out \in Streams(RecvCapacity)
  BY DEF Receiving, Receivers, Reassemblers
<1>2. PICK last \in BOOLEAN : Sound(r, RecvCapacity, sofar, last)
                              /\ (last => fin /\ rcv.status # LISTEN)
  BY DEF Receiving
<1> HIDE DEF r
<1>3. /\ z \in Streams(RecvCapacity) /\ z.error = TRUE
      /\ z.rem = r.out.rem /\ z.buf = r.out.buf /\ z.cap = r.out.cap
      /\ z.totRead = r.out.totRead /\ z.totWrite = r.out.totWrite /\ z.eof2 = r.out.eof2
  BY <1>1 DEF SetError, Streams
<1> HIDE DEF z
<1>4. /\ q \in Reassemblers(RecvCapacity, sofar) /\ q.out = z /\ q.unasb = r.unasb
      /\ q.stored = r.stored /\ q.eof2 = r.eof2 /\ q.capacity = r.capacity
  BY <1>1, <1>3, ReplaceOut
<1>5. t = [rcv EXCEPT !.reassembler = q]
  BY DEF q, z, r
<1> HIDE DEF q, t
<1>6. Sound(q, RecvCapacity, sofar, last)
  <2>1. Window(q, sofar) = Window(r, sofar)
    BY <1>3, <1>4 DEF Window, Limit
  <2> QED
    BY <1>2, <1>3, <1>4, <2>1 DEF Sound
<1>7. t \in Receivers(sofar) /\ t.reassembler = q /\ t.status = rcv.status
  BY <1>1, <1>4, <1>5, ReplaceReassembler
<1>8. Receiving(t, sofar, fin)
  BY <1>2, <1>6, <1>7 DEF Receiving
<1>9. StreamIn(t) = z /\ StreamIn(rcv) = r.out
  BY <1>4, <1>7 DEF StreamIn, r
<1>10. Onwards(rcv, t)
  BY <1>3, <1>7, <1>9 DEF Onwards, InputEnded, Eof, BufferEmpty
<1> QED
  BY <1>3, <1>7, <1>8, <1>9, <1>10 DEF t
-----------------------------------------------------------------------------
(***************************************************************************)
(* The connection.                                                         *)
(***************************************************************************)
Connections(sofar) ==
  [sender : Senders, receiver : Receivers(sofar), linger : BOOLEAN, active2 : BOOLEAN,
   finsent : BOOLEAN, idle : Nat, segmentsOut : Seq(Outgoing)]

Finished(c) == OutboundDone(c) /\ c.sender.finSent

\* In the midst of a method, and between two of them: a connection that is not active
\* has been reset, or has had its FIN acknowledged; before the SYN nothing has
\* happened; and afterwards fill_window has been called whenever it was called for.
Base(c, sofar, fin) ==
  /\ c \in Connections(sofar)
  /\ Sending(c.sender) /\ Receiving(c.receiver, sofar, fin)
  /\ c.sender.finSent => c.finsent
  /\ ~ c.active2 => Inbound(c).error \/ Finished(c)

Conn(c, sofar, fin) ==
  /\ Base(c, sofar, fin)
  /\ c.sender.nextSeqno = 0 =>
       ~ Outbound(c).eof2 /\ c.receiver.status = LISTEN /\ c.segmentsOut = <<>>
  /\ c.sender.nextSeqno > 0 => Inbound(c).error \/ Filled(c.sender)

\* What a connection may become: it never goes back.
Onward(c, d) ==
  /\ Later(c.sender, d.sender) /\ Onwards(c.receiver, d.receiver)
  /\ c.finsent => d.finsent
  /\ ~ c.active2 => ~ d.active2
  /\ ~ c.linger => ~ d.linger
  /\ c.linger /\ ~ d.linger /\ d.active2 => ~ c.finsent

\* The types of a connection's fields.
LEMMA ConnectionFields ==
  ASSUME SocketBounds, NEW sofar, NEW fin, NEW c, Base(c, sofar, fin)
  PROVE  /\ c \in Connections(sofar) /\ Sending(c.sender) /\ Receiving(c.receiver, sofar, fin)
         /\ c.sender \in Senders /\ c.receiver \in Receivers(sofar)
         /\ c.linger \in BOOLEAN /\ c.active2 \in BOOLEAN /\ c.finsent \in BOOLEAN
         /\ c.idle \in Nat /\ c.segmentsOut \in Seq(Outgoing)
         /\ Flowing(Outbound(c)) /\ c.sender.nextSeqno \in Nat /\ c.sender.finSent \in BOOLEAN
         /\ BytesInFlight(c.sender) \in Nat
         /\ BytesInFlight(c.sender) <= c.sender.nextSeqno
<1>1. c \in Connections(sofar) /\ Sending(c.sender) /\ Receiving(c.receiver, sofar, fin)
  BY DEF Base
<1>2. /\ Flowing(c.sender.stream) /\ c.sender.nextSeqno \in Nat /\ c.sender.finSent \in BOOLEAN
      /\ BytesInFlight(c.sender) \in Nat /\ BytesInFlight(c.sender) <= c.sender.nextSeqno
  BY <1>1, CountFields
<1> QED
  BY <1>1, <1>2 DEF Connections, Outbound

LEMMA OnwardSelf ==
  ASSUME SocketBounds, NEW sofar, NEW fin, NEW c, Base(c, sofar, fin)
  PROVE  Onward(c, c)
<1>1. Later(c.sender, c.sender)
  BY ConnectionFields, LaterSelf
<1> QED
  BY <1>1 DEF Onward, Onwards

LEMMA OnwardTwice ==
  ASSUME SocketBounds, NEW sofar, NEW fin, NEW b, Base(b, sofar, fin),
         NEW c, Base(c, sofar, fin), NEW d, Base(d, sofar, fin), Onward(b, c), Onward(c, d)
  PROVE  Onward(b, d)
<1>1. Later(b.sender, d.sender)
  <2>1. Sending(b.sender) /\ Sending(c.sender) /\ Sending(d.sender)
    BY ConnectionFields
  <2>2. Later(b.sender, c.sender) /\ Later(c.sender, d.sender)
    BY DEF Onward
  <2> QED
    BY ONLY SocketBounds, <2>1, <2>2, LaterTwice
<1>2. Onwards(b.receiver, d.receiver)
  BY DEF Onward, Onwards
<1>3. /\ b.linger \in BOOLEAN /\ c.linger \in BOOLEAN /\ d.linger \in BOOLEAN
      /\ b.active2 \in BOOLEAN /\ c.active2 \in BOOLEAN /\ d.active2 \in BOOLEAN
      /\ b.finsent \in BOOLEAN /\ c.finsent \in BOOLEAN /\ d.finsent \in BOOLEAN
  BY ConnectionFields
<1>4. /\ b.finsent => d.finsent
      /\ ~ b.active2 => ~ d.active2
      /\ ~ b.linger => ~ d.linger
      /\ b.linger /\ ~ d.linger /\ d.active2 => ~ b.finsent
  BY <1>3 DEF Onward
<1> QED
  BY <1>1, <1>2, <1>4 DEF Onward
-----------------------------------------------------------------------------
\* What is acknowledged and finished stays so.
LEMMA FinishedLater ==
  ASSUME SocketBounds, NEW c, Sending(c.sender), NEW d, Sending(d.sender),
         Later(c.sender, d.sender), Finished(c)
  PROVE  Finished(d)
<1>1. BytesInFlight(c.sender) = 0 /\ Eof(c.sender.stream) /\ c.sender.finSent
  BY DEF Finished, OutboundDone, Outbound
<1>2. BytesInFlight(d.sender) \in Nat
  BY CountFields
<1>3. BytesInFlight(d.sender) <= BytesInFlight(c.sender) /\ d.sender.finSent
      /\ Eof(d.sender.stream)
  BY <1>1 DEF Later
<1> QED
  BY <1>1, <1>2, <1>3 DEF Finished, OutboundDone, Outbound

\* The parts of a connection change.
LEMMA PartsOnward ==
  ASSUME SocketBounds, NEW sofar, NEW fin, NEW c, Base(c, sofar, fin),
         NEW d \in Connections(sofar), Sending(d.sender), Later(c.sender, d.sender),
         Receiving(d.receiver, sofar, fin), Onwards(c.receiver, d.receiver),
         d.sender.finSent => d.finsent, c.finsent => d.finsent,
         ~ c.active2 => ~ d.active2,
         ~ d.active2 => ~ c.active2 \/ Inbound(d).error \/ Finished(d),
         ~ c.linger => ~ d.linger,
         c.linger /\ ~ d.linger /\ d.active2 => ~ c.finsent
  PROVE  Base(d, sofar, fin) /\ Onward(c, d)
<1>1. ~ c.active2 => Inbound(d).error \/ Finished(d)
  <2>1. ~ c.active2 => Inbound(c).error \/ Finished(c)
    BY DEF Base
  <2>2. Inbound(c).error => Inbound(d).error
    BY DEF Onwards, Inbound
  <2>3. Finished(c) => Finished(d)
    BY FinishedLater, ConnectionFields
  <2> QED
    BY <2>1, <2>2, <2>3
<1> QED
  BY <1>1 DEF Base, Onward

\* Stamped, a segment is one still.
LEMMA StampIsSegment ==
  ASSUME SocketBounds, NEW sofar \in 0 .. PeerLen, NEW fin \in BOOLEAN,
         NEW c, Receiving(c.receiver, sofar, fin), NEW seg \in Outgoing
  PROVE  Stamp(c, seg) \in Outgoing /\ Stamp(c, seg).fin = seg.fin
<1> DEFINE ack == HasAckno(c.receiver)
           ackno == IF HasAckno(c.receiver) THEN Ackno(c.receiver) ELSE seg.ackno
           win == Smaller(RecvCapacity, UInt16Max)
<1>1. ack \in BOOLEAN
  BY AcknoOfReceiver
<1>2. ackno \in RawValues
  BY AcknoOfReceiver, SegmentFields
<1>3. win \in Nat
  BY SocketFacts DEF Smaller
<1>4. Stamp(c, seg) = [seg EXCEPT !.ack = ack, !.ackno = ackno, !.win = win]
  BY DEF Stamp
<1> HIDE DEF ack, ackno, win
<1>5. seg \in TCPSegments(Nat) /\ Len(seg.payload) <= MaxPayload
  BY DEF Outgoing
<1> DEFINE t == Stamp(c, seg)
<1>6. t \in TCPSegments(Nat) /\ t.payload = seg.payload /\ t.fin = seg.fin
  BY <1>1, <1>2, <1>3, <1>4, <1>5 DEF TCPSegments
<1> HIDE DEF t
<1>7. t \in Outgoing
  BY <1>5, <1>6 DEF Outgoing
<1> QED
  BY <1>6, <1>7 DEF t

\* The connection takes over a queue, or the tail of it.
LEMMA QueueTaken ==
  ASSUME SocketBounds, NEW s, Sending(s), NEW queue \in Seq(Outgoing)
  PROVE  LET t == [s EXCEPT !.segmentsOut = queue]
         IN  /\ Sending(t) /\ Later(s, t) /\ t.stream = s.stream /\ t.finSent = s.finSent
             /\ t.nextSeqno = s.nextSeqno /\ t.acked = s.acked /\ t.window = s.window
<1> DEFINE t == [s EXCEPT !.segmentsOut = queue]
<1>1. s \in Senders /\ s.acked \in Nat /\ s.nextSeqno \in Nat /\ s.acked <= s.nextSeqno
  BY CountFields
<1>2. /\ t \in Senders /\ t.stream = s.stream /\ t.nextSeqno = s.nextSeqno
      /\ t.finSent = s.finSent /\ t.window = s.window /\ t.outstanding = s.outstanding
      /\ t.acked = s.acked
  BY <1>1 DEF Senders
<1> HIDE DEF t
<1>3. Thinned(s.outstanding, t.outstanding)
  BY <1>2, ThinnedNot
<1>4. \A o \in s.outstanding : \E p \in t.outstanding : p.seg = o.seg
  BY <1>2
<1>5. Sending(t) /\ Later(s, t)
  BY <1>1, <1>2, <1>3, <1>4, FewerSending
<1> QED
  BY <1>2, <1>5 DEF t

LEMMA EmptiedSending ==
  ASSUME SocketBounds, NEW s, Sending(s)
  PROVE  LET t == [s EXCEPT !.segmentsOut = <<>>]
         IN  /\ Sending(t) /\ Later(s, t) /\ t.stream = s.stream /\ t.finSent = s.finSent
             /\ t.nextSeqno = s.nextSeqno /\ t.acked = s.acked /\ t.window = s.window
<1>1. <<>> \in Seq(Outgoing)
  OBVIOUS
<1> QED
  BY <1>1, QueueTaken

\* fill_window_and_send: afterwards the SYN has been sent, and fill_window has nothing
\* more to do.
LEMMA FillOnward ==
  ASSUME SocketBounds, NEW sofar \in 0 .. PeerLen, NEW fin \in BOOLEAN,
         NEW c, Base(c, sofar, fin)
  PROVE  LET d == FillWindowAndSend(c)
         IN  /\ Conn(d, sofar, fin) /\ Onward(c, d)
             /\ d.receiver = c.receiver /\ d.active2 = c.active2 /\ d.linger = c.linger
             /\ d.sender.nextSeqno > 0 /\ Filled(d.sender)
             /\ SameInput(Outbound(c), Outbound(d))
<1> DEFINE sender == FillWindow(c.sender)
           sent == sender.segmentsOut
           stamped == [i \in DOMAIN sent |-> Stamp(c, sent[i])]
           emptied == [sender EXCEPT !.segmentsOut = <<>>]
           idle == IF sent = <<>> THEN c.idle ELSE 0
           finsent == c.finsent \/ \E i \in DOMAIN sent : sent[i].fin
           queue == c.segmentsOut \o stamped
           d == [c EXCEPT !.sender = emptied, !.segmentsOut = queue, !.idle = idle,
                          !.finsent = finsent]
<1>1. FillWindowAndSend(c) = d
  BY DEF FillWindowAndSend
<1>2. /\ c \in Connections(sofar) /\ Sending(c.sender) /\ Receiving(c.receiver, sofar, fin)
      /\ c.finsent \in BOOLEAN /\ c.idle \in Nat /\ c.segmentsOut \in Seq(Outgoing)
  BY ConnectionFields
<1>3. Turned(c.sender, sender) /\ Filled(sender)
  BY <1>2, FillSending
<1> HIDE DEF sender
<1>4. /\ Sending(sender) /\ Later(c.sender, sender) /\ sender.nextSeqno > 0
      /\ SameInput(c.sender.stream, sender.stream) /\ sender \in Senders
      /\ (sender.finSent => c.sender.finSent \/ \E i \in DOMAIN sent : sent[i].fin)
      /\ sent \in Seq(Outgoing)
  <2>1. Sending(sender)
    BY <1>3 DEF Turned
  <2> QED
    BY <1>3, <2>1, SenderFields DEF Turned, Sending
<1>5. /\ Sending(emptied) /\ Later(sender, emptied) /\ emptied.stream = sender.stream
      /\ emptied.finSent = sender.finSent /\ emptied.nextSeqno = sender.nextSeqno
      /\ emptied.acked = sender.acked /\ emptied.window = sender.window
  BY <1>4, EmptiedSending
<1> HIDE DEF emptied, sent
<1>6. Later(c.sender, emptied)
  BY ONLY SocketBounds, <1>2, <1>4, <1>5, LaterTwice
<1>7. Filled(emptied)
  BY <1>3, <1>5 DEF Filled, Room
<1>8. queue \in Seq(Outgoing)
  <2>1. DOMAIN sent = 1 .. Len(sent) /\ Len(sent) \in Nat
    BY <1>4, LenProperties
  <2>2. \A i \in 1 .. Len(sent) : Stamp(c, sent[i]) \in Outgoing
    <3> SUFFICES ASSUME NEW i \in 1 .. Len(sent) PROVE Stamp(c, sent[i]) \in Outgoing
      OBVIOUS
    <3>1. sent[i] \in Outgoing
      BY <1>4, <2>1
    <3> QED
      BY <1>2, <3>1, StampIsSegment
  <2>3. stamped = [i \in 1 .. Len(sent) |-> Stamp(c, sent[i])]
    BY <2>1
  <2> HIDE DEF stamped
  <2>4. stamped \in Seq(Outgoing)
    BY <2>1, <2>2, <2>3
  <2> QED
    BY <1>2, <2>4, ConcatProperties
<1>9. idle \in Nat /\ finsent \in BOOLEAN /\ (c.finsent => finsent)
  BY <1>2
<1>10. emptied.finSent => finsent
  BY <1>4, <1>5 DEF Base
<1>11. emptied \in Senders
  BY <1>5 DEF Sending
<1> HIDE DEF queue, idle, finsent, stamped
<1>12. /\ d \in Connections(sofar) /\ d.sender = emptied /\ d.receiver = c.receiver
       /\ d.linger = c.linger /\ d.active2 = c.active2 /\ d.finsent = finsent
       /\ d.segmentsOut = queue
  BY <1>2, <1>8, <1>9, <1>11 DEF Connections
<1> HIDE DEF d
<1>13. Onwards(c.receiver, d.receiver)
  BY <1>12 DEF Onwards
<1>14. Base(d, sofar, fin) /\ Onward(c, d)
  BY ONLY SocketBounds, Base(c, sofar, fin), <1>2, <1>5, <1>6, <1>9, <1>10, <1>12, <1>13,
          PartsOnward
<1>15. Conn(d, sofar, fin)
  BY <1>4, <1>5, <1>7, <1>12, <1>14 DEF Conn
<1>16. SameInput(Outbound(c), Outbound(d))
  BY <1>4, <1>5, <1>12 DEF Outbound
<1> QED
  BY <1>1, <1>4, <1>5, <1>7, <1>12, <1>14, <1>15, <1>16
-----------------------------------------------------------------------------
\* The last position is outstanding until it is acknowledged: with nothing in flight
\* an ended stream has had its FIN sent.
LEMMA LastOut ==
  ASSUME SocketBounds, NEW s, Sending(s), s.nextSeqno > 0, Filled(s),
         Eof(s.stream), BytesInFlight(s) = 0
  PROVE  s.finSent
<1>1. SUFFICES ASSUME ~ s.finSent PROVE FALSE
  OBVIOUS
<1>2. /\ s \in Senders /\ IsFiniteSet(s.outstanding) /\ s.acked \in Nat
      /\ s.nextSeqno \in Nat /\ s.window \in Int
  BY CountFields
<1>3. s.acked + s.window - s.nextSeqno <= 0 /\ s.window >= 1
  BY <1>1 DEF Filled, Room, Sending, Counting
<1>4. s.nextSeqno > s.acked
  BY <1>2, <1>3
<1>5. PICK o \in s.outstanding : LengthInSequenceSpace(o.seg) > 0
  BY <1>4 DEF Sending, Covering
<1>6. LengthInSequenceSpace(o.seg) = 0
  BY <1>2, NothingInFlight
<1> QED
  BY <1>5, <1>6

\* The same of a connection.
LEMMA DoneMeansFinished ==
  ASSUME SocketBounds, NEW c, Sending(c.sender), c.sender.nextSeqno > 0,
         Inbound(c).error \/ Filled(c.sender), OutboundDone(c)
  PROVE  Inbound(c).error \/ Finished(c)
<1>1. Eof(c.sender.stream) /\ BytesInFlight(c.sender) = 0
  BY DEF OutboundDone, Outbound
<1>2. Filled(c.sender) => c.sender.finSent
  BY <1>1, LastOut
<1> QED
  BY <1>2 DEF Finished

\* Of the inbound side, nothing but an error changes.
SameInbound(c, d) ==
  /\ d.receiver.status = c.receiver.status
  /\ Inbound(d).totRead = Inbound(c).totRead
  /\ Inbound(d).totWrite = Inbound(c).totWrite
  /\ Inbound(d).eof2 = Inbound(c).eof2

\* Neither write nor end_input.
SameOutput(c, d) ==
  Outbound(d).totWrite = Outbound(c).totWrite /\ Outbound(d).eof2 = Outbound(c).eof2

\* A reset ends both streams with an error and the connection with them.
LEMMA ResetOnward ==
  ASSUME SocketBounds, NEW sofar \in 0 .. PeerLen, NEW fin \in BOOLEAN,
         NEW c, Base(c, sofar, fin), NEW z \in Connections(sofar), Sending(z.sender),
         Later(c.sender, z.sender), z.sender.finSent = c.sender.finSent,
         z.receiver = c.receiver, z.finsent = c.finsent, ~ z.active2,
         ~ c.linger => ~ z.linger
  PROVE  LET d == WithError(z)
         IN  /\ Base(d, sofar, fin) /\ Onward(c, d) /\ Inbound(d).error /\ ~ d.active2
             /\ SameInbound(c, d) /\ SameOutput(z, d) /\ d.segmentsOut = z.segmentsOut
             /\ d.sender.nextSeqno = z.sender.nextSeqno
<1> DEFINE s == z.sender
           b == SetError(s.stream)
           t == [s EXCEPT !.stream = b]
           r == [c.receiver EXCEPT !.reassembler.out = SetError(@)]
           d == WithError(z)
           e == [z EXCEPT !.sender = t, !.receiver = r]
<1>1. /\ c \in Connections(sofar) /\ Sending(c.sender) /\ Receiving(c.receiver, sofar, fin)
      /\ s \in Senders /\ c.finsent \in BOOLEAN /\ Flowing(s.stream)
  BY ConnectionFields, CountFields
<1>2. /\ Flowing(b) /\ b.totRead = s.stream.totRead /\ b.totWrite = s.stream.totWrite
      /\ b.eof2 = s.stream.eof2 /\ b.error = TRUE /\ (Eof(b) <=> Eof(s.stream))
  BY <1>1, EndFlows
<1> HIDE DEF b
<1>3. /\ Sending(t) /\ Later(s, t) /\ t.stream = b /\ t.nextSeqno = s.nextSeqno
      /\ t.finSent = s.finSent
  BY <1>2, StreamSending
<1>4. /\ Receiving(r, sofar, fin) /\ Onwards(c.receiver, r) /\ r.status = c.receiver.status
      /\ StreamIn(r).totRead = StreamIn(c.receiver).totRead
      /\ StreamIn(r).totWrite = StreamIn(c.receiver).totWrite
      /\ StreamIn(r).eof2 = StreamIn(c.receiver).eof2
      /\ StreamIn(r).error = TRUE
  BY <1>1, ErrorReceiving
<1>6. d = e
  BY DEF WithError, b
<1> HIDE DEF t, r, d
<1>7. t \in Senders /\ r \in Receivers(sofar)
  BY <1>3, <1>4 DEF Sending, Receiving
<1>8. /\ e \in Connections(sofar) /\ e.sender = t /\ e.receiver = r /\ ~ e.active2
      /\ e.segmentsOut = z.segmentsOut /\ e.linger = z.linger /\ e.finsent = c.finsent
  BY <1>7 DEF Connections
<1> HIDE DEF e
<1>9. Later(c.sender, t)
  BY ONLY SocketBounds, <1>1, <1>3, Sending(z.sender), Later(c.sender, z.sender), LaterTwice
<1>10. Inbound(d).error
  BY <1>4, <1>6, <1>8 DEF Inbound
<1>11. d.sender.finSent => d.finsent
  BY <1>3, <1>6, <1>8 DEF Base
<1>12. Base(d, sofar, fin) /\ Onward(c, d)
  BY ONLY SocketBounds, Base(c, sofar, fin), <1>3, <1>4, <1>6, <1>8, <1>9, <1>10, <1>11,
          ~ c.linger => ~ z.linger, PartsOnward
<1>13. SameInbound(c, d)
  BY <1>4, <1>6, <1>8 DEF SameInbound, Inbound
<1>14. Outbound(d) = b
  BY <1>3, <1>6, <1>8 DEF Outbound
<1> QED
  BY <1>2, <1>3, <1>6, <1>8, <1>10, <1>12, <1>13, <1>14 DEF d, SameOutput, Outbound
-----------------------------------------------------------------------------
\* segment_received, step by step.
LEMMA ConfirmedOnward ==
  ASSUME SocketBounds, NEW sofar \in 0 .. PeerLen, NEW fin \in BOOLEAN,
         NEW c, Conn(c, sofar, fin), NEW seg, seg.ack => c.sender.nextSeqno > 0
  PROVE  LET d == [c EXCEPT !.active2 = @ /\ ~ ConfirmsPassiveClose(c, seg)]
         IN  /\ Base(d, sofar, fin) /\ Onward(c, d)
             /\ d.sender = c.sender /\ d.receiver = c.receiver
<1> DEFINE flag == c.active2 /\ ~ ConfirmsPassiveClose(c, seg)
           d == [c EXCEPT !.active2 = flag]
<1>1. /\ c \in Connections(sofar) /\ Sending(c.sender) /\ Receiving(c.receiver, sofar, fin)
      /\ c.active2 \in BOOLEAN /\ Base(c, sofar, fin)
  BY ConnectionFields DEF Conn
<1>2. flag \in BOOLEAN /\ (~ c.active2 => ~ flag)
  BY <1>1
<1>3. ~ flag => ~ c.active2 \/ Inbound(c).error \/ Finished(c)
  <2>1. ASSUME ConfirmsPassiveClose(c, seg) PROVE Inbound(c).error \/ Finished(c)
    <3>1. OutboundDone(c) /\ seg.ack
      BY <2>1 DEF ConfirmsPassiveClose
    <3> QED
      BY <1>1, <3>1, DoneMeansFinished DEF Conn
  <2> QED
    BY <1>1, <2>1
<1> HIDE DEF flag
<1>4. /\ d \in Connections(sofar) /\ d.sender = c.sender /\ d.receiver = c.receiver
      /\ d.active2 = flag /\ d.linger = c.linger /\ d.finsent = c.finsent
  BY <1>1, <1>2 DEF Connections
<1> HIDE DEF d
<1>5. Later(c.sender, d.sender) /\ Onwards(c.receiver, d.receiver)
  BY <1>1, <1>4, LaterSelf DEF Onwards
<1>6. Inbound(d) = Inbound(c) /\ (Finished(c) => Finished(d))
  BY <1>4 DEF Inbound, Finished, OutboundDone, Outbound
<1>7. d.sender.finSent => d.finsent
  BY <1>1, <1>4 DEF Base
<1>8. ~ d.active2 => ~ c.active2 \/ Inbound(d).error \/ Finished(d)
  BY <1>3, <1>4, <1>6
<1>9. Base(d, sofar, fin) /\ Onward(c, d)
  BY ONLY SocketBounds, <1>1, <1>2, <1>4, <1>5, <1>7, <1>8, PartsOnward
<1> QED
  BY <1>4, <1>9 DEF d, flag

LEMMA NoteFinOnward ==
  ASSUME SocketBounds, NEW sofar \in 0 .. PeerLen, NEW fin \in BOOLEAN,
         NEW c, Base(c, sofar, fin), NEW seg
  PROVE  LET d == NoteFin(c, seg)
         IN  /\ Base(d, sofar, fin) /\ Onward(c, d)
             /\ d.sender = c.sender /\ d.receiver = c.receiver
<1>1. CASE seg.fin /\ ~ c.finsent
  <2> DEFINE d == [c EXCEPT !.linger = FALSE]
  <2>1. /\ c \in Connections(sofar) /\ Sending(c.sender) /\ Receiving(c.receiver, sofar, fin)
    BY ConnectionFields
  <2>2. /\ d \in Connections(sofar) /\ d.sender = c.sender /\ d.receiver = c.receiver
        /\ d.active2 = c.active2 /\ d.linger = FALSE /\ d.finsent = c.finsent
    BY <2>1 DEF Connections
  <2> HIDE DEF d
  <2>3. Later(c.sender, d.sender) /\ Onwards(c.receiver, d.receiver)
    BY <2>1, <2>2, LaterSelf DEF Onwards
  <2>4. d.sender.finSent => d.finsent
    BY <2>2 DEF Base
  <2>5. Base(d, sofar, fin) /\ Onward(c, d)
    BY ONLY SocketBounds, Base(c, sofar, fin), <1>1, <2>1, <2>2, <2>3, <2>4, PartsOnward
  <2> QED
    BY <1>1, <2>2, <2>5 DEF NoteFin, d
<1>2. CASE ~ (seg.fin /\ ~ c.finsent)
  <2>1. NoteFin(c, seg) = c
    BY <1>2 DEF NoteFin
  <2> QED
    BY <2>1, OnwardSelf
<1> QED
  BY <1>1, <1>2

LEMMA AbsorbOnward ==
  ASSUME SocketBounds, NEW sofar \in 0 .. PeerLen, NEW fin \in BOOLEAN,
         NEW c, Base(c, sofar, fin), NEW seg, Piece(seg, sofar, fin),
         seg.ack => c.sender.nextSeqno > 0, seg.ackno \in Nat, seg.win \in Nat
  PROVE  LET d == Absorb(c, seg)
         IN  /\ Base(d, sofar, fin) /\ Onward(c, d)
             /\ Inbound(d).totRead = Inbound(c).totRead
             /\ Outbound(d) = Outbound(c)
             /\ c.receiver.status = LISTEN => ~ InputEnded(Inbound(d))
             /\ c.receiver.status = LISTEN /\ d.receiver.status # LISTEN => seg.syn
<1> DEFINE r == Receive(c.receiver, seg)
           s == IF seg.ack THEN AckReceived(c.sender, seg.ackno, seg.win) ELSE c.sender
           d == [c EXCEPT !.receiver = r, !.sender = s]
<1>1. /\ c \in Connections(sofar) /\ Sending(c.sender) /\ Receiving(c.receiver, sofar, fin)
  BY ConnectionFields
<1>2. /\ Receiving(r, sofar, fin) /\ Onwards(c.receiver, r)
      /\ StreamIn(r).totRead = StreamIn(c.receiver).totRead
      /\ c.receiver.status = LISTEN => ~ InputEnded(StreamIn(r))
      /\ c.receiver.status = LISTEN /\ r.status # LISTEN => seg.syn
  BY <1>1, ReceiveReceiving
<1>3. Sending(s) /\ Later(c.sender, s) /\ s.stream = c.sender.stream
      /\ s.finSent = c.sender.finSent
  <2>1. CASE seg.ack
    BY <1>1, <2>1, AckSending
  <2>2. CASE ~ seg.ack
    BY <1>1, <2>2, LaterSelf
  <2> QED
    BY <2>1, <2>2
<1>4. Absorb(c, seg) = d
  BY DEF Absorb
<1> HIDE DEF r, s
<1>5. r \in Receivers(sofar) /\ s \in Senders
  BY <1>2, <1>3 DEF Receiving, Sending
<1>6. /\ d \in Connections(sofar) /\ d.sender = s /\ d.receiver = r
      /\ d.active2 = c.active2 /\ d.linger = c.linger /\ d.finsent = c.finsent
  BY <1>1, <1>5 DEF Connections
<1> HIDE DEF d
<1>7. d.sender.finSent => d.finsent
  BY <1>3, <1>6 DEF Base
<1>8. Base(d, sofar, fin) /\ Onward(c, d)
  BY ONLY SocketBounds, Base(c, sofar, fin), <1>2, <1>3, <1>6, <1>7, PartsOnward
<1> QED
  BY <1>2, <1>3, <1>4, <1>6, <1>8 DEF Inbound, Outbound

LEMMA RespondOnward ==
  ASSUME SocketBounds, NEW sofar \in 0 .. PeerLen, NEW fin \in BOOLEAN,
         NEW c, Base(c, sofar, fin), NEW seg
  PROVE  LET d == Respond(c, seg)
         IN  /\ Conn(d, sofar, fin) /\ Onward(c, d)
             /\ d.receiver = c.receiver /\ d.sender.nextSeqno > 0 /\ Filled(d.sender)
             /\ SameInput(Outbound(c), Outbound(d))
<1> DEFINE s == SendEmptySegment(c.sender)
           e == [c EXCEPT !.sender = s]
<1>1. /\ c \in Connections(sofar) /\ Sending(c.sender) /\ Receiving(c.receiver, sofar, fin)
  BY ConnectionFields
<1>2. Sending(s) /\ Later(c.sender, s) /\ s.stream = c.sender.stream
      /\ s.finSent = c.sender.finSent
  BY <1>1, EmptySending
<1> HIDE DEF s
<1>3. s \in Senders
  BY <1>2 DEF Sending
<1>4. /\ e \in Connections(sofar) /\ e.sender = s /\ e.receiver = c.receiver
      /\ e.active2 = c.active2 /\ e.linger = c.linger /\ e.finsent = c.finsent
  BY <1>1, <1>3 DEF Connections
<1>5. Onwards(c.receiver, e.receiver) /\ (e.sender.finSent => e.finsent)
  BY <1>2, <1>4 DEF Onwards, Base
<1> HIDE DEF e
<1>6. Base(e, sofar, fin) /\ Onward(c, e)
  BY ONLY SocketBounds, Base(c, sofar, fin), <1>1, <1>2, <1>4, <1>5, PartsOnward
<1>7. Respond(c, seg) \in {FillWindowAndSend(e), FillWindowAndSend(c)}
  BY DEF Respond, e, s
<1> DEFINE f == FillWindowAndSend(e)
<1>8. /\ Conn(f, sofar, fin) /\ Onward(e, f)
      /\ f.receiver = e.receiver /\ f.sender.nextSeqno > 0 /\ Filled(f.sender)
      /\ SameInput(Outbound(e), Outbound(f))
  BY <1>6, FillOnward
<1> HIDE DEF f
<1>9. Onward(c, f)
  <2>1. Base(f, sofar, fin)
    BY <1>8 DEF Conn
  <2> QED
    BY ONLY SocketBounds, Base(c, sofar, fin), <1>6, <1>8, <2>1, OnwardTwice
<1>10. SameInput(Outbound(c), Outbound(f))
  BY <1>2, <1>4, <1>8 DEF Outbound
<1>11. CASE Respond(c, seg) = f
  BY <1>4, <1>8, <1>9, <1>10, <1>11
<1>12. CASE Respond(c, seg) = FillWindowAndSend(c)
  BY <1>12, FillOnward
<1> QED
  BY <1>7, <1>11, <1>12 DEF f

LEMMA CloseOnward ==
  ASSUME SocketBounds, NEW sofar \in 0 .. PeerLen, NEW fin \in BOOLEAN,
         NEW c, Conn(c, sofar, fin), NEW seg, c.sender.nextSeqno > 0
  PROVE  LET d == CloseIfDone(c, seg)
         IN  /\ Conn(d, sofar, fin) /\ Onward(c, d) /\ d.sender = c.sender
             /\ d.receiver = c.receiver
<1>0. Base(c, sofar, fin)
  BY DEF Conn
<1>1. CASE ~ c.linger /\ OutboundDone(c) /\ seg.ack
  <2> DEFINE d == [c EXCEPT !.active2 = FALSE]
  <2>1. /\ c \in Connections(sofar) /\ Sending(c.sender) /\ Receiving(c.receiver, sofar, fin)
    BY <1>0, ConnectionFields
  <2>2. /\ d \in Connections(sofar) /\ d.sender = c.sender /\ d.receiver = c.receiver
        /\ d.active2 = FALSE /\ d.linger = c.linger /\ d.finsent = c.finsent
        /\ d.segmentsOut = c.segmentsOut
    BY <2>1 DEF Connections
  <2> HIDE DEF d
  <2>3. Later(c.sender, d.sender) /\ Onwards(c.receiver, d.receiver)
    BY <2>1, <2>2, LaterSelf DEF Onwards
  <2>4. d.sender.finSent => d.finsent
    BY <1>0, <2>2 DEF Base
  <2>5. Inbound(c).error \/ Finished(c)
    BY <1>1, <2>1, DoneMeansFinished DEF Conn
  <2>6. Inbound(d).error \/ Finished(d)
    BY <2>2, <2>5 DEF Inbound, Finished, OutboundDone, Outbound
  <2>7. Base(d, sofar, fin) /\ Onward(c, d)
    BY ONLY SocketBounds, <1>0, <2>1, <2>2, <2>3, <2>4, <2>6, PartsOnward
  <2>8. Conn(d, sofar, fin)
    BY <2>2, <2>7 DEF Conn, Inbound, Outbound
  <2> QED
    BY <1>1, <2>2, <2>7, <2>8 DEF CloseIfDone, d
<1>2. CASE ~ (~ c.linger /\ OutboundDone(c) /\ seg.ack)
  <2>1. CloseIfDone(c, seg) = c
    BY <1>2 DEF CloseIfDone
  <2> QED
    BY <1>0, <2>1, OnwardSelf
<1> QED
  BY <1>1, <1>2
-----------------------------------------------------------------------------
\* What the peer sends, when it arrives: a piece of its stream, or a reset before
\* there is one.
Arriving(seg, c, sofar, fin) ==
  /\ seg.ack => c.sender.nextSeqno > 0
  /\ seg.ackno \in Nat /\ seg.win \in Nat
  /\ Piece(seg, sofar, fin) \/ (seg.rst /\ ~ seg.syn /\ c.receiver.status = LISTEN)

LEMMA SegmentOnward ==
  ASSUME SocketBounds, NEW sofar \in 0 .. PeerLen, NEW fin \in BOOLEAN,
         NEW c, Conn(c, sofar, fin), NEW seg, Arriving(seg, c, sofar, fin)
  PROVE  LET d == SegmentReceived(c, seg)
         IN  /\ Conn(d, sofar, fin) /\ Onward(c, d)
             /\ Inbound(d).totRead = Inbound(c).totRead /\ SameOutput(c, d)
             /\ c.receiver.status = LISTEN => ~ InputEnded(Inbound(d))
             /\ c.receiver.status = LISTEN /\ d.receiver.status # LISTEN => seg.syn
             /\ c.sender.nextSeqno <= d.sender.nextSeqno
<1> DEFINE d == SegmentReceived(c, seg)
<1>1. /\ Base(c, sofar, fin) /\ c \in Connections(sofar)
      /\ Sending(c.sender) /\ Receiving(c.receiver, sofar, fin)
      /\ c.segmentsOut \in Seq(Outgoing) /\ c.linger \in BOOLEAN /\ c.idle \in Nat
      /\ c.sender.nextSeqno \in Nat
  BY ConnectionFields DEF Conn
<1>2. c.receiver.status = LISTEN => ~ InputEnded(Inbound(c))
  BY <1>1, ReceivingFields DEF InputEnded, Inbound
<1>3. CASE ~ Active(c) \/ (Untouched(c) /\ ~ seg.syn)
  <2>1. d = c
    BY <1>3 DEF SegmentReceived
  <2> HIDE DEF d
  <2>2. Onward(c, c)
    BY <1>1, OnwardSelf
  <2> QED
    BY <1>1, <1>2, <2>1, <2>2 DEF d, SameOutput
<1>4. CASE ~ (~ Active(c) \/ (Untouched(c) /\ ~ seg.syn)) /\ AcceptsReset(c, seg)
  <2> DEFINE z == [c EXCEPT !.active2 = FALSE]
             e == WithError(z)
  <2>1. d = e
    BY <1>4 DEF SegmentReceived
  <2>2. /\ z \in Connections(sofar) /\ z.sender = c.sender /\ z.receiver = c.receiver
        /\ ~ z.active2 /\ z.finsent = c.finsent /\ z.linger = c.linger
        /\ z.segmentsOut = c.segmentsOut
    BY <1>1 DEF Connections
  <2> HIDE DEF z
  <2>3. Sending(z.sender) /\ Later(c.sender, z.sender)
    BY <1>1, <2>2, LaterSelf
  <2>4. /\ Base(e, sofar, fin) /\ Onward(c, e) /\ Inbound(e).error /\ ~ e.active2
        /\ SameInbound(c, e) /\ SameOutput(z, e) /\ e.segmentsOut = z.segmentsOut
        /\ e.sender.nextSeqno = z.sender.nextSeqno
    BY <1>1, <2>2, <2>3, ResetOnward
  <2> HIDE DEF e, d
  <2>5. e.sender.nextSeqno = c.sender.nextSeqno /\ e.segmentsOut = c.segmentsOut
    BY <2>2, <2>4
  <2>6. Outbound(e).totWrite = Outbound(c).totWrite /\ Outbound(e).eof2 = Outbound(c).eof2
    BY <2>2, <2>4 DEF SameOutput, Outbound
  <2>7. Conn(e, sofar, fin)
    BY <2>4, <2>5, <2>6 DEF Conn, SameInbound
  <2>8. c.sender.nextSeqno <= e.sender.nextSeqno
    BY <1>1, <2>5
  <2> QED
    BY <1>2, <2>1, <2>4, <2>6, <2>7, <2>8 DEF d, SameInbound, SameOutput, InputEnded
<1>5. CASE ~ (~ Active(c) \/ (Untouched(c) /\ ~ seg.syn)) /\ ~ AcceptsReset(c, seg)
  <2> DEFINE c1 == [c EXCEPT !.active2 = @ /\ ~ ConfirmsPassiveClose(c, seg)]
             c2 == NoteFin(c1, seg)
             c3 == Absorb(c2, seg)
             c4 == Respond(c3, seg)
             c5 == CloseIfDone(c4, seg)
  <2>0. /\ seg.ack => c.sender.nextSeqno > 0
        /\ seg.ackno \in Nat /\ seg.win \in Nat /\ Piece(seg, sofar, fin)
    <3>1. ASSUME seg.rst, c.receiver.status = LISTEN PROVE FALSE
      <4>1. ~ HasAckno(c.receiver)
        BY <1>1, <3>1, AcknoOfReceiver
      <4> QED
        BY <1>5, <3>1, <4>1 DEF AcceptsReset
    <3> QED
      BY <3>1 DEF Arriving
  <2>1. d = c5
    BY <1>5 DEF SegmentReceived
  <2> HIDE DEF d
  <2>2. Base(c1, sofar, fin) /\ Onward(c, c1) /\ c1.sender = c.sender /\ c1.receiver = c.receiver
    BY <2>0, ConfirmedOnward
  <2> HIDE DEF c1
  <2>3. Base(c2, sofar, fin) /\ Onward(c1, c2) /\ c2.sender = c.sender /\ c2.receiver = c.receiver
    BY <2>2, NoteFinOnward
  <2> HIDE DEF c2
  <2>4. /\ Base(c3, sofar, fin) /\ Onward(c2, c3)
        /\ Inbound(c3).totRead = Inbound(c2).totRead
        /\ Outbound(c3) = Outbound(c2)
        /\ c2.receiver.status = LISTEN => ~ InputEnded(Inbound(c3))
        /\ c2.receiver.status = LISTEN /\ c3.receiver.status # LISTEN => seg.syn
    BY <2>0, <2>3, AbsorbOnward
  <2> HIDE DEF c3
  <2>5. /\ Conn(c4, sofar, fin) /\ Onward(c3, c4)
        /\ c4.receiver = c3.receiver /\ c4.sender.nextSeqno > 0
        /\ SameInput(Outbound(c3), Outbound(c4)) /\ Base(c4, sofar, fin)
    BY <2>4, RespondOnward DEF Conn
  <2> HIDE DEF c4
  <2>6. /\ Conn(c5, sofar, fin) /\ Onward(c4, c5) /\ c5.sender = c4.sender
        /\ c5.receiver = c4.receiver /\ Base(c5, sofar, fin)
    BY <2>5, CloseOnward DEF Conn
  <2> HIDE DEF c5
  <2>7. Onward(c, c2)
    BY ONLY SocketBounds, <1>1, <2>2, <2>3, OnwardTwice
  <2>8. Onward(c, c3)
    BY ONLY SocketBounds, <1>1, <2>3, <2>4, <2>7, OnwardTwice
  <2>9. Onward(c, c4)
    BY ONLY SocketBounds, <1>1, <2>4, <2>5, <2>8, OnwardTwice
  <2>10. Onward(c, c5)
    BY ONLY SocketBounds, <1>1, <2>5, <2>6, <2>9, OnwardTwice
  <2>11. c.sender.nextSeqno <= c5.sender.nextSeqno
    BY <2>10 DEF Onward, Later
  <2>12. Inbound(c5) = Inbound(c3) /\ Inbound(c2) = Inbound(c)
    BY <2>3, <2>5, <2>6 DEF Inbound
  <2>13. SameOutput(c, c5)
    BY <2>3, <2>4, <2>5, <2>6 DEF SameOutput, SameInput, Outbound
  <2> QED
    BY <2>1, <2>3, <2>4, <2>5, <2>6, <2>10, <2>11, <2>12, <2>13 DEF d
<1> QED
  BY <1>3, <1>4, <1>5
-----------------------------------------------------------------------------
\* The outbound stream changes and fill_window_and_send is called.
LEMMA StreamOnward ==
  ASSUME SocketBounds, NEW sofar \in 0 .. PeerLen, NEW fin \in BOOLEAN,
         NEW c, Conn(c, sofar, fin), NEW b, Flowing(b), b.totRead = Outbound(c).totRead,
         Eof(Outbound(c)) => Eof(b), Outbound(c).error => b.error
  PROVE  LET d == FillWindowAndSend([c EXCEPT !.sender.stream = b])
         IN  /\ Conn(d, sofar, fin) /\ Onward(c, d)
             /\ d.receiver = c.receiver /\ SameInput(b, Outbound(d))
<1> DEFINE s == [c.sender EXCEPT !.stream = b]
           e == [c EXCEPT !.sender = s]
           f == FillWindowAndSend(e)
<1>1. /\ Base(c, sofar, fin) /\ c \in Connections(sofar)
      /\ Sending(c.sender) /\ Receiving(c.receiver, sofar, fin)
  BY ConnectionFields DEF Conn
<1>2. Sending(s) /\ Later(c.sender, s) /\ s.stream = b /\ s.finSent = c.sender.finSent
  BY <1>1, StreamSending DEF Outbound
<1>3. e = [c EXCEPT !.sender.stream = b]
  OBVIOUS
<1> HIDE DEF s
<1>4. s \in Senders
  BY <1>2 DEF Sending
<1>5. /\ e \in Connections(sofar) /\ e.sender = s /\ e.receiver = c.receiver
      /\ e.active2 = c.active2 /\ e.linger = c.linger /\ e.finsent = c.finsent
  BY <1>1, <1>4 DEF Connections
<1> HIDE DEF e
<1>6. Onwards(c.receiver, e.receiver) /\ (e.sender.finSent => e.finsent)
  BY <1>1, <1>2, <1>5 DEF Onwards, Base
<1>7. Base(e, sofar, fin) /\ Onward(c, e)
  BY ONLY SocketBounds, <1>1, <1>2, <1>5, <1>6, PartsOnward
<1>8. /\ Conn(f, sofar, fin) /\ Onward(e, f) /\ f.receiver = e.receiver
      /\ SameInput(Outbound(e), Outbound(f)) /\ Base(f, sofar, fin)
  BY <1>7, FillOnward DEF Conn
<1>9. f = FillWindowAndSend([c EXCEPT !.sender.stream = b])
  BY <1>3
<1> HIDE DEF f
<1>10. Onward(c, f)
  BY ONLY SocketBounds, <1>1, <1>7, <1>8, OnwardTwice
<1>11. Outbound(e) = b
  BY <1>2, <1>5 DEF Outbound
<1> QED
  BY <1>5, <1>8, <1>9, <1>10, <1>11

\* write, of what comes next in the stream, while it has not ended.
LEMMA WriteOnward ==
  ASSUME SocketBounds, NEW sofar \in 0 .. PeerLen, NEW fin \in BOOLEAN,
         NEW c, Conn(c, sofar, fin), ~ Outbound(c).eof2,
         NEW n \in Nat, Outbound(c).totWrite + n <= OwnerLen,
         NEW data, data = Excerpt(Outbound(c).totWrite, n)
  PROVE  LET d == ConnectionWrite(c, data)
         IN  /\ Conn(d, sofar, fin) /\ Onward(c, d) /\ d.receiver = c.receiver
             /\ Outbound(d).eof2 = Outbound(c).eof2
             /\ Outbound(d).totWrite = Outbound(c).totWrite + Takes(c, data)
             /\ Takes(c, data) = IF Active(c) THEN Smaller(n, Outbound(c).rem) ELSE 0
<1> DEFINE b == Write(Outbound(c), data)
<1>1. Base(c, sofar, fin) /\ Flowing(Outbound(c)) /\ Outbound(c).totWrite \in Nat
  BY ConnectionFields, FlowFields DEF Conn
<1>2. /\ Flowing(b) /\ b.totRead = Outbound(c).totRead /\ b.eof2 = Outbound(c).eof2
      /\ b.error = Outbound(c).error
      /\ b.totWrite = Outbound(c).totWrite + Smaller(n, Outbound(c).rem)
      /\ Writable(Outbound(c), data) = Smaller(n, Outbound(c).rem)
  BY <1>1, WriteFlows
<1> HIDE DEF b
<1>3. CASE Active(c)
  <2> DEFINE d == FillWindowAndSend([c EXCEPT !.sender.stream = b])
  <2>1. ~ Eof(Outbound(c))
    BY DEF Eof
  <2>2. /\ Conn(d, sofar, fin) /\ Onward(c, d)
        /\ d.receiver = c.receiver /\ SameInput(b, Outbound(d))
    BY <1>2, <2>1, StreamOnward
  <2>3. ConnectionWrite(c, data) = d
    BY <1>3 DEF ConnectionWrite, b, Outbound
  <2>4. Takes(c, data) = Smaller(n, Outbound(c).rem)
    BY <1>2, <1>3 DEF Takes
  <2> HIDE DEF d
  <2> QED
    BY <1>2, <1>3, <2>2, <2>3, <2>4 DEF SameInput
<1>4. CASE ~ Active(c)
  <2>1. ConnectionWrite(c, data) = c /\ Takes(c, data) = 0
    BY <1>4 DEF ConnectionWrite, Takes
  <2>2. Outbound(c).totWrite + 0 = Outbound(c).totWrite
    BY <1>1
  <2> QED
    BY <1>1, <1>4, <2>1, <2>2, OnwardSelf
<1> QED
  BY <1>3, <1>4

\* end_input_stream.
LEMMA EndOnward ==
  ASSUME SocketBounds, NEW sofar \in 0 .. PeerLen, NEW fin \in BOOLEAN,
         NEW c, Conn(c, sofar, fin)
  PROVE  LET d == EndInputStream(c)
         IN  /\ Conn(d, sofar, fin) /\ Onward(c, d) /\ d.receiver = c.receiver
             /\ Outbound(d).totWrite = Outbound(c).totWrite
<1> DEFINE b == EndInput(Outbound(c))
<1>1. Base(c, sofar, fin) /\ Flowing(Outbound(c))
  BY ConnectionFields DEF Conn
<1>2. /\ Flowing(b) /\ b.totRead = Outbound(c).totRead /\ b.totWrite = Outbound(c).totWrite
      /\ b.error = Outbound(c).error /\ (Eof(b) <=> BufferEmpty(Outbound(c)))
  BY <1>1, EndFlows
<1>3. Eof(Outbound(c)) => Eof(b)
  BY <1>2 DEF Eof
<1> HIDE DEF b
<1>4. CASE Active(c)
  <2> DEFINE d == FillWindowAndSend([c EXCEPT !.sender.stream = b])
  <2>2. /\ Conn(d, sofar, fin) /\ Onward(c, d)
        /\ d.receiver = c.receiver /\ SameInput(b, Outbound(d))
    BY <1>2, <1>3, StreamOnward
  <2>3. EndInputStream(c) = d
    BY <1>4 DEF EndInputStream, b, Outbound
  <2> HIDE DEF d
  <2> QED
    BY <1>2, <2>2, <2>3 DEF SameInput
<1>5. CASE ~ Active(c)
  <2>1. EndInputStream(c) = c
    BY <1>5 DEF EndInputStream
  <2> QED
    BY <1>1, <2>1, OnwardSelf
<1> QED
  BY <1>4, <1>5

\* The loop reads from the inbound stream.
LEMMA ReadOnward ==
  ASSUME SocketBounds, NEW sofar \in 0 .. PeerLen, NEW fin \in BOOLEAN,
         NEW c, Conn(c, sofar, fin), NEW n \in 0 .. BufferSize(Inbound(c))
  PROVE  LET d == ConnectionRead(c, n)
         IN  /\ Conn(d, sofar, fin) /\ Onward(c, d) /\ d.sender = c.sender
             /\ d.active2 = c.active2
             /\ d.receiver.status = c.receiver.status
             /\ Inbound(d).totRead = Inbound(c).totRead + n
             /\ Inbound(d).totWrite = Inbound(c).totWrite
             /\ Inbound(d).error = Inbound(c).error /\ Inbound(d).eof2 = Inbound(c).eof2
<1> DEFINE r == ReadIn(c.receiver, n)
           d == [c EXCEPT !.receiver = r]
<1>1. /\ Base(c, sofar, fin) /\ c \in Connections(sofar)
      /\ Sending(c.sender) /\ Receiving(c.receiver, sofar, fin)
  BY ConnectionFields DEF Conn
<1>2. /\ Receiving(r, sofar, fin) /\ Onwards(c.receiver, r)
      /\ r.status = c.receiver.status
      /\ StreamIn(r).totRead = StreamIn(c.receiver).totRead + n
      /\ StreamIn(r).totWrite = StreamIn(c.receiver).totWrite
      /\ StreamIn(r).error = StreamIn(c.receiver).error
      /\ StreamIn(r).eof2 = StreamIn(c.receiver).eof2
  <2>1. n \in 0 .. BufferSize(StreamIn(c.receiver))
    BY DEF Inbound
  <2> QED
    BY <1>1, <2>1, ReadReceiving
<1>3. ConnectionRead(c, n) = d
  BY DEF ConnectionRead
<1> HIDE DEF r
<1>4. r \in Receivers(sofar)
  BY <1>2 DEF Receiving
<1>5. /\ d \in Connections(sofar) /\ d.sender = c.sender /\ d.receiver = r
      /\ d.active2 = c.active2 /\ d.linger = c.linger /\ d.finsent = c.finsent
      /\ d.segmentsOut = c.segmentsOut
  BY <1>1, <1>4 DEF Connections
<1> HIDE DEF d
<1>6. Later(c.sender, d.sender) /\ (d.sender.finSent => d.finsent)
  BY <1>1, <1>5, LaterSelf DEF Base
<1>7. Base(d, sofar, fin) /\ Onward(c, d)
  BY ONLY SocketBounds, <1>1, <1>2, <1>5, <1>6, PartsOnward
<1>8. Conn(d, sofar, fin)
  BY <1>2, <1>5, <1>7 DEF Conn, Inbound, Outbound
<1> QED
  BY <1>2, <1>3, <1>5, <1>7, <1>8 DEF Inbound

\* The constructor.
LEMMA NewConn ==
  ASSUME SocketBounds, NEW fin \in BOOLEAN
  PROVE  LET c == NewConnection(0)
         IN  /\ Conn(c, 0, fin) /\ Active(c) /\ c.sender.nextSeqno = 0
             /\ c.receiver.status = LISTEN
             /\ Outbound(c).totWrite = 0 /\ ~ Outbound(c).eof2
             /\ Inbound(c).totRead = 0 /\ Inbound(c).totWrite = 0
             /\ ~ Inbound(c).eof2 /\ ~ Inbound(c).error
<1> DEFINE s == NewSender(0, SendCapacity)
           r == NewReceiver(RecvCapacity)
           c == [sender |-> s, receiver |-> r, linger |-> TRUE, active2 |-> TRUE,
                 finsent |-> FALSE, idle |-> 0, segmentsOut |-> <<>>]
<1>1. NewConnection(0) = c
  BY DEF NewConnection
<1>2. /\ Sending(s) /\ s.nextSeqno = 0 /\ ~ s.finSent /\ ~ s.stream.eof2
      /\ s.stream.totWrite = 0
  BY NewSending
<1>3. /\ Receiving(r, 0, fin) /\ r.status = LISTEN
      /\ StreamIn(r).totRead = 0 /\ StreamIn(r).totWrite = 0
      /\ ~ StreamIn(r).eof2 /\ ~ StreamIn(r).error
  BY NewReceiving
<1> HIDE DEF s, r
<1>4. s \in Senders /\ r \in Receivers(0) /\ <<>> \in Seq(Outgoing)
  BY <1>2, <1>3 DEF Sending, Receiving
<1>5. /\ c \in Connections(0) /\ c.sender = s /\ c.receiver = r /\ c.active2 = TRUE
      /\ c.segmentsOut = <<>>
  BY <1>4 DEF Connections
<1> HIDE DEF c
<1> QED
  BY <1>1, <1>2, <1>3, <1>5 DEF Conn, Base, Inbound, Outbound, Active
-----------------------------------------------------------------------------
\* sendRST.
LEMMA ResetSentOnward ==
  ASSUME SocketBounds, NEW sofar \in 0 .. PeerLen, NEW fin \in BOOLEAN,
         NEW c, Base(c, sofar, fin)
  PROVE  LET d == SendRST(c)
         IN  /\ Base(d, sofar, fin) /\ Onward(c, d) /\ Inbound(d).error
             /\ SameInbound(c, d) /\ SameOutput(c, d)
             /\ d.sender.nextSeqno = c.sender.nextSeqno
<1> DEFINE empty == SendEmptySegment(c.sender)
           rest == Tail(empty.segmentsOut)
           s == [empty EXCEPT !.segmentsOut = rest]
           seg == [Head(empty.segmentsOut) EXCEPT !.rst = TRUE]
           queue == Append(c.segmentsOut, seg)
           z == [c EXCEPT !.active2 = FALSE, !.sender = s, !.segmentsOut = queue]
           e == WithError(z)
<1>1. /\ c \in Connections(sofar) /\ Sending(c.sender) /\ c.segmentsOut \in Seq(Outgoing)
  BY ConnectionFields
<1>2. /\ Sending(empty) /\ Later(c.sender, empty) /\ empty.stream = c.sender.stream
      /\ empty.finSent = c.sender.finSent /\ empty.nextSeqno = c.sender.nextSeqno
      /\ empty.segmentsOut # <<>> /\ empty.segmentsOut \in Seq(Outgoing)
  BY <1>1, EmptySending
<1>3. SendRST(c) = e
  BY DEF SendRST
<1> HIDE DEF empty
<1>4. rest \in Seq(Outgoing) /\ Head(empty.segmentsOut) \in Outgoing
  BY <1>2
<1> HIDE DEF rest
<1>5. seg \in Outgoing
  <2>1. seg \in TCPSegments(Nat) /\ seg.payload = Head(empty.segmentsOut).payload
    BY <1>4 DEF Outgoing, TCPSegments
  <2> QED
    BY <1>4, <2>1 DEF Outgoing
<1> HIDE DEF seg
<1>6. queue \in Seq(Outgoing)
  BY <1>1, <1>5
<1>7. /\ Sending(s) /\ Later(empty, s) /\ s.stream = empty.stream /\ s.finSent = empty.finSent
      /\ s.nextSeqno = empty.nextSeqno
  BY <1>2, <1>4, QueueTaken
<1> HIDE DEF s, queue
<1>8. Later(c.sender, s)
  BY ONLY SocketBounds, <1>1, <1>2, <1>7, LaterTwice
<1>9. s \in Senders
  BY <1>7 DEF Sending
<1>10. /\ z \in Connections(sofar) /\ z.sender = s /\ z.receiver = c.receiver
       /\ ~ z.active2 /\ z.finsent = c.finsent /\ z.linger = c.linger
  BY <1>1, <1>6, <1>9 DEF Connections
<1> HIDE DEF z
<1>11. Sending(z.sender) /\ Later(c.sender, z.sender) /\ z.sender.finSent = c.sender.finSent
  BY <1>2, <1>7, <1>8, <1>10
<1>12. /\ Base(e, sofar, fin) /\ Onward(c, e) /\ Inbound(e).error
       /\ SameInbound(c, e) /\ e.sender.nextSeqno = z.sender.nextSeqno /\ SameOutput(z, e)
  BY <1>10, <1>11, ResetOnward
<1> HIDE DEF e
<1> QED
  BY <1>2, <1>3, <1>7, <1>10, <1>12 DEF SameOutput, Outbound

\* tick, of a connection that has not lingered out, or has.
LEMMA TickedOnward ==
  ASSUME SocketBounds, NEW sofar \in 0 .. PeerLen, NEW fin \in BOOLEAN,
         NEW c, Conn(c, sofar, fin), c.sender.nextSeqno > 0, NEW ms \in Nat,
         NEW d \in Connections(sofar), d.sender = TickSender(c.sender, ms),
         d.receiver = c.receiver, d.finsent = c.finsent,
         \/ d.linger = c.linger /\ d.active2 = c.active2
         \/ OutboundDone(c) /\ ~ d.linger /\ ~ d.active2
  PROVE  /\ Base(d, sofar, fin) /\ Onward(c, d) /\ d.receiver = c.receiver
         /\ d.sender.stream = c.sender.stream
         /\ d.sender.nextSeqno = c.sender.nextSeqno
<1> DEFINE s == TickSender(c.sender, ms)
<1>1. /\ Base(c, sofar, fin) /\ c \in Connections(sofar) /\ Sending(c.sender)
      /\ Receiving(c.receiver, sofar, fin) /\ c.linger \in BOOLEAN /\ c.active2 \in BOOLEAN
  BY ConnectionFields DEF Conn
<1>2. Sending(s) /\ Later(c.sender, s) /\ s.stream = c.sender.stream
      /\ s.finSent = c.sender.finSent /\ s.nextSeqno = c.sender.nextSeqno
  BY <1>1, TickSending
<1> HIDE DEF s
<1>3. d.active2 \in BOOLEAN /\ d.linger \in BOOLEAN
  BY DEF Connections
<1>4. d.sender = s
  BY DEF s
<1>5. Onwards(c.receiver, d.receiver) /\ (d.sender.finSent => d.finsent)
  BY <1>1, <1>2, <1>4 DEF Onwards, Base
<1>6. Finished(c) => Finished(d)
  BY <1>1, <1>2, <1>4, FinishedLater
<1>7. OutboundDone(c) => Inbound(c).error \/ Finished(c)
  BY <1>1, DoneMeansFinished DEF Conn
<1>8. ~ d.active2 => ~ c.active2 \/ Inbound(d).error \/ Finished(d)
  BY <1>1, <1>3, <1>6, <1>7 DEF Inbound
<1>9. /\ ~ c.active2 => ~ d.active2
      /\ ~ c.linger => ~ d.linger
      /\ c.linger /\ ~ d.linger /\ d.active2 => ~ c.finsent
      /\ c.finsent => d.finsent
  BY <1>1, <1>3
<1>10. Base(d, sofar, fin) /\ Onward(c, d)
  BY ONLY SocketBounds, <1>1, <1>2, <1>4, <1>5, <1>8, <1>9, d.receiver = c.receiver,
          PartsOnward
<1> QED
  BY <1>2, <1>4, <1>10

LEMMA TickOnward ==
  ASSUME SocketBounds, NEW sofar \in 0 .. PeerLen, NEW fin \in BOOLEAN,
         NEW c, Conn(c, sofar, fin), NEW ms \in Nat
  PROVE  LET d == TickConnection(c, ms)
         IN  /\ Conn(d, sofar, fin) /\ Onward(c, d)
             /\ SameInbound(c, d) /\ SameOutput(c, d)
<1> DEFINE d == TickConnection(c, ms)
           later == [c EXCEPT !.idle = Smaller(@ + ms, LingerTime)]
           timed == IF LingeredOut(later)
                    THEN [later EXCEPT !.linger = FALSE, !.active2 = FALSE] ELSE later
           ticked == [timed EXCEPT !.sender = TickSender(@, ms)]
<1>1. /\ Base(c, sofar, fin) /\ c \in Connections(sofar) /\ Sending(c.sender)
      /\ Receiving(c.receiver, sofar, fin) /\ c.idle \in Nat
      /\ c.sender.nextSeqno \in Nat /\ BytesInFlight(c.sender) \in Nat
      /\ BytesInFlight(c.sender) <= c.sender.nextSeqno
  BY ConnectionFields DEF Conn
<1>2. CASE ~ Active(c) \/ Untouched(c)
  <2>1. d = c
    BY <1>2 DEF TickConnection
  <2> HIDE DEF d
  <2> QED
    BY <1>1, <2>1, OnwardSelf DEF d, SameInbound, SameOutput
<1>3. CASE ~ (~ Active(c) \/ Untouched(c))
  <2>1. c.sender.nextSeqno > 0
    <3>1. ASSUME c.sender.nextSeqno = 0 PROVE FALSE
      <4>1. ~ Eof(Outbound(c)) /\ c.receiver.status = LISTEN
        BY <3>1 DEF Conn, Eof
      <4>2. ~ HasAckno(c.receiver)
        BY <1>1, <4>1, AcknoOfReceiver
      <4>3. BytesInFlight(c.sender) = 0
        BY <1>1, <3>1
      <4> QED
        BY <1>3, <4>1, <4>2, <4>3 DEF Untouched
    <3> QED
      BY <1>1, <3>1
  <2>2. Smaller(c.idle + ms, LingerTime) \in Nat
    <3>1. LingerTime \in Nat
      BY SocketFacts DEF LingerTime
    <3> QED
      BY <1>1, <3>1 DEF Smaller
  <2>3. /\ later \in Connections(sofar) /\ later.sender = c.sender
        /\ later.receiver = c.receiver /\ later.linger = c.linger
        /\ later.active2 = c.active2 /\ later.finsent = c.finsent
    BY <1>1, <2>2 DEF Connections
  <2>4. d = IF GivesUp(ticked) THEN SendRST(ticked) ELSE FillWindowAndSend(ticked)
    BY <1>3 DEF TickConnection
  <2> HIDE DEF later, d
  <2>5. /\ timed \in Connections(sofar) /\ timed.sender = c.sender
        /\ timed.receiver = c.receiver /\ timed.finsent = c.finsent
        /\ \/ timed.linger = c.linger /\ timed.active2 = c.active2
           \/ OutboundDone(c) /\ ~ timed.linger /\ ~ timed.active2
    <3>1. CASE LingeredOut(later)
      <4>1. OutboundDone(c)
        BY <2>3, <3>1 DEF LingeredOut, OutboundDone, Outbound
      <4>2. timed = [later EXCEPT !.linger = FALSE, !.active2 = FALSE]
        BY <3>1
      <4> QED
        BY <2>3, <4>1, <4>2 DEF Connections
    <3>2. CASE ~ LingeredOut(later)
      BY <2>3, <3>2
    <3> QED
      BY <3>1, <3>2
  <2> HIDE DEF timed
  <2>5a. TickSender(c.sender, ms) \in Senders
    BY <1>1, TickSending DEF Sending
  <2>5b. /\ ticked \in Connections(sofar) /\ ticked.sender = TickSender(c.sender, ms)
         /\ ticked.receiver = timed.receiver /\ ticked.finsent = timed.finsent
         /\ ticked.linger = timed.linger /\ ticked.active2 = timed.active2
    BY <2>5, <2>5a DEF Connections
  <2> HIDE DEF ticked
  <2>6. /\ Base(ticked, sofar, fin) /\ Onward(c, ticked) /\ ticked.receiver = c.receiver
        /\ ticked.sender.stream = c.sender.stream
        /\ ticked.sender.nextSeqno = c.sender.nextSeqno
    <3>1. \/ ticked.linger = c.linger /\ ticked.active2 = c.active2
          \/ OutboundDone(c) /\ ~ ticked.linger /\ ~ ticked.active2
      BY <2>5, <2>5b
    <3>2. ticked.receiver = c.receiver /\ ticked.finsent = c.finsent
      BY <2>5, <2>5b
    <3> QED
      BY <2>1, <2>5b, <3>1, <3>2, TickedOnward
  <2>7. Inbound(ticked) = Inbound(c) /\ Outbound(ticked) = Outbound(c)
    BY <2>6 DEF Inbound, Outbound
  <2>8. CASE d = SendRST(ticked)
    <3>1. /\ Base(d, sofar, fin) /\ Onward(ticked, d) /\ Inbound(d).error
          /\ SameInbound(ticked, d) /\ SameOutput(ticked, d)
          /\ d.sender.nextSeqno = ticked.sender.nextSeqno
      BY <2>6, <2>8, ResetSentOnward
    <3>2. Conn(d, sofar, fin)
      BY <2>1, <2>6, <3>1 DEF Conn
    <3>3. Onward(c, d)
      BY ONLY SocketBounds, <1>1, <2>6, <3>1, OnwardTwice
    <3> QED
      BY <2>6, <2>7, <3>1, <3>2, <3>3 DEF d, SameInbound, SameOutput
  <2>9. CASE d = FillWindowAndSend(ticked)
    <3>1. /\ Conn(d, sofar, fin) /\ Onward(ticked, d) /\ d.receiver = ticked.receiver
          /\ SameInput(Outbound(ticked), Outbound(d))
      BY <2>6, <2>9, FillOnward
    <3>2. Base(d, sofar, fin)
      BY <3>1 DEF Conn
    <3>3. Onward(c, d)
      BY ONLY SocketBounds, <1>1, <2>6, <3>1, <3>2, OnwardTwice
    <3> QED
      BY <2>6, <2>7, <3>1, <3>3 DEF d, SameInbound, SameOutput, SameInput, Inbound
  <2> QED
    BY <2>4, <2>8, <2>9
<1> QED
  BY <1>2, <1>3
-----------------------------------------------------------------------------
(***************************************************************************)
(* The states of RFC 793.                                                  *)
(***************************************************************************)
\* One summary of a connection may come after another.
Precedes(a, b) ==
  /\ b.sender = "CLOSED" => a.sender = "CLOSED"
  /\ b.sender = "SYN_SENT" => a.sender \in {"CLOSED", "SYN_SENT"}
  /\ b.sender = "SYN_ACKED" => a.sender \in {"CLOSED", "SYN_SENT", "SYN_ACKED"}
  /\ b.sender = "FIN_SENT" => a.sender \in {"CLOSED", "SYN_SENT", "SYN_ACKED", "FIN_SENT"}
  /\ b.sender = "FIN_ACKED" => a.sender # "ERROR"
  /\ b.receiver = "LISTEN" => a.receiver = "LISTEN"
  /\ b.receiver = "SYN_RECV" => a.receiver \in {"LISTEN", "SYN_RECV"}
  /\ b.receiver = "FIN_RECV" => a.receiver \in {"SYN_RECV", "FIN_RECV"}
  /\ b.active => a.active
  /\ b.linger => a.linger
  /\ a.linger /\ ~ b.linger /\ b.active => a.sender \notin {"FIN_SENT", "FIN_ACKED"}

\* FinSent of tcp_state.cc is the sender's own note of the FIN.
LEMMA FinSentIsNoted ==
  ASSUME SocketBounds, NEW s, Sending(s), s.nextSeqno > 0
  PROVE  FinSent(s) <=> s.finSent
<1>1. /\ Flowing(s.stream) /\ s.nextSeqno \in Nat /\ s.finSent \in BOOLEAN
  BY CountFields
<1>2. /\ s.stream.totRead \in Nat /\ s.stream.totWrite \in Nat
      /\ (BufferEmpty(s.stream) <=> s.stream.totRead = s.stream.totWrite)
  BY <1>1, FlowFields
<1>3. s.nextSeqno = 1 + s.stream.totRead + One(s.finSent)
  BY DEF Sending, Counting
<1>4. s.finSent => Eof(s.stream)
  BY DEF Sending, Counting
<1>5. Eof(s.stream) => s.stream.totRead = s.stream.totWrite
  BY <1>2 DEF Eof
<1>6. CASE s.finSent
  <2>1. s.nextSeqno = s.stream.totWrite + 2
    BY ONLY <1>1, <1>2, <1>3, <1>4, <1>5, <1>6 DEF One
  <2> QED
    BY <1>1, <1>2, <1>4, <1>6, <2>1 DEF FinSent
<1>7. CASE ~ s.finSent
  <2>1. Eof(s.stream) => s.nextSeqno = s.stream.totWrite + 1
    BY ONLY <1>1, <1>2, <1>3, <1>5, <1>7 DEF One
  <2> QED
    BY <1>1, <1>2, <1>7, <2>1 DEF FinSent
<1> QED
  BY <1>6, <1>7

\* What a sender's summary says, in terms that only grow.
LEMMA SenderSummaryIs ==
  ASSUME SocketBounds, NEW s, Sending(s)
  PROVE  LET sum == SenderSummary(s)
             sent == s.nextSeqno > 0
             heard == s.nextSeqno - BytesInFlight(s) > 0
         IN  /\ sum = "ERROR" <=> s.stream.error
             /\ sum = "CLOSED" <=> ~ s.stream.error /\ ~ sent
             /\ sum = "SYN_SENT" <=> ~ s.stream.error /\ sent /\ ~ heard
             /\ sum = "SYN_ACKED" <=> ~ s.stream.error /\ sent /\ heard /\ ~ s.finSent
             /\ sum = "FIN_SENT" <=> ~ s.stream.error /\ sent /\ heard /\ s.finSent
                                      /\ BytesInFlight(s) > 0
             /\ sum = "FIN_ACKED" <=> ~ s.stream.error /\ sent /\ heard /\ s.finSent
                                       /\ BytesInFlight(s) = 0
<1>1. /\ Flowing(s.stream) /\ s.nextSeqno \in Nat /\ BytesInFlight(s) \in Nat
      /\ BytesInFlight(s) <= s.nextSeqno
  BY CountFields
<1>2. s.stream.error \in BOOLEAN
  BY <1>1, FlowFields
<1>3. CASE s.stream.error
  BY <1>3 DEF SenderSummary
<1>4. CASE ~ s.stream.error /\ s.nextSeqno = 0
  <2>1. SenderSummary(s) = "CLOSED"
    BY <1>4 DEF SenderSummary
  <2> QED
    BY <1>4, <2>1
<1>5. CASE ~ s.stream.error /\ s.nextSeqno > 0
  <2>1. SenderSummary(s) = IF s.nextSeqno = BytesInFlight(s) THEN "SYN_SENT"
                           ELSE IF ~ FinSent(s) THEN "SYN_ACKED"
                           ELSE IF BytesInFlight(s) > 0 THEN "FIN_SENT" ELSE "FIN_ACKED"
    BY <1>1, <1>5 DEF SenderSummary
  <2>2. FinSent(s) <=> s.finSent
    BY <1>5, FinSentIsNoted
  <2>3. s.nextSeqno = BytesInFlight(s) <=> ~ (s.nextSeqno - BytesInFlight(s) > 0)
    BY <1>1
  <2> QED
    BY <1>1, <1>5, <2>1, <2>2, <2>3
<1> QED
  BY <1>1, <1>2, <1>3, <1>4, <1>5

\* Going on, the summary goes on.
LEMMA OnwardPrecedes ==
  ASSUME SocketBounds, NEW sofar \in 0 .. PeerLen, NEW fin \in BOOLEAN,
         NEW c, Base(c, sofar, fin), NEW more \in 0 .. PeerLen, NEW end \in BOOLEAN,
         NEW d, Base(d, more, end), Onward(c, d),
         c.receiver.status = LISTEN => ~ InputEnded(Inbound(d))
  PROVE  Precedes(StateOf(c), StateOf(d))
<1> DEFINE a == StateOf(c)
           b == StateOf(d)
           s == c.sender
           t == d.sender
<1>1. /\ Sending(s) /\ Receiving(c.receiver, sofar, fin)
      /\ c.linger \in BOOLEAN /\ c.active2 \in BOOLEAN
      /\ s.nextSeqno \in Nat /\ BytesInFlight(s) \in Nat /\ s.finSent \in BOOLEAN
  BY ConnectionFields
<1>2. /\ Sending(t) /\ Receiving(d.receiver, more, end)
      /\ d.linger \in BOOLEAN /\ d.active2 \in BOOLEAN
      /\ t.nextSeqno \in Nat /\ BytesInFlight(t) \in Nat /\ t.finSent \in BOOLEAN
  BY ConnectionFields
<1>3. /\ a.sender = SenderSummary(s) /\ a.receiver = ReceiverSummary(c.receiver)
      /\ a.active = c.active2 /\ a.linger = (c.active2 /\ c.linger)
      /\ b.sender = SenderSummary(t) /\ b.receiver = ReceiverSummary(d.receiver)
      /\ b.active = d.active2 /\ b.linger = (d.active2 /\ d.linger)
  BY DEF StateOf, Active
<1> HIDE DEF a, b
<1>4. /\ b.sender = "CLOSED" => a.sender = "CLOSED"
      /\ b.sender = "SYN_SENT" => a.sender \in {"CLOSED", "SYN_SENT"}
      /\ b.sender = "SYN_ACKED" => a.sender \in {"CLOSED", "SYN_SENT", "SYN_ACKED"}
      /\ b.sender = "FIN_SENT" => a.sender \in {"CLOSED", "SYN_SENT", "SYN_ACKED", "FIN_SENT"}
      /\ b.sender = "FIN_ACKED" => a.sender # "ERROR"
  <2> DEFINE p == SenderSummary(s)
             q == SenderSummary(t)
  <2>1. /\ s.nextSeqno <= t.nextSeqno
        /\ s.nextSeqno - BytesInFlight(s) <= t.nextSeqno - BytesInFlight(t)
        /\ s.finSent => t.finSent /\ BytesInFlight(t) <= BytesInFlight(s)
        /\ s.stream.error => t.stream.error
    BY DEF Onward, Later
  <2>2. /\ p = "ERROR" <=> s.stream.error
        /\ p = "CLOSED" <=> ~ s.stream.error /\ ~ s.nextSeqno > 0
        /\ p = "SYN_SENT" <=> ~ s.stream.error /\ s.nextSeqno > 0
                               /\ ~ s.nextSeqno - BytesInFlight(s) > 0
        /\ p = "SYN_ACKED" <=> ~ s.stream.error /\ s.nextSeqno > 0
                                /\ s.nextSeqno - BytesInFlight(s) > 0 /\ ~ s.finSent
        /\ p = "FIN_SENT" <=> ~ s.stream.error /\ s.nextSeqno > 0
                 /\ s.nextSeqno - BytesInFlight(s) > 0 /\ s.finSent /\ BytesInFlight(s) > 0
    BY <1>1, SenderSummaryIs
  <2>3. /\ q = "CLOSED" <=> ~ t.stream.error /\ ~ t.nextSeqno > 0
        /\ q = "SYN_SENT" <=> ~ t.stream.error /\ t.nextSeqno > 0
                               /\ ~ t.nextSeqno - BytesInFlight(t) > 0
        /\ q = "SYN_ACKED" <=> ~ t.stream.error /\ t.nextSeqno > 0
                                /\ t.nextSeqno - BytesInFlight(t) > 0 /\ ~ t.finSent
        /\ q = "FIN_SENT" <=> ~ t.stream.error /\ t.nextSeqno > 0
                 /\ t.nextSeqno - BytesInFlight(t) > 0 /\ t.finSent /\ BytesInFlight(t) > 0
        /\ q = "FIN_ACKED" => ~ t.stream.error
    BY <1>2, SenderSummaryIs
  <2>4. a.sender = p /\ b.sender = q
    BY <1>3
  <2> HIDE DEF p, q
  <2> QED
    BY ONLY <1>1, <1>2, <2>1, <2>2, <2>3, <2>4
<1>5. /\ b.receiver = "LISTEN" => a.receiver = "LISTEN"
      /\ b.receiver = "SYN_RECV" => a.receiver \in {"LISTEN", "SYN_RECV"}
      /\ b.receiver = "FIN_RECV" => a.receiver \in {"SYN_RECV", "FIN_RECV"}
  <2> DEFINE p == StreamIn(c.receiver)
             q == StreamIn(d.receiver)
  <2>1. /\ c.receiver.status # LISTEN => d.receiver.status # LISTEN
        /\ InputEnded(p) => InputEnded(q)
        /\ p.error => q.error
    BY DEF Onward, Onwards
  <2>2. HasAckno(c.receiver) <=> c.receiver.status # LISTEN
    BY <1>1, AcknoOfReceiver
  <2>3. HasAckno(d.receiver) <=> d.receiver.status # LISTEN
    BY <1>2, AcknoOfReceiver
  <2>4. c.receiver.status = LISTEN => ~ InputEnded(q)
    BY DEF Inbound
  <2>5. p.error \in BOOLEAN /\ q.error \in BOOLEAN
    BY <1>1, <1>2, ReceivingFields
  <2>6. a.receiver = CASE p.error -> "ERROR"
                       [] ~ p.error /\ ~ HasAckno(c.receiver) -> "LISTEN"
                       [] ~ p.error /\ HasAckno(c.receiver) ->
                            IF InputEnded(p) THEN "FIN_RECV" ELSE "SYN_RECV"
    BY <1>3 DEF ReceiverSummary
  <2>7. b.receiver = CASE q.error -> "ERROR"
                       [] ~ q.error /\ ~ HasAckno(d.receiver) -> "LISTEN"
                       [] ~ q.error /\ HasAckno(d.receiver) ->
                            IF InputEnded(q) THEN "FIN_RECV" ELSE "SYN_RECV"
    BY <1>3 DEF ReceiverSummary
  <2> HIDE DEF p, q
  <2>8. \/ a.receiver = "ERROR" /\ p.error
        \/ a.receiver = "LISTEN" /\ ~ p.error /\ c.receiver.status = LISTEN
        \/ a.receiver = "FIN_RECV" /\ ~ p.error /\ c.receiver.status # LISTEN /\ InputEnded(p)
        \/ a.receiver = "SYN_RECV" /\ ~ p.error /\ c.receiver.status # LISTEN /\ ~ InputEnded(p)
    BY <2>2, <2>5, <2>6
  <2>9. \/ b.receiver = "ERROR" /\ q.error
        \/ b.receiver = "LISTEN" /\ ~ q.error /\ d.receiver.status = LISTEN
        \/ b.receiver = "FIN_RECV" /\ ~ q.error /\ d.receiver.status # LISTEN /\ InputEnded(q)
        \/ b.receiver = "SYN_RECV" /\ ~ q.error /\ d.receiver.status # LISTEN /\ ~ InputEnded(q)
    BY <2>3, <2>5, <2>7
  <2> QED
    BY ONLY <2>1, <2>4, <2>8, <2>9
<1>6. /\ b.active => a.active
      /\ b.linger => a.linger
      /\ a.linger /\ ~ b.linger /\ b.active => a.sender \notin {"FIN_SENT", "FIN_ACKED"}
  <2>1. /\ ~ c.active2 => ~ d.active2
        /\ ~ c.linger => ~ d.linger
        /\ c.linger /\ ~ d.linger /\ d.active2 => ~ c.finsent
    BY DEF Onward
  <2>2. ~ c.finsent => ~ s.finSent
    BY DEF Base
  <2>3. SenderSummary(s) \in {"FIN_SENT", "FIN_ACKED"} => s.finSent
    BY <1>1, SenderSummaryIs
  <2> QED
    BY <1>1, <1>2, <1>3, <2>1, <2>2, <2>3
<1> QED
  BY <1>4, <1>5, <1>6 DEF Precedes, a, b
-----------------------------------------------------------------------------
\* One step, two and three of RFC 793.
LEMMA TwoSteps ==
  ASSUME NEW s \in DOMAIN Official, NEW m \in DOMAIN Official, NEW t \in DOMAIN Official,
         <<s, m>> \in StepsOfRFC793, <<m, t>> \in StepsOfRFC793
  PROVE  /\ <<s, t>> \in Follows(StepsOfRFC793, StepsOfRFC793)
         /\ <<s, t>> \in LaterInRFC793
<1> DEFINE r == StepsOfRFC793
<1> HIDE DEF r
<1>1. <<s, t>> \in Follows(r, r)
  BY DEF Follows, r
<1> QED
  BY <1>1 DEF LaterInRFC793, r

LEMMA ThreeSteps ==
  ASSUME NEW s \in DOMAIN Official, NEW m \in DOMAIN Official, NEW n \in DOMAIN Official,
         NEW t \in DOMAIN Official, <<s, m>> \in StepsOfRFC793,
         <<m, n>> \in StepsOfRFC793, <<n, t>> \in StepsOfRFC793
  PROVE  <<s, t>> \in LaterInRFC793
<1> DEFINE r == StepsOfRFC793
           two == Follows(r, r)
<1>1. <<s, n>> \in two
  BY TwoSteps
<1> HIDE DEF r, two
<1>2. <<s, t>> \in Follows(two, r)
  BY <1>1 DEF Follows, r
<1> QED
  BY <1>2 DEF LaterInRFC793, r, two

LEMMA OfficialNames ==
  DOMAIN Official = {"LISTEN", "SYN_RCVD", "SYN_SENT", "ESTABLISHED", "CLOSE_WAIT", "LAST_ACK", "CLOSING", "FIN_WAIT_1", "FIN_WAIT_2", "TIME_WAIT", "RESET", "CLOSED"}
  BY DEF Official

\* What may come after an official state, and is one, is a state that RFC 793 allows.
LEMMA OfficialOrder ==
  ASSUME NEW s \in DOMAIN Official, NEW t \in DOMAIN Official, s # t, t # "RESET",
         Precedes(Official[s], Official[t])
  PROVE  <<s, t>> \in LaterInRFC793
<1> DEFINE r == StepsOfRFC793
<1>1. /\ \A u, m, v \in DOMAIN Official :
           <<u, m>> \in r /\ <<m, v>> \in r => <<u, v>> \in LaterInRFC793
      /\ \A u, m, n, v \in DOMAIN Official :
           <<u, m>> \in r /\ <<m, n>> \in r /\ <<n, v>> \in r => <<u, v>> \in LaterInRFC793
      /\ \A u, v \in DOMAIN Official : <<u, v>> \in r => <<u, v>> \in LaterInRFC793
  BY TwoSteps, ThreeSteps DEF LaterInRFC793
<1>2. /\ <<"LISTEN", "SYN_SENT">> \in r /\ <<"LISTEN", "SYN_RCVD">> \in r
      /\ <<"SYN_SENT", "SYN_RCVD">> \in r /\ <<"SYN_SENT", "ESTABLISHED">> \in r
      /\ <<"SYN_RCVD", "ESTABLISHED">> \in r /\ <<"SYN_RCVD", "FIN_WAIT_1">> \in r
      /\ <<"ESTABLISHED", "FIN_WAIT_1">> \in r /\ <<"ESTABLISHED", "CLOSE_WAIT">> \in r
      /\ <<"FIN_WAIT_1", "FIN_WAIT_2">> \in r /\ <<"FIN_WAIT_1", "CLOSING">> \in r
      /\ <<"FIN_WAIT_1", "TIME_WAIT">> \in r /\ <<"FIN_WAIT_2", "TIME_WAIT">> \in r
      /\ <<"CLOSING", "TIME_WAIT">> \in r /\ <<"CLOSE_WAIT", "LAST_ACK">> \in r
      /\ <<"LAST_ACK", "CLOSED">> \in r /\ <<"TIME_WAIT", "CLOSED">> \in r
  BY DEF StepsOfRFC793
<1> HIDE DEF r
<1>3. CASE s = "LISTEN"
  <2>1. t \in {"SYN_SENT", "SYN_RCVD", "ESTABLISHED", "FIN_WAIT_1", "CLOSE_WAIT", "FIN_WAIT_2", "CLOSING", "TIME_WAIT"}
    BY <1>3, OfficialNames DEF Precedes, Official, Running, Stopped
  <2> QED
    BY ONLY <1>1, <1>2, <1>3, <2>1, OfficialNames, Zenon
<1>4. CASE s = "SYN_RCVD"
  <2>1. t \in {"ESTABLISHED", "FIN_WAIT_1", "CLOSE_WAIT", "FIN_WAIT_2", "CLOSING", "TIME_WAIT", "LAST_ACK", "CLOSED"}
    BY <1>4, OfficialNames DEF Precedes, Official, Running, Stopped
  <2> QED
    BY ONLY <1>1, <1>2, <1>4, <2>1, OfficialNames, Zenon
<1>5. CASE s = "SYN_SENT"
  <2>1. t \in {"SYN_RCVD", "ESTABLISHED", "FIN_WAIT_1", "CLOSE_WAIT", "FIN_WAIT_2", "CLOSING", "TIME_WAIT", "LAST_ACK"}
    BY <1>5, OfficialNames DEF Precedes, Official, Running, Stopped
  <2> QED
    BY ONLY <1>1, <1>2, <1>5, <2>1, OfficialNames, Zenon
<1>6. CASE s = "ESTABLISHED"
  <2>1. t \in {"FIN_WAIT_1", "CLOSE_WAIT", "FIN_WAIT_2", "CLOSING", "TIME_WAIT", "LAST_ACK", "CLOSED"}
    BY <1>6, OfficialNames DEF Precedes, Official, Running, Stopped
  <2> QED
    BY ONLY <1>1, <1>2, <1>6, <2>1, OfficialNames, Zenon
<1>7. CASE s = "CLOSE_WAIT"
  <2>1. t \in {"LAST_ACK", "CLOSED"}
    BY <1>7, OfficialNames DEF Precedes, Official, Running, Stopped
  <2> QED
    BY ONLY <1>1, <1>2, <1>7, <2>1, OfficialNames, Zenon
<1>8. CASE s = "LAST_ACK"
  <2>1. t \in {"CLOSED"}
    BY <1>8, OfficialNames DEF Precedes, Official, Running, Stopped
  <2> QED
    BY ONLY <1>1, <1>2, <1>8, <2>1, OfficialNames, Zenon
<1>9. CASE s = "CLOSING"
  <2>1. t \in {"TIME_WAIT", "CLOSED"}
    BY <1>9, OfficialNames DEF Precedes, Official, Running, Stopped
  <2> QED
    BY ONLY <1>1, <1>2, <1>9, <2>1, OfficialNames, Zenon
<1>10. CASE s = "FIN_WAIT_1"
  <2>1. t \in {"FIN_WAIT_2", "CLOSING", "TIME_WAIT", "CLOSED"}
    BY <1>10, OfficialNames DEF Precedes, Official, Running, Stopped
  <2> QED
    BY ONLY <1>1, <1>2, <1>10, <2>1, OfficialNames, Zenon
<1>11. CASE s = "FIN_WAIT_2"
  <2>1. t \in {"TIME_WAIT", "CLOSED"}
    BY <1>11, OfficialNames DEF Precedes, Official, Running, Stopped
  <2> QED
    BY ONLY <1>1, <1>2, <1>11, <2>1, OfficialNames, Zenon
<1>12. CASE s = "TIME_WAIT"
  <2>1. t \in {"CLOSED"}
    BY <1>12, OfficialNames DEF Precedes, Official, Running, Stopped
  <2> QED
    BY ONLY <1>1, <1>2, <1>12, <2>1, OfficialNames, Zenon
<1>13. CASE s = "RESET"
  BY <1>13, OfficialNames DEF Precedes, Official, Running, Stopped
<1>14. CASE s = "CLOSED"
  BY <1>14, OfficialNames DEF Precedes, Official, Running, Stopped
<1> QED
  BY <1>3, <1>4, <1>5, <1>6, <1>7, <1>8, <1>9, <1>10, <1>11, <1>12, <1>13, <1>14, OfficialNames
-----------------------------------------------------------------------------
(***************************************************************************)
(* The loop.                                                               *)
(***************************************************************************)
RuleNames == {"DatagramIn", "DataIn", "DataOut", "DatagramOut"}

Distinct(q) == \A i, j \in DOMAIN q : q[i] = q[j] => i = j
Holds(q, r) == \E i \in DOMAIN q : q[i] = r

\* Of the first n rules, each at most once.
Picked(rules, n, q) ==
  /\ q \in Seq(RuleNames) /\ Distinct(q)
  /\ \A j \in DOMAIN q : \E i \in 1 .. n : q[j] = rules[i]

LEMMA PickedMore ==
  ASSUME NEW rules \in Seq(RuleNames), Distinct(rules), NEW n \in Nat, n + 1 <= Len(rules),
         NEW q, Picked(rules, n, q), NEW p, p = q \/ p = Append(q, rules[n + 1])
  PROVE  /\ Picked(rules, n + 1, p)
         /\ \A r \in RuleNames : Holds(q, r) => Holds(p, r)
         /\ p # q => Holds(p, rules[n + 1])
<1>1. q \in Seq(RuleNames) /\ Distinct(q) /\ Len(q) \in Nat /\ DOMAIN q = 1 .. Len(q)
  BY DEF Picked
<1>2. \A j \in DOMAIN q : \E i \in 1 .. n : q[j] = rules[i]
  BY DEF Picked
<1>3. n + 1 \in 1 .. Len(rules) /\ 1 .. n \subseteq 1 .. Len(rules) /\ DOMAIN rules = 1 .. Len(rules)
      /\ Len(rules) \in Nat
  BY LenProperties
<1>4. rules[n + 1] \in RuleNames
  BY <1>3
<1>5. CASE p = q
  <2>1. \A j \in DOMAIN q : \E i \in 1 .. n + 1 : q[j] = rules[i]
    <3>1. 1 .. n \subseteq 1 .. n + 1
      OBVIOUS
    <3> QED
      BY <1>2, <3>1
  <2> QED
    BY <1>1, <1>5, <2>1 DEF Picked
<1>6. CASE p = Append(q, rules[n + 1])
  <2>1. /\ p \in Seq(RuleNames) /\ Len(p) = Len(q) + 1 /\ DOMAIN p = 1 .. Len(q) + 1
        /\ p[Len(q) + 1] = rules[n + 1]
        /\ \A j \in 1 .. Len(q) : p[j] = q[j]
    BY <1>1, <1>4, <1>6, AppendProperties
  <2>2. \A j \in DOMAIN p : j = Len(q) + 1 \/ j \in DOMAIN q
    BY <1>1, <2>1
  <2>3. \A j \in DOMAIN q : p[j] = q[j] /\ j \in DOMAIN p
    BY <1>1, <2>1
  <2>4. \A j \in DOMAIN q : q[j] # rules[n + 1]
    <3> SUFFICES ASSUME NEW j \in DOMAIN q, q[j] = rules[n + 1] PROVE FALSE
      OBVIOUS
    <3>1. PICK i \in 1 .. n : q[j] = rules[i]
      BY <1>2
    <3>2. i = n + 1
      BY <1>3, <3>1 DEF Distinct
    <3> QED
      BY <3>1, <3>2
  <2>5. Distinct(p)
    <3> SUFFICES ASSUME NEW i \in DOMAIN p, NEW j \in DOMAIN p, p[i] = p[j] PROVE i = j
      BY DEF Distinct
    <3>1. CASE i \in DOMAIN q /\ j \in DOMAIN q
      BY <1>1, <2>3, <3>1 DEF Distinct
    <3>2. CASE i = Len(q) + 1 /\ j \in DOMAIN q
      BY <2>1, <2>3, <2>4, <3>2
    <3>3. CASE j = Len(q) + 1 /\ i \in DOMAIN q
      BY <2>1, <2>3, <2>4, <3>3
    <3> QED
      BY <2>2, <3>1, <3>2, <3>3
  <2>6. \A j \in DOMAIN p : \E i \in 1 .. n + 1 : p[j] = rules[i]
    <3> SUFFICES ASSUME NEW j \in DOMAIN p PROVE \E i \in 1 .. n + 1 : p[j] = rules[i]
      OBVIOUS
    <3>1. CASE j = Len(q) + 1
      BY <2>1, <3>1
    <3>2. CASE j \in DOMAIN q
      <4>1. PICK i \in 1 .. n : q[j] = rules[i]
        BY <1>2, <3>2
      <4> QED
        BY <2>3, <3>2, <4>1
    <3> QED
      BY <2>2, <3>1, <3>2
  <2>7. \A r \in RuleNames : Holds(q, r) => Holds(p, r)
    BY <2>3 DEF Holds
  <2>8. Len(q) + 1 \in DOMAIN p
    BY <1>1, <2>1
  <2>9. Holds(p, rules[n + 1])
    BY <2>1, <2>8 DEF Holds
  <2> QED
    BY <2>1, <2>5, <2>6, <2>7, <2>9 DEF Picked
<1> QED
  BY <1>5, <1>6
-----------------------------------------------------------------------------
\* Those, rule by rule.
KeptOf(q, r, chosen) == IF r \in chosen THEN Append(q, r) ELSE q
Keeps(rules, chosen, n, f) ==
  f = [j \in 0 .. n |-> IF j = 0 THEN <<>> ELSE KeptOf(f[j - 1], rules[j], chosen)]

LEMMA KeepsExist ==
  ASSUME NEW rules, NEW chosen PROVE \A n \in Nat : \E f : Keeps(rules, chosen, n, f)
<1> DEFINE P == {n \in Nat : \E f : Keeps(rules, chosen, n, f)}
<1>1. 0 \in P
  <2> DEFINE f == [j \in 0 .. 0 |-> <<>>]
  <2>1. Keeps(rules, chosen, 0, f)
    BY DEF Keeps
  <2> QED
    BY <2>1
<1>2. ASSUME NEW n \in Nat, n \in P PROVE n + 1 \in P
  <2>1. PICK f : Keeps(rules, chosen, n, f)
    BY <1>2
  <2> DEFINE g == [j \in 0 .. n + 1 |->
                     IF j = n + 1 THEN KeptOf(f[n], rules[n + 1], chosen) ELSE f[j]]
  <2>2. \A j \in 0 .. n : f[j] = IF j = 0 THEN <<>> ELSE KeptOf(f[j - 1], rules[j], chosen)
    BY <2>1 DEF Keeps
  <2>3. \A j \in 0 .. n + 1 :
          g[j] = IF j = 0 THEN <<>> ELSE KeptOf(g[j - 1], rules[j], chosen)
    <3> SUFFICES ASSUME NEW j \in 0 .. n + 1
                 PROVE  g[j] = IF j = 0 THEN <<>> ELSE KeptOf(g[j - 1], rules[j], chosen)
      OBVIOUS
    <3>1. CASE j = n + 1
      <4>1. g[j] = KeptOf(f[n], rules[n + 1], chosen) /\ j - 1 = n /\ n \in 0 .. n + 1
            /\ n # n + 1 /\ j # 0
        BY <1>2, <3>1
      <4>2. g[j - 1] = f[n]
        BY <4>1
      <4> QED
        BY <3>1, <4>1, <4>2
    <3>2. CASE j # n + 1
      <4>1. j \in 0 .. n /\ g[j] = f[j]
        BY <1>2, <3>2
      <4>2. j # 0 => j - 1 \in 0 .. n + 1 /\ j - 1 # n + 1 /\ g[j - 1] = f[j - 1]
        BY <1>2, <4>1
      <4> QED
        BY <2>2, <4>1, <4>2
    <3> QED
      BY <3>1, <3>2
  <2>4. Keeps(rules, chosen, n + 1, g)
    <3>1. g = [j \in 0 .. n + 1 |-> g[j]]
      OBVIOUS
    <3> HIDE DEF g
    <3> QED
      BY <2>3, <3>1 DEF Keeps
  <2> QED
    BY <1>2, <2>4
<1> HIDE DEF P
<1>3. \A n \in Nat : n \in P
  BY <1>1, <1>2, EveryNumber
<1> QED
  BY <1>3 DEF P

\* Those of distinct rules are distinct, and they are the rules that were chosen.
LEMMA ThoseIsPicked ==
  ASSUME NEW rules \in Seq(RuleNames), Distinct(rules), NEW chosen
  PROVE  LET q == Those(rules, chosen)
         IN  /\ Picked(rules, Len(rules), q)
             /\ \A j \in DOMAIN q : q[j] \in chosen
             /\ \A r \in chosen : Holds(rules, r) => Holds(q, r)
<1> DEFINE n == Len(rules)
           f == CHOOSE g : Keeps(rules, chosen, n, g)
           P == {m \in Nat : m <= n =>
                   /\ Picked(rules, m, f[m])
                   /\ \A j \in DOMAIN f[m] : f[m][j] \in chosen
                   /\ \A i \in 1 .. m : rules[i] \in chosen => Holds(f[m], rules[i])}
<1>1. n \in Nat /\ DOMAIN rules = 1 .. n
  OBVIOUS
<1>2. Keeps(rules, chosen, n, f)
  BY <1>1, KeepsExist
<1>3. Those(rules, chosen) = f[n]
  BY DEF Those, Keeps, KeptOf
<1> HIDE DEF f
<1>4. \A j \in 0 .. n : f[j] = IF j = 0 THEN <<>> ELSE KeptOf(f[j - 1], rules[j], chosen)
  BY <1>2 DEF Keeps
<1>5. 0 \in P
  <2>1. f[0] = <<>>
    BY <1>1, <1>4
  <2>2. Picked(rules, 0, <<>>)
    BY DEF Picked, Distinct
  <2> QED
    BY <2>1, <2>2
<1>6. ASSUME NEW m \in Nat, m \in P PROVE m + 1 \in P
  <2> SUFFICES ASSUME m + 1 <= n
               PROVE  /\ Picked(rules, m + 1, f[m + 1])
                      /\ \A j \in DOMAIN f[m + 1] : f[m + 1][j] \in chosen
                      /\ \A i \in 1 .. m + 1 : rules[i] \in chosen => Holds(f[m + 1], rules[i])
    BY <1>6
  <2> DEFINE q == f[m]
             p == f[m + 1]
  <2>1. /\ Picked(rules, m, q)
        /\ \A j \in DOMAIN q : q[j] \in chosen
        /\ \A i \in 1 .. m : rules[i] \in chosen => Holds(q, rules[i])
    BY <1>1, <1>6
  <2>2. p = KeptOf(q, rules[m + 1], chosen)
    BY <1>1, <1>4, <1>6
  <2> HIDE DEF p, q
  <2>3. p = q \/ p = Append(q, rules[m + 1])
    BY <2>2 DEF KeptOf
  <2>4. /\ Picked(rules, m + 1, p)
        /\ \A r \in RuleNames : Holds(q, r) => Holds(p, r)
        /\ p # q => Holds(p, rules[m + 1])
    BY <1>6, <2>1, <2>3, PickedMore
  <2>5. q \in Seq(RuleNames) /\ rules[m + 1] \in RuleNames
        /\ \A i \in 1 .. m : rules[i] \in RuleNames
    BY <1>1, <1>6, <2>1 DEF Picked
  <2>6. CASE rules[m + 1] \in chosen
    <3>1. p = Append(q, rules[m + 1])
      BY <2>2, <2>6 DEF KeptOf
    <3>2. p # q
      BY <2>5, <3>1
    <3>3. \A j \in DOMAIN p : p[j] \in chosen
      BY <2>1, <2>5, <2>6, <3>1
    <3>4. \A i \in 1 .. m + 1 : i \in 1 .. m \/ i = m + 1
      BY <1>6
    <3> QED
      BY <2>1, <2>4, <2>5, <3>2, <3>3, <3>4 DEF p
  <2>7. CASE rules[m + 1] \notin chosen
    <3>1. p = q
      BY <2>2, <2>7 DEF KeptOf
    <3>2. \A i \in 1 .. m + 1 : rules[i] \in chosen => i \in 1 .. m
      BY <1>6, <2>7
    <3> QED
      BY <2>1, <2>4, <3>1, <3>2 DEF p
  <2> QED
    BY <2>6, <2>7
<1> HIDE DEF P
<1>7. n \in P
  BY <1>1, <1>5, <1>6, EveryNumber
<1>8. /\ Picked(rules, n, f[n])
      /\ \A j \in DOMAIN f[n] : f[n][j] \in chosen
      /\ \A i \in 1 .. n : rules[i] \in chosen => Holds(f[n], rules[i])
  BY <1>1, <1>7 DEF P
<1> QED
  BY <1>1, <1>3, <1>8 DEF Holds
-----------------------------------------------------------------------------
(***************************************************************************)
(* What the rules work on.                                                 *)
(***************************************************************************)
Arrivals == [syn : BOOLEAN, ack : BOOLEAN, fin : BOOLEAN, rst : BOOLEAN, seqno : Nat,
             ackno : Nat, win : Nat, payload : Seq(Nat)]

Pairs == [data : [PairEnds -> Seq(Nat)], shut : [PairEnds -> BOOLEAN]]

Deaths == {"no", "short write", "broken pipe", "busy wait"}

Sockets(sofar) ==
  [tcp : Connections(sofar), pair : Pairs, eof : BOOLEAN, outboundShutdown : BOOLEAN,
   inboundShutdown : BOOLEAN, inbox : Seq(Arrivals), wire : Seq(Outgoing), died : Deaths]

Tied(w, sofar, fin) ==
  /\ w \in Sockets(sofar) /\ Conn(w.tcp, sofar, fin)
  /\ Outbound(w.tcp).eof2 => w.outboundShutdown

\* Nothing but the connection and what is known of its ends has changed.
Beside(w, v) ==
  /\ v.pair = w.pair /\ v.eof = w.eof /\ v.inboundShutdown = w.inboundShutdown
  /\ v.inbox = w.inbox /\ v.wire = w.wire /\ v.died = w.died

\* Rule 2 has ended the outbound stream, or there was no need to.
Ended(w, v, sofar, fin) ==
  /\ Tied(v, sofar, fin) /\ Onward(w.tcp, v.tcp) /\ Beside(w, v)
  /\ v.tcp.receiver = w.tcp.receiver
  /\ Outbound(v.tcp).totWrite = Outbound(w.tcp).totWrite
  /\ v = w \/ v.outboundShutdown

LEMMA TiedFields ==
  ASSUME SocketBounds, NEW sofar, NEW fin, NEW w, Tied(w, sofar, fin)
  PROVE  /\ w \in Sockets(sofar) /\ Conn(w.tcp, sofar, fin) /\ Base(w.tcp, sofar, fin)
         /\ w.tcp \in Connections(sofar) /\ w.pair \in Pairs /\ w.eof \in BOOLEAN
         /\ w.outboundShutdown \in BOOLEAN /\ w.inboundShutdown \in BOOLEAN
         /\ w.inbox \in Seq(Arrivals) /\ w.wire \in Seq(Outgoing) /\ w.died \in Deaths
  BY DEF Tied, Conn, Sockets

LEMMA EndedSelf ==
  ASSUME SocketBounds, NEW sofar, NEW fin, NEW w, Tied(w, sofar, fin)
  PROVE  Ended(w, w, sofar, fin)
  BY TiedFields, OnwardSelf DEF Ended, Beside

LEMMA EndedMore ==
  ASSUME SocketBounds, NEW sofar \in 0 .. PeerLen, NEW fin \in BOOLEAN,
         NEW w, Tied(w, sofar, fin), NEW v, Ended(w, v, sofar, fin)
  PROVE  Ended(w, EndOutbound(v), sofar, fin) /\ EndOutbound(v).outboundShutdown
<1> DEFINE c == EndInputStream(v.tcp)
           u == [v EXCEPT !.tcp = c, !.outboundShutdown = TRUE]
<1>1. /\ v \in Sockets(sofar) /\ Conn(v.tcp, sofar, fin) /\ Base(v.tcp, sofar, fin)
      /\ Base(w.tcp, sofar, fin)
  BY TiedFields DEF Ended
<1>2. /\ Conn(c, sofar, fin) /\ Onward(v.tcp, c) /\ c.receiver = v.tcp.receiver
      /\ Outbound(c).totWrite = Outbound(v.tcp).totWrite
  BY <1>1, EndOnward
<1>3. EndOutbound(v) = u
  BY DEF EndOutbound
<1> HIDE DEF c
<1>4. c \in Connections(sofar) /\ Base(c, sofar, fin)
  BY <1>2 DEF Conn, Base
<1>5. /\ u \in Sockets(sofar) /\ u.tcp = c /\ u.outboundShutdown = TRUE /\ Beside(v, u)
  BY <1>1, <1>4 DEF Sockets, Beside
<1> HIDE DEF u
<1>6. Onward(w.tcp, v.tcp)
  BY DEF Ended
<1>7. Onward(w.tcp, c)
  BY ONLY SocketBounds, <1>1, <1>2, <1>4, <1>6, OnwardTwice
<1>8. Beside(w, u)
  BY <1>5 DEF Ended, Beside
<1> QED
  BY <1>2, <1>3, <1>5, <1>7, <1>8 DEF Ended, Tied
-----------------------------------------------------------------------------
\* SetUp, rule by rule.
AskedOf(acc, r) ==
  IF Defunct(acc.w, r) THEN [acc EXCEPT !.w = Cancel(@, r)]
  ELSE [acc EXCEPT !.rules = Append(@, r),
          !.polled = IF Interested(acc.w, r) THEN @ \cup {r} ELSE @]
Asks(w, rules, n, f) ==
  f = [j \in 0 .. n |-> IF j = 0 THEN [w |-> w, rules |-> <<>>, polled |-> {}]
                        ELSE AskedOf(f[j - 1], rules[j])]

LEMMA AsksExist ==
  ASSUME NEW w, NEW rules PROVE \A n \in Nat : \E f : Asks(w, rules, n, f)
<1> DEFINE P == {n \in Nat : \E f : Asks(w, rules, n, f)}
           base == [w |-> w, rules |-> <<>>, polled |-> {}]
<1>1. 0 \in P
  <2> DEFINE f == [j \in 0 .. 0 |-> base]
  <2>1. Asks(w, rules, 0, f)
    BY DEF Asks
  <2> QED
    BY <2>1
<1>2. ASSUME NEW n \in Nat, n \in P PROVE n + 1 \in P
  <2>1. PICK f : Asks(w, rules, n, f)
    BY <1>2
  <2> DEFINE g == [j \in 0 .. n + 1 |-> IF j = n + 1 THEN AskedOf(f[n], rules[n + 1]) ELSE f[j]]
  <2>2. \A j \in 0 .. n : f[j] = IF j = 0 THEN base ELSE AskedOf(f[j - 1], rules[j])
    BY <2>1 DEF Asks
  <2> HIDE DEF base
  <2>3. \A j \in 0 .. n + 1 : g[j] = IF j = 0 THEN base ELSE AskedOf(g[j - 1], rules[j])
    <3> SUFFICES ASSUME NEW j \in 0 .. n + 1
                 PROVE  g[j] = IF j = 0 THEN base ELSE AskedOf(g[j - 1], rules[j])
      OBVIOUS
    <3>1. CASE j = n + 1
      <4>1. g[j] = AskedOf(f[n], rules[n + 1]) /\ j - 1 = n /\ n \in 0 .. n + 1
            /\ n # n + 1 /\ j # 0
        BY <1>2, <3>1
      <4>2. g[j - 1] = f[n]
        BY <4>1
      <4> QED
        BY <3>1, <4>1, <4>2
    <3>2. CASE j # n + 1
      <4>1. j \in 0 .. n /\ g[j] = f[j]
        BY <1>2, <3>2
      <4>2. j # 0 => j - 1 \in 0 .. n + 1 /\ j - 1 # n + 1 /\ g[j - 1] = f[j - 1]
        BY <1>2, <4>1
      <4> QED
        BY <2>2, <4>1, <4>2
    <3> QED
      BY <3>1, <3>2
  <2>4. Asks(w, rules, n + 1, g)
    <3>1. g = [j \in 0 .. n + 1 |-> g[j]]
      OBVIOUS
    <3> HIDE DEF g
    <3> QED
      BY <2>3, <3>1 DEF Asks, base
  <2> QED
    BY <1>2, <2>4
<1> HIDE DEF P
<1>3. \A n \in Nat : n \in P
  BY <1>1, <1>2, EveryNumber
<1> QED
  BY <1>3 DEF P

\* What is known when n rules have been asked.
AskedOk(w, rules, n, acc, sofar, fin) ==
  /\ acc = [w |-> acc.w, rules |-> acc.rules, polled |-> acc.polled]
  /\ Ended(w, acc.w, sofar, fin) /\ Picked(rules, n, acc.rules)
  /\ acc.polled \subseteq RuleNames
  /\ ~ w.eof => acc.w = w
  /\ "DataIn" \in acc.polled => ~ w.eof /\ ~ w.outboundShutdown
  /\ \A i \in 1 .. n : rules[i] = "DatagramIn" =>
       /\ Holds(acc.rules, "DatagramIn")
       /\ "DatagramIn" \in acc.polled \/ ~ acc.w.tcp.active2

LEMMA AskOne ==
  ASSUME SocketBounds, NEW sofar \in 0 .. PeerLen, NEW fin \in BOOLEAN,
         NEW w, Tied(w, sofar, fin), NEW rules \in Seq(RuleNames), Distinct(rules),
         NEW n \in Nat, n + 1 <= Len(rules), NEW acc, AskedOk(w, rules, n, acc, sofar, fin)
  PROVE  AskedOk(w, rules, n + 1, AskedOf(acc, rules[n + 1]), sofar, fin)
<1> DEFINE r == rules[n + 1]
           v == acc.w
           q == acc.rules
           polled == acc.polled
           next == AskedOf(acc, r)
<1>1. /\ acc = [w |-> v, rules |-> q, polled |-> polled]
      /\ Ended(w, v, sofar, fin) /\ Picked(rules, n, q) /\ polled \subseteq RuleNames
      /\ (~ w.eof => v = w)
      /\ ("DataIn" \in polled => ~ w.eof /\ ~ w.outboundShutdown)
      /\ \A i \in 1 .. n : rules[i] = "DatagramIn" =>
           /\ Holds(q, "DatagramIn")
           /\ "DatagramIn" \in polled \/ ~ v.tcp.active2
  BY DEF AskedOk
<1>2. r \in RuleNames /\ \A i \in 1 .. n + 1 : i \in 1 .. n \/ i = n + 1
  <2>1. n + 1 \in 1 .. Len(rules)
    OBVIOUS
  <2> QED
    BY <2>1
<1>3. v.eof = w.eof /\ w.eof \in BOOLEAN /\ Tied(v, sofar, fin)
  BY <1>1, TiedFields DEF Ended, Beside
<1> HIDE DEF r, v, q, polled
<1>4. CASE Defunct(v, r)
  <2> DEFINE u == EndOutbound(v)
  <2>1. r = "DataIn" /\ v.eof
    BY <1>4 DEF Defunct
  <2>2. next = [w |-> u, rules |-> q, polled |-> polled]
    <3>1. acc.w = v /\ acc.rules = q /\ acc.polled = polled
      BY DEF v, q, polled
    <3>2. next = [acc EXCEPT !.w = u]
      BY <1>4, <2>1, <3>1 DEF AskedOf, Cancel
    <3> HIDE DEF u, next
    <3> QED
      BY <1>1, <3>2
  <2>3. Ended(w, u, sofar, fin)
    BY <1>1, EndedMore
  <2>4. Picked(rules, n + 1, q)
    BY <1>1, PickedMore
  <2>5. \A i \in 1 .. n + 1 : rules[i] = "DatagramIn" =>
           /\ Holds(q, "DatagramIn")
           /\ "DatagramIn" \in polled \/ ~ u.tcp.active2
    <3>1. ~ v.tcp.active2 => ~ u.tcp.active2
      <4>1. u.tcp = EndInputStream(v.tcp)
        BY <1>3, TiedFields DEF EndOutbound, Sockets
      <4>2. Onward(v.tcp, EndInputStream(v.tcp))
        BY <1>3, TiedFields, EndOnward
      <4> QED
        BY <4>1, <4>2 DEF Onward
    <3>2. rules[n + 1] # "DatagramIn"
      BY <2>1 DEF r
    <3> QED
      BY <1>1, <1>2, <3>1, <3>2
  <2>6. w.eof
    BY <1>3, <2>1
  <2> HIDE DEF u, next
  <2> QED
    BY <1>1, <2>2, <2>3, <2>4, <2>5, <2>6 DEF AskedOk, next, r
<1>5. CASE ~ Defunct(v, r)
  <2> DEFINE p == Append(q, r)
             more == IF Interested(v, r) THEN polled \cup {r} ELSE polled
  <2>2. next = [w |-> v, rules |-> p, polled |-> more]
    <3>1. acc.w = v /\ acc.rules = q /\ acc.polled = polled
      BY DEF v, q, polled
    <3>2. next = [acc EXCEPT !.rules = p, !.polled = more]
      BY <1>5, <3>1 DEF AskedOf
    <3> HIDE DEF p, more, next
    <3> QED
      BY <1>1, <3>2
  <2>3. p # q
    BY <1>1, <1>2 DEF Picked
  <2>4. /\ Picked(rules, n + 1, p) /\ Holds(p, r)
        /\ \A x \in RuleNames : Holds(q, x) => Holds(p, x)
    <3>1. p = q \/ p = Append(q, rules[n + 1])
      BY DEF r
    <3> HIDE DEF p, next, more
    <3>2. /\ Picked(rules, n + 1, p)
          /\ \A x \in RuleNames : Holds(q, x) => Holds(p, x)
          /\ p # q => Holds(p, rules[n + 1])
      BY <1>1, <3>1, PickedMore
    <3> QED
      BY <2>3, <3>2 DEF r
  <2>5. more \subseteq RuleNames /\ polled \subseteq more
    BY <1>1, <1>2
  <2>6. "DataIn" \in more => ~ w.eof /\ ~ w.outboundShutdown
    <3> SUFFICES ASSUME "DataIn" \in more, "DataIn" \notin polled
                 PROVE  ~ w.eof /\ ~ w.outboundShutdown
      BY <1>1
    <3>1. r = "DataIn" /\ Interested(v, r)
      OBVIOUS
    <3>2. ~ v.eof /\ ~ v.outboundShutdown
      BY <1>5, <3>1 DEF Defunct, Interested
    <3> QED
      BY <1>1, <1>3, <3>2
  <2>7. \A i \in 1 .. n + 1 : rules[i] = "DatagramIn" =>
           /\ Holds(p, "DatagramIn")
           /\ "DatagramIn" \in more \/ ~ v.tcp.active2
    <3>1. "DatagramIn" \in RuleNames
      BY DEF RuleNames
    <3>2. r = "DatagramIn" => Interested(v, r) \/ ~ v.tcp.active2
      BY DEF Interested, Active
    <3>3. r = "DatagramIn" /\ Interested(v, r) => "DatagramIn" \in more
      OBVIOUS
    <3> HIDE DEF more, p
    <3> QED
      BY <1>1, <1>2, <2>4, <2>5, <3>1, <3>2, <3>3 DEF r
  <2> HIDE DEF p, more, next
  <2> QED
    BY <1>1, <2>2, <2>4, <2>5, <2>6, <2>7 DEF AskedOk, next, r
<1> QED
  BY <1>4, <1>5

\* The first pass.
LEMMA SetUpGoes ==
  ASSUME SocketBounds, NEW sofar \in 0 .. PeerLen, NEW fin \in BOOLEAN,
         NEW w, Tied(w, sofar, fin), NEW rules \in Seq(RuleNames), Distinct(rules)
  PROVE  LET set == SetUpSocket(w, rules)
         IN  /\ Ended(w, set.w, sofar, fin)
             /\ set.rules \in Seq(RuleNames) /\ Distinct(set.rules)
             /\ set.polled \subseteq RuleNames
             /\ "DataIn" \in set.polled => set.w = w /\ ~ w.outboundShutdown
             /\ Holds(rules, "DatagramIn") =>
                  /\ Holds(set.rules, "DatagramIn")
                  /\ "DatagramIn" \in set.polled \/ ~ set.w.tcp.active2
<1> DEFINE n == Len(rules)
           f == CHOOSE g : Asks(w, rules, n, g)
           P == {m \in Nat : m <= n => AskedOk(w, rules, m, f[m], sofar, fin)}
<1>1. n \in Nat /\ DOMAIN rules = 1 .. n
  OBVIOUS
<1>2. Asks(w, rules, n, f)
  BY <1>1, AsksExist
<1>3. SetUpSocket(w, rules) = f[n]
  BY DEF SetUpSocket, SetUp, Asks, AskedOf
<1> HIDE DEF f
<1>4. \A j \in 0 .. n : f[j] = IF j = 0 THEN [w |-> w, rules |-> <<>>, polled |-> {}]
                               ELSE AskedOf(f[j - 1], rules[j])
  BY <1>2 DEF Asks
<1>5. 0 \in P
  <2>1. f[0] = [w |-> w, rules |-> <<>>, polled |-> {}]
    <3>1. 0 \in 0 .. n
      BY <1>1
    <3> HIDE DEF n, P
    <3> QED
      BY ONLY <1>4, <3>1, Zenon
  <2>2. Picked(rules, 0, <<>>)
    BY DEF Picked, Distinct
  <2> QED
    BY <2>1, <2>2, EndedSelf DEF AskedOk
<1>6. ASSUME NEW m \in Nat, m \in P PROVE m + 1 \in P
  <2> SUFFICES ASSUME m + 1 <= n PROVE AskedOk(w, rules, m + 1, f[m + 1], sofar, fin)
    BY <1>6
  <2>1. AskedOk(w, rules, m, f[m], sofar, fin)
    BY <1>1, <1>6
  <2>2. f[m + 1] = AskedOf(f[m], rules[m + 1])
    BY <1>1, <1>4, <1>6
  <2> QED
    BY <1>6, <2>1, <2>2, AskOne
<1> HIDE DEF P
<1>7. n \in P
  BY <1>1, <1>5, <1>6, EveryNumber
<1>8. AskedOk(w, rules, n, f[n], sofar, fin)
  BY <1>1, <1>7 DEF P
<1> QED
  BY <1>1, <1>3, <1>8 DEF AskedOk, Picked, Holds
-----------------------------------------------------------------------------
(***************************************************************************)
(* The pair of local sockets.                                              *)
(***************************************************************************)
LEMMA EndsOfPair ==
  /\ PairEnds = {Owner, Thread} /\ Owner # Thread
  /\ Facing(Owner) = Thread /\ Facing(Thread) = Owner
  BY DEF PairEnds, Owner, Thread, Facing

LEMMA EmptyExcerpt ==
  ASSUME NEW a \in Nat, NEW n \in Nat
  PROVE  Excerpt(a, n) = <<>> <=> n = 0
<1>1. Excerpt(a, n) \in Seq(Nat) /\ Len(Excerpt(a, n)) = n
  BY ExcerptIsSeq
<1> QED
  BY <1>1, EmptySeq

LEMMA ReadsFromPair ==
  ASSUME NEW pair \in Pairs, NEW e \in PairEnds, NEW a \in Nat, NEW m \in Nat,
         pair.data[e] = Excerpt(a, m), NEW limit \in Nat, NEW j, j = Smaller(limit, m)
  PROVE  LET after == AfterRead(pair, e, limit)
         IN  /\ j \in 0 .. m /\ j <= limit /\ BytesRead(pair, e, limit) = Excerpt(a, j)
             /\ after \in Pairs /\ after.data[e] = Excerpt(a + j, m - j)
             /\ \A f \in PairEnds : f # e => after.data[f] = pair.data[f]
             /\ after.shut = pair.shut
<1> DEFINE q == pair.data[e]
           rest == SubSeq(q, Smaller(limit, Len(q)) + 1, Len(q))
           after == [pair EXCEPT !.data[e] = rest]
<1>1. q \in Seq(Nat) /\ Len(q) = m
  BY ExcerptIsSeq
<1>2. j \in 0 .. m /\ j <= limit
  BY DEF Smaller
<1>3. SubSeq(q, 1, j) = Excerpt(a, j) /\ rest = Excerpt(a + j, m - j)
  <2>1. /\ SubSeq(Excerpt(a, m), 1, j) = Excerpt(a, j)
        /\ SubSeq(Excerpt(a, m), j + 1, m) = Excerpt(a + j, m - j)
    BY <1>2, ExcerptSplit
  <2> QED
    BY <1>1, <2>1
<1>4. rest \in Seq(Nat)
  <2>1. a + j \in Nat /\ m - j \in Nat
    BY <1>2
  <2> QED
    BY <1>3, <2>1, ExcerptIsSeq
<1>5. BytesRead(pair, e, limit) = Excerpt(a, j)
  BY <1>1, <1>3 DEF BytesRead
<1>6. AfterRead(pair, e, limit) = after
  BY DEF AfterRead
<1> HIDE DEF rest
<1>7. /\ after \in Pairs /\ after.data[e] = rest /\ after.shut = pair.shut
      /\ \A f \in PairEnds : f # e => after.data[f] = pair.data[f]
  BY <1>4 DEF Pairs
<1> QED
  BY <1>2, <1>3, <1>5, <1>6, <1>7

\* A write to the pair touches only the bytes on their way to the facing end.
LEMMA WriteLeavesOthers ==
  ASSUME NEW pair \in Pairs, NEW e \in PairEnds, NEW data
  PROVE  /\ \A g \in PairEnds :
              g # Facing(e) => AfterWrite(pair, e, data).data[g] = pair.data[g]
         /\ AfterWrite(pair, e, data).shut = pair.shut
<1>1. AfterWrite(pair, e, data).data
        = [pair.data EXCEPT ![Facing(e)] = AfterWrite(pair, e, data).data[Facing(e)]]
  BY DEF AfterWrite, Pairs
<1>2. AfterWrite(pair, e, data).shut = pair.shut
  BY DEF AfterWrite, Pairs
<1> QED
  BY <1>1, <1>2 DEF Pairs

LEMMA WritesToPair ==
  ASSUME NEW pair \in Pairs, NEW e \in PairEnds, Facing(e) \in PairEnds,
         NEW a \in Nat, NEW m \in Nat, pair.data[Facing(e)] = Excerpt(a, m), PipeSize \in Nat,
         m <= PipeSize, NEW n \in Nat, NEW b \in Nat, b = a + m,
         NEW data, data = Excerpt(b, n), NEW room, room = PipeSize - m,
         NEW j, j = Smaller(n, room)
  PROVE  LET after == AfterWrite(pair, e, data)
         IN  /\ j \in 0 .. n /\ BytesWritten(pair, e, data) = j /\ m + j <= PipeSize
             /\ after \in Pairs /\ after.data[Facing(e)] = Excerpt(a, m + j)
             /\ \A g \in PairEnds : g # Facing(e) => after.data[g] = pair.data[g]
             /\ after.shut = pair.shut
<1> DEFINE f == Facing(e)
           q == pair.data[f]
           more == q \o SubSeq(data, 1, j)
           after == [pair EXCEPT !.data[f] = more]
<1>0. a + m \in Nat
  OBVIOUS
<1>1. q \in Seq(Nat) /\ Len(q) = m /\ data \in Seq(Nat) /\ Len(data) = n
  BY <1>0, ExcerptIsSeq
<1>2. j \in 0 .. n /\ m + j <= PipeSize
  BY DEF Smaller
<1>3. BytesWritten(pair, e, data) = j
  BY <1>1 DEF BytesWritten, RoomFrom
<1>4. more = Excerpt(a, m + j)
  <2>1. SubSeq(data, 1, j) = Excerpt(b, j)
    <3>1. SubSeq(Excerpt(b, n), 1, j) = Excerpt(b, j)
      BY ONLY <1>2, b \in Nat, n \in Nat, ExcerptSplit
    <3> QED
      BY ONLY <3>1, data = Excerpt(b, n)
  <2>2. j \in Nat
    BY <1>2
  <2>3. Excerpt(a, m) \o Excerpt(a + m, j) = Excerpt(a, m + j)
    BY ONLY a \in Nat, m \in Nat, <2>2, ExcerptConcat
  <2> HIDE DEF q, f
  <2>4. q = Excerpt(a, m)
    BY DEF q, f
  <2>5. b = a + m
    OBVIOUS
  <2> QED
    BY ONLY <2>1, <2>3, <2>4, <2>5
<1>5. more \in Seq(Nat)
  <2>1. m + j \in Nat
    BY ONLY <1>2, m \in Nat
  <2> QED
    BY ONLY <1>4, <2>1, a \in Nat, ExcerptIsSeq
<1>6. AfterWrite(pair, e, data) = after
  BY <1>3 DEF AfterWrite
<1> HIDE DEF more
<1>7. /\ after \in Pairs /\ after.data[f] = more /\ after.shut = pair.shut
      /\ \A g \in PairEnds : g # f => after.data[g] = pair.data[g]
  BY <1>5 DEF Pairs
<1> QED
  BY <1>2, <1>3, <1>4, <1>6, <1>7

LEMMA ShutsPair ==
  ASSUME NEW pair \in Pairs
  PROVE  /\ \A e \in PairEnds :
              /\ ShutWr(pair, e) \in Pairs /\ ShutWr(pair, e).data = pair.data
              /\ ShutWr(pair, e).shut[Facing(e)]
              /\ \A f \in PairEnds : f # Facing(e) => ShutWr(pair, e).shut[f] = pair.shut[f]
         /\ ShutRdwr(pair) \in Pairs /\ ShutRdwr(pair).data = pair.data
         /\ \A f \in PairEnds : ShutRdwr(pair).shut[f]
<1>1. \A e \in PairEnds : Facing(e) \in PairEnds
  BY EndsOfPair
<1> QED
  BY <1>1 DEF ShutWr, ShutRdwr, Pairs
-----------------------------------------------------------------------------
Places == {"new", "connecting", "listening", "open", "waiting", "destroying", "gone"}

Owners == [at : Places, written : Nat, read : Seq(Nat), shut : BOOLEAN, sawEof : BOOLEAN]

\* What is on its way between the owner and the connection; done when the thread
\* has ended.
Carried(w, o, done) ==
  LET in == Inbound(w.tcp)
      out == Outbound(w.tcp)
  IN  /\ out.totWrite <= o.written /\ o.written <= OwnerLen
      /\ w.pair.data[Thread] = Excerpt(out.totWrite, o.written - out.totWrite)
      /\ o.read = Excerpt(0, Len(o.read)) /\ Len(o.read) <= in.totRead
      /\ w.pair.data[Owner] = Excerpt(Len(o.read), in.totRead - Len(o.read))
      /\ in.totRead - Len(o.read) <= PipeSize
      /\ w.pair.shut[Owner] => Eof(in) \/ in.error \/ done
      /\ o.sawEof =>
           /\ w.pair.shut[Owner]
           /\ \/ Eof(in) /\ in.totRead = Len(o.read)
              \/ in.error
              \/ done /\ ~ Active(w.tcp) /\ OutboundDone(w.tcp)

\* A callback has been called, or the tick.
Goes(w, v, sofar, fin) ==
  /\ Tied(v, sofar, fin) /\ Onward(w.tcp, v.tcp)
  /\ w.tcp.receiver.status = LISTEN => ~ InputEnded(Inbound(v.tcp))

\* The connection changes, but no bytes pass between it and the pair.
LEMMA CarriedOn ==
  ASSUME NEW w, NEW o, NEW done, Carried(w, o, done), NEW v, v.pair = w.pair,
         Onward(w.tcp, v.tcp), Outbound(v.tcp).totWrite = Outbound(w.tcp).totWrite,
         Inbound(v.tcp).totRead = Inbound(w.tcp).totRead,
         v.tcp = w.tcp \/ ~ done
  PROVE  Carried(v, o, done)
<1>1. /\ Eof(Inbound(w.tcp)) => Eof(Inbound(v.tcp))
      /\ Inbound(w.tcp).error => Inbound(v.tcp).error
  BY DEF Onward, Onwards, Inbound
<1> QED
  BY <1>1 DEF Carried

\* While the receiver listens its stream is open.
LEMMA ListensOpen ==
  ASSUME SocketBounds, NEW sofar \in 0 .. PeerLen, NEW fin \in BOOLEAN,
         NEW w, Tied(w, sofar, fin)
  PROVE  w.tcp.receiver.status = LISTEN => ~ InputEnded(Inbound(w.tcp))
<1>1. Receiving(w.tcp.receiver, sofar, fin)
  BY TiedFields, ConnectionFields
<1> QED
  BY <1>1, ReceivingFields DEF Inbound, InputEnded
-----------------------------------------------------------------------------
\* Rule 1.
LEMMA DatagramInGoes ==
  ASSUME SocketBounds, NEW sofar \in 0 .. PeerLen, NEW fin \in BOOLEAN,
         NEW w, Tied(w, sofar, fin), w.inbox # <<>>,
         Arriving(Head(w.inbox), w.tcp, sofar, fin)
  PROVE  LET v == DatagramIn(w)
             seg == Head(w.inbox)
         IN  /\ Goes(w, v, sofar, fin) /\ v.inbox = Tail(w.inbox) /\ v.pair = w.pair
             /\ v.wire = w.wire /\ v.died = w.died /\ v.outboundShutdown = w.outboundShutdown
             /\ Outbound(v.tcp).totWrite = Outbound(w.tcp).totWrite
             /\ Inbound(v.tcp).totRead = Inbound(w.tcp).totRead
             /\ w.tcp.receiver.status = LISTEN /\ v.tcp.receiver.status # LISTEN => seg.syn
             /\ w.tcp.sender.nextSeqno <= v.tcp.sender.nextSeqno
<1> DEFINE seg == Head(w.inbox)
           c == SegmentReceived(w.tcp, seg)
           v == [w EXCEPT !.inbox = Tail(w.inbox), !.tcp = c]
<1>1. w \in Sockets(sofar) /\ Conn(w.tcp, sofar, fin)
      /\ w.inbox \in Seq(Arrivals)
  BY TiedFields
<1>2. /\ Conn(c, sofar, fin) /\ Onward(w.tcp, c)
      /\ Inbound(c).totRead = Inbound(w.tcp).totRead /\ SameOutput(w.tcp, c)
      /\ w.tcp.receiver.status = LISTEN => ~ InputEnded(Inbound(c))
      /\ w.tcp.receiver.status = LISTEN /\ c.receiver.status # LISTEN => seg.syn
      /\ w.tcp.sender.nextSeqno <= c.sender.nextSeqno
  BY <1>1, SegmentOnward
<1>3. DatagramIn(w) = v
  BY DEF DatagramIn
<1> HIDE DEF c
<1>4. c \in Connections(sofar) /\ Tail(w.inbox) \in Seq(Arrivals)
  BY <1>1, <1>2 DEF Conn, Base
<1>5. /\ v \in Sockets(sofar) /\ v.tcp = c /\ v.inbox = Tail(w.inbox) /\ v.pair = w.pair
      /\ v.wire = w.wire /\ v.died = w.died /\ v.outboundShutdown = w.outboundShutdown
  BY <1>1, <1>4 DEF Sockets
<1> HIDE DEF v
<1>6. Tied(v, sofar, fin)
  BY <1>2, <1>5 DEF Tied, SameOutput
<1> QED
  BY <1>2, <1>3, <1>5, <1>6 DEF Goes, SameOutput

\* Rule 4.
LEMMA DatagramOutGoes ==
  ASSUME SocketBounds, NEW sofar \in 0 .. PeerLen, NEW fin \in BOOLEAN,
         NEW w, Tied(w, sofar, fin)
  PROVE  LET v == DatagramOut(w)
         IN  /\ Goes(w, v, sofar, fin) /\ v.inbox = w.inbox /\ v.pair = w.pair
             /\ v.wire = w.wire \o w.tcp.segmentsOut /\ v.died = w.died
             /\ v.outboundShutdown = w.outboundShutdown
             /\ v.tcp.sender = w.tcp.sender /\ v.tcp.receiver = w.tcp.receiver
             /\ w.tcp.segmentsOut # <<>> => w.tcp.sender.nextSeqno > 0
<1> DEFINE c == [w.tcp EXCEPT !.segmentsOut = <<>>]
           wire == w.wire \o w.tcp.segmentsOut
           v == [w EXCEPT !.wire = wire, !.tcp = c]
<1>1. /\ w \in Sockets(sofar) /\ Conn(w.tcp, sofar, fin) /\ Base(w.tcp, sofar, fin)
      /\ w.wire \in Seq(Outgoing) /\ w.tcp \in Connections(sofar)
  BY TiedFields
<1>2. w.tcp.segmentsOut \in Seq(Outgoing) /\ w.tcp.sender.nextSeqno \in Nat
      /\ Sending(w.tcp.sender)
  BY <1>1, ConnectionFields
<1>3. DatagramOut(w) = v
  BY <1>1 DEF DatagramOut, Sockets
<1>4. <<>> \in Seq(Outgoing) /\ wire \in Seq(Outgoing)
  BY <1>1, <1>2, ConcatProperties
<1> HIDE DEF wire
<1>5. /\ c \in Connections(sofar) /\ c.sender = w.tcp.sender /\ c.receiver = w.tcp.receiver
      /\ c.active2 = w.tcp.active2 /\ c.linger = w.tcp.linger /\ c.finsent = w.tcp.finsent
      /\ c.segmentsOut = <<>>
  BY <1>1, <1>4 DEF Connections
<1> HIDE DEF c
<1>6. Base(c, sofar, fin)
  BY <1>1, <1>5 DEF Base, Inbound, Finished, OutboundDone, Outbound
<1>7. Conn(c, sofar, fin)
  BY <1>1, <1>5, <1>6 DEF Conn, Inbound, Outbound
<1>8. Onward(w.tcp, c)
  <2>1. Later(w.tcp.sender, w.tcp.sender)
    BY <1>2, LaterSelf
  <2> QED
    BY <1>5, <2>1 DEF Onward, Onwards
<1>9. /\ v \in Sockets(sofar) /\ v.tcp = c /\ v.inbox = w.inbox /\ v.pair = w.pair
      /\ v.wire = wire /\ v.died = w.died /\ v.outboundShutdown = w.outboundShutdown
  BY <1>1, <1>4, <1>5 DEF Sockets
<1> HIDE DEF v
<1>10. Tied(v, sofar, fin)
  BY <1>5, <1>7, <1>9 DEF Tied, Outbound
<1>11. w.tcp.receiver.status = LISTEN => ~ InputEnded(Inbound(v.tcp))
  BY <1>5, <1>9, ListensOpen DEF Inbound
<1>12. w.tcp.segmentsOut # <<>> => w.tcp.sender.nextSeqno > 0
  BY <1>1, <1>2 DEF Conn
<1> QED
  BY <1>3, <1>5, <1>8, <1>9, <1>10, <1>11, <1>12 DEF Goes, wire
-----------------------------------------------------------------------------
\* The process has ended in an error of the connection, or what is on its way still fits.
Outcome(v, o) ==
  IF v.died = "no" THEN Carried(v, o, FALSE) ELSE Inbound(v.tcp).error

\* An exception or a signal.
LEMMA DiesFields ==
  ASSUME NEW sofar, NEW w \in Sockets(sofar), NEW why \in Deaths
  PROVE  LET u == Dies(w, why)
         IN  /\ u \in Sockets(sofar) /\ u.tcp = w.tcp /\ u.pair = w.pair
             /\ u.outboundShutdown = w.outboundShutdown
             /\ u.inbox = w.inbox /\ u.wire = w.wire /\ u.died = why
  BY DEF Dies, Sockets

\* Rule 2.
LEMMA DataInGoes ==
  ASSUME SocketBounds, NEW sofar \in 0 .. PeerLen, NEW fin \in BOOLEAN,
         NEW w, Tied(w, sofar, fin), ~ w.outboundShutdown, w.died = "no",
         NEW o \in Owners, Carried(w, o, FALSE)
  PROVE  LET v == DataIn(w)
         IN  /\ Goes(w, v, sofar, fin) /\ Outcome(v, o) /\ v.inbox = w.inbox
             /\ v.wire = w.wire /\ v.tcp.receiver = w.tcp.receiver
<1> DEFINE out == Outbound(w.tcp)
           n == OfferFromPair(w)
           m == o.written - out.totWrite
           j == Smaller(n, m)
           data == BytesRead(w.pair, Thread, n)
           pair == AfterRead(w.pair, Thread, n)
           c == ConnectionWrite(w.tcp, data)
           eof == ReadsEof(w.pair, Thread, n)
           moved == [w EXCEPT !.pair = pair, !.tcp = c, !.eof = eof]
           v == DataIn(w)
<1>1. /\ w \in Sockets(sofar) /\ Conn(w.tcp, sofar, fin) /\ Base(w.tcp, sofar, fin)
      /\ w.pair \in Pairs /\ ~ out.eof2
  BY TiedFields DEF Tied
<1>2. /\ Flowing(out) /\ out.rem \in Nat /\ out.totWrite \in Nat /\ n = out.rem
      /\ Receiving(w.tcp.receiver, sofar, fin)
  <2>1. Flowing(out) /\ Receiving(w.tcp.receiver, sofar, fin)
    BY <1>1, ConnectionFields
  <2> QED
    BY <2>1, FlowFields DEF OfferFromPair, RemainingCapacity
<1>3. /\ o.written \in Nat /\ out.totWrite <= o.written /\ o.written <= OwnerLen
      /\ m \in Nat /\ w.pair.data[Thread] = Excerpt(out.totWrite, m)
  <2>1. /\ o.written \in Nat /\ out.totWrite <= o.written /\ o.written <= OwnerLen
        /\ w.pair.data[Thread] = Excerpt(out.totWrite, m)
    BY DEF Owners, Carried
  <2>2. m \in Nat
    BY <1>2, <2>1
  <2> QED
    BY <2>1, <2>2
<1> HIDE DEF n, m
<1>4. /\ j \in 0 .. m /\ j <= n /\ data = Excerpt(out.totWrite, j)
      /\ pair \in Pairs /\ pair.data[Thread] = Excerpt(out.totWrite + j, m - j)
      /\ pair.data[Owner] = w.pair.data[Owner] /\ pair.shut = w.pair.shut
  <2>1. Thread \in PairEnds /\ Owner \in PairEnds /\ Owner # Thread
    BY EndsOfPair
  <2>2. n \in Nat
    BY <1>2
  <2>4. j = Smaller(n, m)
    OBVIOUS
  <2> HIDE DEF out, j
  <2>3. /\ j \in 0 .. m /\ j <= n /\ data = Excerpt(out.totWrite, j)
        /\ pair \in Pairs /\ pair.data[Thread] = Excerpt(out.totWrite + j, m - j)
        /\ \A f \in PairEnds : f # Thread => pair.data[f] = w.pair.data[f]
        /\ pair.shut = w.pair.shut
    <3> DEFINE p == w.pair
               a == out.totWrite
    <3>1. /\ p \in Pairs /\ Thread \in PairEnds /\ a \in Nat /\ m \in Nat /\ n \in Nat
          /\ p.data[Thread] = Excerpt(a, m)
      BY <1>1, <1>2, <1>3, <2>1, <2>2
    <3> HIDE DEF p, a
    <3>2. LET after == AfterRead(p, Thread, n)
          IN  /\ j \in 0 .. m /\ j <= n /\ BytesRead(p, Thread, n) = Excerpt(a, j)
              /\ after \in Pairs /\ after.data[Thread] = Excerpt(a + j, m - j)
              /\ \A f \in PairEnds : f # Thread => after.data[f] = p.data[f]
              /\ after.shut = p.shut
      BY ONLY <2>4, <3>1, ReadsFromPair
    <3> QED
      BY <3>2 DEF p, a
  <2> QED
    BY <2>1, <2>3
<1> HIDE DEF j, data, pair
<1>5. j \in Nat /\ out.totWrite + j <= OwnerLen /\ Len(data) = j /\ Smaller(j, out.rem) = j
  <2>1. j \in Nat /\ OwnerLen \in Nat
    BY <1>4, SocketFacts
  <2>2. out.totWrite + j <= OwnerLen
    BY <1>2, <1>3, <1>4, <2>1 DEF m
  <2>3. Len(data) = j
    BY <1>2, <1>4, <2>1, ExcerptIsSeq
  <2>4. Smaller(j, out.rem) = j
    BY <1>2, <1>4, <2>1 DEF Smaller
  <2> QED
    BY <2>1, <2>2, <2>3, <2>4
<1>6. /\ Conn(c, sofar, fin) /\ Onward(w.tcp, c) /\ c.receiver = w.tcp.receiver
      /\ Outbound(c).eof2 = out.eof2
      /\ Outbound(c).totWrite = out.totWrite + Takes(w.tcp, data)
      /\ Takes(w.tcp, data) = IF Active(w.tcp) THEN Smaller(j, out.rem) ELSE 0
  BY <1>1, <1>4, <1>5, WriteOnward
<1>7. eof \in BOOLEAN
  BY DEF ReadsEof
<1>8. v = IF Takes(w.tcp, data) # Len(data) THEN Dies(moved, "short write")
          ELSE IF moved.eof THEN EndOutbound(moved) ELSE moved
  BY DEF DataIn, data, n, pair
<1> HIDE DEF c, eof, v
<1>9. c \in Connections(sofar) /\ Base(c, sofar, fin)
  BY <1>6 DEF Conn, Base
<1>10. /\ moved \in Sockets(sofar) /\ moved.tcp = c /\ moved.pair = pair
       /\ moved.outboundShutdown = w.outboundShutdown /\ moved.inbox = w.inbox
       /\ moved.wire = w.wire /\ moved.died = w.died
  BY <1>1, <1>4, <1>7, <1>9 DEF Sockets
<1> HIDE DEF moved
<1>11. Tied(moved, sofar, fin)
  BY <1>1, <1>6, <1>10 DEF Tied
<1>12. w.tcp.receiver.status = LISTEN => ~ InputEnded(Inbound(c))
  BY <1>6, ListensOpen DEF Inbound
<1>13. CASE Takes(w.tcp, data) # Len(data)
  <2> DEFINE u == Dies(moved, "short write")
  <2>1. v = u
    BY <1>8, <1>13
  <2>2. /\ u \in Sockets(sofar) /\ u.tcp = c /\ u.outboundShutdown = moved.outboundShutdown
        /\ u.inbox = w.inbox /\ u.wire = w.wire /\ u.died = "short write"
    <3>1. "short write" \in Deaths
      BY DEF Deaths
    <3> QED
      BY ONLY <1>10, <3>1, DiesFields
  <2> HIDE DEF u
  <2>3. Tied(u, sofar, fin)
    BY <1>1, <1>6, <1>10, <2>2 DEF Tied
  <2>4. ~ w.tcp.active2
    BY <1>5, <1>6, <1>13 DEF Active
  <2>5. Inbound(w.tcp).error
    <3>1. Finished(w.tcp) => out.eof2
      BY DEF Finished, OutboundDone, Eof
    <3> QED
      BY <1>1, <2>4, <3>1 DEF Base
  <2>6. Inbound(c).error
    BY <1>6, <2>5 DEF Inbound
  <2> QED
    BY <1>6, <1>12, <2>1, <2>2, <2>3, <2>6 DEF v, Goes, Outcome
<1>14. CASE Takes(w.tcp, data) = Len(data)
  <2>1. Outbound(c).totWrite = out.totWrite + j
    BY <1>5, <1>6, <1>14
  <2>2. Inbound(c) = Inbound(w.tcp)
    BY <1>6 DEF Inbound
  <2>3. Carried(moved, o, FALSE)
    <3>1. /\ out.totWrite + j <= o.written
          /\ o.written - (out.totWrite + j) = m - j
      BY <1>2, <1>3, <1>4, <1>5 DEF m
    <3>2. /\ o.read = Excerpt(0, Len(o.read)) /\ Len(o.read) <= Inbound(w.tcp).totRead
          /\ w.pair.data[Owner] = Excerpt(Len(o.read), Inbound(w.tcp).totRead - Len(o.read))
          /\ Inbound(w.tcp).totRead - Len(o.read) <= PipeSize
          /\ w.pair.shut[Owner] => Eof(Inbound(w.tcp)) \/ Inbound(w.tcp).error
          /\ o.sawEof =>
               /\ w.pair.shut[Owner]
               /\ \/ Eof(Inbound(w.tcp)) /\ Inbound(w.tcp).totRead = Len(o.read)
                  \/ Inbound(w.tcp).error
      BY DEF Carried
    <3> QED
      BY <1>3, <1>4, <1>10, <2>1, <2>2, <3>1, <3>2 DEF Carried
  <2>4. CASE v = moved
    BY <1>6, <1>10, <1>11, <1>12, <2>3, <2>4 DEF v, Goes, Outcome
  <2>5. CASE v = EndOutbound(moved)
    <3> DEFINE u == EndOutbound(moved)
    <3>1. Ended(moved, u, sofar, fin)
      BY <1>11, EndedSelf, EndedMore
    <3> HIDE DEF u
    <3>2. /\ Tied(u, sofar, fin) /\ Onward(c, u.tcp) /\ u.pair = pair
          /\ u.tcp.receiver = c.receiver /\ u.inbox = w.inbox /\ u.wire = w.wire
          /\ u.died = w.died /\ Outbound(u.tcp).totWrite = Outbound(c).totWrite
      BY <1>10, <3>1 DEF Ended, Beside
    <3>3. Base(u.tcp, sofar, fin)
      BY <3>2, TiedFields
    <3>4. Onward(w.tcp, u.tcp)
      BY ONLY SocketBounds, <1>1, <1>6, <1>9, <3>2, <3>3, OnwardTwice
    <3>5. Inbound(u.tcp) = Inbound(c)
      BY <3>2 DEF Inbound
    <3>6. Carried(u, o, FALSE)
      BY <1>10, <2>3, <3>2, <3>5, CarriedOn
    <3>7. v = u
      BY <2>5 DEF u
    <3> QED
      BY <1>6, <1>12, <3>2, <3>4, <3>5, <3>6, <3>7 DEF v, Goes, Outcome
  <2> QED
    BY <1>8, <1>14, <2>4, <2>5
<1> QED
  BY <1>13, <1>14

\* Rule 3.
LEMMA DataOutGoes ==
  ASSUME SocketBounds, NEW sofar \in 0 .. PeerLen, NEW fin \in BOOLEAN,
         NEW w, Tied(w, sofar, fin), w.died = "no",
         NEW o \in Owners, Carried(w, o, FALSE)
  PROVE  LET v == DataOut(w)
         IN  /\ Goes(w, v, sofar, fin) /\ Outcome(v, o) /\ v.inbox = w.inbox
             /\ v.wire = w.wire /\ v.outboundShutdown = w.outboundShutdown
             /\ v.tcp.receiver.status = w.tcp.receiver.status
             /\ v.tcp.sender = w.tcp.sender
<1> DEFINE in == Inbound(w.tcp)
           size == BufferSize(in)
           len == Len(o.read)
           m == in.totRead - len
           data == PeekOutput(in, size)
           j == Smaller(size, PipeSize - m)
           pair == AfterWrite(w.pair, Thread, data)
           c == ConnectionRead(w.tcp, j)
           sent == [w EXCEPT !.pair = pair, !.tcp = c]
           v == DataOut(w)
<1>1. /\ w \in Sockets(sofar) /\ Conn(w.tcp, sofar, fin) /\ Base(w.tcp, sofar, fin)
      /\ w.pair \in Pairs
  BY TiedFields
<1>2. /\ in.totRead \in Nat /\ size \in Nat /\ in.buf = Excerpt(in.totRead, size)
      /\ in.totWrite = in.totRead + size /\ (BufferEmpty(in) <=> size = 0)
  <2>1. Receiving(w.tcp.receiver, sofar, fin)
    BY <1>1, ConnectionFields
  <2> QED
    BY <2>1, ReceivingFields DEF Inbound
<1>3. /\ o.read \in Seq(Nat) /\ len \in Nat /\ len <= in.totRead /\ m <= PipeSize
      /\ w.pair.data[Owner] = Excerpt(len, m) /\ o.read = Excerpt(0, len)
      /\ w.pair.shut[Owner] => Eof(in) \/ in.error
      /\ o.sawEof =>
           /\ w.pair.shut[Owner]
           /\ \/ Eof(in) /\ in.totRead = len
              \/ in.error
  BY DEF Carried, Owners
<1>4. m \in Nat /\ len + m = in.totRead /\ PipeSize \in Nat
  <2>1. PipeSize \in Nat
    BY SocketFacts
  <2> HIDE DEF in, len, size
  <2>2. m \in Nat /\ len + m = in.totRead
    BY ONLY <1>2, <1>3
  <2> QED
    BY <2>1, <2>2
<1>5. data = Excerpt(len + m, size) /\ Len(data) = size
  <2>1. in.buf \in Seq(Nat) /\ Len(in.buf) = size /\ Smaller(size, size) = size
    BY <1>2, ExcerptIsSeq, SMTT(40) DEF Smaller
  <2>2. data = in.buf
    BY <2>1 DEF PeekOutput
  <2> QED
    BY <1>2, <1>4, <2>1, <2>2
<1> HIDE DEF data, size, m, len
<1>6. /\ j \in 0 .. size /\ BytesWritten(w.pair, Thread, data) = j /\ m + j <= PipeSize
      /\ pair \in Pairs /\ pair.data[Owner] = Excerpt(len, m + j)
      /\ pair.data[Thread] = w.pair.data[Thread] /\ pair.shut = w.pair.shut
  <2>1. Thread \in PairEnds /\ Owner \in PairEnds /\ Owner # Thread /\ Owner = Facing(Thread)
    BY EndsOfPair
  <2>3. j = Smaller(size, PipeSize - m)
    OBVIOUS
  <2> HIDE DEF in, j
  <2>2. /\ j \in 0 .. size /\ BytesWritten(w.pair, Thread, data) = j /\ m + j <= PipeSize
        /\ pair \in Pairs /\ pair.data[Owner] = Excerpt(len, m + j)
        /\ \A g \in PairEnds : g # Owner => pair.data[g] = w.pair.data[g]
        /\ pair.shut = w.pair.shut
    <3> DEFINE p == w.pair
               b == len + m
               room == PipeSize - m
    <3>1. /\ p \in Pairs /\ Thread \in PairEnds /\ Owner \in PairEnds
          /\ Facing(Thread) \in PairEnds /\ len \in Nat /\ m \in Nat /\ PipeSize \in Nat
          /\ m <= PipeSize /\ size \in Nat /\ p.data[Facing(Thread)] = Excerpt(len, m)
          /\ data = Excerpt(b, size) /\ b \in Nat /\ b = len + m
          /\ room = PipeSize - m /\ j = Smaller(size, room)
      BY <1>1, <1>2, <1>3, <1>4, <1>5, <2>1, <2>3
    <3> HIDE DEF p, b, room
    <3> DEFINE after == AfterWrite(p, Thread, data)
    <3>2. j \in 0 .. size /\ m + j <= PipeSize
      BY ONLY <3>1 DEF Smaller
    <3>5. BytesWritten(p, Thread, data) = j
      BY ONLY <3>1, WritesToPair
    <3>3. after \in Pairs /\ after.data[Facing(Thread)] = Excerpt(len, m + j)
      BY ONLY <3>1, WritesToPair, SMTT(40)
    <3>4. /\ \A g \in PairEnds : g # Facing(Thread) => after.data[g] = p.data[g]
          /\ after.shut = p.shut
      BY ONLY <3>1, WriteLeavesOthers
    <3> QED
      BY <2>1, <3>2, <3>3, <3>4, <3>5 DEF p
  <2> QED
    BY <2>1, <2>2
<1> HIDE DEF j, pair
<1>7. /\ Conn(c, sofar, fin) /\ Onward(w.tcp, c) /\ c.sender = w.tcp.sender
      /\ c.active2 = w.tcp.active2 /\ c.receiver.status = w.tcp.receiver.status
      /\ Inbound(c).totRead = in.totRead + j /\ Inbound(c).totWrite = in.totWrite
      /\ Inbound(c).error = in.error /\ Inbound(c).eof2 = in.eof2
  <2>1. j \in 0 .. BufferSize(Inbound(w.tcp))
    BY <1>6 DEF size
  <2> QED
    BY <1>1, <2>1, ReadOnward
<1>8. v = IF Breaks(w.pair, Thread, data) THEN Dies(w, "broken pipe")
          ELSE IF InboundOver(Inbound(sent.tcp))
          THEN [sent EXCEPT !.pair = ShutWr(@, Thread), !.inboundShutdown = TRUE]
          ELSE sent
  <2>1. sent = [w EXCEPT !.pair = AfterWrite(@, Thread, data),
                         !.tcp = ConnectionRead(@, PoppedAsWritten(w, data))]
    BY <1>6 DEF PoppedAsWritten, pair
  <2>2. data = PeekOutput(in, BufferSize(in))
    BY DEF data, size
  <2> HIDE DEF sent, c
  <2> QED
    BY <2>1, <2>2 DEF DataOut
<1> HIDE DEF c, v
<1>9. c \in Connections(sofar)
  BY <1>7 DEF Conn, Base
<1>10. /\ sent \in Sockets(sofar) /\ sent.tcp = c /\ sent.pair = pair
       /\ sent.outboundShutdown = w.outboundShutdown /\ sent.inbox = w.inbox
       /\ sent.wire = w.wire /\ sent.died = w.died
  BY <1>1, <1>6, <1>9 DEF Sockets
<1> HIDE DEF sent
<1>11. Outbound(c) = Outbound(w.tcp)
  BY <1>7 DEF Outbound
<1>12. w.tcp.receiver.status = LISTEN => ~ InputEnded(Inbound(c))
  BY <1>7, ListensOpen DEF InputEnded
<1>13. ASSUME NEW u \in Sockets(sofar), u.tcp = c, u.outboundShutdown = w.outboundShutdown
       PROVE  Goes(w, u, sofar, fin)
  BY <1>7, <1>11, <1>12, <1>13 DEF Goes, Tied
<1>14. CASE Breaks(w.pair, Thread, data)
  <2> DEFINE u == Dies(w, "broken pipe")
  <2>1. v = u
    BY <1>8, <1>14
  <2>2. /\ u \in Sockets(sofar) /\ u.tcp = w.tcp /\ u.outboundShutdown = w.outboundShutdown
        /\ u.inbox = w.inbox /\ u.wire = w.wire /\ u.died = "broken pipe"
    <3>1. "broken pipe" \in Deaths
      BY DEF Deaths
    <3> QED
      BY ONLY <1>1, <3>1, DiesFields
  <2> HIDE DEF u
  <2>3. in.error
    <3>1. data # <<>> /\ w.pair.shut[Owner]
      BY <1>14, EndsOfPair DEF Breaks
    <3>2. size # 0
      BY <1>2, <1>3, <1>4, <1>5, <3>1, EmptyExcerpt
    <3>3. ~ Eof(in)
      BY <1>2, <3>2 DEF Eof
    <3> QED
      BY <1>3, <3>1, <3>3
  <2> QED
    <3>1. Onward(w.tcp, w.tcp) /\ (w.tcp.receiver.status = LISTEN => ~ InputEnded(in))
      BY <1>1, OnwardSelf, ListensOpen
    <3>2. Tied(u, sofar, fin)
      BY <2>2 DEF Tied
    <3> QED
      BY <2>1, <2>2, <2>3, <3>1, <3>2 DEF v, Outcome, Goes
<1>15. CASE ~ Breaks(w.pair, Thread, data)
  <2>1. ASSUME NEW u, u.tcp = c, u.pair.data = pair.data,
               u.pair.shut[Owner] => pair.shut[Owner] \/ Eof(Inbound(c)) \/ Inbound(c).error,
               pair.shut[Owner] => u.pair.shut[Owner]
        PROVE  Carried(u, o, FALSE)
    <3>1. j \in Nat /\ Inbound(c).totRead - len = m + j /\ len <= Inbound(c).totRead
      BY <1>2, <1>3, <1>4, <1>6, <1>7
    <3>2. Eof(in) => Eof(Inbound(c))
      BY <1>7 DEF Onward, Onwards, Inbound
    <3>3. Eof(in) => j = 0
      BY <1>2, <1>6 DEF Eof
    <3>4. o.sawEof =>
            /\ u.pair.shut[Owner]
            /\ \/ Eof(Inbound(c)) /\ Inbound(c).totRead = len
               \/ Inbound(c).error
      BY <1>2, <1>3, <1>6, <1>7, <2>1, <3>2, <3>3
    <3>5. u.pair.shut[Owner] => Eof(Inbound(c)) \/ Inbound(c).error
      BY <1>3, <1>6, <1>7, <2>1, <3>2
    <3>6. /\ Outbound(w.tcp).totWrite <= o.written /\ o.written <= OwnerLen
          /\ w.pair.data[Thread] = Excerpt(Outbound(w.tcp).totWrite,
                                           o.written - Outbound(w.tcp).totWrite)
      BY DEF Carried
    <3> QED
      BY <1>3, <1>6, <1>11, <2>1, <3>1, <3>4, <3>5, <3>6 DEF Carried, len
  <2>2. CASE InboundOver(Inbound(sent.tcp))
    <3> DEFINE p == ShutWr(pair, Thread)
               u == [sent EXCEPT !.pair = p, !.inboundShutdown = TRUE]
    <3>1. v = u
      BY <1>8, <1>10, <1>15, <2>2
    <3>2. /\ p \in Pairs /\ p.data = pair.data /\ p.shut[Owner]
      BY <1>6, ShutsPair, EndsOfPair
    <3> HIDE DEF p
    <3>3. /\ u \in Sockets(sofar) /\ u.tcp = c /\ u.outboundShutdown = w.outboundShutdown
          /\ u.inbox = w.inbox /\ u.wire = w.wire /\ u.died = "no" /\ u.pair = p
      BY <1>10, <3>2 DEF Sockets
    <3> HIDE DEF u
    <3>4. Eof(Inbound(c)) \/ Inbound(c).error
      BY <1>10, <2>2 DEF InboundOver
    <3>5. Carried(u, o, FALSE)
      BY <2>1, <3>2, <3>3, <3>4
    <3>6. Goes(w, u, sofar, fin)
      BY <1>13, <3>3
    <3> QED
      BY <1>7, <3>1, <3>3, <3>5, <3>6 DEF v, Outcome
  <2>3. CASE ~ InboundOver(Inbound(sent.tcp))
    <3>1. v = sent
      BY <1>8, <1>15, <2>3
    <3>2. Carried(sent, o, FALSE)
      BY <1>10, <2>1
    <3>3. Goes(w, sent, sofar, fin)
      BY <1>10, <1>13
    <3> QED
      BY <1>7, <1>10, <3>1, <3>2, <3>3 DEF v, Outcome
  <2> QED
    BY <2>2, <2>3
<1> QED
  BY <1>14, <1>15
-----------------------------------------------------------------------------
(***************************************************************************)
(* The peer.                                                               *)
(***************************************************************************)
Peers == [sent : Nat, heard : Nat, told : Nat, fin : BOOLEAN, reset : BOOLEAN]

\* How many bytes of its stream the peer has sent.
Sofar(p) == IF p.sent = 0 THEN 0 ELSE p.sent - 1 - One(p.fin)

Counted(p) ==
  p \in Peers /\ p.sent <= PeerLen + 1 + One(p.fin) /\ (p.fin => p.sent >= 2)

\* On its way from the peer: a piece of its stream, or a reset before that began.
Coming(seg, p, c) ==
  /\ seg \in Arrivals
  /\ seg.ack => c.sender.nextSeqno > 0
  /\ \/ Piece(seg, Sofar(p), p.fin) /\ (seg.syn => p.sent > 0)
     \/ seg.rst /\ ~ seg.syn /\ p.sent = 0 /\ p.reset

\* What the peer knows of the connection, and the connection of the peer.
Hearing(w, p) ==
  /\ Counted(p)
  /\ p.heard > 0 => w.tcp.sender.nextSeqno > 0
  /\ w.tcp.receiver.status # LISTEN => p.sent > 0
  /\ \A i \in DOMAIN w.inbox : Coming(w.inbox[i], p, w.tcp)

LEMMA PeerFields ==
  ASSUME NEW p \in Peers
  PROVE  /\ p.sent \in Nat /\ p.heard \in Nat /\ p.told \in Nat
         /\ p.fin \in BOOLEAN /\ p.reset \in BOOLEAN
  BY DEF Peers

LEMMA SofarType ==
  ASSUME SocketBounds, NEW p, Counted(p)
  PROVE  /\ Sofar(p) \in 0 .. PeerLen
         /\ p.sent > 0 => p.sent = Sofar(p) + 1 + One(p.fin)
<1>1. p.sent \in Nat /\ p.fin \in BOOLEAN /\ PeerLen \in Nat
  BY PeerFields, SocketFacts DEF Counted
<1>2. p.sent <= PeerLen + 1 + One(p.fin) /\ (p.fin => p.sent >= 2)
  BY DEF Counted
<1> QED
  BY <1>1, <1>2 DEF Sofar, One

\* The peer sends more of its stream, or ends it.
LEMMA PieceMore ==
  ASSUME NEW sofar \in Nat, NEW fin \in BOOLEAN, NEW seg, Piece(seg, sofar, fin),
         NEW more \in Nat, sofar <= more, NEW end \in BOOLEAN, fin => more = sofar /\ end
  PROVE  Piece(seg, more, end)
<1>1. Len(seg.payload) \in Nat /\ seg.seqno \in Nat
  BY LenProperties DEF Piece
<1> QED
  BY <1>1 DEF Piece

LEMMA TiedMore ==
  ASSUME SocketBounds, NEW sofar \in 0 .. PeerLen, NEW fin \in BOOLEAN,
         NEW w, Tied(w, sofar, fin),
         NEW more \in sofar .. PeerLen, NEW end \in BOOLEAN, fin => more = sofar /\ end
  PROVE  Tied(w, more, end)
<1>1. w \in Sockets(sofar) /\ Conn(w.tcp, sofar, fin) /\ Base(w.tcp, sofar, fin)
      /\ w.tcp \in Connections(sofar)
  BY TiedFields
<1>2. Receiving(w.tcp.receiver, more, end)
  BY <1>1, ConnectionFields, ReceivingMore
<1>3. w.tcp.receiver \in Receivers(more)
  BY <1>2 DEF Receiving
<1>4. w.tcp \in Connections(more)
  BY <1>1, <1>3 DEF Connections
<1>5. w \in Sockets(more)
  BY <1>1, <1>4 DEF Sockets
<1> QED
  BY <1>1, <1>2, <1>4, <1>5 DEF Tied, Conn, Base

\* What comes is what the connection can take.
LEMMA ComingArrives ==
  ASSUME NEW w, NEW p, Hearing(w, p), NEW seg, Coming(seg, p, w.tcp)
  PROVE  Arriving(seg, w.tcp, Sofar(p), p.fin) /\ (seg.syn => p.sent > 0)
<1>1. seg.ackno \in Nat /\ seg.win \in Nat
  BY DEF Coming, Arrivals
<1>2. Counted(p) /\ (w.tcp.receiver.status # LISTEN => p.sent > 0)
  BY DEF Hearing
<1>3. ~ (p.sent = 0 /\ p.sent > 0)
  BY <1>2, PeerFields DEF Counted
<1> QED
  BY <1>1, <1>2, <1>3 DEF Coming, Arriving

\* The loop goes on, and the peer may have heard more.
LEMMA HearingOn ==
  ASSUME NEW w, NEW p, Hearing(w, p), NEW v,
         w.tcp.sender.nextSeqno \in Nat, v.tcp.sender.nextSeqno \in Nat,
         w.tcp.sender.nextSeqno <= v.tcp.sender.nextSeqno,
         v.tcp.receiver.status # LISTEN => w.tcp.receiver.status # LISTEN \/ p.sent > 0,
         \A i \in DOMAIN v.inbox : \E j \in DOMAIN w.inbox : v.inbox[i] = w.inbox[j],
         NEW q \in Peers, q.sent = p.sent, q.fin = p.fin, q.reset = p.reset,
         q.heard > 0 => p.heard > 0 \/ v.tcp.sender.nextSeqno > 0
  PROVE  Hearing(v, q)
<1>1. w.tcp.sender.nextSeqno > 0 => v.tcp.sender.nextSeqno > 0
  OBVIOUS
<1>2. Counted(q)
  BY DEF Hearing, Counted
<1>3. \A seg : Coming(seg, p, w.tcp) => Coming(seg, q, v.tcp)
  BY <1>1 DEF Coming, Sofar
<1> QED
  BY <1>1, <1>2, <1>3 DEF Hearing

\* The peer has sent a segment: p before it, q after it.
LEMMA HearingMore ==
  ASSUME SocketBounds, NEW w, NEW p, Hearing(w, p), NEW q, Counted(q),
         q.heard = p.heard, ~ p.reset, p.sent <= q.sent,
         Sofar(p) <= Sofar(q), p.fin => Sofar(q) = Sofar(p) /\ q.fin,
         NEW seg, Coming(seg, q, w.tcp), w.inbox \in Seq(Arrivals),
         NEW v, v.inbox = Append(w.inbox, seg), v.tcp = w.tcp
  PROVE  Hearing(v, q)
<1>1. /\ p.sent \in Nat /\ q.sent \in Nat /\ p.fin \in BOOLEAN /\ q.fin \in BOOLEAN
      /\ Sofar(p) \in Nat /\ Sofar(q) \in Nat
  <2>1. Counted(p) /\ p \in Peers /\ q \in Peers /\ PeerLen \in Nat
    BY SocketFacts DEF Hearing, Counted
  <2>2. Sofar(p) \in 0 .. PeerLen /\ Sofar(q) \in 0 .. PeerLen
    BY <2>1, SofarType
  <2> QED
    BY <2>1, <2>2, PeerFields
<1>2. p.sent > 0 => q.sent > 0
  BY <1>1
<1>3. ASSUME NEW s, Coming(s, p, w.tcp) PROVE Coming(s, q, w.tcp)
  <2>1. Piece(s, Sofar(p), p.fin) /\ (s.syn => p.sent > 0)
    BY <1>3 DEF Coming
  <2>2. Piece(s, Sofar(q), q.fin)
    BY <1>1, <2>1, PieceMore
  <2> QED
    BY <1>2, <1>3, <2>1, <2>2 DEF Coming
<1>4. \A i \in DOMAIN v.inbox : v.inbox[i] = seg \/ \E j \in DOMAIN w.inbox : v.inbox[i] = w.inbox[j]
  <2>1. seg \in Arrivals
    BY DEF Coming
  <2> QED
    BY <2>1, AppendProperties
<1>5. Coming(seg, q, v.tcp) /\ \A j \in DOMAIN w.inbox : Coming(w.inbox[j], q, v.tcp)
  BY <1>3 DEF Hearing
<1>6. \A i \in DOMAIN v.inbox : Coming(v.inbox[i], q, v.tcp)
  BY <1>4, <1>5
<1> QED
  BY <1>2, <1>6 DEF Hearing

\* The highest position of a list of segments.
LEMMA HeardIs ==
  ASSUME SocketBounds, NEW segs \in Seq(Outgoing), peer.heard \in Nat
  PROVE  /\ Heard(segs) \in Nat
         /\ Heard(segs) > 0 => peer.heard > 0 \/ segs # <<>>
<1> DEFINE ends == {segs[i].seqno + LengthInSequenceSpace(segs[i]) : i \in DOMAIN segs}
           top == CHOOSE n \in ends : \A m \in ends : m <= n
           B == Round + MaxPayload + 2
           T == {B - e : e \in ends}
<1>1. \A i \in DOMAIN segs : segs[i] \in Outgoing
  OBVIOUS
<1>2. \A e \in ends : e \in Nat /\ e <= B
  <2> TAKE e \in ends
  <2>1. PICK i \in DOMAIN segs : e = End(segs[i])
    BY DEF End
  <2> QED
    BY <1>1, <2>1, SegmentFields
<1>3. B \in Nat
  <2>1. Round \in Nat /\ MaxPayload \in Nat
    BY SocketFacts
  <2> QED
    BY ONLY <2>1
<1>4. Heard(segs) = Larger(peer.heard, IF ends = {} THEN 0 ELSE top)
  BY DEF Heard
<1>5. segs = <<>> => ends = {}
  OBVIOUS
<1> HIDE DEF ends, B
<1>6. ends # {} => top \in Nat
  <2> SUFFICES ASSUME ends # {} PROVE top \in Nat
    OBVIOUS
  <2>1. T \in SUBSET Nat /\ T # {}
    BY <1>2, <1>3
  <2>2. PICK x \in T : \A y \in T : x <= y
    BY <2>1, LeastElement
  <2>3. PICK e \in ends : x = B - e
    BY <2>2
  <2>4. \A m \in ends : m <= e
    <3> TAKE m \in ends
    <3>1. B - m \in T
      OBVIOUS
    <3>2. x <= B - m
      BY <2>2, <3>1
    <3> QED
      BY <1>2, <1>3, <2>3, <3>2
  <2>5. top \in ends
    BY <2>4
  <2> QED
    BY <1>2, <2>5
<1> HIDE DEF top
<1> QED
  BY <1>4, <1>5, <1>6 DEF Larger
-----------------------------------------------------------------------------
(***************************************************************************)
(* The loop.                                                               *)
(***************************************************************************)
Results == [rule : RuleNames, defunct : BOOLEAN]

Loops == [rules : Seq(RuleNames), polled : SUBSET RuleNames, todo : Seq(Results)]

\* A result: rule 1 has a segment to take, and rule 2 has not ended the stream.
Sensible(w, x) ==
  /\ x.rule = "DatagramIn" => ~ x.defunct /\ w.inbox # <<>>
  /\ x.rule = "DataIn" /\ ~ x.defunct => ~ w.outboundShutdown

Looping(w, l) ==
  /\ l \in Loops /\ Distinct(l.rules) /\ Holds(l.rules, "DatagramIn")
  /\ "DataIn" \in l.polled => ~ w.outboundShutdown
  /\ \A i, j \in DOMAIN l.todo : l.todo[i].rule = l.todo[j].rule => i = j
  /\ \A i \in DOMAIN l.todo : Sensible(w, l.todo[i])

LEMMA LoopFields ==
  ASSUME NEW l \in Loops
  PROVE  /\ l.rules \in Seq(RuleNames) /\ l.polled \subseteq RuleNames
         /\ l.todo \in Seq(Results)
         /\ \A i \in DOMAIN l.todo :
              l.todo[i].rule \in RuleNames /\ l.todo[i].defunct \in BOOLEAN
<1>1. l.rules \in Seq(RuleNames) /\ l.polled \subseteq RuleNames /\ l.todo \in Seq(Results)
  BY DEF Loops
<1>2. \A i \in DOMAIN l.todo : l.todo[i] \in Results
  BY <1>1
<1> QED
  BY <1>1, <1>2 DEF Results

\* What the loop relies on has not changed.
LEMMA LoopingOn ==
  ASSUME NEW w, NEW l, Looping(w, l), NEW v, v.inbox = w.inbox,
         v.outboundShutdown = w.outboundShutdown
  PROVE  Looping(v, l)
  BY DEF Looping, Sensible

\* More segments may come.
LEMMA LoopingMore ==
  ASSUME NEW w, NEW l, Looping(w, l), NEW v, v.inbox # <<>>,
         v.outboundShutdown = w.outboundShutdown
  PROVE  Looping(v, l)
  BY DEF Looping, Sensible

LEMMA NewLooping ==
  ASSUME NEW w, NEW l \in Loops, Distinct(l.rules), Holds(l.rules, "DatagramIn"),
         l.todo = <<>>, "DataIn" \in l.polled => ~ w.outboundShutdown
  PROVE  Looping(w, l)
<1>1. DOMAIN l.todo = {}
  OBVIOUS
<1> QED
  BY <1>1 DEF Looping

LEMMA FirstLooping ==
  ASSUME NEW w
  PROVE  Looping(w, NewLoop)
<1>1. Rules \in Seq(RuleNames) /\ Distinct(Rules) /\ Holds(Rules, "DatagramIn")
  <2>1. Rules \in Seq(RuleNames) /\ DOMAIN Rules = 1 .. 4
    BY DEF Rules, RuleNames
  <2>2. Rules[1] = "DatagramIn" /\ Rules[2] = "DataIn" /\ Rules[3] = "DataOut" /\ Rules[4] = "DatagramOut"
    BY DEF Rules
  <2>3. \A i \in 1 .. 4 : i = 1 \/ i = 2 \/ i = 3 \/ i = 4
    OBVIOUS
  <2> QED
    BY <2>1, <2>2, <2>3 DEF Distinct, Holds
<1>2. /\ NewLoop \in Loops /\ NewLoop.rules = Rules /\ NewLoop.todo = <<>>
      /\ NewLoop.polled = {}
  BY <1>1 DEF NewLoop, Loops
<1> QED
  BY <1>1, <1>2, NewLooping

\* The turn is over.
LEMMA TurnOverLooping ==
  ASSUME NEW w, NEW l, Looping(w, l), NEW v
  PROVE  Looping(v, TurnOver(l)) /\ TurnOver(l).todo = <<>> /\ TurnOver(l).polled = {}
<1>1. l.rules \in Seq(RuleNames) /\ Distinct(l.rules) /\ Holds(l.rules, "DatagramIn")
  BY LoopFields DEF Looping
<1>2. /\ TurnOver(l) \in Loops /\ TurnOver(l).rules = l.rules /\ TurnOver(l).todo = <<>>
      /\ TurnOver(l).polled = {}
  <2>1. NewLoop \in Loops
    BY FirstLooping DEF Looping
  <2>2. NewLoop.polled = {} /\ NewLoop.todo = <<>>
    BY DEF NewLoop
  <2> QED
    BY <1>1, <2>1, <2>2 DEF TurnOver, Loops
<1> QED
  BY <1>1, <1>2, NewLooping

\* poll has returned.
LEMMA PolledLooping ==
  ASSUME NEW w, NEW l, Looping(w, l)
  PROVE  Looping(w, Polled(w, l)) /\ Polled(w, l).polled = {}
<1> DEFINE hung == {r \in l.polled : IsDefunct(r, l.polled, Ready(w), HungUpRules(w))}
           ready == {r \in l.polled : IsReady(r, l.polled, Ready(w))}
           asking == Those(l.rules, hung \cup ready)
           todo == [i \in DOMAIN asking |-> [rule |-> asking[i], defunct |-> asking[i] \in hung]]
           m == [l EXCEPT !.polled = {}, !.todo = todo]
<1>1. /\ l \in Loops /\ l.rules \in Seq(RuleNames) /\ Distinct(l.rules)
      /\ Holds(l.rules, "DatagramIn") /\ l.polled \subseteq RuleNames
      /\ ("DataIn" \in l.polled => ~ w.outboundShutdown)
  BY LoopFields DEF Looping
<1>2. /\ asking \in Seq(RuleNames) /\ Distinct(asking)
      /\ \A j \in DOMAIN asking : asking[j] \in hung \cup ready
  BY <1>1, ThoseIsPicked DEF Picked
<1>3. Polled(w, l) = m
  BY DEF Polled
<1>4. "DatagramIn" \notin hung /\ ("DatagramIn" \in ready => w.inbox # <<>>)
  <2>1. "DatagramIn" \notin HungUpRules(w)
    BY DEF HungUpRules
  <2>2. "DatagramIn" \in Ready(w) => w.inbox # <<>>
    BY DEF Ready
  <2> QED
    BY <2>1, <2>2 DEF IsDefunct, IsReady
<1>5. "DataIn" \in hung \cup ready => ~ w.outboundShutdown
  BY <1>1
<1> HIDE DEF hung, ready, asking
<1>6. todo \in Seq(Results) /\ DOMAIN todo = DOMAIN asking
      /\ \A i \in DOMAIN todo : /\ todo[i].rule = asking[i]
                                /\ todo[i].defunct = (asking[i] \in hung)
  <2>1. \A i \in DOMAIN asking : asking[i] \in RuleNames /\ (asking[i] \in hung) \in BOOLEAN
    BY <1>2
  <2>2. \A i \in DOMAIN asking :
           [rule |-> asking[i], defunct |-> asking[i] \in hung] \in Results
    BY <2>1 DEF Results
  <2>3. Len(asking) \in Nat /\ DOMAIN asking = 1 .. Len(asking)
    BY <1>2
  <2>4. todo \in Seq(Results)
    BY <2>2, <2>3, SeqDef
  <2> QED
    BY <2>4
<1> HIDE DEF todo
<1>7. m \in Loops /\ m.rules = l.rules /\ m.polled = {} /\ m.todo = todo
  BY <1>1, <1>6 DEF Loops
<1> HIDE DEF m
<1>8. \A i \in DOMAIN todo : Sensible(w, todo[i])
  BY <1>2, <1>4, <1>5, <1>6 DEF Sensible
<1>9. \A i, j \in DOMAIN todo : todo[i].rule = todo[j].rule => i = j
  BY <1>2, <1>6 DEF Distinct
<1> QED
  BY <1>1, <1>3, <1>7, <1>8, <1>9 DEF Looping

\* One result has been acted on.
LEMMA RestLooping ==
  ASSUME NEW w, NEW l, Looping(w, l), l.polled = {}, l.todo # <<>>, NEW v,
         v.inbox = w.inbox \/ Head(l.todo).rule = "DatagramIn",
         v.outboundShutdown = w.outboundShutdown \/ Head(l.todo).rule = "DataIn"
  PROVE  Looping(v, Rest(l)) /\ Rest(l).polled = {}
<1> DEFINE x == Head(l.todo)
           q == IF x.defunct THEN Erased(l.rules, x.rule) ELSE l.rules
           m == [l EXCEPT !.todo = Tail(l.todo), !.rules = q]
<1>1. /\ l \in Loops /\ l.rules \in Seq(RuleNames) /\ Distinct(l.rules)
      /\ Holds(l.rules, "DatagramIn") /\ l.todo \in Seq(Results)
      /\ \A i, j \in DOMAIN l.todo : l.todo[i].rule = l.todo[j].rule => i = j
      /\ \A i \in DOMAIN l.todo : Sensible(w, l.todo[i])
  BY LoopFields DEF Looping
<1>2. x = l.todo[1] /\ 1 \in DOMAIN l.todo
  BY <1>1
<1>3. q \in Seq(RuleNames) /\ Distinct(q) /\ Holds(q, "DatagramIn")
  <2>1. CASE ~ x.defunct
    BY <1>1, <2>1
  <2>2. CASE x.defunct
    <3> DEFINE chosen == {l.rules[i] : i \in DOMAIN l.rules} \ {x.rule}
               p == Those(l.rules, chosen)
    <3>1. q = p
      BY <2>2 DEF Erased
    <3>2. "DatagramIn" \in chosen
      <4>1. x.rule # "DatagramIn"
        BY <1>1, <1>2, <2>2 DEF Sensible
      <4> QED
        BY <1>1, <4>1 DEF Holds
    <3> HIDE DEF chosen, q
    <3>3. p \in Seq(RuleNames) /\ Distinct(p) /\ Holds(p, "DatagramIn")
      BY <1>1, <3>2, ThoseIsPicked DEF Picked
    <3> QED
      BY <3>1, <3>3
  <2> QED
    BY <2>1, <2>2
<1>4. Rest(l) = m
  BY DEF Rest
<1> HIDE DEF q
<1>5. /\ Tail(l.todo) \in Seq(Results)
      /\ \A i \in DOMAIN Tail(l.todo) :
           i + 1 \in DOMAIN l.todo /\ Tail(l.todo)[i] = l.todo[i + 1] /\ i + 1 # 1 /\ i \in Nat
  BY <1>1
<1>6. m \in Loops /\ m.rules = q /\ m.polled = {} /\ m.todo = Tail(l.todo)
  BY <1>1, <1>3, <1>5 DEF Loops
<1> HIDE DEF m
<1>7. \A i, j \in DOMAIN Tail(l.todo) : Tail(l.todo)[i].rule = Tail(l.todo)[j].rule => i = j
  <2> SUFFICES ASSUME NEW i \in DOMAIN Tail(l.todo), NEW j \in DOMAIN Tail(l.todo),
                      Tail(l.todo)[i].rule = Tail(l.todo)[j].rule
               PROVE  i = j
    OBVIOUS
  <2>1. i + 1 = j + 1 /\ i \in Nat /\ j \in Nat
    BY <1>1, <1>5
  <2> QED
    BY <2>1
<1>8. \A i \in DOMAIN Tail(l.todo) : Sensible(v, Tail(l.todo)[i])
  <2> TAKE i \in DOMAIN Tail(l.todo)
  <2>1. Sensible(w, Tail(l.todo)[i]) /\ Tail(l.todo)[i].rule # x.rule
    BY <1>1, <1>2, <1>5
  <2> QED
    BY <2>1 DEF Sensible
<1> QED
  BY <1>3, <1>4, <1>6, <1>7, <1>8 DEF Looping
-----------------------------------------------------------------------------
\* What becomes of the rest when one result is acted on.
Acted(w, v, sofar, fin, sent) ==
  /\ Goes(w, v, sofar, fin)
  /\ \A i \in DOMAIN v.inbox : \E j \in DOMAIN w.inbox : v.inbox[i] = w.inbox[j]
  /\ v.wire # <<>> => v.tcp.sender.nextSeqno > 0
  /\ v.tcp.receiver.status # LISTEN => w.tcp.receiver.status # LISTEN \/ sent > 0

LEMMA ServeGoes ==
  ASSUME SocketBounds, NEW p, NEW w, Hearing(w, p), Tied(w, Sofar(p), p.fin),
         w.died = "no", w.wire = <<>>, NEW o \in Owners, Carried(w, o, FALSE),
         NEW l, Looping(w, l), l.todo # <<>>, l.polled = {}
  PROVE  LET v == ServeSocket(w, l)
         IN  /\ Acted(w, v, Sofar(p), p.fin, p.sent) /\ Outcome(v, o)
             /\ Looping(v, Rest(l)) /\ Rest(l).polled = {}
<1> DEFINE sofar == Sofar(p)
           fin == p.fin
           x == Head(l.todo)
           v == ServeSocket(w, l)
<1>1. sofar \in 0 .. PeerLen /\ fin \in BOOLEAN
  <2>1. Counted(p)
    BY DEF Hearing
  <2> QED
    BY <2>1, SofarType, PeerFields DEF Counted
<1>2. x.rule \in RuleNames /\ Sensible(w, x)
  <2>1. 1 \in DOMAIN l.todo /\ x = l.todo[1]
    BY LoopFields DEF Looping
  <2> QED
    BY <2>1, LoopFields DEF Looping
<1>3. /\ w \in Sockets(sofar) /\ Conn(w.tcp, sofar, fin) /\ Base(w.tcp, sofar, fin)
      /\ w.inbox \in Seq(Arrivals)
  BY TiedFields
<1>4. \A q \in Seq(Arrivals) : \A i \in DOMAIN q : \E j \in DOMAIN q : q[i] = q[j]
  OBVIOUS
<1> HIDE DEF sofar, fin, x
<1>5. Tied(w, sofar, fin)
  BY DEF sofar, fin
<1>6. v = IF x.defunct THEN Cancel(w, x.rule) ELSE Callback(w, x.rule)
  BY DEF ServeSocket, BusyWait, Served, x
<1> HIDE DEF v
<1>7. ASSUME v.inbox = w.inbox \/ x.rule = "DatagramIn",
             v.outboundShutdown = w.outboundShutdown \/ x.rule = "DataIn"
      PROVE  Looping(v, Rest(l)) /\ Rest(l).polled = {}
  BY <1>7, RestLooping DEF x
<1>8. ASSUME Goes(w, v, sofar, fin), v.inbox = w.inbox, v.wire = w.wire,
             v.tcp.receiver.status = w.tcp.receiver.status
      PROVE  Acted(w, v, sofar, fin, p.sent)
  BY <1>3, <1>4, <1>8 DEF Acted
<1>9. CASE x.defunct
  <2>1. Ended(w, v, sofar, fin)
    BY <1>1, <1>5, <1>6, <1>9, EndedSelf, EndedMore DEF Cancel
  <2>2. /\ v.pair = w.pair /\ v.inbox = w.inbox /\ v.wire = w.wire /\ v.died = w.died
        /\ v.tcp.receiver = w.tcp.receiver /\ Tied(v, sofar, fin) /\ Onward(w.tcp, v.tcp)
        /\ Outbound(v.tcp).totWrite = Outbound(w.tcp).totWrite
    BY <2>1 DEF Ended, Beside
  <2>3. Goes(w, v, sofar, fin)
    BY <1>1, <1>5, <2>2, ListensOpen DEF Goes, Inbound
  <2>4. Carried(v, o, FALSE)
    BY <2>2, CarriedOn DEF Inbound
  <2>5. v.outboundShutdown = w.outboundShutdown \/ x.rule = "DataIn"
    BY <1>6, <1>9 DEF Cancel
  <2> QED
    BY <1>7, <1>8, <2>2, <2>3, <2>4, <2>5 DEF Outcome, v, sofar, fin
<1>10. CASE ~ x.defunct /\ x.rule = "DatagramIn"
  <2>1. v = DatagramIn(w)
    BY <1>6, <1>10 DEF Callback
  <2>2. w.inbox # <<>>
    BY <1>2, <1>10 DEF Sensible
  <2> DEFINE seg == Head(w.inbox)
  <2>3. /\ seg = w.inbox[1] /\ 1 \in DOMAIN w.inbox
        /\ \A i \in DOMAIN Tail(w.inbox) :
             i + 1 \in DOMAIN w.inbox /\ Tail(w.inbox)[i] = w.inbox[i + 1]
    BY <1>3, <2>2
  <2>4. Arriving(seg, w.tcp, sofar, fin) /\ (seg.syn => p.sent > 0)
    <3>1. Coming(seg, p, w.tcp)
      BY <2>3 DEF Hearing
    <3> QED
      BY <3>1, ComingArrives DEF sofar, fin
  <2> HIDE DEF seg
  <2>5. /\ Goes(w, v, sofar, fin) /\ v.inbox = Tail(w.inbox) /\ v.pair = w.pair
        /\ v.wire = w.wire /\ v.died = w.died /\ v.outboundShutdown = w.outboundShutdown
        /\ Outbound(v.tcp).totWrite = Outbound(w.tcp).totWrite
        /\ Inbound(v.tcp).totRead = Inbound(w.tcp).totRead
        /\ w.tcp.receiver.status = LISTEN /\ v.tcp.receiver.status # LISTEN => seg.syn
    BY <1>1, <1>5, <2>1, <2>2, <2>4, DatagramInGoes DEF seg
  <2>6. Carried(v, o, FALSE)
    BY <2>5, CarriedOn DEF Goes
  <2>7. Acted(w, v, sofar, fin, p.sent)
    BY <2>3, <2>4, <2>5 DEF Acted
  <2> QED
    BY <1>7, <1>10, <2>5, <2>6, <2>7 DEF Outcome, v, sofar, fin
<1>11. CASE ~ x.defunct /\ x.rule = "DataIn"
  <2>1. v = DataIn(w)
    BY <1>6, <1>11 DEF Callback
  <2>2. ~ w.outboundShutdown
    BY <1>2, <1>11 DEF Sensible
  <2>3. /\ Goes(w, v, sofar, fin) /\ Outcome(v, o) /\ v.inbox = w.inbox
        /\ v.wire = w.wire /\ v.tcp.receiver = w.tcp.receiver
    BY <1>1, <1>5, <2>1, <2>2, DataInGoes
  <2> QED
    BY <1>7, <1>8, <1>11, <2>3 DEF v, sofar, fin
<1>12. CASE ~ x.defunct /\ x.rule = "DataOut"
  <2>1. v = DataOut(w)
    BY <1>6, <1>12 DEF Callback
  <2>3. /\ Goes(w, v, sofar, fin) /\ Outcome(v, o) /\ v.inbox = w.inbox
        /\ v.wire = w.wire /\ v.outboundShutdown = w.outboundShutdown
        /\ v.tcp.receiver.status = w.tcp.receiver.status
    BY <1>1, <1>5, <2>1, DataOutGoes
  <2> QED
    BY <1>7, <1>8, <2>3 DEF v, sofar, fin
<1>13. CASE ~ x.defunct /\ x.rule = "DatagramOut"
  <2>1. v = DatagramOut(w)
    BY <1>6, <1>13 DEF Callback
  <2>2. /\ Goes(w, v, sofar, fin) /\ v.inbox = w.inbox /\ v.pair = w.pair
        /\ v.wire = w.wire \o w.tcp.segmentsOut /\ v.died = w.died
        /\ v.outboundShutdown = w.outboundShutdown
        /\ v.tcp.sender = w.tcp.sender /\ v.tcp.receiver = w.tcp.receiver
        /\ w.tcp.segmentsOut # <<>> => w.tcp.sender.nextSeqno > 0
    BY <1>1, <1>5, <2>1, DatagramOutGoes, Zenon
  <2>3. v.wire = w.tcp.segmentsOut
    BY <1>3, <2>2, ConnectionFields
  <2>4. Carried(v, o, FALSE)
    BY <2>2, CarriedOn DEF Goes, Inbound, Outbound
  <2>5. Acted(w, v, sofar, fin, p.sent)
    BY <1>3, <1>4, <2>2, <2>3 DEF Acted
  <2> QED
    BY <1>7, <2>2, <2>4, <2>5 DEF Outcome, v, sofar, fin
<1> QED
  BY <1>2, <1>9, <1>10, <1>11, <1>12, <1>13 DEF RuleNames
-----------------------------------------------------------------------------
(***************************************************************************)
(* The inductive invariant.  It holds of a socket that has died, too,      *)
(* except for what is on its way to and from the owner.                    *)
(***************************************************************************)
IInv ==
  /\ owner \in Owners /\ k.wire = <<>>
  /\ Tied(k, Sofar(peer), peer.fin) /\ Hearing(k, peer) /\ Looping(k, loop)
  /\ pc # "poll" => loop.polled = {}
  /\ pc # "serve" => loop.todo = <<>>
  /\ IF Alive THEN Carried(k, owner, pc = "done") ELSE Inbound(k.tcp).error
  /\ pc = "exit" => ~ Active(k.tcp)
  /\ pc = "done" => owner.at \in {"destroying", "gone"} \/ ~ Active(k.tcp)
  /\ owner.at = "new" => pc = "idle"

\* What no step may undo.
Moves ==
  /\ Onward(k.tcp, k'.tcp)
  /\ k.tcp.receiver.status = LISTEN => ~ InputEnded(Inbound(k'.tcp))

LEMMA SofarOfPeer ==
  ASSUME SocketBounds, IInv
  PROVE  /\ Sofar(peer) \in 0 .. PeerLen /\ peer.fin \in BOOLEAN /\ peer \in Peers
         /\ Tied(k, Sofar(peer), peer.fin)
         /\ k.tcp.sender.nextSeqno \in Nat /\ k.inbox \in Seq(Arrivals)
<1>1. Counted(peer) /\ peer \in Peers /\ Tied(k, Sofar(peer), peer.fin)
  BY DEF IInv, Hearing, Counted
<1>2. k.tcp.sender.nextSeqno \in Nat /\ k.inbox \in Seq(Arrivals)
  BY <1>1, TiedFields, ConnectionFields
<1> QED
  BY <1>1, <1>2, SofarType, PeerFields

LEMMA Still ==
  ASSUME SocketBounds, IInv, k'.tcp = k.tcp
  PROVE  Moves
<1>1. Onward(k.tcp, k.tcp)
  BY SofarOfPeer, TiedFields, OnwardSelf
<1>2. k.tcp.receiver.status = LISTEN => ~ InputEnded(Inbound(k.tcp))
  BY SofarOfPeer, ListensOpen
<1> QED
  BY <1>1, <1>2 DEF Moves

\* The owner goes on.
LEMMA GoesTo ==
  ASSUME NEW o \in Owners, NEW at \in Places
  PROVE  LET q == [o EXCEPT !.at = at]
         IN  /\ q \in Owners /\ q.at = at /\ q.written = o.written
             /\ q.read = o.read /\ q.sawEof = o.sawEof /\ q.shut = o.shut
  BY DEF Owners

LEMMA CarriedBy ==
  ASSUME NEW w, NEW o, NEW done, Carried(w, o, done),
         NEW q, q.written = o.written, q.read = o.read, q.sawEof = o.sawEof
  PROVE  Carried(w, q, done)
  BY DEF Carried

\* The pair of sockets changes.
LEMMA PairChanged ==
  ASSUME NEW sofar, NEW fin, NEW w, Tied(w, sofar, fin), NEW q \in Pairs
  PROVE  LET v == [w EXCEPT !.pair = q]
         IN  /\ Tied(v, sofar, fin) /\ v.tcp = w.tcp /\ v.pair = q /\ v.inbox = w.inbox
             /\ v.wire = w.wire /\ v.died = w.died /\ v.outboundShutdown = w.outboundShutdown
<1> DEFINE v == [w EXCEPT !.pair = q]
<1>1. w \in Sockets(sofar)
  BY DEF Tied
<1>2. /\ v \in Sockets(sofar) /\ v.tcp = w.tcp /\ v.pair = q /\ v.inbox = w.inbox
      /\ v.wire = w.wire /\ v.died = w.died /\ v.outboundShutdown = w.outboundShutdown
  BY <1>1 DEF Sockets
<1> HIDE DEF v
<1>3. Tied(v, sofar, fin)
  BY <1>2 DEF Tied
<1> QED
  BY <1>2, <1>3 DEF v

\* The connection changes.
LEMMA TcpChanged ==
  ASSUME NEW sofar, NEW fin, NEW w, Tied(w, sofar, fin), NEW c, Conn(c, sofar, fin),
         Outbound(c).eof2 = Outbound(w.tcp).eof2
  PROVE  LET v == [w EXCEPT !.tcp = c]
         IN  /\ Tied(v, sofar, fin) /\ v.tcp = c /\ v.pair = w.pair /\ v.inbox = w.inbox
             /\ v.wire = w.wire /\ v.died = w.died /\ v.outboundShutdown = w.outboundShutdown
<1> DEFINE v == [w EXCEPT !.tcp = c]
<1>1. w \in Sockets(sofar) /\ c \in Connections(sofar)
  BY DEF Tied, Conn, Base
<1>2. /\ v \in Sockets(sofar) /\ v.tcp = c /\ v.pair = w.pair /\ v.inbox = w.inbox
      /\ v.wire = w.wire /\ v.died = w.died /\ v.outboundShutdown = w.outboundShutdown
  BY <1>1 DEF Sockets
<1> HIDE DEF v
<1>3. Tied(v, sofar, fin)
  BY <1>2 DEF Tied
<1> QED
  BY <1>2, <1>3 DEF v

\* What has been sent is gone.
LEMMA WireTaken ==
  ASSUME NEW sofar, NEW fin, NEW w, Tied(w, sofar, fin)
  PROVE  LET v == [w EXCEPT !.wire = <<>>]
         IN  /\ Tied(v, sofar, fin) /\ v.tcp = w.tcp /\ v.pair = w.pair /\ v.inbox = w.inbox
             /\ v.wire = <<>> /\ v.died = w.died /\ v.outboundShutdown = w.outboundShutdown
<1> DEFINE v == [w EXCEPT !.wire = <<>>]
<1>1. w \in Sockets(sofar) /\ <<>> \in Seq(Outgoing)
  BY DEF Tied
<1>2. /\ v \in Sockets(sofar) /\ v.tcp = w.tcp /\ v.pair = w.pair /\ v.inbox = w.inbox
      /\ v.wire = <<>> /\ v.died = w.died /\ v.outboundShutdown = w.outboundShutdown
  BY <1>1 DEF Sockets
<1> HIDE DEF v
<1>3. Tied(v, sofar, fin)
  BY <1>2 DEF Tied
<1> QED
  BY <1>2, <1>3 DEF v

\* The same connection, the same segments on their way to it.
LEMMA HearingStill ==
  ASSUME NEW w, NEW p, Hearing(w, p), NEW v, v.tcp = w.tcp, v.inbox = w.inbox
  PROVE  Hearing(v, p)
  BY DEF Hearing
-----------------------------------------------------------------------------
LEMMA InitIInv == ASSUME SocketBounds, Init PROVE IInv
<1>1. Sofar(peer) = 0 /\ peer.fin = FALSE /\ Counted(peer) /\ peer.heard = 0 /\ peer.sent = 0
  <2>1. peer.sent = 0 /\ peer.fin = FALSE /\ peer.heard = 0 /\ peer \in Peers
    BY DEF Init, Peers
  <2> QED
    BY <2>1, SocketFacts DEF Sofar, Counted, One
<1>2. /\ owner \in Owners /\ owner.at = "new" /\ owner.written = 0 /\ owner.read = <<>>
      /\ ~ owner.sawEof
  BY DEF Init, Owners, Places
<1> DEFINE c == NewConnection(0)
<1>3. /\ Conn(c, 0, FALSE) /\ Active(c) /\ c.sender.nextSeqno = 0
      /\ c.receiver.status = LISTEN /\ Outbound(c).totWrite = 0 /\ ~ Outbound(c).eof2
      /\ Inbound(c).totRead = 0
  BY NewConn
<1>4. NewPair \in Pairs /\ NewPair.data[Owner] = <<>> /\ NewPair.data[Thread] = <<>>
      /\ ~ NewPair.shut[Owner]
  BY EndsOfPair DEF NewPair, Pairs
<1> HIDE DEF c
<1>5. /\ k \in Sockets(0) /\ k.tcp = c /\ k.pair = NewPair /\ k.inbox = <<>> /\ k.wire = <<>>
      /\ k.died = "no"
  <2>1. c \in Connections(0)
    BY <1>3 DEF Conn, Base
  <2>2. "no" \in Deaths
    BY DEF Deaths
  <2>3. k = [tcp |-> c, pair |-> NewPair, eof |-> FALSE,
             outboundShutdown |-> FALSE, inboundShutdown |-> FALSE,
             inbox |-> <<>>, wire |-> <<>>, died |-> "no"]
    BY DEF Init, NewSocket, c
  <2>4. <<>> \in Seq(Arrivals) /\ <<>> \in Seq(Outgoing) /\ FALSE \in BOOLEAN
    OBVIOUS
  <2> QED
    BY ONLY <1>4, <2>1, <2>2, <2>3, <2>4 DEF Sockets
<1>6. Tied(k, 0, FALSE)
  BY <1>3, <1>5 DEF Tied
<1>7. Hearing(k, peer)
  BY <1>1, <1>3, <1>5 DEF Hearing
<1>8. loop = NewLoop /\ Looping(k, NewLoop) /\ NewLoop.polled = {} /\ NewLoop.todo = <<>>
  BY FirstLooping DEF Init, NewLoop
<1>9. Carried(k, owner, FALSE)
  <2>1. Excerpt(0, 0) = <<>> /\ Len(owner.read) = 0 /\ OwnerLen \in Nat /\ PipeSize \in Nat
    BY <1>2, EmptyExcerpt, SocketFacts
  <2> QED
    BY <1>2, <1>3, <1>4, <1>5, <2>1 DEF Carried
<1>10. pc = "idle"
  BY DEF Init
<1> QED
  BY <1>1, <1>2, <1>5, <1>6, <1>7, <1>8, <1>9, <1>10 DEF IInv, Alive
-----------------------------------------------------------------------------
\* The owner's steps.
LEMMA OwnerConnectStep ==
  ASSUME SocketBounds, IInv, OwnerConnect PROVE IInv' /\ Moves
<1> DEFINE sofar == Sofar(peer)
           fin == peer.fin
           c == Connect(k.tcp)
<1>1. /\ Alive /\ owner.at = "new" /\ pc = "idle" /\ pc' = "setup"
      /\ k' = [k EXCEPT !.tcp = c] /\ owner' = [owner EXCEPT !.at = "connecting"]
      /\ loop' = loop /\ peer' = peer
  BY DEF OwnerConnect, OwnerAct, IInv
<1>2. /\ sofar \in 0 .. PeerLen /\ fin \in BOOLEAN /\ Tied(k, sofar, fin)
      /\ Conn(k.tcp, sofar, fin) /\ Base(k.tcp, sofar, fin) /\ k.tcp.sender.nextSeqno \in Nat
  BY SofarOfPeer, TiedFields
<1>3. /\ Conn(c, sofar, fin) /\ Onward(k.tcp, c) /\ c.receiver = k.tcp.receiver
      /\ SameInput(Outbound(k.tcp), Outbound(c))
  BY <1>2, FillOnward DEF Connect
<1> HIDE DEF c, sofar, fin
<1>4. /\ Tied(k', sofar, fin) /\ k'.tcp = c /\ k'.pair = k.pair /\ k'.inbox = k.inbox
      /\ k'.wire = k.wire /\ k'.died = k.died /\ k'.outboundShutdown = k.outboundShutdown
  BY <1>1, <1>2, <1>3, TcpChanged DEF SameInput
<1>5. /\ owner' \in Owners /\ owner'.at = "connecting" /\ owner'.written = owner.written
      /\ owner'.read = owner.read /\ owner'.sawEof = owner.sawEof
  <2>1. owner \in Owners /\ "connecting" \in Places
    BY DEF IInv, Places
  <2> QED
    BY <1>1, <2>1, GoesTo
<1>6. Hearing(k', peer)
  <2>1. c.sender.nextSeqno \in Nat /\ k.tcp.sender.nextSeqno <= c.sender.nextSeqno
    <3>1. Base(c, sofar, fin)
      BY <1>3 DEF Conn
    <3> QED
      BY <1>3, <3>1, ConnectionFields DEF Onward, Later
  <2>2. \A i \in DOMAIN k'.inbox : k'.inbox[i] = k.inbox[i] /\ i \in DOMAIN k.inbox
    BY <1>4
  <2>3. Hearing(k, peer) /\ peer \in Peers
    BY SofarOfPeer DEF IInv
  <2>4. peer.heard > 0 => k.tcp.sender.nextSeqno > 0
    BY <2>3 DEF Hearing
  <2> QED
    BY <1>2, <1>3, <1>4, <2>1, <2>2, <2>3, HearingOn
<1>7. Looping(k', loop)
  BY <1>4, LoopingOn DEF IInv
<1>8. Carried(k', owner', FALSE)
  <2>1. Carried(k, owner, FALSE)
    BY <1>1 DEF IInv
  <2>2. Carried(k', owner, FALSE)
    BY <1>3, <1>4, <2>1, CarriedOn DEF SameInput, Inbound
  <2> QED
    BY <1>5, <2>2, CarriedBy
<1>9. Moves
  <2>1. k.tcp.receiver.status = LISTEN => ~ InputEnded(Inbound(k.tcp))
    BY SofarOfPeer, ListensOpen
  <2> QED
    BY <1>3, <1>4, <2>1 DEF Moves, Inbound
<1> QED
  BY <1>1, <1>4, <1>5, <1>6, <1>7, <1>8, <1>9 DEF IInv, Alive, sofar, fin

\* The owner goes from one call to another, and the loop perhaps on.
LEMMA PlaceStep ==
  ASSUME SocketBounds, IInv, NEW at \in Places, k' = k, loop' = loop, peer' = peer,
         owner' = [owner EXCEPT !.at = at], at # "new",
         \/ pc' = pc /\ (pc = "done" => at \in {"destroying", "gone"} \/ ~ Active(k.tcp))
         \/ pc' = "setup" /\ pc \in {"idle", "exit", "setup"}
  PROVE  IInv' /\ Moves
<1>1. /\ owner' \in Owners /\ owner'.at = at /\ owner'.written = owner.written
      /\ owner'.read = owner.read /\ owner'.sawEof = owner.sawEof
  BY GoesTo DEF IInv
<1>2. (Alive <=> Alive') /\ (pc = "done" <=> pc' = "done")
  BY DEF Alive
<1>3. Alive => Carried(k, owner', pc' = "done")
  BY <1>1, <1>2, CarriedBy DEF IInv
<1>4. (pc = "poll" <=> pc' = "poll") /\ (pc = "serve" <=> pc' = "serve")
      /\ (pc' = "exit" => pc = "exit")
  OBVIOUS
<1>5. Moves
  BY Still
<1> QED
  BY <1>1, <1>2, <1>3, <1>4, <1>5 DEF IInv

LEMMA OwnerPlaceSteps ==
  ASSUME SocketBounds, IInv, OwnerListen \/ OwnerDestroy \/ OwnerJoined \/ Opened
  PROVE  IInv' /\ Moves
<1>1. CASE OwnerListen
  <2>1. /\ pc = "idle" /\ pc' = "setup" /\ "listening" \in Places
        /\ k' = k /\ loop' = loop /\ peer' = peer /\ owner' = [owner EXCEPT !.at = "listening"]
    BY <1>1 DEF OwnerListen, OwnerAct, IInv, Places
  <2> QED
    BY <2>1, PlaceStep
<1>2. CASE OwnerDestroy
  <2>1. /\ pc' = pc /\ "destroying" \in Places
        /\ k' = k /\ loop' = loop /\ peer' = peer /\ owner' = [owner EXCEPT !.at = "destroying"]
    BY <1>2 DEF OwnerDestroy, Places
  <2> QED
    BY <2>1, PlaceStep
<1>3. CASE OwnerJoined
  <2>1. /\ pc' = pc /\ "gone" \in Places
        /\ k' = k /\ loop' = loop /\ peer' = peer /\ owner' = [owner EXCEPT !.at = "gone"]
    BY <1>3 DEF OwnerJoined, Places
  <2> QED
    BY <2>1, PlaceStep
<1>4. CASE Opened
  <2>1. /\ pc \in {"exit", "setup"} /\ pc' = "setup" /\ "open" \in Places
        /\ k' = k /\ loop' = loop /\ peer' = peer /\ owner' = [owner EXCEPT !.at = "open"]
    BY <1>4 DEF Opened, LoopAct, Places
  <2> QED
    BY <2>1, PlaceStep
<1> QED
  BY <1>1, <1>2, <1>3, <1>4

\* Only the pair of sockets changes, and what the owner has written and read.
LEMMA PairStep ==
  ASSUME SocketBounds, IInv, NEW q \in Pairs, k' = [k EXCEPT !.pair = q],
         loop' = loop, peer' = peer, pc' = pc, owner' \in Owners,
         owner'.at = owner.at \/ (owner'.at # "new" /\ owner.at = "open"),
         Alive, Carried(k', owner', pc = "done")
  PROVE  IInv' /\ Moves
<1>1. /\ Tied(k', Sofar(peer), peer.fin) /\ k'.tcp = k.tcp /\ k'.inbox = k.inbox
      /\ k'.wire = k.wire /\ k'.died = k.died /\ k'.outboundShutdown = k.outboundShutdown
  BY PairChanged DEF IInv
<1>2. Hearing(k', peer) /\ Looping(k', loop)
  BY <1>1, HearingStill, LoopingOn DEF IInv
<1>3. Moves
  BY <1>1, Still
<1> QED
  BY <1>1, <1>2, <1>3 DEF IInv, Alive

LEMMA OneByte == ASSUME NEW a \in Nat PROVE <<a>> = Excerpt(a, 1)
  BY DEF Excerpt

\* The bytes on their way, when the thread still runs.
LEMMA CarriedFields ==
  ASSUME SocketBounds, IInv, Alive
  PROVE  LET in == Inbound(k.tcp)
             out == Outbound(k.tcp)
         IN  /\ k.pair \in Pairs /\ owner \in Owners
             /\ out.totWrite \in Nat /\ in.totRead \in Nat /\ in.totWrite \in Nat
             /\ owner.written \in Nat /\ out.totWrite <= owner.written
             /\ owner.written <= OwnerLen
             /\ owner.written - out.totWrite \in Nat
             /\ k.pair.data[Thread] = Excerpt(out.totWrite, owner.written - out.totWrite)
             /\ owner.read \in Seq(Nat) /\ Len(owner.read) \in Nat
             /\ owner.read = Excerpt(0, Len(owner.read)) /\ Len(owner.read) <= in.totRead
             /\ in.totRead - Len(owner.read) \in Nat
             /\ k.pair.data[Owner] = Excerpt(Len(owner.read), in.totRead - Len(owner.read))
             /\ in.totRead - Len(owner.read) <= PipeSize
             /\ Carried(k, owner, pc = "done")
<1> DEFINE in == Inbound(k.tcp)
           out == Outbound(k.tcp)
<1>1. /\ Sofar(peer) \in 0 .. PeerLen /\ peer.fin \in BOOLEAN
      /\ Base(k.tcp, Sofar(peer), peer.fin) /\ k.pair \in Pairs
  BY SofarOfPeer, TiedFields
<1>2. Flowing(out) /\ Receiving(k.tcp.receiver, Sofar(peer), peer.fin)
  BY <1>1, ConnectionFields
<1>3. out.totWrite \in Nat /\ in.totRead \in Nat /\ in.totWrite \in Nat
  <2>1. in.totRead \in Nat /\ in.totWrite \in 0 .. Sofar(peer)
    BY <1>1, <1>2, ReceivingFields DEF Inbound
  <2> QED
    BY <1>1, <1>2, <2>1, FlowFields
<1>4. Carried(k, owner, pc = "done") /\ owner \in Owners
  BY DEF IInv
<1>5. owner.written \in Nat /\ owner.read \in Seq(Nat) /\ Len(owner.read) \in Nat
  BY <1>4 DEF Owners
<1>6. /\ out.totWrite <= owner.written /\ owner.written <= OwnerLen
      /\ k.pair.data[Thread] = Excerpt(out.totWrite, owner.written - out.totWrite)
      /\ owner.read = Excerpt(0, Len(owner.read)) /\ Len(owner.read) <= in.totRead
      /\ k.pair.data[Owner] = Excerpt(Len(owner.read), in.totRead - Len(owner.read))
      /\ in.totRead - Len(owner.read) <= PipeSize
  BY <1>4 DEF Carried
<1> HIDE DEF in, out
<1>7. owner.written - out.totWrite \in Nat /\ in.totRead - Len(owner.read) \in Nat
  BY ONLY <1>3, <1>5, <1>6
<1> QED
  BY <1>1, <1>3, <1>4, <1>5, <1>6, <1>7 DEF in, out
-----------------------------------------------------------------------------
\* The pair is shut down further; the bytes on their way stay.
LEMMA CarriedShut ==
  ASSUME NEW w, NEW o, NEW done, Carried(w, o, done), NEW v, v.tcp = w.tcp,
         NEW more, more = done \/ more = TRUE, v.pair.data = w.pair.data,
         w.pair.shut[Owner] => v.pair.shut[Owner],
         v.pair.shut[Owner] =>
           w.pair.shut[Owner] \/ more \/ Eof(Inbound(w.tcp)) \/ Inbound(w.tcp).error
  PROVE  Carried(v, o, more)
  BY DEF Carried

LEMMA OwnerShutWrStep ==
  ASSUME SocketBounds, IInv, OwnerShutWr PROVE IInv' /\ Moves
<1> DEFINE q == ShutWr(k.pair, Owner)
<1>1. /\ Alive /\ owner.at = "open" /\ pc' = pc /\ k' = [k EXCEPT !.pair = q]
      /\ owner' = [owner EXCEPT !.shut = TRUE] /\ loop' = loop /\ peer' = peer
  BY DEF OwnerShutWr, OwnerAct
<1>2. k.pair \in Pairs /\ owner \in Owners /\ Carried(k, owner, pc = "done")
  BY <1>1, CarriedFields
<1>3. q \in Pairs /\ q.data = k.pair.data /\ q.shut[Owner] = k.pair.shut[Owner]
  BY <1>2, ShutsPair, EndsOfPair
<1>4. /\ owner' \in Owners /\ owner'.at = owner.at /\ owner'.written = owner.written
      /\ owner'.read = owner.read /\ owner'.sawEof = owner.sawEof
  BY <1>1, <1>2 DEF Owners
<1> HIDE DEF q
<1>5. k'.tcp = k.tcp /\ k'.pair = q
  BY <1>1, <1>3, PairChanged DEF IInv
<1>6. Carried(k', owner, pc = "done")
  BY <1>2, <1>3, <1>5, CarriedShut
<1>7. Carried(k', owner', pc = "done")
  BY <1>4, <1>6, CarriedBy
<1> QED
  BY <1>1, <1>3, <1>4, <1>7, PairStep

LEMMA OwnerWaitStep ==
  ASSUME SocketBounds, IInv, OwnerWait PROVE IInv' /\ Moves
<1> DEFINE q == ShutRdwr(k.pair)
<1>1. /\ Alive /\ owner.at = "open" /\ owner.sawEof /\ pc' = pc
      /\ k' = [k EXCEPT !.pair = q]
      /\ owner' = [owner EXCEPT !.at = "waiting"] /\ loop' = loop /\ peer' = peer
  BY DEF OwnerWait, OwnerAct
<1>2. k.pair \in Pairs /\ owner \in Owners /\ Carried(k, owner, pc = "done")
  BY <1>1, CarriedFields
<1>3. q \in Pairs /\ q.data = k.pair.data
  BY <1>2, ShutsPair
<1>4. /\ owner' \in Owners /\ owner'.at = "waiting" /\ owner'.written = owner.written
      /\ owner'.read = owner.read /\ owner'.sawEof = owner.sawEof
  <2>1. "waiting" \in Places
    BY DEF Places
  <2> QED
    BY <1>1, <1>2, <2>1, GoesTo
<1> HIDE DEF q
<1>5. k'.tcp = k.tcp /\ k'.pair = q
  BY <1>1, <1>3, PairChanged DEF IInv
<1>6. k.pair.shut[Owner]
  BY <1>1, <1>2 DEF Carried
<1>7. q.shut[Owner]
  BY <1>2, ShutsPair, EndsOfPair DEF q
<1>8. Carried(k', owner, pc = "done")
  BY <1>2, <1>3, <1>5, <1>6, <1>7, CarriedShut
<1>9. Carried(k', owner', pc = "done")
  BY <1>4, <1>8, CarriedBy
<1> QED
  BY <1>1, <1>3, <1>4, <1>9, PairStep

LEMMA OwnerWriteStep ==
  ASSUME SocketBounds, IInv, OwnerWrite PROVE IInv' /\ Moves
<1> DEFINE data == <<owner.written>>
           q == AfterWrite(k.pair, Owner, data)
           a == Outbound(k.tcp).totWrite
           m == owner.written - a
           room == PipeSize - m
<1>1. /\ Alive /\ owner.at = "open" /\ pc' = pc /\ k' = [k EXCEPT !.pair = q]
      /\ owner' = [owner EXCEPT !.written = @ + 1] /\ loop' = loop /\ peer' = peer
      /\ owner.written < OwnerLen /\ RoomFrom(k.pair, Owner) > 0
  BY DEF OwnerWrite, OwnerAct, CanTakeMore
<1>2. /\ k.pair \in Pairs /\ owner \in Owners /\ a \in Nat /\ m \in Nat
      /\ owner.written \in Nat /\ owner.written = a + m
      /\ k.pair.data[Thread] = Excerpt(a, m) /\ Carried(k, owner, pc = "done")
      /\ PipeSize \in Nat /\ OwnerLen \in Nat
  <2>1. /\ k.pair \in Pairs /\ owner \in Owners /\ a \in Nat /\ m \in Nat
        /\ owner.written \in Nat /\ k.pair.data[Thread] = Excerpt(a, m)
        /\ Carried(k, owner, pc = "done")
    BY <1>1, CarriedFields
  <2>2. PipeSize \in Nat /\ OwnerLen \in Nat
    BY SocketFacts
  <2> HIDE DEF a
  <2>3. owner.written = a + m
    BY <2>1
  <2> QED
    BY <2>1, <2>2, <2>3
<1>3. Owner \in PairEnds /\ Facing(Owner) = Thread /\ Thread \in PairEnds /\ Owner # Thread
  BY EndsOfPair
<1> HIDE DEF a, m
<1>4. room \in Nat /\ room >= 1 /\ m <= PipeSize
  <2>1. RoomFrom(k.pair, Owner) = room
    <3>1. Len(k.pair.data[Thread]) = m
      BY <1>2, ExcerptIsSeq
    <3> QED
      BY <1>3, <3>1 DEF RoomFrom
  <2> HIDE DEF room
  <2>2. room > 0
    BY <1>1, <2>1
  <2> QED
    BY <1>2, <2>2 DEF room
<1>5. data = Excerpt(owner.written, 1)
  BY <1>2, OneByte
<1> HIDE DEF data, room
<1>6. 1 = Smaller(1, room)
  BY <1>4 DEF Smaller
<1>7. /\ q \in Pairs /\ q.data[Thread] = Excerpt(a, m + 1) /\ q.data[Owner] = k.pair.data[Owner]
      /\ q.shut = k.pair.shut
  <2> DEFINE p == k.pair
             b == owner.written
             one == 1
  <2>1. /\ p \in Pairs /\ Owner \in PairEnds /\ Facing(Owner) \in PairEnds /\ a \in Nat
        /\ m \in Nat /\ p.data[Facing(Owner)] = Excerpt(a, m) /\ PipeSize \in Nat
        /\ m <= PipeSize /\ one \in Nat /\ b \in Nat /\ b = a + m /\ data = Excerpt(b, one)
        /\ room = PipeSize - m /\ one = Smaller(one, room)
    BY <1>2, <1>3, <1>4, <1>5, <1>6 DEF room
  <2> HIDE DEF p, b, one
  <2>2. AfterWrite(p, Owner, data) \in Pairs
    BY ONLY <2>1, WritesToPair
  <2>3. AfterWrite(p, Owner, data).data[Facing(Owner)] = Excerpt(a, m + one)
    BY ONLY <2>1, WritesToPair, SMTT(40)
  <2>4. /\ \A g \in PairEnds : g # Facing(Owner) =>
             AfterWrite(p, Owner, data).data[g] = p.data[g]
        /\ AfterWrite(p, Owner, data).shut = p.shut
    BY ONLY <2>1, WriteLeavesOthers
  <2> QED
    BY <1>3, <2>2, <2>3, <2>4 DEF p, one
<1>8. /\ owner' \in Owners /\ owner'.at = owner.at /\ owner'.written = owner.written + 1
      /\ owner'.read = owner.read /\ owner'.sawEof = owner.sawEof
  <2> DEFINE n == owner.written + 1
  <2>1. n \in Nat /\ owner \in Owners /\ owner' = [owner EXCEPT !.written = n]
    BY <1>1, <1>2
  <2> HIDE DEF n
  <2>2. /\ owner' \in Owners /\ owner'.at = owner.at /\ owner'.written = n
        /\ owner'.read = owner.read /\ owner'.sawEof = owner.sawEof
    BY ONLY <2>1 DEF Owners
  <2> QED
    BY <2>2 DEF n
<1> HIDE DEF q
<1>9. k'.tcp = k.tcp /\ k'.pair = q
  BY <1>1, <1>7, PairChanged DEF IInv
<1>10. Carried(k', owner', pc = "done")
  <2>1. /\ a <= owner'.written /\ owner'.written <= OwnerLen /\ owner'.written - a = m + 1
    BY <1>1, <1>2, <1>8
  <2> QED
    BY <1>2, <1>7, <1>8, <1>9, <2>1 DEF Carried, a
<1> QED
  BY <1>1, <1>7, <1>8, <1>10, PairStep

LEMMA OwnerReadStep ==
  ASSUME SocketBounds, IInv, OwnerRead PROVE IInv' /\ Moves
<1> DEFINE in == Inbound(k.tcp)
           data == BytesRead(k.pair, Owner, PipeSize)
           q == AfterRead(k.pair, Owner, PipeSize)
           eof == ReadsEof(k.pair, Owner, PipeSize)
           len == Len(owner.read)
           m == in.totRead - len
           more == owner.read \o data
<1>1. /\ Alive /\ owner.at = "open" /\ ~ owner.sawEof /\ pc' = pc
      /\ k' = [k EXCEPT !.pair = q]
      /\ owner' = [owner EXCEPT !.read = more, !.sawEof = eof] /\ loop' = loop /\ peer' = peer
  BY DEF OwnerRead, OwnerAct
<1>2. /\ k.pair \in Pairs /\ owner \in Owners /\ in.totRead \in Nat /\ len \in Nat /\ m \in Nat
      /\ k.pair.data[Owner] = Excerpt(len, m) /\ m <= PipeSize /\ PipeSize \in Nat
      /\ owner.read = Excerpt(0, len) /\ Carried(k, owner, pc = "done")
  BY <1>1, CarriedFields, SocketFacts
<1>3. Owner \in PairEnds /\ Thread \in PairEnds /\ Owner # Thread
  BY EndsOfPair
<1>4. len + m = in.totRead
  <2> HIDE DEF in, len
  <2> QED
    BY <1>2 DEF m
<1> HIDE DEF len, m
<1>5. /\ data = Excerpt(len, m) /\ q \in Pairs /\ q.data[Owner] = <<>>
      /\ q.data[Thread] = k.pair.data[Thread] /\ q.shut = k.pair.shut
  <2> DEFINE p == k.pair
  <2>1. /\ p \in Pairs /\ Owner \in PairEnds /\ len \in Nat /\ m \in Nat /\ PipeSize \in Nat
        /\ p.data[Owner] = Excerpt(len, m) /\ m = Smaller(PipeSize, m)
    BY <1>2, <1>3 DEF Smaller
  <2> HIDE DEF p
  <2>2. BytesRead(p, Owner, PipeSize) = Excerpt(len, m)
    BY ONLY <2>1, ReadsFromPair
  <2>3. /\ AfterRead(p, Owner, PipeSize) \in Pairs
        /\ AfterRead(p, Owner, PipeSize).data[Owner] = Excerpt(len + m, m - m)
    BY ONLY <2>1, ReadsFromPair
  <2>4. /\ \A f \in PairEnds : f # Owner => AfterRead(p, Owner, PipeSize).data[f] = p.data[f]
        /\ AfterRead(p, Owner, PipeSize).shut = p.shut
    BY ONLY <2>1, ReadsFromPair
  <2>5. m - m = 0 /\ len + m \in Nat
    BY <1>2
  <2>6. Excerpt(len + m, 0) = <<>>
    BY <2>5, EmptyExcerpt
  <2> QED
    BY <1>3, <2>2, <2>3, <2>4, <2>5, <2>6 DEF p
<1> HIDE DEF data, q
<1>6. more = Excerpt(0, in.totRead) /\ more \in Seq(Nat) /\ Len(more) = in.totRead
  <2>1. Excerpt(0, len) \o Excerpt(0 + len, m) = Excerpt(0, len + m) /\ 0 + len = len
    <3> DEFINE zero == 0
    <3>1. zero \in Nat /\ len \in Nat /\ m \in Nat
      BY <1>2
    <3> HIDE DEF zero
    <3>2. Excerpt(zero, len) \o Excerpt(zero + len, m) = Excerpt(zero, len + m)
      BY ONLY <3>1, ExcerptConcat
    <3>3. 0 + len = len
      BY <3>1
    <3> QED
      BY <3>2, <3>3 DEF zero
  <2>2. more = Excerpt(0, in.totRead)
    BY <1>2, <1>4, <1>5, <2>1
  <2>3. in.totRead \in Nat /\ 0 \in Nat
    BY <1>2
  <2> HIDE DEF in, more
  <2> QED
    BY ONLY <2>2, <2>3, ExcerptIsSeq
<1>7. eof \in BOOLEAN /\ (eof => k.pair.data[Owner] = <<>> /\ k.pair.shut[Owner])
  BY DEF ReadsEof
<1> HIDE DEF more, eof
<1>8. /\ owner' \in Owners /\ owner'.at = owner.at /\ owner'.written = owner.written
      /\ owner'.read = more /\ owner'.sawEof = eof
  BY <1>1, <1>2, <1>6, <1>7 DEF Owners
<1>9. k'.tcp = k.tcp /\ k'.pair = q
  BY <1>1, <1>5, PairChanged DEF IInv
<1>10. eof => /\ k.pair.shut[Owner]
              /\ \/ Eof(in) \/ in.error
                 \/ pc = "done" /\ ~ Active(k.tcp) /\ OutboundDone(k.tcp)
  <2> SUFFICES ASSUME eof, ~ Eof(in), ~ in.error
               PROVE  pc = "done" /\ ~ Active(k.tcp) /\ OutboundDone(k.tcp)
    BY <1>7
  <2>1. pc = "done"
    BY <1>2, <1>7 DEF Carried
  <2>2. ~ Active(k.tcp)
    BY <1>1, <2>1 DEF IInv
  <2>3. Base(k.tcp, Sofar(peer), peer.fin)
    BY SofarOfPeer, TiedFields
  <2> QED
    BY <2>1, <2>2, <2>3 DEF Base, Finished, Active
<1>11. in.totRead - Len(more) = 0 /\ Excerpt(Len(more), 0) = <<>> /\ Len(more) <= in.totRead
  <2> HIDE DEF in
  <2> QED
    BY <1>2, <1>6, EmptyExcerpt
<1>12. Carried(k', owner', pc = "done")
  <2>1. /\ Outbound(k.tcp).totWrite <= owner.written /\ owner.written <= OwnerLen
        /\ k.pair.data[Thread] =
             Excerpt(Outbound(k.tcp).totWrite, owner.written - Outbound(k.tcp).totWrite)
        /\ k.pair.shut[Owner] => Eof(in) \/ in.error \/ pc = "done"
    BY <1>2 DEF Carried
  <2>2. more = Excerpt(0, Len(more))
    BY <1>6
  <2>3. /\ Outbound(k'.tcp) = Outbound(k.tcp) /\ Inbound(k'.tcp) = in
        /\ Active(k'.tcp) = Active(k.tcp) /\ OutboundDone(k'.tcp) = OutboundDone(k.tcp)
    BY <1>9
  <2>4. /\ k'.pair.data[Thread] = k.pair.data[Thread] /\ k'.pair.data[Owner] = <<>>
        /\ k'.pair.shut = k.pair.shut
    BY <1>5, <1>9
  <2>5. in.totRead = Len(more) /\ 0 <= PipeSize
    BY <1>2, <1>6
  <2> HIDE DEF in
  <2> QED
    BY <1>8, <1>10, <1>11, <2>1, <2>2, <2>3, <2>4, <2>5 DEF Carried
<1> QED
  BY <1>1, <1>5, <1>8, <1>12, PairStep
-----------------------------------------------------------------------------
\* The connection has gone on, the peer has perhaps heard more.
LEMMA HearingGoes ==
  ASSUME SocketBounds, IInv, NEW v, Tied(v, Sofar(peer), peer.fin), Onward(k.tcp, v.tcp),
         v.tcp.receiver.status # LISTEN => k.tcp.receiver.status # LISTEN \/ peer.sent > 0,
         \A i \in DOMAIN v.inbox : \E j \in DOMAIN k.inbox : v.inbox[i] = k.inbox[j],
         NEW q \in Peers, q.sent = peer.sent, q.fin = peer.fin, q.reset = peer.reset,
         q.heard > 0 => peer.heard > 0 \/ v.tcp.sender.nextSeqno > 0
  PROVE  Hearing(v, q)
<1>1. /\ Base(k.tcp, Sofar(peer), peer.fin) /\ Base(v.tcp, Sofar(peer), peer.fin)
  BY SofarOfPeer, TiedFields
<1>2. /\ k.tcp.sender.nextSeqno \in Nat /\ v.tcp.sender.nextSeqno \in Nat
      /\ k.tcp.sender.nextSeqno <= v.tcp.sender.nextSeqno
  BY <1>1, ConnectionFields DEF Onward, Later
<1>3. Hearing(k, peer)
  BY DEF IInv
<1> QED
  BY <1>2, <1>3, HearingOn

\* Nothing has arrived, and the peer has heard nothing.
LEMMA HearingSame ==
  ASSUME SocketBounds, IInv, NEW v, Tied(v, Sofar(peer), peer.fin), Onward(k.tcp, v.tcp),
         v.tcp.receiver.status = k.tcp.receiver.status, v.inbox = k.inbox
  PROVE  Hearing(v, peer)
<1>1. \A i \in DOMAIN v.inbox : \E j \in DOMAIN k.inbox : v.inbox[i] = k.inbox[j]
  OBVIOUS
<1>2. peer \in Peers
  BY SofarOfPeer
<1> QED
  BY <1>1, <1>2, HearingGoes

LEMMA TurnBeginsStep ==
  ASSUME SocketBounds, IInv, TurnBegins PROVE IInv' /\ Moves
<1> DEFINE sofar == Sofar(peer)
           fin == peer.fin
           set == SetUpSocket(k, loop.rules)
           v == set.w
           next == IF NothingToPoll(set.polled) THEN "exit" ELSE "poll"
<1>1. /\ Alive /\ pc = "setup" /\ k' = v /\ owner' = owner /\ peer' = peer
      /\ loop' = [loop EXCEPT !.rules = set.rules, !.polled = set.polled]
      /\ pc' = next
  BY DEF TurnBegins, LoopAct
<1>2. /\ sofar \in 0 .. PeerLen /\ fin \in BOOLEAN /\ Tied(k, sofar, fin)
  BY SofarOfPeer
<1>3. /\ loop \in Loops /\ loop.rules \in Seq(RuleNames) /\ Distinct(loop.rules)
      /\ Holds(loop.rules, "DatagramIn") /\ loop.todo = <<>> /\ loop.polled = {}
  BY <1>1, LoopFields DEF IInv, Looping
<1>4. /\ Ended(k, v, sofar, fin)
      /\ set.rules \in Seq(RuleNames) /\ Distinct(set.rules)
      /\ set.polled \subseteq RuleNames
      /\ "DataIn" \in set.polled => v = k /\ ~ k.outboundShutdown
      /\ Holds(set.rules, "DatagramIn")
      /\ "DatagramIn" \in set.polled \/ ~ v.tcp.active2
  BY <1>2, <1>3, SetUpGoes
<1> HIDE DEF set, sofar, fin
<1>5. /\ Tied(v, sofar, fin) /\ Onward(k.tcp, v.tcp) /\ v.pair = k.pair
      /\ v.inbox = k.inbox /\ v.wire = k.wire /\ v.died = k.died
      /\ v.tcp.receiver = k.tcp.receiver
      /\ Outbound(v.tcp).totWrite = Outbound(k.tcp).totWrite
  BY <1>4 DEF Ended, Beside
<1> HIDE DEF v
<1>6. Hearing(k', peer)
  BY <1>1, <1>5, HearingSame DEF sofar, fin
<1>7. /\ loop' \in Loops /\ loop'.rules = set.rules /\ loop'.polled = set.polled
      /\ loop'.todo = <<>>
  BY <1>1, <1>3, <1>4 DEF Loops
<1>8. Looping(k', loop')
  BY <1>1, <1>4, <1>7, NewLooping
<1>9. Carried(k', owner, FALSE)
  <2>1. Carried(k, owner, FALSE)
    BY <1>1 DEF IInv
  <2> QED
    BY <1>1, <1>5, <2>1, CarriedOn DEF Inbound
<1>10. Moves
  <2>1. k.tcp.receiver.status = LISTEN => ~ InputEnded(Inbound(k.tcp))
    BY SofarOfPeer, ListensOpen
  <2> QED
    BY <1>1, <1>5, <2>1 DEF Moves, Inbound
<1>11. /\ pc' = "exit" \/ pc' = "poll"
       /\ pc' = "exit" => set.polled = {} /\ ~ Active(k'.tcp)
  BY <1>1, <1>4 DEF NothingToPoll, Active
<1> QED
  BY <1>1, <1>5, <1>6, <1>7, <1>8, <1>9, <1>10, <1>11 DEF IInv, Alive, sofar, fin

LEMMA PollSucceedsStep ==
  ASSUME SocketBounds, IInv, PollSucceeds PROVE IInv' /\ Moves
<1>1. /\ Alive /\ pc = "poll" /\ pc' = "serve" /\ loop' = Polled(k, loop)
      /\ k' = k /\ owner' = owner /\ peer' = peer
  BY DEF PollSucceeds, LoopAct
<1>2. Looping(k, loop') /\ loop'.polled = {}
  BY <1>1, PolledLooping DEF IInv
<1>3. Moves
  BY <1>1, Still
<1> QED
  BY <1>1, <1>2, <1>3 DEF IInv, Alive

LEMMA ServeRuleStep ==
  ASSUME SocketBounds, IInv, ServeRule PROVE IInv' /\ Moves
<1> DEFINE sofar == Sofar(peer)
           fin == peer.fin
           v == ServeSocket(k, loop)
<1>1. /\ Alive /\ pc = "serve" /\ pc' = pc /\ owner' = owner
      /\ k' = [v EXCEPT !.wire = <<>>] /\ loop' = Rest(loop) /\ loop.todo # <<>>
      /\ peer' = peer \/ peer' = [peer EXCEPT !.heard = Heard(v.wire)]
  BY DEF ServeRule, LoopAct
<1>2. /\ k.died = "no" /\ k.wire = <<>> /\ owner \in Owners /\ Carried(k, owner, FALSE)
      /\ Hearing(k, peer) /\ Looping(k, loop) /\ loop.polled = {} /\ Tied(k, sofar, fin)
  BY <1>1 DEF IInv, Alive
<1>3. /\ Acted(k, v, sofar, fin, peer.sent) /\ Outcome(v, owner)
      /\ Looping(v, Rest(loop)) /\ Rest(loop).polled = {}
  BY <1>1, <1>2, ServeGoes
<1> HIDE DEF sofar, fin, v
<1>4. /\ Tied(v, sofar, fin) /\ Onward(k.tcp, v.tcp)
      /\ k.tcp.receiver.status = LISTEN => ~ InputEnded(Inbound(v.tcp))
      /\ \A i \in DOMAIN v.inbox : \E j \in DOMAIN k.inbox : v.inbox[i] = k.inbox[j]
      /\ v.wire # <<>> => v.tcp.sender.nextSeqno > 0
      /\ v.tcp.receiver.status # LISTEN => k.tcp.receiver.status # LISTEN \/ peer.sent > 0
  BY <1>3 DEF Acted, Goes
<1>5. /\ Tied(k', sofar, fin) /\ k'.tcp = v.tcp /\ k'.pair = v.pair /\ k'.inbox = v.inbox
      /\ k'.wire = <<>> /\ k'.died = v.died /\ k'.outboundShutdown = v.outboundShutdown
  BY <1>1, <1>4, WireTaken
<1>6. /\ peer' \in Peers /\ peer'.sent = peer.sent /\ peer'.fin = peer.fin
      /\ peer'.reset = peer.reset
      /\ peer'.heard > 0 => peer.heard > 0 \/ v.tcp.sender.nextSeqno > 0
  <2> DEFINE h == Heard(v.wire)
  <2>1. peer \in Peers /\ peer.heard \in Nat
    BY SofarOfPeer, PeerFields
  <2>2. v.wire \in Seq(Outgoing)
    BY <1>4, TiedFields
  <2>3. h \in Nat /\ (h > 0 => peer.heard > 0 \/ v.wire # <<>>)
    BY <2>1, <2>2, HeardIs
  <2>4. CASE peer' = peer
    BY <2>1, <2>4
  <2>5. CASE peer' = [peer EXCEPT !.heard = h]
    <3> HIDE DEF h
    <3>1. /\ peer' \in Peers /\ peer'.sent = peer.sent /\ peer'.fin = peer.fin
          /\ peer'.reset = peer.reset /\ peer'.heard = h
      BY <2>1, <2>3, <2>5 DEF Peers
    <3> QED
      BY <1>4, <2>3, <3>1
  <2> QED
    BY <1>1, <2>4, <2>5
<1>7. Sofar(peer') = sofar /\ peer'.fin = fin
  BY <1>6 DEF Sofar, sofar, fin
<1>8. Hearing(k', peer')
  BY <1>4, <1>5, <1>6, HearingGoes DEF sofar, fin
<1>9. Looping(k', loop')
  BY <1>1, <1>3, <1>5, LoopingOn
<1>10. IF Alive' THEN Carried(k', owner, FALSE) ELSE Inbound(k'.tcp).error
  <2>1. v.died = "no" => Carried(k', owner, FALSE)
    BY <1>3, <1>5 DEF Outcome, Carried
  <2> QED
    BY <1>3, <1>5, <2>1 DEF Outcome, Alive
<1>11. Moves
  BY <1>4, <1>5 DEF Moves
<1> QED
  BY <1>1, <1>2, <1>3, <1>5, <1>7, <1>8, <1>9, <1>10, <1>11 DEF IInv

LEMMA TurnEndsStep ==
  ASSUME SocketBounds, IInv, NEW ms \in {0, TickMs}, TurnEnds(ms) PROVE IInv' /\ Moves
<1> DEFINE sofar == Sofar(peer)
           fin == peer.fin
           c == TickConnection(k.tcp, ms)
<1>1. /\ Alive /\ pc \in {"serve", "poll"} /\ pc' = "setup" /\ owner' = owner /\ peer' = peer
      /\ k' = AfterWait(k, ms) /\ loop' = TurnOver(loop)
  BY DEF TurnEnds, LoopAct
<1>2. /\ sofar \in 0 .. PeerLen /\ fin \in BOOLEAN /\ Tied(k, sofar, fin)
      /\ Conn(k.tcp, sofar, fin) /\ Base(k.tcp, sofar, fin)
  BY SofarOfPeer, TiedFields
<1>3. ms \in Nat
  BY SocketFacts
<1>4. /\ Conn(c, sofar, fin) /\ Onward(k.tcp, c) /\ SameInbound(k.tcp, c)
      /\ SameOutput(k.tcp, c)
  BY <1>2, <1>3, TickOnward
<1>5. k' = k \/ k' = [k EXCEPT !.tcp = c]
  BY <1>1 DEF AfterWait
<1> HIDE DEF c, sofar, fin
<1>6. /\ Tied(k', sofar, fin) /\ k'.pair = k.pair /\ k'.inbox = k.inbox
      /\ k'.wire = k.wire /\ k'.died = k.died /\ k'.outboundShutdown = k.outboundShutdown
      /\ k'.tcp = k.tcp \/ k'.tcp = c
  <2>1. Outbound(c).eof2 = Outbound(k.tcp).eof2
    BY <1>4 DEF SameOutput
  <2>2. CASE k' = k
    BY ONLY <1>2, <2>2
  <2>3. CASE k' = [k EXCEPT !.tcp = c]
    BY ONLY <1>2, <1>4, <2>1, <2>3, TcpChanged
  <2> QED
    BY <1>5, <2>2, <2>3
<1>7. Onward(k.tcp, k'.tcp) /\ SameInbound(k.tcp, k'.tcp) /\ SameOutput(k.tcp, k'.tcp)
  BY <1>2, <1>4, <1>6, OnwardSelf DEF SameInbound, SameOutput
<1>8. Hearing(k', peer)
  BY <1>6, <1>7, HearingSame DEF SameInbound, sofar, fin
<1>9. Looping(k', loop') /\ loop'.todo = <<>> /\ loop'.polled = {}
  BY <1>1, TurnOverLooping DEF IInv
<1>10. Carried(k', owner, FALSE)
  <2>1. Carried(k, owner, FALSE)
    BY <1>1 DEF IInv
  <2> QED
    BY <1>6, <1>7, <2>1, CarriedOn DEF SameInbound, SameOutput
<1>11. Moves
  <2>1. k.tcp.receiver.status = LISTEN => ~ InputEnded(Inbound(k.tcp))
    BY SofarOfPeer, ListensOpen
  <2> QED
    BY <1>7, <2>1 DEF Moves, SameInbound, InputEnded
<1> QED
  BY <1>1, <1>6, <1>8, <1>9, <1>10, <1>11 DEF IInv, Alive, sofar, fin

LEMMA ThreadEndsStep ==
  ASSUME SocketBounds, IInv, ThreadEnds PROVE IInv' /\ Moves
<1> DEFINE q == ShutRdwr(k.pair)
<1>1. /\ Alive /\ pc \in {"exit", "serve", "poll"} /\ pc' = "done" /\ owner' = owner
      /\ peer' = peer /\ k' = [k EXCEPT !.pair = q] /\ loop' = TurnOver(loop)
      /\ pc = "exit" \/ owner.at = "destroying"
  BY DEF ThreadEnds, LoopAct, Aborted
<1>2. k.pair \in Pairs /\ Carried(k, owner, FALSE)
  BY <1>1, CarriedFields DEF IInv
<1>3. q \in Pairs /\ q.data = k.pair.data /\ q.shut[Owner]
  BY <1>2, ShutsPair, EndsOfPair
<1> HIDE DEF q
<1>4. /\ Tied(k', Sofar(peer), peer.fin) /\ k'.tcp = k.tcp /\ k'.inbox = k.inbox
      /\ k'.wire = k.wire /\ k'.died = k.died /\ k'.outboundShutdown = k.outboundShutdown
      /\ k'.pair = q
  BY <1>1, <1>3, PairChanged DEF IInv
<1>5. Hearing(k', peer)
  BY <1>4, HearingStill DEF IInv
<1>6. Looping(k', loop') /\ loop'.todo = <<>> /\ loop'.polled = {}
  BY <1>1, TurnOverLooping DEF IInv
<1>7. Carried(k', owner, TRUE)
  BY <1>2, <1>3, <1>4, CarriedShut
<1>8. Moves
  BY <1>4, Still
<1>9. owner.at \in {"destroying", "gone"} \/ ~ Active(k'.tcp)
  BY <1>1, <1>4 DEF IInv
<1>10. owner.at # "new"
  BY <1>1 DEF IInv
<1> QED
  BY <1>1, <1>4, <1>5, <1>6, <1>7, <1>8, <1>9, <1>10 DEF IInv, Alive
-----------------------------------------------------------------------------
(***************************************************************************)
(* The peer's steps.                                                       *)
(***************************************************************************)
LEMMA NumberedFields ==
  ASSUME SocketBounds, NEW seg \in Arrivals, peer \in Peers
  PROVE  LET s == Numbered(seg)
         IN  /\ s \in Arrivals /\ s.seqno = peer.sent /\ s.ack = (peer.heard > 0)
             /\ s.syn = seg.syn /\ s.fin = seg.fin /\ s.rst = seg.rst
             /\ s.payload = seg.payload
<1>1. peer.sent \in Nat /\ peer.heard \in Nat /\ PeerWindow \in Nat
      /\ (peer.heard > 0) \in BOOLEAN
  BY PeerFields, SocketFacts
<1> QED
  BY <1>1 DEF Numbered, Arrivals

LEMMA AfterSend ==
  ASSUME NEW seg \in Arrivals, peer \in Peers, NEW n \in Nat,
         LengthInSequenceSpace(seg) = n, Sends(seg)
  PROVE  /\ peer' \in Peers /\ peer'.sent = peer.sent + n /\ peer'.heard = peer.heard
         /\ peer'.fin = (peer.fin \/ seg.fin) /\ peer'.reset = seg.rst
<1>1. peer' = [peer EXCEPT !.sent = @ + n, !.told = peer.heard,
                           !.fin = @ \/ seg.fin, !.reset = seg.rst]
  BY DEF Sends
<1>2. /\ seg.fin \in BOOLEAN /\ seg.rst \in BOOLEAN /\ peer.fin \in BOOLEAN
      /\ peer.sent + n \in Nat /\ peer.heard \in Nat /\ (peer.fin \/ seg.fin) \in BOOLEAN
  BY PeerFields DEF Arrivals
<1> QED
  BY <1>1, <1>2 DEF Peers

\* A segment of the peer joins those that wait.
LEMMA SendsStep ==
  ASSUME SocketBounds, IInv, NEW seg \in Arrivals, Sends(seg), Counted(peer'),
         peer'.heard = peer.heard, peer.sent <= peer'.sent,
         Sofar(peer) <= Sofar(peer'),
         peer.fin => Sofar(peer') = Sofar(peer) /\ peer'.fin,
         \/ Piece(Numbered(seg), Sofar(peer'), peer'.fin) /\ (seg.syn => peer'.sent > 0)
         \/ seg.rst /\ ~ seg.syn /\ peer'.sent = 0 /\ peer'.reset
  PROVE  IInv' /\ Moves
<1> DEFINE a == Numbered(seg)
           more == Sofar(peer')
           end == peer'.fin
<1>1. /\ Alive /\ ~ peer.reset /\ owner.at # "new" /\ pc # "done"
      /\ k' = [k EXCEPT !.inbox = Append(@, a)]
      /\ loop' = loop /\ pc' = pc /\ owner' = owner
  BY DEF Sends
<1>2. /\ Sofar(peer) \in 0 .. PeerLen /\ peer.fin \in BOOLEAN /\ peer \in Peers
      /\ Tied(k, Sofar(peer), peer.fin) /\ k.inbox \in Seq(Arrivals)
      /\ Hearing(k, peer) /\ Looping(k, loop) /\ Carried(k, owner, pc = "done")
  BY <1>1, SofarOfPeer DEF IInv
<1>3. /\ a \in Arrivals /\ a.ack = (peer.heard > 0) /\ a.syn = seg.syn /\ a.rst = seg.rst
  BY <1>2, NumberedFields
<1>4. more \in Sofar(peer) .. PeerLen /\ end \in BOOLEAN
  <2>1. more \in 0 .. PeerLen /\ end \in BOOLEAN
    BY SofarType, PeerFields DEF Counted
  <2> QED
    BY <1>2, <2>1
<1>5. Coming(a, peer', k.tcp)
  <2>1. a.ack => k.tcp.sender.nextSeqno > 0
    BY <1>2, <1>3 DEF Hearing
  <2> QED
    BY <1>3, <2>1 DEF Coming
<1> HIDE DEF a, more, end
<1>6. /\ Append(k.inbox, a) \in Seq(Arrivals) /\ Append(k.inbox, a) # <<>>
  BY ONLY <1>2, <1>3, AppendProperties
<1>7. /\ k' \in Sockets(Sofar(peer)) /\ k'.inbox = Append(k.inbox, a) /\ k'.tcp = k.tcp
      /\ k'.pair = k.pair /\ k'.wire = k.wire /\ k'.died = k.died
      /\ k'.outboundShutdown = k.outboundShutdown
  <2>1. k \in Sockets(Sofar(peer))
    BY <1>2 DEF Tied
  <2> QED
    BY ONLY <1>1, <1>6, <2>1 DEF Sockets
<1>8. Tied(k', Sofar(peer), peer.fin)
  BY <1>2, <1>7 DEF Tied
<1>9. Tied(k', more, end)
  BY <1>2, <1>4, <1>8, TiedMore DEF more, end
<1>10. Hearing(k', peer')
  BY <1>1, <1>2, <1>5, <1>7, HearingMore
<1>11. Looping(k', loop)
  BY <1>2, <1>6, <1>7, LoopingMore
<1>12. Carried(k', owner, pc = "done")
  BY <1>2, <1>7 DEF Carried
<1>13. Moves
  BY <1>7, Still
<1> QED
  BY <1>1, <1>7, <1>9, <1>10, <1>11, <1>12, <1>13 DEF IInv, Alive, more, end

LEMMA EmptyArrival ==
  LET e == EmptySegment
  IN  /\ e \in Arrivals /\ ~ e.syn /\ ~ e.fin /\ ~ e.rst /\ e.payload = <<>>
<1>1. <<>> \in Seq(Nat) /\ 0 \in Nat /\ FALSE \in BOOLEAN
  OBVIOUS
<1> QED
  BY ONLY <1>1 DEF EmptySegment, Arrivals

LEMMA PeerSynStep == ASSUME SocketBounds, IInv, PeerSyn PROVE IInv' /\ Moves
<1> DEFINE seg == [EmptySegment EXCEPT !.syn = TRUE]
<1>1. peer.sent = 0 /\ Sends(seg)
  BY DEF PeerSyn
<1>2. /\ seg \in Arrivals /\ seg.syn /\ ~ seg.fin /\ ~ seg.rst /\ seg.payload = <<>>
      /\ LengthInSequenceSpace(seg) = 1
  <2>1. /\ seg \in Arrivals /\ seg.syn /\ ~ seg.fin /\ ~ seg.rst /\ seg.payload = <<>>
    BY EmptyArrival DEF Arrivals
  <2> QED
    BY <2>1 DEF LengthInSequenceSpace, One
<1> HIDE DEF seg
<1>3. peer \in Peers /\ Counted(peer) /\ peer.fin = FALSE /\ peer.heard \in Nat
  BY <1>1, SofarOfPeer, PeerFields DEF IInv, Hearing, Counted
<1>4. /\ peer' \in Peers /\ peer'.sent = 1 /\ peer'.heard = peer.heard
      /\ peer'.fin = FALSE
  <2>1. /\ peer' \in Peers /\ peer'.sent = peer.sent + 1 /\ peer'.heard = peer.heard
        /\ peer'.fin = (peer.fin \/ seg.fin)
    BY <1>1, <1>2, <1>3, AfterSend
  <2>2. peer'.sent = 1
    BY ONLY <1>1, <2>1
  <2>3. peer'.fin = FALSE
    BY ONLY <1>2, <1>3, <2>1
  <2> QED
    BY ONLY <2>1, <2>2, <2>3
<1>5. Sofar(peer') = 0 /\ Sofar(peer) = 0 /\ Counted(peer')
  <2>1. PeerLen \in Nat
    BY SocketFacts
  <2>2. peer.sent = 0 /\ peer'.sent = 1 /\ peer'.fin = FALSE /\ peer' \in Peers
    BY <1>1, <1>4
  <2>3. Sofar(peer) = 0
    BY ONLY <2>2 DEF Sofar
  <2>4. Sofar(peer') = 0
    <3>1. One(peer'.fin) = 0
      BY ONLY <2>2 DEF One
    <3>2. peer'.sent - 1 - One(peer'.fin) = 0
      BY ONLY <2>2, <3>1
    <3> QED
      BY ONLY <2>2, <3>2 DEF Sofar
  <2>5. 1 <= PeerLen + 1 + One(FALSE)
    BY ONLY <2>1 DEF One
  <2>6. Counted(peer')
    BY ONLY <2>2, <2>5 DEF Counted
  <2> QED
    BY <2>3, <2>4, <2>6
<1>6. Piece(Numbered(seg), 0, FALSE)
  <2>1. /\ Numbered(seg).seqno = 0 /\ Numbered(seg).syn /\ ~ Numbered(seg).fin
        /\ Numbered(seg).payload = <<>> /\ Numbered(seg) \in Arrivals
    BY <1>1, <1>2, <1>3, NumberedFields
  <2> QED
    BY <2>1 DEF Piece, Arrivals
<1> QED
  <2>1. /\ peer.sent <= peer'.sent /\ Sofar(peer) <= Sofar(peer')
        /\ peer.fin => Sofar(peer') = Sofar(peer) /\ peer'.fin
        /\ seg.syn => peer'.sent > 0
    BY ONLY <1>1, <1>3, <1>4, <1>5
  <2>2. Piece(Numbered(seg), Sofar(peer'), peer'.fin)
    <3>1. Sofar(peer') = 0 /\ peer'.fin = FALSE
      BY <1>4, <1>5
    <3> QED
      BY <1>6, <3>1
  <2> QED
    BY <1>1, <1>2, <1>4, <1>5, <2>1, <2>2, SendsStep

\* A segment of the stream, its end with it or not, from a peer that has begun.
LEMMA StreamStep ==
  ASSUME SocketBounds, IInv, peer.sent > 0, NEW seg \in Arrivals, Sends(seg), ~ seg.syn,
         NEW n \in Nat, seg.payload = Excerpt(peer.sent - 1, n),
         n > 0 \/ seg.fin => ~ peer.fin, peer.sent + n <= PeerLen + 1
                             \/ (n = 0 /\ ~ seg.fin)
  PROVE  IInv' /\ Moves
<1> DEFINE e == One(seg.fin)
           s == peer.sent
<1>1. /\ peer \in Peers /\ Counted(peer) /\ s \in Nat /\ s > 0
      /\ peer.fin \in BOOLEAN /\ PeerLen \in Nat /\ seg.fin \in BOOLEAN
      /\ s <= PeerLen + 1 + One(peer.fin) /\ (peer.fin => s >= 2)
  BY SofarOfPeer, PeerFields, SocketFacts DEF IInv, Hearing, Counted, Arrivals
<1>2. Len(seg.payload) = n /\ seg.payload \in Seq(Nat)
  <2>1. s - 1 \in Nat
    BY <1>1
  <2> QED
    BY ONLY <2>1, ExcerptIsSeq, seg.payload = Excerpt(s - 1, n), n \in Nat
<1>3. LengthInSequenceSpace(seg) = n + e /\ n + e \in Nat
  BY <1>2 DEF LengthInSequenceSpace, One
<1>4. /\ peer' \in Peers /\ peer'.sent = s + (n + e) /\ peer'.heard = peer.heard
      /\ peer'.fin = (peer.fin \/ seg.fin)
  BY <1>1, <1>3, AfterSend
<1> HIDE DEF s
<1>5. CASE n = 0 /\ ~ seg.fin
  <2>1. peer'.sent = s /\ peer'.fin = peer.fin
    BY <1>1, <1>4, <1>5 DEF One
  <2>2. Sofar(peer') = Sofar(peer) /\ Counted(peer')
    BY <1>1, <1>4, <2>1 DEF Sofar, Counted, s
  <2>3. Sofar(peer) \in Nat /\ s = Sofar(peer) + 1 + One(peer.fin)
    BY <1>1, SofarType DEF s
  <2>4. /\ Numbered(seg).seqno = s /\ ~ Numbered(seg).syn /\ ~ Numbered(seg).fin
        /\ Numbered(seg).payload = <<>> /\ Numbered(seg) \in Arrivals
    <3>1. seg.payload = <<>>
      BY <1>2, <1>5
    <3> QED
      BY <1>1, <1>5, <3>1, NumberedFields DEF s
  <2>5. Piece(Numbered(seg), Sofar(peer'), peer'.fin)
    BY <1>1, <2>1, <2>2, <2>3, <2>4 DEF Piece, Arrivals, One
  <2> QED
    BY <1>1, <1>4, <2>1, <2>2, <2>3, <2>5, SendsStep DEF s
<1>6. CASE (n > 0 \/ seg.fin) /\ ~ peer.fin /\ s + n <= PeerLen + 1
  <2>1. peer'.fin = seg.fin /\ s <= peer'.sent /\ peer'.sent \in Nat
    BY <1>1, <1>4, <1>6 DEF One
  <2>2. /\ Sofar(peer') = s - 1 + n /\ Sofar(peer) = s - 1
        /\ Sofar(peer) <= Sofar(peer') /\ Sofar(peer') \in Nat
    BY <1>1, <1>4, <1>6, <2>1 DEF Sofar, One, s
  <2>3. peer'.sent <= PeerLen + 1 + One(peer'.fin) /\ (peer'.fin => peer'.sent >= 2)
    BY <1>1, <1>4, <1>6, <2>1 DEF One
  <2>4. Counted(peer')
    BY <1>4, <2>3 DEF Counted
  <2>5. /\ Numbered(seg).seqno = s /\ ~ Numbered(seg).syn /\ Numbered(seg).fin = seg.fin
        /\ Numbered(seg).payload = Excerpt(s - 1, n) /\ Numbered(seg) \in Arrivals
    BY <1>1, NumberedFields DEF s
  <2>6. Piece(Numbered(seg), Sofar(peer'), peer'.fin)
    <3>1. Len(Numbered(seg).payload) = n
      BY <1>2, <2>5 DEF s
    <3> DEFINE a == Numbered(seg)
               more == Sofar(peer')
    <3> HIDE DEF a, more
    <3>2. /\ a.seqno = s /\ ~ a.syn /\ a.fin = seg.fin /\ a.payload = Excerpt(s - 1, n)
          /\ a \in Arrivals /\ Len(a.payload) = n /\ more = s - 1 + n /\ more \in Nat
      BY <2>2, <2>5, <3>1 DEF a, more
    <3>3. a.syn \in BOOLEAN /\ a.fin \in BOOLEAN /\ a.payload \in Seq(Nat) /\ a.seqno \in Nat
      BY ONLY <3>2 DEF Arrivals
    <3>4. /\ a.seqno <= more + 2 /\ a.seqno > 0 /\ a.seqno - 1 + Len(a.payload) = more
          /\ a.payload = Excerpt(a.seqno - 1, Len(a.payload))
      BY ONLY <1>1, <3>2, n \in Nat
    <3>5. Piece(a, more, seg.fin)
      BY ONLY <3>2, <3>3, <3>4 DEF Piece
    <3> QED
      BY <2>1, <3>5 DEF a, more
  <2> QED
    BY <1>1, <1>4, <1>6, <2>1, <2>2, <2>4, <2>6, SendsStep DEF s
<1> QED
  BY <1>1, <1>5, <1>6 DEF s

LEMMA PeerStreamSteps ==
  ASSUME SocketBounds, IInv, PeerData \/ PeerFin \/ PeerAck PROVE IInv' /\ Moves
<1> DEFINE s == peer.sent
<1>1. /\ s \in Nat /\ PeerLen \in Nat /\ peer.fin \in BOOLEAN
      /\ s <= PeerLen + 1 + One(peer.fin)
  BY SofarOfPeer, PeerFields, SocketFacts DEF IInv, Hearing, Counted
<1>2. CASE PeerData
  <2>1. PICK n \in {1, PeerLen + 1 - s} :
          Sends([EmptySegment EXCEPT !.payload = [i \in 1 .. n |-> peer.sent - 2 + i],
                                     !.fin = (n > 1)])
    BY <1>2 DEF PeerData
  <2> DEFINE seg == [EmptySegment EXCEPT !.payload = [i \in 1 .. n |-> peer.sent - 2 + i],
                                         !.fin = (n > 1)]
  <2>2. s \in 1 .. PeerLen /\ ~ peer.fin
    BY <1>2 DEF PeerData
  <2>3. n \in Nat /\ n >= 1 /\ s + n <= PeerLen + 1
    BY <1>1, <2>2
  <2>4. [i \in 1 .. n |-> peer.sent - 2 + i] = Excerpt(s - 1, n)
    BY <1>1, <2>3 DEF Excerpt
  <2>5. Excerpt(s - 1, n) \in Seq(Nat) /\ (n > 1) \in BOOLEAN
    <3>1. s - 1 \in Nat
      BY <2>2
    <3> QED
      BY <2>3, <3>1, ExcerptIsSeq
  <2>6. seg \in Arrivals /\ ~ seg.syn /\ seg.payload = Excerpt(s - 1, n)
    BY <2>4, <2>5, EmptyArrival DEF Arrivals
  <2>7. Sends(seg)
    BY <2>1
  <2> HIDE DEF seg
  <2> QED
    BY <1>1, <2>2, <2>3, <2>6, <2>7, StreamStep
<1>3. CASE PeerFin
  <2> DEFINE seg == [EmptySegment EXCEPT !.fin = TRUE]
  <2>1. s > 0 /\ ~ peer.fin /\ Sends(seg)
    BY <1>3 DEF PeerFin
  <2>2. seg \in Arrivals /\ ~ seg.syn /\ seg.payload = <<>>
    BY EmptyArrival DEF Arrivals
  <2>3. s - 1 \in Nat /\ Excerpt(s - 1, 0) = <<>>
    <3>1. s - 1 \in Nat
      BY ONLY <1>1, <2>1
    <3> QED
      BY <3>1, EmptyExcerpt
  <2>4. s <= PeerLen + 1
    BY <1>1, <2>1 DEF One
  <2> HIDE DEF seg
  <2> QED
    BY <1>1, <2>1, <2>2, <2>3, <2>4, StreamStep
<1>4. CASE PeerAck
  <2> DEFINE seg == EmptySegment
  <2>1. s > 0 /\ Sends(seg)
    BY <1>4 DEF PeerAck
  <2>2. seg \in Arrivals /\ ~ seg.syn /\ seg.payload = <<>> /\ ~ seg.fin
    BY EmptyArrival
  <2>3. s - 1 \in Nat /\ Excerpt(s - 1, 0) = <<>>
    <3>1. s - 1 \in Nat
      BY ONLY <1>1, <2>1
    <3> QED
      BY <3>1, EmptyExcerpt
  <2> HIDE DEF seg
  <2> QED
    BY <1>1, <2>1, <2>2, <2>3, StreamStep
<1> QED
  BY <1>2, <1>3, <1>4

LEMMA PeerResetStep == ASSUME SocketBounds, IInv, PeerReset PROVE IInv' /\ Moves
<1> DEFINE seg == [EmptySegment EXCEPT !.rst = TRUE]
<1>1. Sends(seg)
  BY DEF PeerReset
<1>2. /\ seg \in Arrivals /\ ~ seg.syn /\ ~ seg.fin /\ seg.rst /\ seg.payload = <<>>
      /\ LengthInSequenceSpace(seg) = 0
  <2>1. /\ seg \in Arrivals /\ ~ seg.syn /\ ~ seg.fin /\ seg.rst /\ seg.payload = <<>>
    BY EmptyArrival DEF Arrivals
  <2> QED
    BY <2>1 DEF LengthInSequenceSpace, One
<1> HIDE DEF seg
<1>3. /\ peer \in Peers /\ Counted(peer) /\ peer.sent \in Nat /\ Sofar(peer) \in 0 .. PeerLen
      /\ peer.fin \in BOOLEAN
  BY SofarOfPeer, PeerFields DEF IInv, Hearing
<1>4. CASE peer.sent > 0
  <2>1. peer.sent - 1 \in Nat /\ Excerpt(peer.sent - 1, 0) = <<>>
    <3>1. peer.sent - 1 \in Nat
      BY ONLY <1>3, <1>4
    <3> QED
      BY <3>1, EmptyExcerpt
  <2> QED
    BY <1>1, <1>2, <1>4, <2>1, StreamStep
<1>5. CASE peer.sent = 0
  <2>1. /\ peer' \in Peers /\ peer'.sent = 0 /\ peer'.heard = peer.heard
        /\ peer'.fin = peer.fin /\ peer'.reset = TRUE
    BY <1>1, <1>2, <1>3, <1>5, AfterSend DEF Arrivals
  <2>2. Sofar(peer') = Sofar(peer) /\ Counted(peer')
    BY <1>3, <1>5, <2>1 DEF Sofar, Counted
  <2> QED
    BY <1>1, <1>2, <1>3, <1>5, <2>1, <2>2, SendsStep
<1> QED
  BY <1>3, <1>4, <1>5
-----------------------------------------------------------------------------
LEMMA NextStep == ASSUME SocketBounds, IInv, Next PROVE IInv' /\ Moves
<1>1. CASE OwnerNext
  BY <1>1, OwnerConnectStep, OwnerPlaceSteps, OwnerWriteStep, OwnerShutWrStep,
     OwnerReadStep, OwnerWaitStep DEF OwnerNext
<1>2. CASE LoopNext
  BY <1>2, OwnerPlaceSteps, TurnBeginsStep, PollSucceedsStep, ServeRuleStep,
     ThreadEndsStep, TurnEndsStep DEF LoopNext
<1>3. CASE PeerNext
  BY <1>3, PeerSynStep, PeerStreamSteps, PeerResetStep DEF PeerNext
<1> QED
  BY <1>1, <1>2, <1>3 DEF Next

LEMMA EveryStep == ASSUME SocketBounds, IInv, [Next]_vars PROVE IInv' /\ Moves
<1>1. CASE Next
  BY <1>1, NextStep
<1>2. CASE UNCHANGED vars
  <2>1. k' = k /\ loop' = loop /\ pc' = pc /\ owner' = owner /\ peer' = peer
    BY <1>2 DEF vars
  <2>2. IInv'
    BY <2>1 DEF IInv, Alive
  <2> QED
    BY <2>1, <2>2, Still
<1> QED
  BY <1>1, <1>2

\* The invariant holds in every state that can be reached, whatever the constants are
\* within the bounds: it is what the theorems that follow rest on.
THEOREM SocketInvariant == ASSUME SocketBounds PROVE Spec => []IInv
<1>1. Init => IInv
  BY InitIInv
<1>2. IInv /\ [Next]_vars => IInv'
  BY EveryStep
<1> QED
  BY <1>1, <1>2, PTL DEF Spec

LEMMA CountIs == ASSUME NEW n \in Nat PROVE Count(n) = Excerpt(0, n)
  BY DEF Count, Excerpt

LEMMA IInvBetween == ASSUME SocketBounds, IInv PROVE BetweenOwnerAndConnection
<1> SUFFICES ASSUME Alive
             PROVE  /\ Count(owner.written)
                         = Count(Outbound(k.tcp).totWrite) \o k.pair.data[Thread]
                    /\ Inward = Count(Inbound(k.tcp).totWrite)
  BY DEF BetweenOwnerAndConnection
<1> DEFINE in == Inbound(k.tcp)
           out == Outbound(k.tcp)
           n == Len(owner.read)
           size == BufferSize(in)
<1>1. /\ out.totWrite \in Nat /\ in.totRead \in Nat /\ in.totWrite \in Nat
      /\ owner.written \in Nat /\ owner.written - out.totWrite \in Nat
      /\ k.pair.data[Thread] = Excerpt(out.totWrite, owner.written - out.totWrite)
      /\ n \in Nat /\ owner.read = Excerpt(0, n) /\ in.totRead - n \in Nat
      /\ k.pair.data[Owner] = Excerpt(n, in.totRead - n)
  BY CarriedFields
<1>2. /\ in.buf = Excerpt(in.totRead, size) /\ size \in Nat
      /\ in.totWrite = in.totRead + size
  <2>1. /\ Sofar(peer) \in 0 .. PeerLen /\ peer.fin \in BOOLEAN
        /\ Receiving(k.tcp.receiver, Sofar(peer), peer.fin)
    BY SofarOfPeer, TiedFields, ConnectionFields
  <2> QED
    BY <2>1, ReceivingFields DEF Inbound
<1> HIDE DEF in, out, n, size
<1>3. Excerpt(0, out.totWrite) \o Excerpt(out.totWrite, owner.written - out.totWrite)
        = Excerpt(0, owner.written)
  <2> DEFINE a == out.totWrite
             b == owner.written - out.totWrite
  <2>1. a \in Nat /\ b \in Nat /\ 0 + a = a /\ a + b = owner.written
    BY ONLY <1>1
  <2> HIDE DEF a, b
  <2>2. Excerpt(0, a) \o Excerpt(0 + a, b) = Excerpt(0, a + b)
    BY ONLY <2>1, ExcerptConcat, 0 \in Nat
  <2> QED
    BY <2>1, <2>2 DEF a, b
<1>4. Excerpt(0, n) \o Excerpt(n, in.totRead - n) = Excerpt(0, in.totRead)
  <2> DEFINE b == in.totRead - n
  <2>1. n \in Nat /\ b \in Nat /\ 0 + n = n /\ n + b = in.totRead
    BY ONLY <1>1
  <2> HIDE DEF b
  <2>2. Excerpt(0, n) \o Excerpt(0 + n, b) = Excerpt(0, n + b)
    BY ONLY <2>1, ExcerptConcat, 0 \in Nat
  <2> QED
    BY <2>1, <2>2 DEF b
<1>5. Excerpt(0, in.totRead) \o Excerpt(in.totRead, size) = Excerpt(0, in.totWrite)
  <2> DEFINE a == in.totRead
  <2>1. a \in Nat /\ size \in Nat /\ 0 + a = a /\ a + size = in.totWrite
    BY ONLY <1>1, <1>2
  <2> HIDE DEF a
  <2>2. Excerpt(0, a) \o Excerpt(0 + a, size) = Excerpt(0, a + size)
    BY ONLY <2>1, ExcerptConcat, 0 \in Nat
  <2> QED
    BY <2>1, <2>2 DEF a
<1>6. Inward = Excerpt(0, in.totWrite)
  <2>1. Inward = (owner.read \o k.pair.data[Owner]) \o in.buf
    BY DEF Inward, in
  <2> QED
    BY <1>1, <1>2, <1>4, <1>5, <2>1
<1> QED
  BY <1>1, <1>2, <1>3, <1>6, CountIs DEF in, out

LEMMA IInvEof == ASSUME SocketBounds, IInv PROVE EofExplained
<1> SUFFICES ASSUME Alive, owner.sawEof
             PROVE  \/ peer.fin /\ Len(owner.read) = Inbound(k.tcp).totWrite
                    \/ Inbound(k.tcp).error
                    \/ pc = "done" /\ ~ Active(k.tcp) /\ OutboundDone(k.tcp)
  BY DEF EofExplained
<1> DEFINE in == Inbound(k.tcp)
<1>1. \/ Eof(in) /\ in.totRead = Len(owner.read)
      \/ in.error
      \/ pc = "done" /\ ~ Active(k.tcp) /\ OutboundDone(k.tcp)
  <2>1. Carried(k, owner, pc = "done")
    BY DEF IInv
  <2> QED
    BY <2>1 DEF Carried
<1>2. Eof(in) => peer.fin /\ in.totWrite = in.totRead
  <2>1. /\ Sofar(peer) \in 0 .. PeerLen /\ peer.fin \in BOOLEAN
        /\ Receiving(k.tcp.receiver, Sofar(peer), peer.fin)
    BY SofarOfPeer, TiedFields, ConnectionFields
  <2>2. /\ in.totRead \in Nat /\ BufferSize(in) \in Nat
        /\ in.totWrite = in.totRead + BufferSize(in)
        /\ (BufferEmpty(in) <=> BufferSize(in) = 0) /\ (in.eof2 => peer.fin)
    BY <2>1, ReceivingFields DEF Inbound
  <2> QED
    BY <2>2 DEF Eof
<1> QED
  BY <1>1, <1>2

\* What the connection's stream has taken is what the owner has written except for what
\* is in the pair, and what the owner reads is the peer's stream in its order: rules 2
\* and 3 lose nothing between the pair and the streams, whatever the owner, the peer
\* and the thread do (tcp_sponge_socket.cc:94-152).
THEOREM BetweenOwnerAndConnectionHolds ==
  ASSUME SocketBounds PROVE Spec => []BetweenOwnerAndConnection
<1>1. IInv => BetweenOwnerAndConnection
  BY IInvBetween
<1> QED
  BY <1>1, SocketInvariant, PTL

\* The owner's end of file is the end of the peer's stream, or there was an error, or
\* the connection had stopped (tcp_sponge_socket.cc:123-152, 265).
THEOREM EofExplainedHolds == ASSUME SocketBounds PROVE Spec => []EofExplained
<1>1. IInv => EofExplained
  BY IInvEof
<1> QED
  BY <1>1, SocketInvariant, PTL

\* Nothing but a reset makes the process die of a write into the pair, of the check of
\* what write has accepted or of a rule that waits for nothing
\* (tcp_sponge_socket.cc:94-146, eventloop.cc:118-130).
THEOREM DiesOnlyByResetHolds == ASSUME SocketBounds PROVE Spec => []DiesOnlyByReset
<1>1. IInv => DiesOnlyByReset
  BY DEF IInv, DiesOnlyByReset
<1> QED
  BY <1>1, SocketInvariant, PTL

LEMMA OfficialStep ==
  ASSUME SocketBounds, IInv, IInv', Moves,
         NEW s \in DOMAIN Official, NEW t \in DOMAIN Official,
         StateOf(k.tcp) # StateOf(k'.tcp),
         StateOf(k.tcp) = Official[s], StateOf(k'.tcp) = Official[t], t # "RESET"
  PROVE  <<s, t>> \in LaterInRFC793
<1> DEFINE sofar == Sofar(peer)
           fin == peer.fin
           more == Sofar(peer')
           end == peer'.fin
           c == k.tcp
           d == k'.tcp
<1>1. sofar \in 0 .. PeerLen /\ fin \in BOOLEAN /\ Base(c, sofar, fin)
  BY SofarOfPeer, TiedFields
<1>2. more \in 0 .. PeerLen /\ end \in BOOLEAN /\ Base(d, more, end)
  <2>1. Counted(peer') /\ Tied(k', more, end)
    BY DEF IInv, Hearing
  <2> QED
    BY <2>1, SofarType, PeerFields, TiedFields DEF Counted
<1>3. Onward(c, d) /\ (c.receiver.status = LISTEN => ~ InputEnded(Inbound(d)))
  BY DEF Moves
<1> HIDE DEF sofar, fin, more, end, c, d
<1>4. Precedes(StateOf(c), StateOf(d))
  BY <1>1, <1>2, <1>3, OnwardPrecedes
<1>5. Precedes(Official[s], Official[t]) /\ s # t
  BY <1>4 DEF c, d
<1> QED
  BY <1>5, OfficialOrder

\* A connection goes from one official state to another only along the steps of
\* RFC 793, or by a reset, whatever its owner, its peer and the network do
\* (tcp_state.hh:19-22).
THEOREM OfficialStepsHolds == ASSUME SocketBounds PROVE Spec => OfficialSteps
<1> DEFINE Along ==
      LET before == StateOf(k.tcp)
          after  == StateOf(k'.tcp)
      IN  before # after =>
            \A s, t \in DOMAIN Official :
              before = Official[s] /\ after = Official[t] =>
                t = "RESET" \/ <<s, t>> \in LaterInRFC793
<1>1. IInv /\ [Next]_vars => [Along]_vars
  <2> SUFFICES ASSUME IInv, [Next]_vars PROVE Along
    OBVIOUS
  <2>1. IInv' /\ Moves
    BY EveryStep
  <2> QED
    BY <2>1, OfficialStep
<1>2. Spec => []IInv
  BY SocketInvariant
<1>3. OfficialSteps <=> [][Along]_vars
  BY DEF OfficialSteps
<1> QED
  BY <1>1, <1>2, <1>3, PTL DEF Spec
=============================================================================
