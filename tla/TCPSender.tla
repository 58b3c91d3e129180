----------------------------- MODULE TCPSender -----------------------------
(***************************************************************************)
(* tcp_sender.hh / tcp_sender.cc: cutting the outbound stream into         *)
(* segments, the retransmission timers and the peer's window.              *)
(*                                                                         *)
(* The code keeps the clock now and gives each outstanding segment the     *)
(* time at which it expires; here each carries the time left until then.   *)
(* The start times that key the multimap are never read.                   *)
(***************************************************************************)
EXTENDS ByteStream, TCPSegment, FiniteSets

CONSTANTS
  MaxPayload,    \* TCPConfig::MAX_PAYLOAD_SIZE
  RetxTimeout,   \* _initial_retransmission_timeout
  UIntRange      \* 2^32, the number of unsigned int values

ASSUME SenderAssumption ==
  /\ {MaxPayload, RetxTimeout, UIntRange} \subseteq Nat \ {0}
  /\ RetxTimeout < UIntRange

NoWindow == -1   \* window before the SYN has been sent or an ACK received

NewSender(isn, capacity) ==
  [isn |-> isn, stream |-> NewByteStream(capacity), nextSeqno |-> 0,
   window |-> NoWindow, acked |-> 0, outstanding |-> {}, rto |-> RetxTimeout,
   crtx |-> 0, finSent |-> FALSE, zeroWindow |-> FALSE, segmentsOut |-> <<>>]

NextSeqno(s) == Wrap(s.nextSeqno, s.isn)
PositionOf(s, seg) == Unwrap(seg.seqno, s.isn, s.acked)

\* bytes_in_flight(): SYN and FIN count for one each.  The size of the set of the
\* sequence numbers taken, each with the segment that takes it.
BytesInFlight(s) ==
  Cardinality(UNION {{o} \X (1 .. LengthInSequenceSpace(o.seg)) : o \in s.outstanding})

\* _segments_out.push(seg) and outstanding.insert({now, {now + rto, seg}}).
Transmit(s, seg) ==
  [s EXCEPT !.segmentsOut = Append(@, seg),
            !.outstanding = @ \cup {[seg |-> seg, left |-> s.rto]}]
-----------------------------------------------------------------------------
(***************************************************************************)
(* fill_window().  The first call sends the SYN, with the FIN if there is  *)
(* nothing to send; the others send segments until the window is full, the *)
(* stream empty or the FIN sent.                                           *)
(***************************************************************************)
SendSyn(s) ==
  LET fin == Eof(s.stream)
  IN  [Transmit(s, [EmptySegment EXCEPT !.seqno = s.isn, !.syn = TRUE, !.fin = fin])
        EXCEPT !.window = 1, !.nextSeqno = 1 + One(fin), !.finSent = fin]

RoomAndOne(s) == s.acked + s.window + 1 - s.nextSeqno  \* faulty variant
Room(s) == s.acked + s.window - s.nextSeqno

FinWhenEmpty(s, stream, len) ==  \* faulty variant
  BufferEmpty(stream) /\ Room(s) > len

\* Whether the FIN goes with the last len bytes read, which leave the stream as
\* given: it needs room of its own.
FinGoes(s, stream, len) == Eof(stream) /\ Room(s) > len

\* One turn of the loop; no change when the loop would end.
FillOne(s) ==
  LET len    == Smaller(MaxPayload, Smaller(BufferSize(s.stream), Room(s)))
      stream == PopOutput(s.stream, len)
      fin    == FinGoes(s, stream, len)
      seg    == [EmptySegment EXCEPT !.seqno = NextSeqno(s), !.fin = fin,
                   !.payload = PeekOutput(s.stream, len)]
  IN  IF s.finSent \/ Room(s) <= 0 \/ (len = 0 /\ ~ fin) THEN s
      ELSE [Transmit(s, seg) EXCEPT !.stream = stream, !.finSent = fin,
              !.crtx = 0, !.nextSeqno = @ + len + One(fin)]

\* Every turn but the last takes a byte of the stream or sends the FIN.
FillWindow(s) ==
  LET turns == BufferSize(s.stream) + 1
      fill[n \in 0 .. turns] == IF n = 0 THEN s ELSE FillOne(fill[n - 1])
  IN  IF s.finSent THEN s
      ELSE IF s.window = NoWindow THEN SendSyn(s)
      ELSE fill[turns]
-----------------------------------------------------------------------------
AcknowledgedByStart(s, seg, acked) ==  \* faulty variant
  Unwrap(seg.seqno, s.isn, acked) <= acked

\* Whether a segment ends at or before the acknowledged position.
Acknowledged(s, seg, acked) ==
  Unwrap(seg.seqno, s.isn, acked) + LengthInSequenceSpace(seg) <= acked

Credible(s, acked) == acked <= s.nextSeqno /\ acked >= s.acked

(***************************************************************************)
(* ack_received(ackno, window_size): an acknowledgment of what was never   *)
(* sent, or older than the last, changes nothing; a new one resets the     *)
(* timeout and restarts every timer.  crtx is not touched.                 *)
(***************************************************************************)
AckReceived(s, ackno, win) ==
  LET acked == Unwrap(ackno, s.isn, s.acked)
      new   == acked > s.acked
      rto   == IF new THEN RetxTimeout ELSE s.rto
  IN  IF ~ Credible(s, acked) THEN s
      ELSE [s EXCEPT !.acked = acked, !.window = Larger(1, win),
              !.zeroWindow = (win = 0), !.rto = rto,
              !.outstanding =
                {[o EXCEPT !.left = IF new THEN rto ELSE @] :
                   o \in {o \in s.outstanding : ~ Acknowledged(s, o.seg, acked)}}]
-----------------------------------------------------------------------------
\* Of the segments whose time is up, the one with the lowest position.
Expired(s) == {o \in s.outstanding : o.left <= 0}

Newest(s) ==  \* faulty variant
  CHOOSE o \in Expired(s) :
    \A p \in Expired(s) : PositionOf(s, o.seg) >= PositionOf(s, p.seg)

Oldest(s) ==
  CHOOSE o \in Expired(s) :
    \A p \in Expired(s) : PositionOf(s, o.seg) <= PositionOf(s, p.seg)

RestartOldest(s, left) ==  \* faulty variant
  {IF o = Oldest(s) THEN [o EXCEPT !.left = left] ELSE o : o \in s.outstanding}
Restarted(s, left) == {[o EXCEPT !.left = left] : o \in s.outstanding}

\* The timers after ms milliseconds.
Elapse(s, ms) ==
  [s EXCEPT !.outstanding = {[o EXCEPT !.left = @ - ms] : o \in s.outstanding}]

(***************************************************************************)
(* The second half of tick: if any timer has run out the oldest of those   *)
(* segments is sent again and every timer restarts, doubled unless the     *)
(* peer's window is closed.                                                *)
(***************************************************************************)
Retransmit(s) ==
  LET rto == IF s.zeroWindow THEN s.rto ELSE (2 * s.rto) % UIntRange
  IN  IF Expired(s) = {} THEN s
      ELSE [s EXCEPT !.rto = rto, !.crtx = @ + 1,
              !.segmentsOut = Append(@, Oldest(s).seg),
              !.outstanding = Restarted(s, rto)]

TickSender(s, ms) == Retransmit(Elapse(s, ms))

SendEmptySegment(s) ==
  [s EXCEPT !.crtx = 0,
     !.segmentsOut = Append(@, [EmptySegment EXCEPT !.seqno = NextSeqno(s)])]
=============================================================================
