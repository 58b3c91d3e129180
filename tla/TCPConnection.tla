--------------------------- MODULE TCPConnection ---------------------------
(***************************************************************************)
(* tcp_connection.hh / tcp_connection.cc: a sender and a receiver joined   *)
(* into a TCP endpoint.  The code keeps the clock tnow and the time of the *)
(* last segment sent; only their difference is read, held here in idle and *)
(* counted no further than the linger time.  finreceived and tlast, which  *)
(* no method acts on, are left out.                                        *)
(***************************************************************************)
EXTENDS TCPReceiver, TCPSender

CONSTANTS
  RecvCapacity,      \* cfg.recv_capacity
  SendCapacity,      \* cfg.send_capacity
  UInt16Max,         \* UINT16_MAX, the largest window a header can hold
  LingerFactor,      \* 10: the linger time, in retransmission timeouts
  MaxRetxAttempts    \* TCPConfig::MAX_RETX_ATTEMPTS

ASSUME ConnectionAssumption ==
  {RecvCapacity, SendCapacity, UInt16Max, LingerFactor, MaxRetxAttempts} \subseteq Nat

LingerTime == LingerFactor * RetxTimeout

NewConnection(isn) ==
  [sender |-> NewSender(isn, SendCapacity), receiver |-> NewReceiver(RecvCapacity),
   linger |-> TRUE, active2 |-> TRUE, finsent |-> FALSE, idle |-> 0,
   segmentsOut |-> <<>>]

Outbound(c) == c.sender.stream
Inbound(c) == StreamIn(c.receiver)
Active(c) == c.active2

OutboundRead(c) == Eof(Outbound(c))  \* faulty variant

\* Everything written has been read by the sender and acknowledged by the peer.
OutboundDone(c) == Eof(Outbound(c)) /\ BytesInFlight(c.sender) = 0

\* Neither a SYN sent (or nothing of it in flight) nor one received.
Untouched(c) ==
  /\ BytesInFlight(c.sender) = 0
  /\ ~ Eof(Outbound(c))
  /\ ~ HasAckno(c.receiver)
-----------------------------------------------------------------------------
\* The header fields the receiver supplies.  The window is the configured
\* capacity, not the receiver's window_size().
Stamp(c, seg) ==
  [seg EXCEPT
    !.ack = HasAckno(c.receiver),
    !.ackno = IF HasAckno(c.receiver) THEN Ackno(c.receiver) ELSE @,
    !.win = Smaller(RecvCapacity, UInt16Max)]

\* fill_window_and_send().
FillWindowAndSend(c) ==
  LET sender == FillWindow(c.sender)
      sent   == sender.segmentsOut
  IN  [c EXCEPT
        !.sender = [sender EXCEPT !.segmentsOut = <<>>],
        !.segmentsOut = @ \o [i \in DOMAIN sent |-> Stamp(c, sent[i])],
        !.idle = IF sent = <<>> THEN @ ELSE 0,
        !.finsent = @ \/ \E i \in DOMAIN sent : sent[i].fin]

\* Its return value.
SegmentsSent(c) == Len(FillWindow(c.sender).segmentsOut)

WithError(c) ==
  [c EXCEPT !.sender.stream = SetError(@),
            !.receiver.reassembler.out = SetError(@)]

\* sendRST(): the segment marked is the front of the sender's queue.
SendRST(c) ==
  LET queue == SendEmptySegment(c.sender).segmentsOut
      reset == [c EXCEPT !.active2 = FALSE,
                  !.sender = [SendEmptySegment(@) EXCEPT !.segmentsOut = Tail(queue)],
                  !.segmentsOut = Append(@, [Head(queue) EXCEPT !.rst = TRUE])]
  IN  WithError(reset)
-----------------------------------------------------------------------------
(***************************************************************************)
(* segment_received(seg), step by step.                                    *)
(***************************************************************************)
\* The other side has closed first, all that was sent is acknowledged, and the
\* segment confirms it.
ConfirmsPassiveClose(c, seg) ==
  /\ ~ c.linger
  /\ OutboundDone(c)
  /\ seg.ack
  /\ seg.ackno = NextSeqno(c.sender)

AcceptsReset(c, seg) ==
  seg.rst /\ (HasAckno(c.receiver) => seg.seqno = Ackno(c.receiver))

NoteFinAlways(c, seg) ==  \* faulty variant
  IF seg.fin THEN [c EXCEPT !.linger = FALSE] ELSE c

\* A FIN before this side has sent its own turns the lingering off.
NoteFin(c, seg) ==
  IF seg.fin /\ ~ c.finsent THEN [c EXCEPT !.linger = FALSE] ELSE c

Absorb(c, seg) ==
  [c EXCEPT
    !.receiver = Receive(@, seg),
    !.sender = IF seg.ack THEN AckReceived(@, seg.ackno, seg.win) ELSE @]

OwesAckForData(seg) == seg.payload # <<>>  \* faulty variant
OwesAck(seg) == LengthInSequenceSpace(seg) > 0

\* Send what the window now allows, or else an empty ACK if one is owed.
Respond(c, seg) ==
  IF SegmentsSent(c) = 0 /\ OwesAck(seg)
  THEN FillWindowAndSend([c EXCEPT !.sender = SendEmptySegment(@)])
  ELSE FillWindowAndSend(c)

CloseIfDone(c, seg) ==
  IF ~ c.linger /\ OutboundDone(c) /\ seg.ack
  THEN [c EXCEPT !.active2 = FALSE]
  ELSE c

SegmentReceived(c, seg) ==
  IF ~ Active(c) \/ (Untouched(c) /\ ~ seg.syn) THEN c
  ELSE
    LET confirmed == [c EXCEPT !.active2 = @ /\ ~ ConfirmsPassiveClose(c, seg)]
    IN  IF AcceptsReset(c, seg)
        THEN WithError([c EXCEPT !.active2 = FALSE])
        ELSE CloseIfDone(Respond(Absorb(NoteFin(confirmed, seg), seg), seg), seg)
-----------------------------------------------------------------------------
ConnectionWrite(c, data) ==
  IF ~ Active(c) THEN c
  ELSE FillWindowAndSend([c EXCEPT !.sender.stream = Write(@, data)])

EndInputStream(c) ==
  IF ~ Active(c) THEN c
  ELSE FillWindowAndSend([c EXCEPT !.sender.stream = EndInput(@)])

Connect(c) == FillWindowAndSend(c)

ConnectionRead(c, n) == [c EXCEPT !.receiver = ReadIn(@, n)]

\* Nothing sent for the linger time since all that was written is acknowledged.
LingeredOut(c) == OutboundDone(c) /\ c.idle >= LingerTime

\* Too many retransmissions in a row.
GivesUp(c) == c.sender.crtx > MaxRetxAttempts

TickConnection(c, ms) ==
  LET later  == [c EXCEPT !.idle = Smaller(@ + ms, LingerTime)]
      timed  == IF LingeredOut(later)
                THEN [later EXCEPT !.linger = FALSE, !.active2 = FALSE] ELSE later
      ticked == [timed EXCEPT !.sender = TickSender(@, ms)]
  IN  IF ~ Active(c) \/ Untouched(c) THEN c
      ELSE IF GivesUp(ticked) THEN SendRST(ticked)
      ELSE FillWindowAndSend(ticked)
=============================================================================
