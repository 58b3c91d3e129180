---------------------------- MODULE TCPReceiver ----------------------------
(***************************************************************************)
(* tcp_receiver.hh / tcp_receiver.cc: from inbound segments to excerpts,   *)
(* and from what has been assembled to the acknowledgment number.          *)
(***************************************************************************)
EXTENDS Reassembly, TCPSegment

LISTEN == 0
SYN_RECV == 1
FIN_RECV == 2

NoAckno == -1   \* the empty std::optional

NewReceiver(capacity) ==
  [reassembler |-> NewReassembler(capacity), isn |-> 0, cp |-> 0,
   status |-> LISTEN]

StreamIn(rcv) == rcv.reassembler.out
UnassembledIn(rcv) == UnassembledBytes(rcv.reassembler)
-----------------------------------------------------------------------------
(***************************************************************************)
(* segment_received(seg).  A SYN restarts the numbering and leaves cp; any *)
(* other segment moves cp, in LISTEN too, where the segment is then        *)
(* dropped.  status remembers the last of SYN and FIN to have been seen.   *)
(***************************************************************************)
IndexFromIsn(rcv, seg) ==  \* faulty variant
  SizeT(Unwrap(seg.seqno, rcv.isn, 0) - 1)
IndexExpected(rcv, seg) == rcv.reassembler.unasb  \* faulty variant
Index(rcv, seg) == SizeT(Unwrap(seg.seqno, rcv.isn, rcv.cp) - 1)

Place(rcv, seg) ==
  IF seg.syn
  THEN [rcv EXCEPT !.isn = seg.seqno, !.status = SYN_RECV]
  ELSE [rcv EXCEPT !.cp = Index(rcv, seg)]

Receive(rcv, seg) ==
  LET placed == Place(rcv, seg)
  IN  IF placed.status = LISTEN THEN placed
      ELSE [placed EXCEPT
             !.status = IF seg.fin THEN FIN_RECV ELSE @,
             !.reassembler = PushSubstring(@, seg.payload, placed.cp, seg.fin)]

AckPositionWithoutFin(rcv) == rcv.reassembler.unasb + SYN_RECV  \* faulty variant

\* ackno(), as a 64-bit position and as the wrapped number in the header.
AckPosition(rcv) ==
  rcv.reassembler.unasb +
    (IF UnassembledIn(rcv) = 0 THEN rcv.status ELSE SYN_RECV)

Ackno(rcv) ==
  IF rcv.status = LISTEN THEN NoAckno ELSE Wrap(AckPosition(rcv), rcv.isn)

HasAckno(rcv) == Ackno(rcv) # NoAckno

\* window_size(): nothing in src/ but the tests calls it.
WindowSize(rcv) == rcv.reassembler.capacity - BufferSize(StreamIn(rcv))

ReadIn(rcv, n) == [rcv EXCEPT !.reassembler = ReadOut(@, n)]
=============================================================================
