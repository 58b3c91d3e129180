-------------------------- MODULE TCPReceiverSpec --------------------------
(***************************************************************************)
(* A receiver and the segments of one peer stream, which the network may   *)
(* repeat, drop and reorder.  The constants say which of the awkward       *)
(* arrivals the network produces; every other order is always possible.    *)
(***************************************************************************)
EXTENDS TCPReceiver

CONSTANTS
  Capacity,       \* constructor argument
  PeerIsn,        \* the peer's initial sequence number
  StreamLen,      \* bytes in the peer's stream
  MaxSegment,     \* longest payload
  Lag,            \* how far behind the window a delayed segment may be
  EarlyFin,       \* a FIN may overtake data it follows in the stream
  LateSyn,        \* a repeated SYN may arrive after the FIN
  AckBeforeSyn    \* an empty ACK may overtake the SYN (its SYN-ACK was lost)

ASSUME ReceiverAssumption ==
  /\ Capacity \in Nat /\ StreamLen \in Nat /\ MaxSegment \in Nat /\ Lag \in Nat
  /\ PeerIsn \in RawValues
  /\ 2 * (Lag + 2 * Capacity + 2) < Round   \* no segment is half a round old
  /\ StreamLen + Capacity < Word - 1
  /\ {EarlyFin, LateSyn, AckBeforeSyn} \subseteq BOOLEAN

VARIABLES
  rcv,   \* the TCPReceiver
  got,   \* history: the peer's sequence positions the receiver has taken in
  at,    \* history: the stream index the last data segment started at
  late   \* history: a SYN has arrived after the FIN

vars == <<rcv, got, at, late>>

\* The peer's sequence space: the SYN, the bytes, the FIN.
FinPosition == StreamLen + 1
Positions == 0 .. FinPosition
Byte == 0 .. StreamLen - 1

\* The segment with the len bytes from index from, and the FIN if fin.
DataSegment(from, len, fin) ==
  [EmptySegment EXCEPT !.ack = TRUE, !.fin = fin,
     !.seqno = Wrap(from + 1, PeerIsn), !.payload = Excerpt(from, len)]

SynSegment ==
  [EmptySegment EXCEPT !.syn = TRUE, !.fin = (StreamLen = 0), !.seqno = PeerIsn]

Init ==
  /\ rcv = NewReceiver(Capacity)
  /\ got = {}
  /\ at = 0
  /\ late = FALSE

Syn ==
  /\ FinPosition \in got => LateSyn
  /\ late' = (late \/ FinPosition \in got)
  /\ rcv' = Receive(rcv, SynSegment)
  /\ got' = got \cup {0} \cup (IF SynSegment.fin THEN {FinPosition} ELSE {})
  /\ UNCHANGED at

\* Data in the window is taken in, the part beyond it is cut off.
Data ==
  \E from \in 0 .. StreamLen, len \in 0 .. MaxSegment, fin \in BOOLEAN :
    /\ 0 \in got
    /\ from + len <= StreamLen
    /\ from \in FirstUnasb(rcv.reassembler) - Lag .. Limit(rcv.reassembler)
    /\ fin => /\ from + len = StreamLen
              /\ EarlyFin \/ /\ 1 .. from \subseteq got
                             /\ StreamLen <= Limit(rcv.reassembler)
    /\ rcv' = Receive(rcv, DataSegment(from, len, fin))
    /\ got' = got \cup {i + 1 : i \in {j \in from .. from + len - 1 :
                                         j < Limit(rcv.reassembler)}}
                  \cup (IF fin THEN {FinPosition} ELSE {})
    /\ at' = from
    /\ UNCHANGED late

\* An empty segment before the SYN: dropped, for the receiver is in LISTEN.
StrayAck ==
  /\ AckBeforeSyn
  /\ 0 \notin got
  /\ rcv' = Receive(rcv, DataSegment(0, 0, FALSE))
  /\ UNCHANGED <<got, at, late>>

Read ==
  \E n \in 1 .. BufferSize(StreamIn(rcv)) :
    /\ rcv' = ReadIn(rcv, n)
    /\ UNCHANGED <<got, at, late>>

Next == Syn \/ Data \/ StrayAck \/ Read

Spec == Init /\ [][Next]_vars
-----------------------------------------------------------------------------
\* The wrapped numbers of the segments are placed where the peer meant them: the
\* stream read is the stream sent, byte by byte, whatever wraps in between
\* (tcp_receiver.cc:13-31).
InOrder ==
  /\ StreamIn(rcv).buf =
       Excerpt(StreamIn(rcv).totRead, BufferSize(StreamIn(rcv)))
  /\ \A i \in DOMAIN rcv.reassembler.stored : rcv.reassembler.stored[i] = i

\* cp is "last received absolute sequence number" (tcp_receiver.hh:26), held as
\* an index: once data has come it is where the last segment started, over any
\* number of wraps.
CheckpointExact == got \ {0} # {} => rcv.cp = at

\* The ackno is "the sequence number of the first byte in the stream that the
\* receiver hasn't received" (tcp_receiver.hh:45-46): everything before it has
\* been taken in and it has not.
AckAlwaysExact ==
  0 \in got =>
    /\ 0 .. AckPosition(rcv) - 1 \subseteq got
    /\ AckPosition(rcv) \notin got

\* So it is in ackno() (tcp_receiver.cc:33-46) unless the FIN has overtaken data
\* that is still missing or a SYN has come after the FIN; and it is so again once
\* the missing data has arrived.
AckExact ==
  ~ late /\ (FinPosition \in got => Positions \subseteq got) => AckAlwaysExact

\* Whatever wrapped number arrives next, unwrap places it at a 64-bit position
\* that wraps to it, and at none farther from the checkpoint than another such:
\* the promise of wrapping_integers.hh:28-30, at every checkpoint the connection
\* reaches.
UnwrapIsNearest ==
  \A n \in RawValues :
    LET u == Unwrap(n, rcv.isn, rcv.cp)
    IN  /\ u \in SizeTs
        /\ Wrap(u, rcv.isn) = n
        /\ \A v \in SizeTs : Wrap(v, rcv.isn) = n =>
             Larger(u - rcv.cp, rcv.cp - u) <= Larger(v - rcv.cp, rcv.cp - v)

\* Even where the ackno runs ahead, it covers the FIN only when the whole
\* stream has been assembled and ended, so that a peer whose FIN is
\* acknowledged has had its stream delivered (tcp_receiver.cc:38-43).
FinAckedOnlyWhenComplete ==
  0 \in got /\ AckPosition(rcv) > FinPosition =>
    /\ InputEnded(StreamIn(rcv))
    /\ rcv.reassembler.unasb = StreamLen
=============================================================================
