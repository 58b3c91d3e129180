----------------------------- MODULE TCPSegment -----------------------------
(***************************************************************************)
(* tcp_segment.hh, tcp_header.hh: a segment as the two TCP halves see it.  *)
(* Ports, data offset, checksum and the flags nothing reads are left out.  *)
(***************************************************************************)
EXTENDS WrappingIntegers, Sequences

TCPSegments(Byte) ==
  [syn : BOOLEAN, ack : BOOLEAN, fin : BOOLEAN, rst : BOOLEAN,
   seqno : RawValues, ackno : RawValues, win : Nat, payload : Seq(Byte)]

\* A default-constructed TCPSegment.
EmptySegment ==
  [syn |-> FALSE, ack |-> FALSE, fin |-> FALSE, rst |-> FALSE,
   seqno |-> 0, ackno |-> 0, win |-> 0, payload |-> <<>>]

One(flag) == IF flag THEN 1 ELSE 0

\* length_in_sequence_space(): SYN and FIN each count for one.
LengthInSequenceSpace(seg) == Len(seg.payload) + One(seg.syn) + One(seg.fin)
=============================================================================
