--------------------------- MODULE ReassemblySpec ---------------------------
(***************************************************************************)
(* A reassembler fed with excerpts of one stream of StreamLen bytes, in    *)
(* any order, overlapping, repeated and reaching beyond the window, while  *)
(* the application reads.  Byte number i of the stream is i itself.  This  *)
(* is what StreamReassemblerSpec is proved to implement, and to which its *)
(* properties belong; the constants are constrained there.                 *)
(***************************************************************************)
EXTENDS Reassembly

CONSTANTS
  Capacity,    \* constructor argument
  StreamLen,   \* bytes in the stream
  MaxExcerpt   \* longest excerpt

VARIABLES
  r,      \* the reassembler
  last    \* history: an excerpt flagged as the last one has been pushed

vars == <<r, last>>

Byte == 0 .. StreamLen - 1

Init ==
  /\ r = NewReassembler(Capacity)
  /\ last = FALSE

\* An excerpt that ends the stream is flagged so, or its FIN comes apart as an
\* empty flagged excerpt.
Push(from, len, eof) ==
  /\ from + len <= StreamLen
  /\ eof => from + len = StreamLen
  /\ r' = PushSubstring(r, Excerpt(from, len), from, eof)
  /\ last' = (last \/ eof)

PushAny ==
  \E from \in 0 .. StreamLen, len \in 0 .. MaxExcerpt, eof \in BOOLEAN :
    Push(from, len, eof)

Read ==
  \E n \in 1 .. BufferSize(StreamOut(r)) :
    /\ r' = ReadOut(r, n)
    /\ UNCHANGED last

Next == PushAny \/ Read

Spec == Init /\ [][Next]_vars
-----------------------------------------------------------------------------
\* Whatever the order of the excerpts, the reader is given the stream's bytes in
\* the stream's order, and a stored byte waits at its own index
\* (push_substring, stream_reassembler.cc:37-60).
InOrder ==
  /\ r.out.buf = Excerpt(r.out.totRead, r.unasb - r.out.totRead)
  /\ r.out.totWrite = r.unasb
  /\ \A i \in DOMAIN r.stored : r.stored[i] = i

\* Assembled but unread bytes and stored ones together stay within the capacity:
\* "this capacity limits both" (stream_reassembler.hh:33-34); and what is stored
\* lies strictly between the next byte wanted and the end of the window.
WithinCapacity ==
  /\ BufferSize(StreamOut(r)) + UnassembledBytes(r) <= Capacity
  /\ DOMAIN r.stored \subseteq r.unasb + 1 .. Limit(r) - 1

\* The output stream is ended exactly when the end has been announced and every
\* byte before it has been assembled, however far apart and in whatever order
\* the two happen (stream_reassembler.cc:27-36, 61-64).
EndedIffComplete ==
  InputEnded(StreamOut(r)) <=> last /\ r.unasb = StreamLen

\* Under retransmission the whole stream is delivered and ended.
Delivered == <>[](Eof(StreamOut(r)) /\ r.out.totRead = StreamLen)
=============================================================================
