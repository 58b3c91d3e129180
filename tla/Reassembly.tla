----------------------------- MODULE Reassembly -----------------------------
(***************************************************************************)
(* What a StreamReassembler does, with the interval tree of                *)
(* stream_reassembler.cc abstracted to the function from stream index to   *)
(* byte that it stores.  StreamReassembler.tla models the tree itself and  *)
(* is proved to implement this module.                                     *)
(***************************************************************************)
EXTENDS ByteStream, WrappingIntegers, FiniteSets

NoEof == SizeT(-1)   \* eof2 before any excerpt flagged as last has arrived

NewReassembler(capacity) ==
  [capacity |-> capacity, out |-> NewByteStream(capacity), unasb |-> 0,
   eof2 |-> NoEof, stored |-> <<>>]
\* The len bytes from index from of a stream whose byte number i is i itself.
Excerpt(from, len) == [k \in 1 .. len |-> from + k - 1]
-----------------------------------------------------------------------------
StreamOut(r) == r.out
FirstUnasb(r) == r.unasb
UnassembledBytes(r) == Cardinality(DOMAIN r.stored)

\* One past the last index there is room for.
Limit(r) == r.out.totRead + r.capacity

\* The first index in from .. to that is not covered (to itself never is).
FirstGap(from, to, covered) ==
  CHOOSE g \in from .. to :
    /\ g \notin covered
    /\ from .. g - 1 \subseteq covered
-----------------------------------------------------------------------------
(***************************************************************************)
(* push_substring(data, index, eof): keep the part of data inside the      *)
(* window that is not already stored, move what has become contiguous into *)
(* the output stream, and end the stream when it has reached the index     *)
(* remembered in eof2.                                                     *)
(***************************************************************************)
Fresh(r, data, index) ==
  Larger(r.unasb, index) .. Smaller(SizeT(index + Len(data)), Limit(r)) - 1

ByteOf(r, data, index, i) == data[i - index + 1]

Stored(r, data, index) ==
  [i \in DOMAIN r.stored \cup Fresh(r, data, index) |->
     IF i \in DOMAIN r.stored THEN r.stored[i] ELSE ByteOf(r, data, index, i)]

\* Move what has become contiguous to the output stream.
Assemble(r) ==
  LET next == FirstGap(r.unasb, Limit(r), DOMAIN r.stored)
  IN  [r EXCEPT
        !.out = Write(@, [k \in 1 .. next - r.unasb |-> r.stored[r.unasb + k - 1]]),
        !.unasb = next,
        !.stored = [i \in {j \in DOMAIN r.stored : j >= next} |-> r.stored[i]]]

EndIfReached(r) ==
  IF r.unasb = r.eof2
  THEN [r EXCEPT !.eof2 = NoEof, !.out = EndInput(@)]
  ELSE r

EndIfInOrder(r, data, index, eof) ==  \* faulty variant
  IF eof /\ index <= r.unasb THEN SizeT(index + Len(data)) ELSE r.eof2

\* eof2 after an excerpt.
EndAfter(r, data, index, eof) ==
  IF eof THEN SizeT(index + Len(data)) ELSE r.eof2

PushSubstring(r, data, index, eof) ==
  EndIfReached(Assemble([r EXCEPT !.eof2 = EndAfter(r, data, index, eof),
                                  !.stored = Stored(r, data, index)]))

\* The reader's side of the output stream.
ReadOut(r, n) == [r EXCEPT !.out = PopOutput(@, n)]
=============================================================================
