----------------------------- MODULE ByteStream -----------------------------
(***************************************************************************)
(* byte_stream.hh / byte_stream.cc: the flow-controlled in-memory stream.  *)
(* A ByteStream object is a record with the class's fields; a method that  *)
(* changes the object is an operator from the object to the object after   *)
(* the call, and what the method returns is an operator of its own.  A     *)
(* byte is any value: the users of this module name a byte by its place in *)
(* the stream, so that a lost, repeated or misplaced byte is visible.      *)
(*                                                                         *)
(* An operator marked "faulty variant", here and in the other modules, is  *)
(* what the definition after it would be after a plausible slip; the       *)
(* mutation runs put it in that definition's place.                        *)
(***************************************************************************)
EXTENDS Integers, Sequences

Smaller(a, b) == IF a <= b THEN a ELSE b   \* std::min
Larger(a, b) == IF a >= b THEN a ELSE b    \* std::max

ByteStreams(Byte) ==
  [cap : Nat, rem : Nat, totRead : Nat, totWrite : Nat,
   eof2 : BOOLEAN, error : BOOLEAN, buf : Seq(Byte)]

NewByteStream(capacity) ==
  [cap |-> capacity, rem |-> capacity, totRead |-> 0, totWrite |-> 0,
   eof2 |-> FALSE, error |-> FALSE, buf |-> <<>>]
-----------------------------------------------------------------------------
\* Accessors.
BufferSizeShortByOne(s) == s.cap - s.rem - 1  \* faulty variant
BufferSize(s) == s.cap - s.rem
BufferEmpty(s) == s.rem = s.cap
Eof(s) == BufferEmpty(s) /\ s.eof2
RemainingCapacity(s) == s.rem
InputEnded(s) == s.eof2

\* std::string::substr(0, len): the length is cut to what the string holds.
PeekOutput(s, len) == SubSeq(s.buf, 1, Smaller(len, Len(s.buf)))
-----------------------------------------------------------------------------
\* The return value of write(data), and the stream after it.  write does not
\* look at eof2.
Writable(s, data) == Smaller(Len(data), s.rem)

AcceptedFromTheEnd(s, data) ==  \* faulty variant
  SubSeq(data, Len(data) - Writable(s, data) + 1, Len(data))
Accepted(s, data) == SubSeq(data, 1, Writable(s, data))

Write(s, data) ==
  [s EXCEPT !.buf = @ \o Accepted(s, data),
            !.rem = @ - Writable(s, data),
            !.totWrite = @ + Writable(s, data)]

PopKeepsRoom(s, len) ==  \* faulty variant
  [s EXCEPT !.buf = SubSeq(@, Smaller(len, Len(@)) + 1, Len(@)),
            !.totRead = @ + len]

\* pop_output(len), also the effect of read(len): the erase is cut to what the
\* buffer holds, the counters are not.
PopOutput(s, len) ==
  [s EXCEPT !.buf = SubSeq(@, Smaller(len, Len(@)) + 1, Len(@)),
            !.rem = @ + len,
            !.totRead = @ + len]

EndInput(s) == [s EXCEPT !.eof2 = TRUE]
SetError(s) == [s EXCEPT !.error = TRUE]
=============================================================================
