-------------------------- MODULE WrappingIntegers --------------------------
(***************************************************************************)
(* wrapping_integers.hh / wrapping_integers.cc: 32-bit sequence numbers    *)
(* that wrap, and their conversion to and from 64-bit absolute ones.       *)
(* The two widths are constants, so that TLC can put every boundary inside *)
(* a small instance.                                                       *)
(***************************************************************************)
EXTENDS Integers

CONSTANTS
  Round,  \* 2^32, the number of WrappingInt32 values
  Word    \* 2^64, the number of size_t / uint64_t values

\* The widths of the code are 2^32 and 2^64; all that is used of them is that
\* the wide type holds several rounds of the narrow one.
ASSUME WidthAssumption ==
  /\ Round \in Nat \ {0, 1}
  /\ Word \in Nat
  /\ Word >= 4 * Round

RawValues == 0 .. Round - 1   \* WrappingInt32
SizeTs == 0 .. Word - 1       \* size_t, uint64_t

\* Unsigned 64-bit result of one addition or subtraction of two size_t values.
SizeT(x) ==
  IF x >= Word THEN x - Word
  ELSE IF x < 0 THEN x + Word
  ELSE x

\* wrap(n, isn): where the absolute sequence number n falls in the 32-bit space.
Wrap(n, isn) == ((n % Round) + isn) % Round

(***************************************************************************)
(* unwrap(n, isn, checkpoint): the number that wraps to n, reached from    *)
(* the checkpoint (which wraps to w) by Forward steps up or Back steps     *)
(* down.  The code branches on w <= n; the two branches break ties         *)
(* differently and test "is there room to go back" differently.            *)
(***************************************************************************)
Forward(n, w) == IF w <= n THEN n - w ELSE Round + n - w
Back(n, w) == Round - Forward(n, w)

ForwardIsNearer(n, w) ==
  IF w <= n THEN Forward(n, w) < Back(n, w) ELSE Forward(n, w) <= Back(n, w)

AlwaysRoomBack(n, w, checkpoint) == FALSE  \* faulty variant

NoRoomBack(n, w, checkpoint) ==
  IF w <= n THEN checkpoint < Back(n, w)
  ELSE SizeT(checkpoint + Round) < Back(n, w) + Round

Unwrap(n, isn, checkpoint) ==
  LET w == Wrap(checkpoint, isn)
  IN  IF ForwardIsNearer(n, w) \/ NoRoomBack(n, w, checkpoint)
      THEN SizeT(checkpoint + Forward(n, w))
      ELSE checkpoint - Back(n, w)
=============================================================================
