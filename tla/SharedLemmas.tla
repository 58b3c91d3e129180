---------------------------- MODULE SharedLemmas ----------------------------
(***************************************************************************)
(* What the operators that several components share do.  wrap and unwrap,  *)
(* for every pair of widths: unwrap recovers the position nearest to the   *)
(* checkpoint, hence any position less than half a round away from it.     *)
(* The methods of Reassembly, whatever the capacity and the stream: each   *)
(* keeps a sound reassembler sound; byte number i of the stream is i       *)
(* itself.                                                                 *)
(***************************************************************************)
EXTENDS Reassembly, FiniteSetTheorems, WellFoundedInduction, TLAPS

\* The quotient and the remainder determine a number.
LEMMA DivMod ==
  ASSUME NEW x \in Int, NEW m \in Nat \ {0}
  PROVE  /\ x = (x \div m) * m + (x % m)
         /\ x \div m \in Int
         /\ x % m \in 0 .. m - 1
  BY SMTT(20)

\* A multiple of m that is less than m either way is zero.
LEMMA SmallMultiple ==
  ASSUME NEW m \in Nat \ {0}, NEW q \in Int, q * m < m, q * m > -m
  PROVE  q = 0
  BY SMTT(20)

\* A multiple of m is at least m, zero or at most -m.
LEMMA Multiples ==
  ASSUME NEW m \in Nat \ {0}, NEW q \in Int
  PROVE  /\ q * m \in Int
         /\ q >= 0 => q * m >= 0
         /\ q < 0 => q * m <= -m
  BY SMTT(20)

\* The remainder of the sum of two remainders.
LEMMA ModSum ==
  ASSUME NEW m \in Nat \ {0}, NEW a \in 0 .. m - 1, NEW b \in 0 .. m - 1
  PROVE  (a + b) % m = IF a + b < m THEN a + b ELSE a + b - m
  BY SMTT(20)

\* A position and the number it wraps to differ by the initial sequence number
\* and a whole number of rounds.
LEMMA WrapRounds ==
  ASSUME NEW x \in Int, NEW isn \in RawValues
  PROVE  /\ Wrap(x, isn) \in RawValues
         /\ \E k \in Int : x + isn = k * Round + Wrap(x, isn)
<1> DEFINE c == x % Round
           q == x \div Round
<1>1. x = q * Round + c /\ q \in Int /\ c \in 0 .. Round - 1
  BY DivMod, WidthAssumption
<1>2. isn \in 0 .. Round - 1 /\ Round \in Nat \ {0}
  BY WidthAssumption DEF RawValues
<1>3. Wrap(x, isn) = IF c + isn < Round THEN c + isn ELSE c + isn - Round
  BY <1>1, <1>2, ModSum DEF Wrap
<1> HIDE DEF c, q
<1>4. (q + 1) * Round = q * Round + Round /\ q * Round \in Int
  BY <1>1, <1>2, SMTT(20)
<1>5. CASE c + isn < Round
  <2>1. Wrap(x, isn) \in RawValues /\ x + isn = q * Round + Wrap(x, isn)
    BY ONLY <1>1, <1>2, <1>3, <1>4, <1>5 DEF RawValues
  <2> QED
    BY <1>1, <2>1
<1>6. CASE ~ (c + isn < Round)
  <2>1. Wrap(x, isn) \in RawValues /\ x + isn = (q + 1) * Round + Wrap(x, isn)
    BY ONLY <1>1, <1>2, <1>3, <1>4, <1>6 DEF RawValues
  <2>2. q + 1 \in Int
    BY <1>1
  <2> QED
    BY <2>1, <2>2
<1> QED
  BY <1>5, <1>6

\* Two positions are as far apart as their numbers, up to whole rounds.
LEMMA WrapDistance ==
  ASSUME NEW x \in Int, NEW y \in Int, NEW isn \in RawValues
  PROVE  \E j \in Int : y - x = j * Round + (Wrap(y, isn) - Wrap(x, isn))
<1>1. PICK k \in Int : x + isn = k * Round + Wrap(x, isn)
  BY WrapRounds
<1>2. PICK l \in Int : y + isn = l * Round + Wrap(y, isn)
  BY WrapRounds
<1>3. (l - k) * Round = l * Round - k * Round
  BY WidthAssumption, SMTT(20)
<1>4. /\ isn \in Int /\ Wrap(x, isn) \in Int /\ Wrap(y, isn) \in Int
      /\ l * Round \in Int /\ k * Round \in Int
  <2>1. Wrap(x, isn) \in RawValues /\ Wrap(y, isn) \in RawValues
    BY WrapRounds
  <2> QED
    BY <2>1, WidthAssumption DEF RawValues
<1>5. y - x = (l - k) * Round + (Wrap(y, isn) - Wrap(x, isn))
  BY ONLY <1>1, <1>2, <1>3, <1>4, x \in Int, y \in Int
<1>6. l - k \in Int
  OBVIOUS
<1> QED
  BY <1>5, <1>6

\* Positions whose distance is that of two numbers up to a round wrap to them.
LEMMA WrapShift ==
  ASSUME NEW x \in Int, NEW y \in Int, NEW isn \in RawValues, NEW n \in RawValues,
         \/ y - x = n - Wrap(x, isn)
         \/ y - x = n - Wrap(x, isn) + Round
         \/ y - x = n - Wrap(x, isn) - Round
  PROVE  Wrap(y, isn) = n
<1>1. PICK j \in Int : y - x = j * Round + (Wrap(y, isn) - Wrap(x, isn))
  BY WrapDistance
<1>2. /\ Wrap(y, isn) \in 0 .. Round - 1 /\ Wrap(x, isn) \in 0 .. Round - 1
      /\ n \in 0 .. Round - 1 /\ Round \in Nat \ {0}
  BY WrapRounds, WidthAssumption DEF RawValues
<1>3. /\ j * Round \in Int
      /\ (j - 1) * Round = j * Round - Round /\ (j + 1) * Round = j * Round + Round
  BY <1>2, SMTT(20)
<1>4. PICK i \in {j, j - 1, j + 1} : i * Round = n - Wrap(y, isn)
  BY <1>1, <1>2, <1>3
<1>5. i \in Int
  OBVIOUS
<1>6. i = 0
  BY <1>2, <1>4, <1>5, SmallMultiple
<1>7. 0 * Round = 0
  BY <1>2
<1> QED
  BY ONLY <1>2, <1>4, <1>6, <1>7
-----------------------------------------------------------------------------
\* How far two positions are apart.
Distance(x, y) == IF x >= y THEN x - y ELSE y - x

\* Any position that wraps to n is at least Forward above the checkpoint or at
\* least Back below it.
LEMMA EitherSide ==
  ASSUME NEW isn \in RawValues, NEW n \in RawValues, NEW cp \in Int, NEW v \in Int,
         Wrap(v, isn) = n
  PROVE  \/ v >= cp + Forward(n, Wrap(cp, isn))
         \/ v <= cp - Back(n, Wrap(cp, isn))
<1> DEFINE w == Wrap(cp, isn)
           f == Forward(n, w)
<1>1. PICK j \in Int : v - cp = j * Round + (n - w)
  BY WrapDistance
<1>2. /\ w \in 0 .. Round - 1 /\ n \in 0 .. Round - 1 /\ Round \in Nat \ {0}
  BY WrapRounds, WidthAssumption DEF RawValues
<1>3. f \in 0 .. Round - 1 /\ (n - w = f \/ n - w = f - Round)
  BY <1>2 DEF Forward
<1> HIDE DEF f, w
<1>4. j * Round \in Int /\ (j - 1) * Round = j * Round - Round
  BY <1>2, SMTT(20)
<1>5. PICK i \in {j, j - 1} : v - cp = i * Round + f
  BY <1>1, <1>2, <1>3, <1>4
<1>6. i \in Int
  OBVIOUS
<1>7. i * Round \in Int /\ (i >= 0 => i * Round >= 0) /\ (i < 0 => i * Round <= -Round)
  BY <1>2, <1>6, Multiples
<1>8. CASE i >= 0
  <2>1. v >= cp + f
    BY ONLY <1>3, <1>5, <1>7, <1>8, cp \in Int, v \in Int
  <2> QED
    BY <2>1 DEF f, w
<1>9. CASE i < 0
  <2>1. v <= cp - (Round - f)
    BY ONLY <1>2, <1>3, <1>5, <1>7, <1>9, cp \in Int, v \in Int
  <2> QED
    BY <2>1 DEF f, w, Back
<1> QED
  BY <1>6, <1>8, <1>9

\* What unwrap returns is a position that wraps to n, and none is nearer to the
\* checkpoint (wrapping_integers.hh:28-30).
THEOREM UnwrapNearest ==
  ASSUME NEW isn \in RawValues, NEW n \in RawValues, NEW cp \in Nat,
         cp + 2 * Round <= Word
  PROVE  LET u == Unwrap(n, isn, cp)
         IN  /\ u \in SizeTs
             /\ Wrap(u, isn) = n
             /\ \A v \in Nat : Wrap(v, isn) = n => Distance(u, cp) <= Distance(v, cp)
<1> DEFINE w == Wrap(cp, isn)
           f == Forward(n, w)
           b == Back(n, w)
           u == Unwrap(n, isn, cp)
<1>1. /\ w \in 0 .. Round - 1 /\ n \in 0 .. Round - 1 /\ Round \in Nat \ {0, 1}
      /\ Word \in Nat
  BY WrapRounds, WidthAssumption DEF RawValues
<1>2. /\ f \in 0 .. Round - 1 /\ b = Round - f /\ b \in 1 .. Round
      /\ f = n - w \/ f = n - w + Round
  BY <1>1 DEF Forward, Back
<1>3. SizeT(cp + f) = cp + f /\ SizeT(cp + Round) = cp + Round
  BY ONLY <1>1, <1>2, cp \in Nat, cp + 2 * Round <= Word DEF SizeT
<1>4. NoRoomBack(n, w, cp) <=> cp < b
  BY ONLY <1>1, <1>2, <1>3, cp \in Nat DEF NoRoomBack
<1>5. /\ ForwardIsNearer(n, w) => f <= b
      /\ ~ ForwardIsNearer(n, w) => b <= f
  BY ONLY <1>1, <1>2 DEF ForwardIsNearer
<1>6. u = IF ForwardIsNearer(n, w) \/ NoRoomBack(n, w, cp) THEN cp + f ELSE cp - b
  BY <1>3 DEF Unwrap
<1> HIDE DEF u, f, b
<1>7. \A v \in Nat : Wrap(v, isn) = n => v >= cp + f \/ v <= cp - b
  BY EitherSide DEF f, b
<1> HIDE DEF w
<1>8. CASE ForwardIsNearer(n, w) \/ NoRoomBack(n, w, cp)
  <2>1. u = cp + f /\ u \in SizeTs /\ u \in Int
    BY ONLY <1>1, <1>2, <1>6, <1>8, cp \in Nat, cp + 2 * Round <= Word DEF SizeTs
  <2>2. Wrap(u, isn) = n
    <3>1. u - cp = n - Wrap(cp, isn) \/ u - cp = n - Wrap(cp, isn) + Round
      BY ONLY <1>1, <1>2, <2>1, cp \in Nat DEF w
    <3> QED
      BY <2>1, <3>1, WrapShift
  <2>3. \A v \in Nat : Wrap(v, isn) = n => Distance(u, cp) <= Distance(v, cp)
    BY ONLY <1>2, <1>4, <1>5, <1>7, <1>8, <2>1, cp \in Nat DEF Distance
  <2> QED
    BY <2>1, <2>2, <2>3 DEF u
<1>9. CASE ~ (ForwardIsNearer(n, w) \/ NoRoomBack(n, w, cp))
  <2>1. u = cp - b /\ u \in SizeTs /\ u \in Int /\ cp >= b
    BY ONLY <1>1, <1>2, <1>4, <1>6, <1>9, cp \in Nat, cp + 2 * Round <= Word DEF SizeTs
  <2>2. Wrap(u, isn) = n
    <3>1. u - cp = n - Wrap(cp, isn) \/ u - cp = n - Wrap(cp, isn) - Round
      BY ONLY <1>1, <1>2, <2>1, cp \in Nat DEF w
    <3> QED
      BY <2>1, <3>1, WrapShift
  <2>3. \A v \in Nat : Wrap(v, isn) = n => Distance(u, cp) <= Distance(v, cp)
    BY ONLY <1>2, <1>4, <1>5, <1>7, <1>9, <2>1, cp \in Nat DEF Distance
  <2> QED
    BY <2>1, <2>2, <2>3 DEF u
<1> QED
  BY <1>8, <1>9

\* A position less than half a round from the checkpoint survives the way through
\* the header (wrapping_integers.cc:18-23, 35-65).
THEOREM UnwrapInvertsWrap ==
  ASSUME NEW isn \in RawValues, NEW x \in Nat, NEW cp \in Nat,
         cp + 2 * Round <= Word, 2 * Distance(x, cp) < Round
  PROVE  Unwrap(Wrap(x, isn), isn, cp) = x
<1> DEFINE n == Wrap(x, isn)
           u == Unwrap(n, isn, cp)
<1>1. n \in RawValues
  BY WrapRounds
<1>2. /\ u \in SizeTs /\ Wrap(u, isn) = n
      /\ Distance(u, cp) <= Distance(x, cp)
  BY <1>1, UnwrapNearest
<1> HIDE DEF u
<1>3. u \in Int /\ x \in Int /\ Round \in Nat \ {0}
  BY <1>2, WidthAssumption DEF SizeTs
<1>4. PICK j \in Int : x - u = j * Round + (Wrap(x, isn) - Wrap(u, isn))
  BY ONLY <1>3, isn \in RawValues, WrapDistance
<1>5. n \in Int /\ j * Round \in Int
  BY <1>1, <1>3, WidthAssumption, SMTT(20) DEF RawValues
<1>6. x - u = j * Round
  BY ONLY <1>2, <1>4, <1>5
<1>7. j * Round < Round /\ j * Round > -Round
  BY ONLY <1>2, <1>3, <1>6, x \in Nat, cp \in Nat, 2 * Distance(x, cp) < Round DEF Distance
<1>8. j = 0
  BY ONLY <1>3, <1>7, SmallMultiple, j \in Int
<1>9. x - u = 0
  BY ONLY <1>3, <1>6, <1>8
<1> QED
  BY ONLY <1>3, <1>9, x \in Nat DEF u
-----------------------------------------------------------------------------
\* A set of natural numbers that is not empty has a least element.
LEMMA LeastElement ==
  ASSUME NEW T \in SUBSET Nat, T # {}
  PROVE  \E x \in T : \A y \in T : x <= y
<1> DEFINE R == OpToRel(<, Nat)
<1>1. \E x \in T : \A y \in T : ~ (<<y, x>> \in R)
  <2> HIDE DEF R
  <2>1. IsWellFoundedOn(R, Nat)
    BY NatLessThanWellFounded DEF R
  <2> QED
    BY <2>1, WFMin
<1>2. PICK x \in T : \A y \in T : ~ (<<y, x>> \in R)
  BY <1>1
<1>3. \A y \in T : x <= y
  <2> SUFFICES ASSUME NEW y \in T PROVE x <= y
    OBVIOUS
  <2>1. ~ (<<y, x>> \in R)
    BY <1>2
  <2>2. ~ (y < x)
    BY <2>1 DEF OpToRel
  <2> QED
    BY <2>2
<1> QED
  BY <1>3

\* A set with 0 and the successor of each of its numbers has every number.
LEMMA EveryNumber ==
  ASSUME NEW P, 0 \in P, \A k \in Nat : k \in P => k + 1 \in P
  PROVE  \A n \in Nat : n \in P
<1> DEFINE T == Nat \ P
<1>1. SUFFICES ASSUME T # {} PROVE FALSE
  OBVIOUS
<1>2. PICK x \in T : \A y \in T : x <= y
  BY <1>1, LeastElement
<1>3. x \in Nat /\ x # 0 /\ x \notin P
  BY <1>2
<1>4. x - 1 \in Nat /\ (x - 1) + 1 = x /\ ~ (x <= x - 1)
  BY <1>3
<1>5. x - 1 \in P
  BY <1>2, <1>4
<1> QED
  BY <1>3, <1>4, <1>5

\* What FirstGap chooses exists: to itself is never covered.
LEMMA FirstGapExists ==
  ASSUME NEW from \in Nat, NEW to \in Nat, from <= to,
         NEW covered, to \notin covered
  PROVE  /\ FirstGap(from, to, covered) \in from .. to
         /\ FirstGap(from, to, covered) \notin covered
         /\ from .. FirstGap(from, to, covered) - 1 \subseteq covered
<1> DEFINE T == {i \in from .. to : i \notin covered}
<1>1. T \in SUBSET Nat /\ T # {}
  <2>1. to \in T
    OBVIOUS
  <2> QED
    BY <2>1
<1>2. PICK x \in T : \A y \in T : x <= y
  BY <1>1, LeastElement
<1>3. x \in from .. to /\ x \notin covered
  OBVIOUS
<1>4. from .. x - 1 \subseteq covered
  <2> SUFFICES ASSUME NEW i \in from .. x - 1, i \notin covered PROVE FALSE
    OBVIOUS
  <2>1. i \in T /\ i < x
    BY <1>3
  <2> QED
    BY <1>2, <2>1, <1>3
<1> QED
  BY <1>3, <1>4 DEF FirstGap
-----------------------------------------------------------------------------
\* An excerpt is a sequence of its length.
LEMMA ExcerptIsSeq ==
  ASSUME NEW a \in Nat, NEW n \in Nat
  PROVE  Excerpt(a, n) \in Seq(Nat) /\ Len(Excerpt(a, n)) = n
  BY DEF Excerpt

\* Two adjoining excerpts make one.
LEMMA ExcerptConcat ==
  ASSUME NEW a \in Nat, NEW m \in Nat, NEW n \in Nat
  PROVE  Excerpt(a, m) \o Excerpt(a + m, n) = Excerpt(a, m + n)
  BY DEF Excerpt

\* The first j bytes of an excerpt, and the rest.
LEMMA ExcerptSplit ==
  ASSUME NEW a \in Nat, NEW n \in Nat, NEW j \in 0 .. n
  PROVE  /\ SubSeq(Excerpt(a, n), 1, j) = Excerpt(a, j)
         /\ SubSeq(Excerpt(a, n), j + 1, n) = Excerpt(a + j, n - j)
  BY DEF Excerpt
-----------------------------------------------------------------------------
Streams(cap) ==
  [cap : {cap}, rem : 0 .. cap, totRead : Nat, totWrite : Nat,
   eof2 : BOOLEAN, error : BOOLEAN, buf : Seq(Nat)]

Stores == UNION {[S -> Nat] : S \in SUBSET Nat}

Reassemblers(cap, total) ==
  [capacity : {cap}, out : Streams(cap), unasb : 0 .. total, eof2 : SizeTs,
   stored : Stores]

\* No index of a stream of total bytes comes near the largest size_t.
Bounds(cap, total) == cap \in Nat /\ total \in Nat /\ total + cap < Word - 1

\* Where the stored bytes may be.
Window(r, total) == (r.unasb + 1 .. Limit(r) - 1) \cap (0 .. total - 1)

\* A reassembler of that capacity in a stream of total bytes, whose end has been
\* announced or not (last).  The output holds the stream from where the reader is
\* to the next index wanted, what is stored is a part of the stream strictly inside
\* the window, and the end is remembered from its announcement until it is
\* reached.
Sound(r, cap, total, last) ==
  /\ Bounds(cap, total)
  /\ r \in Reassemblers(cap, total)
  /\ last \in BOOLEAN
  /\ r.out.totWrite = r.unasb
  /\ r.unasb = r.out.totRead + (cap - r.out.rem)
  /\ r.out.buf = Excerpt(r.out.totRead, r.unasb - r.out.totRead)
  /\ DOMAIN r.stored \subseteq Window(r, total)
  /\ \A i \in DOMAIN r.stored : r.stored[i] = i
  /\ r.out.eof2 <=> last /\ r.unasb = total
  /\ r.eof2 = IF last /\ r.unasb < total THEN total ELSE NoEof

\* The number that stands for no end is not the index of one.
LEMMA NoEofIsLarge ==
  ASSUME NEW cap, NEW total, Bounds(cap, total)
  PROVE  NoEof = Word - 1 /\ NoEof \in SizeTs /\ total \in SizeTs
                          /\ total < NoEof
  BY WidthAssumption DEF Bounds, NoEof, SizeT, SizeTs

\* The constructor.
LEMMA NewIsSound ==
  ASSUME NEW cap, NEW total, Bounds(cap, total)
  PROVE  Sound(NewReassembler(cap), cap, total, FALSE)
<1> DEFINE r == NewReassembler(cap)
<1>1. r = [capacity |-> cap, out |-> NewByteStream(cap), unasb |-> 0,
           eof2 |-> NoEof, stored |-> <<>>]
  BY DEF NewReassembler
<1>2. NewByteStream(cap) \in Streams(cap)
  BY DEF Bounds, Streams, NewByteStream
<1>3. <<>> \in Stores /\ DOMAIN <<>> = {}
  <2>1. <<>> \in [{} -> Nat]
    OBVIOUS
  <2> QED
    BY <2>1 DEF Stores
<1> HIDE DEF r
<1>4. r \in Reassemblers(cap, total)
  <2>1. NoEof \in SizeTs
    BY NoEofIsLarge
  <2> QED
    BY <1>1, <1>2, <1>3, <2>1 DEF Reassemblers, Bounds
<1>5. /\ r.out.totRead = 0 /\ r.out.totWrite = 0 /\ r.out.rem = cap
      /\ r.out.buf = <<>> /\ r.out.eof2 = FALSE
  BY <1>1 DEF NewByteStream
<1>6. Excerpt(0, 0) = <<>>
  BY DEF Excerpt
<1>7. /\ r.unasb = 0 /\ r.stored = <<>> /\ r.eof2 = NoEof /\ cap \in Nat
  BY <1>1 DEF Bounds
<1>8. /\ r.out.totWrite = r.unasb
      /\ r.unasb = r.out.totRead + (cap - r.out.rem)
  BY ONLY <1>5, <1>7
<1>9. r.out.buf = Excerpt(r.out.totRead, r.unasb - r.out.totRead)
  BY ONLY <1>5, <1>6, <1>7
<1>10. /\ DOMAIN r.stored \subseteq Window(r, total)
       /\ \A i \in DOMAIN r.stored : r.stored[i] = i
  BY ONLY <1>3, <1>7
<1> QED
  BY <1>4, <1>5, <1>7, <1>8, <1>9, <1>10 DEF Sound, r

\* The fields, one by one.
LEMMA Fields ==
  ASSUME NEW r, NEW cap, NEW total, NEW last, Sound(r, cap, total, last)
  PROVE  /\ cap \in Nat /\ total \in Nat /\ total + cap < Word - 1
         /\ NoEof \in SizeTs /\ total \in SizeTs /\ total < NoEof /\ NoEof \in Nat
         /\ r.capacity = cap
         /\ r.unasb \in 0 .. total
         /\ r.out \in Streams(cap)
         /\ r.out.cap = cap
         /\ r.out.rem \in 0 .. cap
         /\ r.out.totRead \in Nat
         /\ r.out.totWrite = r.unasb
         /\ r.unasb = r.out.totRead + (cap - r.out.rem)
         /\ r.out.buf = Excerpt(r.out.totRead, cap - r.out.rem)
         /\ Limit(r) = r.unasb + r.out.rem
         /\ DOMAIN r.stored \subseteq Window(r, total)
<1>1. /\ r \in Reassemblers(cap, total) /\ cap \in Nat /\ total \in Nat
      /\ total + cap < Word - 1
  BY DEF Sound, Bounds
<1>1a. NoEof \in SizeTs /\ total \in SizeTs /\ total < NoEof /\ NoEof \in Nat
  <2>1. Bounds(cap, total)
    BY DEF Sound
  <2>2. NoEof \in SizeTs /\ total \in SizeTs /\ total < NoEof
    BY ONLY <2>1, NoEofIsLarge
  <2> QED
    BY <2>2 DEF SizeTs
<1>2. r.out \in Streams(cap) /\ r.capacity = cap /\ r.unasb \in 0 .. total
  BY <1>1 DEF Reassemblers
<1>3. r.out.cap = cap /\ r.out.rem \in 0 .. cap /\ r.out.totRead \in Nat
  BY <1>2 DEF Streams
<1>4. /\ r.out.totWrite = r.unasb
      /\ r.unasb = r.out.totRead + (cap - r.out.rem)
      /\ r.out.buf = Excerpt(r.out.totRead, r.unasb - r.out.totRead)
      /\ DOMAIN r.stored \subseteq Window(r, total)
  BY DEF Sound
<1>5. r.unasb - r.out.totRead = cap - r.out.rem
  BY <1>1, <1>3, <1>4
<1>6. Limit(r) = r.unasb + r.out.rem
  BY <1>1, <1>2, <1>3, <1>4 DEF Limit
<1> QED
  BY <1>1, <1>1a, <1>2, <1>3, <1>4, <1>5, <1>6

\* What is unread and what is stored share the capacity.
LEMMA SoundIsWithin ==
  ASSUME NEW r, NEW cap, NEW total, NEW last, Sound(r, cap, total, last)
  PROVE  /\ BufferSize(r.out) + Cardinality(DOMAIN r.stored) <= cap
         /\ DOMAIN r.stored \subseteq r.unasb + 1 .. Limit(r) - 1
<1> DEFINE D == DOMAIN r.stored
           a == r.unasb + 1
           b == Limit(r) - 1
<1>1. /\ D \subseteq a .. b /\ a \in Int /\ b \in Int
      /\ b - a + 1 = r.out.rem - 1
      /\ cap \in Nat /\ r.out.rem \in 0 .. cap
      /\ r.out.cap = cap
  BY Fields DEF Window
<1> HIDE DEF D, a, b
<1>2. /\ IsFiniteSet(a .. b)
      /\ Cardinality(a .. b) = IF a > b THEN 0 ELSE b - a + 1
  BY ONLY <1>1, FS_Interval
<1>3. D \in SUBSET (a .. b)
  BY <1>1
<1>4. IsFiniteSet(D) /\ Cardinality(D) <= Cardinality(a .. b)
  BY ONLY <1>2, <1>3, FS_Subset
<1>5. Cardinality(D) \in Nat
  BY ONLY <1>4, FS_CardinalityType
<1>6. (cap - r.out.rem) + Cardinality(D) <= cap
  BY ONLY <1>1, <1>2, <1>4, <1>5
<1> QED
  BY <1>1, <1>6 DEF BufferSize, D, a, b

\* read: the reader and the window move on by as much as is taken.
LEMMA ReadIsSound ==
  ASSUME NEW r, NEW cap, NEW total, NEW last, Sound(r, cap, total, last),
         NEW n \in 1 .. BufferSize(r.out)
  PROVE  /\ Sound(ReadOut(r, n), cap, total, last)
         /\ ReadOut(r, n).unasb = r.unasb /\ ReadOut(r, n).stored = r.stored
         /\ Limit(ReadOut(r, n)) = Limit(r) + n
<1> DEFINE size == cap - r.out.rem
           q == ReadOut(r, n)
<1>1. n \in 1 .. size /\ q = [r EXCEPT !.out = PopOutput(@, n)]
  BY Fields DEF ReadOut, BufferSize
<1>2. /\ size \in Nat /\ n \in Nat /\ size - n \in Nat /\ n \in 0 .. size
      /\ r.out.totRead \in Nat /\ r.out.totRead + n \in Nat
      /\ r.out.rem + n \in 0 .. cap
      /\ size - n = cap - (r.out.rem + n)
      /\ r.unasb = (r.out.totRead + n) + (cap - (r.out.rem + n))
      /\ r.unasb - (r.out.totRead + n) = size - n
  BY <1>1, Fields
<1>3. r.out.buf = Excerpt(r.out.totRead, size)
  BY Fields
<1> HIDE DEF size, q
<1>4. Len(r.out.buf) = size /\ Smaller(n, Len(r.out.buf)) = n
  <2>1. Len(Excerpt(r.out.totRead, size)) = size
    BY ONLY <1>2, ExcerptIsSeq
  <2>2. Smaller(n, size) = n
    BY ONLY <1>2 DEF Smaller
  <2> QED
    BY ONLY <1>3, <2>1, <2>2
<1>5. SubSeq(r.out.buf, n + 1, size) = Excerpt(r.out.totRead + n, size - n)
  <2>1. SubSeq(Excerpt(r.out.totRead, size), n + 1, size)
          = Excerpt(r.out.totRead + n, size - n)
    BY ONLY <1>2, ExcerptSplit
  <2> QED
    BY ONLY <1>3, <2>1
<1> DEFINE o == [r.out EXCEPT !.buf = Excerpt(r.out.totRead + n, size - n),
                              !.rem = r.out.rem + n, !.totRead = r.out.totRead + n]
<1>6. PopOutput(r.out, n) = o
  BY <1>4, <1>5 DEF PopOutput
<1>7. Excerpt(r.out.totRead + n, size - n) \in Seq(Nat)
  BY <1>2, ExcerptIsSeq
<1>8. r.out \in Streams(cap) /\ r \in Reassemblers(cap, total) /\ last \in BOOLEAN
  BY Fields DEF Sound
<1>9. /\ o \in Streams(cap)
      /\ o.buf = Excerpt(r.out.totRead + n, size - n)
      /\ o.rem = r.out.rem + n /\ o.totRead = r.out.totRead + n
      /\ o.totWrite = r.out.totWrite /\ o.eof2 = r.out.eof2
  BY <1>2, <1>7, <1>8 DEF Streams
<1> HIDE DEF o
<1>10. /\ q \in Reassemblers(cap, total)
       /\ q.out = o /\ q.unasb = r.unasb /\ q.stored = r.stored /\ q.eof2 = r.eof2
       /\ q.capacity = r.capacity
  BY <1>1, <1>6, <1>8, <1>9 DEF Reassemblers
<1>11. Window(r, total) \subseteq Window(q, total)
  <2>1. Limit(q) = r.out.totRead + n + cap /\ Limit(r) = r.out.totRead + cap
    BY <1>9, <1>10, Fields DEF Limit
  <2> QED
    BY <1>2, <1>10, <2>1, Fields DEF Window
<1>12. /\ DOMAIN r.stored \subseteq Window(r, total)
       /\ \A i \in DOMAIN r.stored : r.stored[i] = i
       /\ r.out.totWrite = r.unasb
       /\ r.out.eof2 <=> last /\ r.unasb = total
       /\ r.eof2 = IF last /\ r.unasb < total THEN total ELSE NoEof
  BY DEF Sound
<1>13. /\ DOMAIN q.stored \subseteq Window(q, total)
       /\ \A i \in DOMAIN q.stored : q.stored[i] = i
       /\ q.out.totWrite = q.unasb
  BY <1>9, <1>10, <1>11, <1>12
<1>14. /\ q.out.eof2 <=> last /\ q.unasb = total
       /\ q.eof2 = IF last /\ q.unasb < total THEN total ELSE NoEof
  BY <1>9, <1>10, <1>12
<1>15. /\ q.unasb = q.out.totRead + (cap - q.out.rem)
       /\ q.out.buf = Excerpt(q.out.totRead, q.unasb - q.out.totRead)
  BY <1>2, <1>9, <1>10
<1>16. Limit(q) = Limit(r) + n
  BY <1>2, <1>9, <1>10, Fields DEF Limit
<1>17. Sound(q, cap, total, last)
  BY <1>8, <1>10, <1>13, <1>14, <1>15 DEF Sound
<1> QED
  BY <1>10, <1>16, <1>17 DEF q
-----------------------------------------------------------------------------
\* Where a pushed excerpt may leave stored bytes before they are assembled.
OpenWindow(r, total) == (r.unasb .. Limit(r) - 1) \cap (0 .. total - 1)

\* What is stored when an excerpt has been added, before it is assembled.
Covered(r, from, len) == DOMAIN r.stored \cup Fresh(r, Excerpt(from, len), from)

\* Storing an excerpt adds bytes of the stream inside the window, each at its
\* own index.
LEMMA StoredFields ==
  ASSUME NEW r, NEW cap, NEW total, NEW last, Sound(r, cap, total, last),
         NEW from \in Nat, NEW len \in Nat, from + len <= total
  PROVE  /\ Covered(r, from, len) \in SUBSET OpenWindow(r, total)
         /\ Stored(r, Excerpt(from, len), from) = [i \in Covered(r, from, len) |-> i]
<1> DEFINE data == Excerpt(from, len)
           F == Fresh(r, data, from)
           S == DOMAIN r.stored \cup F
<1>1. Len(data) = len
  BY ExcerptIsSeq
<1>2. SizeT(from + len) = from + len
  BY ONLY Sound(r, cap, total, last), Fields, WidthAssumption,
          from \in Nat, len \in Nat, from + len <= total DEF SizeT
<1>3. F = Larger(r.unasb, from) .. Smaller(from + len, Limit(r)) - 1
  BY <1>1, <1>2 DEF Fresh
<1>4. r.unasb \in Nat /\ Limit(r) \in Nat /\ total \in Nat
  BY Fields
<1>5. \A i \in F : /\ i \in Nat /\ i >= r.unasb /\ i <= Limit(r) - 1
                   /\ i >= from /\ i < from + len
  BY ONLY <1>3, <1>4, from \in Nat, len \in Nat DEF Larger, Smaller
<1>6. F \subseteq OpenWindow(r, total)
  BY <1>4, <1>5 DEF OpenWindow
<1>7. DOMAIN r.stored \subseteq OpenWindow(r, total)
  BY Fields, <1>4 DEF Window, OpenWindow
<1>8. \A i \in F : ByteOf(r, data, from, i) = i
  <2> SUFFICES ASSUME NEW i \in F PROVE data[i - from + 1] = i
    BY DEF ByteOf
  <2>1. i - from + 1 \in 1 .. len /\ i \in Nat
    BY <1>5
  <2> HIDE DEF F
  <2>2. data[i - from + 1] = from + (i - from + 1) - 1
    BY <2>1 DEF Excerpt
  <2> QED
    BY <2>1, <2>2
<1>9. \A i \in DOMAIN r.stored : r.stored[i] = i
  BY DEF Sound
<1> HIDE DEF F, data
<1>10. Stored(r, data, from) = [i \in S |-> i]
  BY <1>8, <1>9 DEF Stored, F
<1> QED
  BY <1>6, <1>7, <1>10 DEF F, data, Covered

\* The reassembler when the bytes of S are stored and e is remembered as the end.
Holding(r, S, e) == [r EXCEPT !.eof2 = e, !.stored = [i \in S |-> i]]

\* The reassembler when the bytes before g have gone to the output, of those
\* in S the others are stored and e is remembered as the end.
Assembled(r, g, S, e) ==
  [r EXCEPT
     !.out = [r.out EXCEPT !.buf = Excerpt(r.out.totRead, g - r.out.totRead),
                           !.rem = r.out.rem - (g - r.unasb),
                           !.totWrite = g],
     !.unasb = g,
     !.eof2 = e,
     !.stored = [i \in {j \in S : j >= g} |-> i]]

\* Assembling hands the bytes before the first gap to the output, all of which
\* has room for, and keeps the rest.
LEMMA AssembleFields ==
  ASSUME NEW r, NEW cap, NEW total, NEW last, Sound(r, cap, total, last),
         NEW S \in SUBSET OpenWindow(r, total), NEW e \in SizeTs
  PROVE  \E g \in r.unasb .. total :
           /\ g <= Limit(r) /\ g \notin S /\ r.unasb .. g - 1 \subseteq S
           /\ Assemble(Holding(r, S, e)) = Assembled(r, g, S, e)
<1> DEFINE q == [r EXCEPT !.eof2 = e, !.stored = [i \in S |-> i]]
           u == r.unasb
           t == r.out.totRead
           g == FirstGap(u, Limit(r), S)
<1>1. r \in Reassemblers(cap, total) /\ r.out \in Streams(cap)
  BY Fields DEF Sound
<1>2. /\ q.unasb = u /\ q.out = r.out /\ q.capacity = r.capacity
      /\ q.stored = [i \in S |-> i] /\ DOMAIN q.stored = S
  BY <1>1 DEF Reassemblers
<1>2a. q = [r EXCEPT !.eof2 = e, !.stored = [i \in S |-> i]]
  OBVIOUS
<1> HIDE DEF q
<1>3. Limit(q) = Limit(r)
  BY <1>2 DEF Limit
<1>4. /\ u \in Nat /\ t \in Nat /\ Limit(r) \in Nat /\ u <= Limit(r) /\ u <= total
      /\ total \in Nat /\ t <= u /\ r.out.rem \in Nat /\ Limit(r) - u = r.out.rem
      /\ u - t \in Nat
  BY Fields
<1>5. /\ \A i \in S : i \in Nat /\ i < total /\ i < Limit(r)
      /\ Limit(r) \notin S
  <2>1. \A i \in S : i \in r.unasb .. Limit(r) - 1 /\ i \in 0 .. total - 1
    BY ONLY S \in SUBSET OpenWindow(r, total) DEF OpenWindow
  <2>2. r.unasb \in Nat /\ Limit(r) \in Nat /\ total \in Nat
    BY ONLY <1>4
  <2> QED
    BY ONLY <2>1, <2>2
<1> HIDE DEF u, t
<1>6. g \in u .. Limit(r) /\ g \notin S /\ u .. g - 1 \subseteq S
  BY ONLY <1>4, <1>5, FirstGapExists
<1> HIDE DEF g
<1>7. g \in u .. total
  <2>1. CASE g = u
    BY <1>4, <2>1
  <2>2. CASE g # u
    <3>1. g - 1 \in u .. g - 1
      BY <1>4, <1>6, <2>2
    <3>2. g - 1 < total
      BY <1>5, <1>6, <3>1
    <3> QED
      BY <1>4, <1>6, <3>2
  <2> QED
    BY <2>1, <2>2
<1>8. g - u \in Nat /\ g - u <= r.out.rem /\ u + (g - u) = g /\ (u - t) + (g - u) = g - t
  BY <1>4, <1>6
<1>9. [k \in 1 .. g - u |-> q.stored[u + k - 1]] = Excerpt(u, g - u)
  <2>1. \A k \in 1 .. g - u : q.stored[u + k - 1] = u + k - 1
    <3> SUFFICES ASSUME NEW k \in 1 .. g - u PROVE q.stored[u + k - 1] = u + k - 1
      OBVIOUS
    <3>1. u + k - 1 \in S
      BY <1>4, <1>6
    <3> QED
      BY <1>2, <3>1
  <2> QED
    BY <2>1 DEF Excerpt
<1> DEFINE data == Excerpt(u, g - u)
<1>10. Writable(r.out, data) = g - u
  BY <1>4, <1>8, ExcerptIsSeq DEF Writable, Smaller
<1>11. Accepted(r.out, data) = data
  <2>1. SubSeq(data, 1, g - u) = data
    <3>1. g - u \in 0 .. g - u
      BY <1>8
    <3> QED
      BY ONLY <1>4, <1>8, <3>1, ExcerptSplit
  <2> QED
    BY <1>10, <2>1 DEF Accepted
<1>12. r.out.buf \o data = Excerpt(t, g - t)
  <2>1. r.out.buf = Excerpt(t, u - t)
    BY DEF Sound, t, u
  <2>2. Excerpt(t, u - t) \o Excerpt(t + (u - t), g - u) = Excerpt(t, (u - t) + (g - u))
    <3>1. t \in Nat /\ u - t \in Nat /\ g - u \in Nat
      BY ONLY <1>4, <1>8
    <3> HIDE DEF data
    <3> QED
      BY ONLY <3>1, ExcerptConcat
  <2>3. t + (u - t) = u /\ (u - t) + (g - u) = g - t
    BY <1>4, <1>8
  <2>4. Excerpt(t + (u - t), g - u) = data
    BY ONLY <2>3
  <2> QED
    BY ONLY <2>1, <2>2, <2>3, <2>4
<1>13. r.out.totWrite + (g - u) = g
  BY <1>4, <1>8, Fields DEF u
<1>14. Write(r.out, data) = [r.out EXCEPT !.buf = Excerpt(t, g - t),
                              !.rem = r.out.rem - (g - u), !.totWrite = g]
  BY <1>10, <1>11, <1>12, <1>13 DEF Write
<1>15. [i \in {j \in DOMAIN q.stored : j >= g} |-> q.stored[i]]
         = [i \in {j \in S : j >= g} |-> i]
  BY <1>2
<1>16. Assemble(q) = [q EXCEPT !.out = Write(r.out, data), !.unasb = g,
                               !.stored = [i \in {j \in S : j >= g} |-> i]]
  <2>1. FirstGap(q.unasb, Limit(q), DOMAIN q.stored) = g
    BY <1>2, <1>3 DEF g, u
  <2>2. Assemble(q)
          = [q EXCEPT
               !.out = Write(q.out, [k \in 1 .. g - q.unasb |->
                                       q.stored[q.unasb + k - 1]]),
               !.unasb = g,
               !.stored = [i \in {j \in DOMAIN q.stored : j >= g} |-> q.stored[i]]]
    BY ONLY <2>1 DEF Assemble
  <2>3. Write(q.out, [k \in 1 .. g - q.unasb |-> q.stored[q.unasb + k - 1]])
          = Write(r.out, data)
    <3>1. [k \in 1 .. g - q.unasb |-> q.stored[q.unasb + k - 1]] = data
      BY ONLY <1>2, <1>9
    <3> QED
      BY ONLY <1>2, <3>1
  <2> QED
    BY ONLY <1>15, <2>2, <2>3
<1>17. Assemble(q) = [r EXCEPT !.out = Write(r.out, data), !.unasb = g, !.eof2 = e,
                               !.stored = [i \in {j \in S : j >= g} |-> i]]
  <2> HIDE DEF data
  <2> QED
    BY <1>1, <1>2a, <1>16 DEF Reassemblers
<1>18. Assemble(q) = Assembled(r, g, S, e)
  <2>1. Write(r.out, data)
          = [r.out EXCEPT !.buf = Excerpt(r.out.totRead, g - r.out.totRead),
                          !.rem = r.out.rem - (g - r.unasb), !.totWrite = g]
    BY ONLY <1>14 DEF u, t
  <2> QED
    BY ONLY <1>17, <2>1 DEF Assembled
<1>19. g \in r.unasb .. total /\ g <= Limit(r) /\ r.unasb .. g - 1 \subseteq S
  BY <1>4, <1>6, <1>7 DEF u
<1> QED
  BY <1>6, <1>18, <1>19 DEF q, Holding

\* What q holds when it has assembled the bytes before g.
Contents(q, r, g, S, e, cap, total) ==
  /\ q \in Reassemblers(cap, total)
  /\ q.unasb = g /\ q.eof2 = e
  /\ q.out.totWrite = g /\ q.out.eof2 = r.out.eof2
  /\ g = q.out.totRead + (cap - q.out.rem)
  /\ q.out.buf = Excerpt(q.out.totRead, g - q.out.totRead)
  /\ q.out.totRead = r.out.totRead
  /\ DOMAIN q.stored = {j \in S : j >= g}
  /\ DOMAIN q.stored \subseteq (g + 1 .. Limit(r) - 1) \cap (0 .. total - 1)
  /\ \A i \in DOMAIN q.stored : q.stored[i] = i

LEMMA AssembledFields ==
  ASSUME NEW r, NEW cap, NEW total, NEW last, Sound(r, cap, total, last),
         NEW S \in SUBSET OpenWindow(r, total), NEW e \in SizeTs,
         NEW g \in r.unasb .. total, g <= Limit(r), g \notin S
  PROVE  Contents(Assembled(r, g, S, e), r, g, S, e, cap, total)
<1>1. /\ r \in Reassemblers(cap, total) /\ r.out \in Streams(cap) /\ cap \in Nat
      /\ r.unasb \in Nat /\ total \in Nat /\ g \in Nat /\ r.out.totRead \in Nat
      /\ r.out.rem \in 0 .. cap
      /\ r.unasb = r.out.totRead + (cap - r.out.rem)
      /\ Limit(r) = r.unasb + r.out.rem
  BY Fields DEF Sound
<1>2. /\ g - r.out.totRead \in Nat
      /\ r.out.rem - (g - r.unasb) \in 0 .. cap
      /\ g = r.out.totRead + (cap - (r.out.rem - (g - r.unasb)))
  BY <1>1
<1> DEFINE o == [r.out EXCEPT !.buf = Excerpt(r.out.totRead, g - r.out.totRead),
                              !.rem = r.out.rem - (g - r.unasb),
                              !.totWrite = g]
           st == [i \in {j \in S : j >= g} |-> i]
<1>3. Excerpt(r.out.totRead, g - r.out.totRead) \in Seq(Nat)
  BY <1>1, <1>2, ExcerptIsSeq
<1>4. /\ o \in Streams(cap) /\ o.totRead = r.out.totRead /\ o.eof2 = r.out.eof2
      /\ o.buf = Excerpt(r.out.totRead, g - r.out.totRead)
      /\ o.rem = r.out.rem - (g - r.unasb) /\ o.totWrite = g
  BY <1>1, <1>2, <1>3 DEF Streams
<1>5. \A i \in S : i \in Nat /\ i < total /\ i < Limit(r)
  BY <1>1 DEF OpenWindow
<1>6. /\ DOMAIN st = {j \in S : j >= g}
      /\ DOMAIN st \subseteq (g + 1 .. Limit(r) - 1) \cap (0 .. total - 1)
      /\ \A i \in DOMAIN st : st[i] = i
  BY <1>1, <1>5
<1>7. st \in Stores
  <2>1. {j \in S : j >= g} \in SUBSET Nat
    BY <1>5
  <2>2. st \in [{j \in S : j >= g} -> Nat]
    BY <2>1
  <2> QED
    BY ONLY <2>1, <2>2 DEF Stores
<1> HIDE DEF o, st
<1> DEFINE q == Assembled(r, g, S, e)
<1>8. q = [r EXCEPT !.out = o, !.unasb = g, !.eof2 = e, !.stored = st]
  BY DEF Assembled, o, st
<1> HIDE DEF q
<1>9. /\ q \in Reassemblers(cap, total)
      /\ q.out = o /\ q.unasb = g /\ q.eof2 = e /\ q.stored = st
  <2>1. g \in 0 .. total
    BY <1>1
  <2> QED
    BY ONLY <1>1, <1>4, <1>7, <1>8, <2>1, e \in SizeTs DEF Reassemblers
<1>10. Contents(q, r, g, S, e, cap, total)
  BY ONLY <1>2, <1>4, <1>6, <1>9 DEF Contents
<1> QED
  BY <1>10 DEF q

\* The bytes taken in: handed over or stored.
TakenIn(r) == (0 .. r.unasb - 1) \cup DOMAIN r.stored

\* The reassembler after that excerpt of the stream.
Pushed(r, from, len, eof) == PushSubstring(r, Excerpt(from, len), from, eof)

\* push_substring: what is handed over continues the output, and the end is
\* announced when it is reached, now or by a later excerpt.  What is taken in is
\* what the window allows.
LEMMA PushIsSound ==
  ASSUME NEW r, NEW cap, NEW total, NEW last, Sound(r, cap, total, last),
         NEW from \in Nat, NEW len \in Nat, NEW eof \in BOOLEAN,
         from + len <= total, eof => from + len = total
  PROVE  /\ Sound(Pushed(r, from, len, eof), cap, total, last \/ eof)
         /\ Pushed(r, from, len, eof).unasb \in r.unasb .. Limit(r)
         /\ Limit(Pushed(r, from, len, eof)) = Limit(r)
         /\ TakenIn(Pushed(r, from, len, eof))
              = TakenIn(r) \cup {j \in from .. from + len - 1 : j < Limit(r)}
<1> DEFINE data == Excerpt(from, len)
           S == Covered(r, from, len)
           e == EndAfter(r, data, from, eof)
           q1 == [r EXCEPT !.eof2 = e, !.stored = [i \in S |-> i]]
           q == Assemble(q1)
           p == Pushed(r, from, len, eof)
           ended == last \/ eof
<1>1. Bounds(cap, total)
  BY DEF Sound
<1>2. S \in SUBSET OpenWindow(r, total) /\ Stored(r, data, from) = [i \in S |-> i]
  BY ONLY Sound(r, cap, total, last), from \in Nat, len \in Nat, from + len <= total,
          StoredFields
<1>3. e = IF eof THEN total ELSE r.eof2
  <2>1. Len(data) = len
    BY ExcerptIsSeq
  <2>2. eof => SizeT(from + len) = total
    BY <1>1, Fields, WidthAssumption DEF Bounds, SizeT
  <2> QED
    BY <2>1, <2>2 DEF EndAfter
<1>4. /\ r.eof2 = IF last /\ r.unasb < total THEN total ELSE NoEof
      /\ r.out.eof2 <=> last /\ r.unasb = total
      /\ last \in BOOLEAN
  BY DEF Sound
<1>5. e \in SizeTs
  BY <1>3, <1>4, Fields
<1>6. p = EndIfReached(q)
  BY <1>2 DEF Pushed, PushSubstring
<1> HIDE DEF data, S, e, q1, p
<1>7. PICK g \in r.unasb .. total :
        /\ g <= Limit(r) /\ g \notin S /\ r.unasb .. g - 1 \subseteq S
        /\ q = Assembled(r, g, S, e)
  <2>1. \E g \in r.unasb .. total :
          /\ g <= Limit(r) /\ g \notin S /\ r.unasb .. g - 1 \subseteq S
          /\ Assemble(Holding(r, S, e)) = Assembled(r, g, S, e)
    <3>1. S \in SUBSET OpenWindow(r, total) /\ e \in SizeTs
      BY <1>2, <1>5
    <3> QED
      BY ONLY Sound(r, cap, total, last), <3>1, AssembleFields
  <2> QED
    BY ONLY <2>1 DEF q, q1, Holding
<1> HIDE DEF q
<1>8. /\ q \in Reassemblers(cap, total)
      /\ q.unasb = g /\ q.eof2 = e
      /\ q.out.totWrite = g /\ q.out.eof2 = r.out.eof2
      /\ g = q.out.totRead + (cap - q.out.rem)
      /\ q.out.buf = Excerpt(q.out.totRead, g - q.out.totRead)
      /\ q.out.totRead = r.out.totRead
      /\ DOMAIN q.stored = {j \in S : j >= g}
      /\ DOMAIN q.stored \subseteq (g + 1 .. Limit(r) - 1) \cap (0 .. total - 1)
      /\ \A i \in DOMAIN q.stored : q.stored[i] = i
  <2>1. /\ S \in SUBSET OpenWindow(r, total) /\ e \in SizeTs
        /\ g \in r.unasb .. total /\ g <= Limit(r) /\ g \notin S
    BY <1>2, <1>5, <1>7
  <2>2. Contents(Assembled(r, g, S, e), r, g, S, e, cap, total)
    BY ONLY Sound(r, cap, total, last), <2>1, AssembledFields
  <2> QED
    BY ONLY <1>7, <2>2 DEF Contents
<1>9. /\ p \in Reassemblers(cap, total)
      /\ p.unasb = g /\ p.capacity = q.capacity /\ p.stored = q.stored
      /\ p.out.totRead = q.out.totRead /\ p.out.totWrite = q.out.totWrite
      /\ p.out.rem = q.out.rem /\ p.out.buf = q.out.buf
      /\ p.eof2 = IF g = e THEN NoEof ELSE e
      /\ p.out.eof2 = IF g = e THEN TRUE ELSE r.out.eof2
  <2>1. q.out \in Streams(cap)
    BY <1>8 DEF Reassemblers
  <2>2. CASE g = e
    <3> DEFINE o == EndInput(q.out)
    <3>1. /\ o \in Streams(cap) /\ o.eof2 = TRUE
          /\ o.totRead = q.out.totRead /\ o.totWrite = q.out.totWrite
          /\ o.rem = q.out.rem /\ o.buf = q.out.buf
      BY <2>1 DEF EndInput, Streams
    <3>2. p = [q EXCEPT !.eof2 = NoEof, !.out = o]
      BY <1>6, <1>8, <2>2 DEF EndIfReached
    <3> HIDE DEF o
    <3>3. /\ p \in Reassemblers(cap, total) /\ p.out = o /\ p.eof2 = NoEof
          /\ p.unasb = q.unasb /\ p.stored = q.stored /\ p.capacity = q.capacity
      BY <1>8, <3>1, <3>2, Fields DEF Reassemblers
    <3> QED
      BY <1>8, <2>2, <3>1, <3>3
  <2>3. CASE g # e
    <3>1. p = q
      BY <1>6, <1>8, <2>3 DEF EndIfReached
    <3> QED
      BY <1>8, <2>3, <3>1
  <2> QED
    BY <2>2, <2>3
<1>10. /\ p.out.eof2 <=> ended /\ p.unasb = total
       /\ p.eof2 = IF ended /\ p.unasb < total THEN total ELSE NoEof
       /\ ended \in BOOLEAN
  <2>1. total < NoEof /\ total \in Nat /\ NoEof \in Nat
    BY Fields
  <2>2. r.unasb \in Nat /\ g \in Nat /\ r.unasb <= g /\ g <= total
    BY Fields
  <2> QED
    BY ONLY <1>3, <1>4, <1>9, <2>1, <2>2, eof \in BOOLEAN,
            eof => from + len = total
<1>11. Limit(p) = Limit(r)
  <2>1. p.capacity = r.capacity
    BY <1>8, <1>9, Fields DEF Reassemblers
  <2> QED
    BY <1>8, <1>9, <2>1 DEF Limit
<1>12. DOMAIN p.stored \subseteq Window(p, total)
  BY <1>8, <1>9, <1>11 DEF Window
<1>13. Sound(p, cap, total, ended)
  <2>1. /\ p.out.totWrite = p.unasb
        /\ p.unasb = p.out.totRead + (cap - p.out.rem)
        /\ p.out.buf = Excerpt(p.out.totRead, p.unasb - p.out.totRead)
        /\ \A i \in DOMAIN p.stored : p.stored[i] = i
    BY ONLY <1>8, <1>9
  <2> HIDE DEF ended
  <2> QED
    BY ONLY <1>1, <1>9, <1>10, <1>12, <2>1 DEF Sound
<1>14. p.unasb \in r.unasb .. Limit(r)
  BY <1>7, <1>9, Fields
<1>15. TakenIn(p) = TakenIn(r) \cup {j \in from .. from + len - 1 : j < Limit(r)}
  <2>1. /\ r.unasb \in Nat /\ g \in Nat /\ r.unasb <= g /\ Limit(r) \in Nat
        /\ \A j \in S : j \in Nat /\ j >= r.unasb
    BY <1>2, Fields DEF OpenWindow
  <2>2. TakenIn(p) = (0 .. r.unasb - 1) \cup S
    <3>1. TakenIn(p) = (0 .. g - 1) \cup {j \in S : j >= g}
      BY ONLY <1>8, <1>9 DEF TakenIn
    <3>2. (0 .. g - 1) = (0 .. r.unasb - 1) \cup (r.unasb .. g - 1)
      BY ONLY <2>1
    <3>3. r.unasb .. g - 1 \subseteq S
      BY ONLY <1>7
    <3>4. \A j \in S : j < g => j \in 0 .. g - 1
      BY ONLY <2>1
    <3> QED
      BY ONLY <2>1, <3>1, <3>2, <3>3, <3>4
  <2>3. Fresh(r, data, from) = Larger(r.unasb, from) .. Smaller(from + len, Limit(r)) - 1
    <3>1. Len(data) = len
      BY ExcerptIsSeq DEF data
    <3>2. SizeT(from + len) = from + len
      BY ONLY Sound(r, cap, total, last), Fields, WidthAssumption,
          from \in Nat, len \in Nat, from + len <= total DEF SizeT
    <3> QED
      BY ONLY <3>1, <3>2 DEF Fresh
  <2>4. (0 .. r.unasb - 1) \cup Fresh(r, data, from)
          = (0 .. r.unasb - 1) \cup {j \in from .. from + len - 1 : j < Limit(r)}
    BY ONLY <2>1, <2>3, from \in Nat, len \in Nat DEF Larger, Smaller
  <2> QED
    BY ONLY <2>2, <2>4 DEF TakenIn, S, Covered, data
<1> QED
  BY <1>11, <1>13, <1>14, <1>15 DEF p, data, ended
-----------------------------------------------------------------------------
\* Nothing is stored of an excerpt without bytes, or beyond the window.
LEMMA PushOfNothing ==
  ASSUME NEW x, NEW cap, NEW total, NEW last, Sound(x, cap, total, last),
         NEW data, NEW i, Fresh(x, data, i) = {}
  PROVE  /\ Sound(PushSubstring(x, data, i, FALSE), cap, total, last)
         /\ PushSubstring(x, data, i, FALSE).unasb \in x.unasb .. Limit(x)
<1> DEFINE none == Excerpt(0, 0)
<1>0. /\ x.unasb \in Nat /\ Limit(x) \in Nat /\ total \in Nat
  <2>1. /\ cap \in Nat /\ total \in Nat /\ x.unasb \in 0 .. total
        /\ x.out.rem \in 0 .. cap /\ Limit(x) = x.unasb + x.out.rem
    BY ONLY Sound(x, cap, total, last), Fields
  <2> QED
    BY ONLY <2>1
<1>1. Fresh(x, none, 0) = {}
  <2>1. Len(none) = 0
    BY ExcerptIsSeq
  <2>2. SizeT(0 + 0) = 0
    BY WidthAssumption DEF SizeT
  <2>3. x.unasb \in Nat /\ Limit(x) \in Nat
    BY <1>0
  <2>4. Smaller(SizeT(0 + 0), Limit(x)) = 0
    BY <2>2, <2>3 DEF Smaller
  <2>5. Larger(x.unasb, 0) >= 0 /\ Larger(x.unasb, 0) \in Nat
    BY <2>3 DEF Larger
  <2> HIDE DEF none
  <2>6. Fresh(x, none, 0) = Larger(x.unasb, 0) .. Smaller(SizeT(0 + 0), Limit(x)) - 1
    BY <2>1 DEF Fresh
  <2> QED
    BY ONLY <2>4, <2>5, <2>6
<1>2. Stored(x, data, i) = x.stored /\ Stored(x, none, 0) = x.stored
  <2>1. x.stored = [j \in DOMAIN x.stored |-> x.stored[j]]
    <3>1. x.stored \in Stores
      BY DEF Sound, Reassemblers
    <3> QED
      BY <3>1 DEF Stores
  <2> HIDE DEF none
  <2>2. ASSUME NEW d, NEW m, Fresh(x, d, m) = {}
        PROVE  Stored(x, d, m) = [j \in DOMAIN x.stored |-> x.stored[j]]
    <3>1. DOMAIN x.stored \cup Fresh(x, d, m) = DOMAIN x.stored
      BY <2>2
    <3>2. Stored(x, d, m) = [j \in DOMAIN x.stored |->
                               IF j \in DOMAIN x.stored THEN x.stored[j]
                               ELSE ByteOf(x, d, m, j)]
      BY ONLY <3>1 DEF Stored
    <3>3. \A j \in DOMAIN x.stored :
            (IF j \in DOMAIN x.stored THEN x.stored[j] ELSE ByteOf(x, d, m, j))
              = x.stored[j]
      OBVIOUS
    <3> QED
      BY ONLY <3>2, <3>3
  <2> QED
    BY <1>1, <2>1, <2>2
<1>3. PushSubstring(x, data, i, FALSE) = Pushed(x, 0, 0, FALSE)
  <2>1. EndAfter(x, data, i, FALSE) = EndAfter(x, none, 0, FALSE)
    BY DEF EndAfter
  <2> HIDE DEF none
  <2>2. PushSubstring(x, data, i, FALSE) = PushSubstring(x, none, 0, FALSE)
    BY ONLY <1>2, <2>1 DEF PushSubstring
  <2> QED
    BY <2>2 DEF Pushed, none
<1>4. ASSUME NEW eof \in BOOLEAN, ~ eof
      PROVE  /\ Sound(Pushed(x, 0, 0, eof), cap, total, last \/ eof)
             /\ Pushed(x, 0, 0, eof).unasb \in x.unasb .. Limit(x)
  <2>1. 0 \in Nat /\ 0 + 0 <= total /\ (eof => 0 + 0 = total)
    BY <1>0, <1>4
  <2> QED
    BY ONLY <2>1, Sound(x, cap, total, last), eof \in BOOLEAN, PushIsSound
<1>5. \E eof \in BOOLEAN : eof = FALSE /\ (last \/ eof) = last
  BY DEF Sound
<1> QED
  BY ONLY <1>3, <1>4, <1>5

\* A reassembler record and its output, with the fields they have.
Shaped(m, cap) ==
  /\ m \in [capacity : {cap}, out : {m.out}, unasb : {m.unasb}, eof2 : {m.eof2},
           stored : {m.stored}]
  /\ m.out \in [cap : {cap}, rem : {m.out.rem}, totRead : {m.out.totRead},
               totWrite : {m.out.totWrite}, eof2 : {m.out.eof2},
               error : {m.out.error}, buf : {m.out.buf}]

\* An excerpt stored and what has become contiguous moved to the output, before the
\* end is looked for.
LEMMA PushShape ==
  ASSUME NEW cap, NEW total, NEW r \in Reassemblers(cap, total), NEW data, NEW i, NEW eof
  PROVE  \E m : /\ PushSubstring(r, data, i, eof) = EndIfReached(m)
                /\ m.unasb = FirstGap(r.unasb, Limit(r), DOMAIN Stored(r, data, i))
                /\ m.eof2 = EndAfter(r, data, i, eof)
                /\ m.out.eof2 = r.out.eof2 /\ m.out.error = r.out.error
                /\ m.out.totRead = r.out.totRead
                /\ Shaped(m, cap)
<1> DEFINE S == Stored(r, data, i)
           next == FirstGap(r.unasb, Limit(r), DOMAIN S)
           W == [n \in 1 .. next - r.unasb |-> S[r.unasb + n - 1]]
           T == [j \in {j \in DOMAIN S : j >= next} |-> S[j]]
           end == EndAfter(r, data, i, eof)
           a == [r EXCEPT !.eof2 = end, !.stored = S]
           m == [[r EXCEPT !.eof2 = end, !.stored = S]
                   EXCEPT !.out = Write(r.out, W), !.unasb = next, !.stored = T]
<1>1. r.capacity = cap /\ r.out \in Streams(cap)
  BY DEF Reassemblers
<1>2. Assemble(a) = m
  <2>1. a.stored = S /\ a.unasb = r.unasb /\ a.out = r.out /\ a.capacity = r.capacity
    <3> HIDE DEF S, end
    <3> QED
      BY DEF Reassemblers
  <2>2. Limit(a) = Limit(r)
    BY <2>1 DEF Limit
  <2>3. Assemble(a) = [a EXCEPT !.out = Write(r.out, W), !.unasb = next, !.stored = T]
    <3> HIDE DEF a, S
    <3> QED
      BY <2>1, <2>2 DEF Assemble
  <2> QED
    BY <2>3
<1>3. PushSubstring(r, data, i, eof) = EndIfReached(m)
  BY <1>2 DEF PushSubstring
<1> HIDE DEF next, T, W, S, end
<1>4. m \in [capacity : {cap}, out : {Write(r.out, W)}, unasb : {next}, eof2 : {end},
             stored : {T}]
  BY DEF Reassemblers
<1>5. Write(r.out, W) \in
        [cap : {cap}, rem : {r.out.rem - Writable(r.out, W)},
         totRead : {r.out.totRead}, totWrite : {r.out.totWrite + Writable(r.out, W)},
         eof2 : {r.out.eof2}, error : {r.out.error},
         buf : {r.out.buf \o Accepted(r.out, W)}]
  BY <1>1 DEF Write, Streams
<1> HIDE DEF m
<1>6. m.out = Write(r.out, W) /\ m.unasb = next /\ m.eof2 = end /\ m.stored = T
  BY <1>4
<1>7. m.out \in [cap : {cap}, rem : {m.out.rem}, totRead : {m.out.totRead},
                 totWrite : {m.out.totWrite}, eof2 : {m.out.eof2},
                 error : {m.out.error}, buf : {m.out.buf}]
      /\ m.out.eof2 = r.out.eof2 /\ m.out.error = r.out.error
      /\ m.out.totRead = r.out.totRead
  <2> DEFINE z == Write(r.out, W)
  <2> HIDE DEF z
  <2> QED
    BY <1>5, <1>6 DEF z
<1> QED
  BY <1>3, <1>4, <1>6, <1>7 DEF next, S, end, Shaped

\* What looking for the end leaves.
LEMMA EndShape ==
  ASSUME NEW cap, NEW m, Shaped(m, cap)
  PROVE  LET q == EndIfReached(m)
         IN  /\ q.unasb = m.unasb /\ q.out.error = m.out.error /\ q.out.totRead = m.out.totRead
             /\ \/ m.unasb = m.eof2 /\ q.eof2 = NoEof /\ q.out.eof2 = TRUE
                \/ m.unasb # m.eof2 /\ q.eof2 = m.eof2 /\ q.out.eof2 = m.out.eof2
<1>1. /\ EndInput(m.out).eof2 = TRUE /\ EndInput(m.out).error = m.out.error
      /\ EndInput(m.out).totRead = m.out.totRead
  BY DEF EndInput, Shaped
<1>2. CASE m.unasb = m.eof2
  <2> DEFINE z == EndInput(m.out)
             q == [m EXCEPT !.eof2 = NoEof, !.out = z]
  <2> HIDE DEF z
  <2>1. q.unasb = m.unasb /\ q.eof2 = NoEof /\ q.out = z
    BY DEF Shaped
  <2>2. EndIfReached(m) = q
    BY <1>2 DEF EndIfReached, z
  <2> HIDE DEF q
  <2> QED
    BY <1>1, <1>2, <2>1, <2>2 DEF z
<1>3. CASE m.unasb # m.eof2
  BY <1>3 DEF EndIfReached
<1> QED
  BY <1>2, <1>3

\* After an excerpt the stream has been ended if it has come to its end, and the end
\* is remembered if not.
LEMMA EndOfPush ==
  ASSUME NEW cap, NEW total \in Nat, total < NoEof, NEW r \in Reassemblers(cap, total),
         NEW data, NEW i, NEW eof, PushSubstring(r, data, i, eof) \in Reassemblers(cap, total)
  PROVE  LET q == PushSubstring(r, data, i, eof)
         IN  /\ q.eof2 # q.unasb
             /\ q.eof2 = EndAfter(r, data, i, eof) \/ InputEnded(q.out)
             /\ InputEnded(r.out) => InputEnded(q.out)
             /\ q.out.error = r.out.error /\ q.out.totRead = r.out.totRead
<1> DEFINE q == PushSubstring(r, data, i, eof)
<1>1. PICK m : /\ q = EndIfReached(m)
               /\ m.eof2 = EndAfter(r, data, i, eof)
               /\ m.out.eof2 = r.out.eof2 /\ m.out.error = r.out.error
               /\ m.out.totRead = r.out.totRead
               /\ Shaped(m, cap)
  BY PushShape
<1>2. q.unasb \in 0 .. total
  BY DEF Reassemblers
<1> HIDE DEF q
<1>3. /\ q.unasb = m.unasb /\ q.out.error = m.out.error /\ q.out.totRead = m.out.totRead
      /\ \/ m.unasb = m.eof2 /\ q.eof2 = NoEof /\ q.out.eof2 = TRUE
         \/ m.unasb # m.eof2 /\ q.eof2 = m.eof2 /\ q.out.eof2 = m.out.eof2
  BY <1>1, EndShape
<1>4. q.eof2 # q.unasb
  BY <1>2, <1>3
<1> QED
  BY <1>1, <1>3, <1>4 DEF q, InputEnded
=============================================================================
