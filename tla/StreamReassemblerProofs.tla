---------------------- MODULE StreamReassemblerProofs ----------------------
(***************************************************************************)
(* The interval tree implements the abstract reassembler, whatever the     *)
(* capacity, the stream and the order of the excerpts, as long as int      *)
(* holds the indices: its nodes stay apart, in order and counted once, and *)
(* forgetting how they are cut turns each of its calls into one on the     *)
(* abstract reassembler, whose properties it therefore has.                *)
(***************************************************************************)
EXTENDS StreamReassemblerSpec, SharedLemmas, SequenceTheorems, TLAPS

\* int holds every index of the stream, so that struct comp narrows none.
IntHolds == 2 * StreamLen < IntRange

\* A node with something in it, which is what the stream has there.
SoundNodes ==
  {n \in [first : 0 .. StreamLen, last : 0 .. StreamLen, data : Seq(Nat)] :
     n.first < n.last /\ n.data = Excerpt(n.first, n.last - n.first)}

Trees ==
  [capacity : {Capacity}, out : Streams(Capacity), szUnasb : Nat, unread : Nat,
   unasb : 0 .. StreamLen, eof2 : SizeTs, t : Seq(SoundNodes)]

\* The indices of a node's bytes.
Span(n) == n.first .. n.last - 1

Apart(m, n) == m.last <= n.first \/ n.last <= m.first

\* The nodes are apart, in the order of their bytes.
Ordered(t) == \A i, j \in DOMAIN t : i < j => t[i].last <= t[j].first

\* The map holds nodes of the stream in order, and szUnasb is what they hold.
MapSound(x) == Ordered(x.t) /\ x.szUnasb = Cardinality(HeldBy(x.t))

-----------------------------------------------------------------------------
\* The fields of a node.
LEMMA NodeFields ==
  ASSUME NEW n \in SoundNodes
  PROVE  /\ n.first \in 0 .. StreamLen /\ n.last \in 0 .. StreamLen
         /\ n.first \in Nat /\ n.last \in Nat
         /\ n.first < n.last /\ n.last - n.first \in Nat
         /\ n.data = Excerpt(n.first, n.last - n.first)
         /\ n.data \in Seq(Nat) /\ Len(n.data) = n.last - n.first
<1>1. /\ n.first \in 0 .. StreamLen /\ n.last \in 0 .. StreamLen /\ n.first < n.last
      /\ n.data = Excerpt(n.first, n.last - n.first) /\ n.data \in Seq(Nat)
  BY DEF SoundNodes
<1>2. n.first \in Nat /\ n.last \in Nat /\ n.last - n.first \in Nat
  BY <1>1, ReassemblyAssumption
<1> QED
  BY <1>1, <1>2, ExcerptIsSeq

\* Making one.
LEMMA NodeIsSound ==
  ASSUME NEW from \in Nat, NEW to \in Nat, from < to, to <= StreamLen
  PROVE  Node(from, to, Excerpt(from, to - from)) \in SoundNodes
<1>1. to - from \in Nat /\ from \in 0 .. StreamLen /\ to \in 0 .. StreamLen
  BY ReassemblyAssumption
<1>2. Excerpt(from, to - from) \in Seq(Nat)
  BY <1>1, ExcerptIsSeq
<1> QED
  BY <1>1, <1>2 DEF SoundNodes, Node

\* Narrowing to int changes no index.
LEMMA ToIntIs ==
  ASSUME IntHolds, NEW x \in 0 .. StreamLen
  PROVE  ToInt(x) = x
<1> DEFINE h == IntRange \div 2
<1>1. IntRange \in Nat /\ h \in Nat /\ 2 * h = IntRange /\ x \in Nat
  BY IntAssumption, ReassemblyAssumption
<1>2. x < h /\ x + h \in Nat /\ x + h < IntRange
  BY <1>1, ReassemblyAssumption DEF IntHolds
<1> HIDE DEF h
<1>3. (x + h) % IntRange = x + h
  BY ONLY <1>1, <1>2
<1>4. ToInt(x) = (x + h) - h
  BY <1>3 DEF ToInt, h
<1> QED
  BY ONLY <1>1, <1>2, <1>4

\* struct comp puts a node before one that lies behind it, and not the other way.
LEMMA ApartIsLess ==
  ASSUME IntHolds, NEW m \in SoundNodes, NEW n \in SoundNodes, m.last <= n.first
  PROVE  Less(m, n) /\ ~ Less(n, m)
  BY NodeFields, ToIntIs DEF Less

\* Inserting into a sequence.
LEMMA InsertAtIs ==
  ASSUME NEW S, NEW t \in Seq(S), NEW n \in S, NEW p \in 1 .. Len(t) + 1
  PROVE  /\ SE!InsertAt(t, p, n) \in Seq(S)
         /\ SE!InsertAt(t, p, n) = [i \in 1 .. Len(t) + 1 |->
                IF i < p THEN t[i] ELSE IF i = p THEN n ELSE t[i - 1]]
<1>1. Len(t) \in Nat /\ p \in Nat
  OBVIOUS
<1> DEFINE a == SubSeq(t, 1, p - 1)
           b == SubSeq(t, p, Len(t))
<1>2. /\ a \in Seq(S) /\ Len(a) = p - 1
      /\ \A i \in 1 .. p - 1 : a[i] = t[i]
  BY <1>1
<1>3. /\ b \in Seq(S) /\ Len(b) = Len(t) - p + 1
      /\ \A i \in 1 .. Len(t) - p + 1 : b[i] = t[p + i - 1]
  BY <1>1
<1> HIDE DEF a, b
<1>4. SE!InsertAt(t, p, n) = a \o <<n>> \o b
  BY DEF a, b, SE!InsertAt
<1>5. <<n>> \in Seq(S) /\ Len(<<n>>) = 1 /\ <<n>>[1] = n
  OBVIOUS
<1>6. /\ a \o <<n>> \in Seq(S) /\ Len(a \o <<n>>) = p
      /\ \A i \in 1 .. p : (a \o <<n>>)[i] = IF i < p THEN t[i] ELSE n
  BY <1>1, <1>2, <1>5
<1> DEFINE c == a \o <<n>>
<1> HIDE DEF c
<1>7. /\ c \o b \in Seq(S) /\ Len(c \o b) = Len(t) + 1
      /\ \A i \in 1 .. Len(t) + 1 : (c \o b)[i] = IF i <= p THEN c[i] ELSE b[i - p]
  BY <1>1, <1>3, <1>6 DEF c
<1>8. \A i \in 1 .. Len(t) + 1 :
        (c \o b)[i] = IF i < p THEN t[i] ELSE IF i = p THEN n ELSE t[i - 1]
  <2> TAKE i \in 1 .. Len(t) + 1
  <2>1. CASE i < p
    BY <1>1, <1>6, <1>7, <2>1 DEF c
  <2>2. CASE i = p
    BY <1>1, <1>6, <1>7, <2>2 DEF c
  <2>3. CASE i > p
    <3>1. i - p \in 1 .. Len(t) - p + 1 /\ p + (i - p) - 1 = i - 1
      BY <1>1, <2>3
    <3>2. b[i - p] = t[p + (i - p) - 1]
      BY <1>3, <3>1
    <3>3. (c \o b)[i] = t[i - 1]
      BY ONLY <1>1, <1>7, <2>3, <3>1, <3>2, i \in 1 .. Len(t) + 1
    <3> QED
      BY ONLY <1>1, <2>3, <3>3, i \in 1 .. Len(t) + 1
  <2>4. i < p \/ i = p \/ i > p
    BY <1>1
  <2> QED
    BY ONLY <2>1, <2>2, <2>3, <2>4
<1>9. DOMAIN (c \o b) = 1 .. Len(t) + 1
  BY <1>7
<1> QED
  BY <1>4, <1>7, <1>8, <1>9 DEF c
-----------------------------------------------------------------------------
(***************************************************************************)
(* The map: what it holds, and what inserting a node apart from all others *)
(* does to it.                                                             *)
(***************************************************************************)
LEMMA HeldIs ==
  ASSUME NEW t \in Seq(SoundNodes)
  PROVE  /\ HeldBy(t) \subseteq 0 .. StreamLen - 1
         /\ IsFiniteSet(HeldBy(t))
         /\ \A x : x \in HeldBy(t) <=> \E i \in DOMAIN t : x \in Span(t[i])
<1>1. \A x : x \in HeldBy(t) <=> \E i \in DOMAIN t : x \in Span(t[i])
  BY DEF HeldBy, Span
<1>2. HeldBy(t) \subseteq 0 .. StreamLen - 1
  <2> SUFFICES ASSUME NEW x \in HeldBy(t) PROVE x \in 0 .. StreamLen - 1
    OBVIOUS
  <2>1. PICK i \in DOMAIN t : x \in Span(t[i])
    BY <1>1
  <2>2. t[i] \in SoundNodes
    BY <2>1
  <2> QED
    BY <2>1, <2>2, NodeFields, ReassemblyAssumption DEF Span
<1>3. IsFiniteSet(0 .. StreamLen - 1)
  BY FS_Interval, ReassemblyAssumption
<1>4. IsFiniteSet(HeldBy(t))
  BY <1>2, <1>3, FS_Subset
<1> QED
  BY <1>1, <1>2, <1>4

\* A stored byte is the one at its index.
LEMMA ByteAtIs ==
  ASSUME NEW t \in Seq(SoundNodes), NEW x \in HeldBy(t)
  PROVE  ByteAt(t, x) = x
<1> DEFINE n == CHOOSE k \in DOMAIN t : x \in t[k].first .. t[k].last - 1
<1>1. n \in DOMAIN t /\ x \in t[n].first .. t[n].last - 1
  BY HeldIs DEF Span
<1>2. ByteAt(t, x) = t[n].data[x - t[n].first + 1]
  BY DEF ByteAt
<1> HIDE DEF n
<1>3. t[n] \in SoundNodes
  BY <1>1
<1>4. /\ t[n].first \in Nat /\ t[n].last \in Nat /\ x \in Nat
      /\ t[n].data = Excerpt(t[n].first, t[n].last - t[n].first)
  BY <1>1, <1>3, NodeFields
<1>5. x - t[n].first + 1 \in 1 .. t[n].last - t[n].first
  BY <1>1, <1>4
<1>6. t[n].data[x - t[n].first + 1] = t[n].first + (x - t[n].first + 1) - 1
  BY <1>4, <1>5 DEF Excerpt
<1> QED
  BY ONLY <1>2, <1>4, <1>6

\* A node adds its length to the number of bytes held elsewhere.
LEMMA SpanCounts ==
  ASSUME NEW H, IsFiniteSet(H), NEW n \in SoundNodes, H \cap Span(n) = {}
  PROVE  Cardinality(H \cup Span(n)) = Cardinality(H) + (n.last - n.first)
<1>1. n.first \in Int /\ n.last \in Int /\ n.last - 1 \in Int /\ n.first < n.last
  BY NodeFields
<1>2. /\ IsFiniteSet(n.first .. n.last - 1)
      /\ Cardinality(n.first .. n.last - 1)
           = IF n.first > n.last - 1 THEN 0 ELSE (n.last - 1) - n.first + 1
  BY ONLY <1>1, FS_Interval
<1>3. IsFiniteSet(Span(n)) /\ Cardinality(Span(n)) = n.last - n.first
  BY ONLY <1>1, <1>2 DEF Span
<1>4. Cardinality(H \cup Span(n))
        = Cardinality(H) + Cardinality(Span(n)) - Cardinality(H \cap Span(n))
  BY ONLY <1>3, IsFiniteSet(H), FS_Union
<1>5. Cardinality(H \cap Span(n)) = 0
  BY FS_EmptySet
<1>6. Cardinality(H) \in Nat
  BY FS_CardinalityType
<1> QED
  BY ONLY <1>1, <1>3, <1>4, <1>5, <1>6

\* Where MapPut puts a node that is apart from all.
LEMMA MapPutIs ==
  ASSUME IntHolds, NEW t \in Seq(SoundNodes), Ordered(t), NEW n \in SoundNodes,
         \A i \in DOMAIN t : Apart(t[i], n)
  PROVE  \E p \in 1 .. Len(t) + 1 :
           /\ MapPut(t, n) = [i \in 1 .. Len(t) + 1 |->
                IF i < p THEN t[i] ELSE IF i = p THEN n ELSE t[i - 1]]
           /\ MapPut(t, n) \in Seq(SoundNodes)
           /\ \A i \in 1 .. Len(t) : i < p => t[i].last <= n.first
           /\ \A i \in 1 .. Len(t) : i >= p => n.last <= t[i].first
<1> DEFINE lower == {i \in 1 .. Len(t) : ~ Less(t[i], n)}
           p == IF lower = {} THEN Len(t) + 1
                ELSE CHOOSE i \in lower : \A j \in lower : i <= j
<1>1. DOMAIN t = 1 .. Len(t) /\ Len(t) \in Nat
  OBVIOUS
<1>2. \A i \in 1 .. Len(t) : t[i] \in SoundNodes
  BY <1>1
<1>3. \A i \in 1 .. Len(t) :
        /\ i \in lower => n.last <= t[i].first /\ Less(n, t[i])
        /\ i \notin lower => t[i].last <= n.first
  <2> TAKE i \in 1 .. Len(t)
  <2>1. t[i] \in SoundNodes /\ Apart(t[i], n)
    BY <1>1, <1>2
  <2>2. t[i].last <= n.first => Less(t[i], n)
    BY <2>1, ApartIsLess
  <2>3. n.last <= t[i].first => Less(n, t[i]) /\ ~ Less(t[i], n)
    BY <2>1, ApartIsLess
  <2> QED
    BY <2>1, <2>2, <2>3 DEF Apart
<1>4. p \in 1 .. Len(t) + 1 /\ \A i \in lower : p <= i
  <2>1. CASE lower = {}
    BY <1>1, <2>1
  <2>2. CASE lower # {}
    <3>1. lower \in SUBSET Nat
      BY <1>1
    <3>2. \E i \in lower : \A j \in lower : i <= j
      BY <2>2, <3>1, LeastElement
    <3>3. p \in lower /\ \A j \in lower : p <= j
      BY <2>2, <3>2
    <3> QED
      BY <1>1, <3>3
  <2> QED
    BY <2>1, <2>2
<1>5. p <= Len(t) => p \in lower
  <2>1. lower = {} => ~ (p <= Len(t))
    BY <1>1
  <2>2. lower # {} => \E i \in lower : \A j \in lower : i <= j
    <3>1. lower \in SUBSET Nat
      BY <1>1
    <3> QED
      BY <3>1, LeastElement
  <2> QED
    BY <2>1, <2>2
<1>6. MapPut(t, n) = SE!InsertAt(t, p, n)
  <2>1. p <= Len(t) => Less(n, t[p])
    BY <1>1, <1>3, <1>4, <1>5
  <2> QED
    BY <2>1 DEF MapPut
<1> HIDE DEF p
<1>7. \A i \in 1 .. Len(t) : i < p => t[i].last <= n.first
  BY <1>1, <1>3, <1>4
<1>8. \A i \in 1 .. Len(t) : i >= p => n.last <= t[i].first
  <2> SUFFICES ASSUME NEW i \in 1 .. Len(t), i >= p PROVE n.last <= t[i].first
    OBVIOUS
  <2>1. p \in 1 .. Len(t) /\ i \in Nat /\ p \in Nat
    BY <1>1, <1>4
  <2>2. n.last <= t[p].first
    BY <1>3, <1>5, <2>1
  <2>3. CASE i = p
    BY <2>2, <2>3
  <2>4. CASE i > p
    <3>1. t[p].last <= t[i].first
      BY <1>1, <2>1, <2>4 DEF Ordered
    <3>2. /\ t[p] \in SoundNodes /\ t[i] \in SoundNodes
      BY <1>2, <2>1
    <3>3. t[p].first < t[p].last /\ t[p].first \in Nat /\ t[p].last \in Nat
          /\ t[i].first \in Nat /\ n.last \in Nat
      BY <3>2, NodeFields
    <3> QED
      BY ONLY <2>2, <3>1, <3>3
  <2> QED
    BY <2>1, <2>3, <2>4
<1>9. /\ SE!InsertAt(t, p, n) \in Seq(SoundNodes)
      /\ SE!InsertAt(t, p, n) = [i \in 1 .. Len(t) + 1 |->
           IF i < p THEN t[i] ELSE IF i = p THEN n ELSE t[i - 1]]
  BY ONLY <1>4, t \in Seq(SoundNodes), n \in SoundNodes, InsertAtIs
<1> QED
  BY <1>4, <1>6, <1>7, <1>8, <1>9

\* A node is put among the others, in order.
LEMMA MapPutSound ==
  ASSUME IntHolds, NEW t \in Seq(SoundNodes), Ordered(t), NEW n \in SoundNodes,
         \A i \in DOMAIN t : Apart(t[i], n)
  PROVE  /\ MapPut(t, n) \in Seq(SoundNodes)
         /\ Ordered(MapPut(t, n))
         /\ \A i \in DOMAIN MapPut(t, n) :
              MapPut(t, n)[i] = n \/ \E j \in DOMAIN t : MapPut(t, n)[i] = t[j]
         /\ HeldBy(MapPut(t, n)) = HeldBy(t) \cup Span(n)
         /\ Cardinality(HeldBy(MapPut(t, n)))
              = Cardinality(HeldBy(t)) + (n.last - n.first)
<1>1. PICK p \in 1 .. Len(t) + 1 :
        /\ MapPut(t, n) = [i \in 1 .. Len(t) + 1 |->
             IF i < p THEN t[i] ELSE IF i = p THEN n ELSE t[i - 1]]
        /\ MapPut(t, n) \in Seq(SoundNodes)
        /\ \A i \in 1 .. Len(t) : i < p => t[i].last <= n.first
        /\ \A i \in 1 .. Len(t) : i >= p => n.last <= t[i].first
  BY MapPutIs
<1> DEFINE u == MapPut(t, n)
<1> HIDE DEF u
<1>2. /\ DOMAIN t = 1 .. Len(t) /\ Len(t) \in Nat /\ p \in Nat
      /\ u \in Seq(SoundNodes) /\ DOMAIN u = 1 .. Len(t) + 1
      /\ \A i \in 1 .. Len(t) + 1 :
           u[i] = IF i < p THEN t[i] ELSE IF i = p THEN n ELSE t[i - 1]
  BY <1>1 DEF u
<1>3. Ordered(u)
  <2> SUFFICES ASSUME NEW i \in 1 .. Len(t) + 1, NEW j \in 1 .. Len(t) + 1, i < j
               PROVE  u[i].last <= u[j].first
    BY <1>2 DEF Ordered
  <2>1. i \in Nat /\ j \in Nat
    BY <1>2
  <2>2. \A k, l \in 1 .. Len(t) : k < l => t[k].last <= t[l].first
    BY <1>2 DEF Ordered
  <2>3. CASE j < p
    <3>1. u[i] = t[i] /\ u[j] = t[j] /\ i \in 1 .. Len(t) /\ j \in 1 .. Len(t)
      BY <1>2, <2>1, <2>3
    <3> QED
      BY <2>2, <3>1
  <2>4. CASE j = p
    <3>1. u[i] = t[i] /\ u[j] = n /\ i \in 1 .. Len(t) /\ i < p
      BY <1>2, <2>1, <2>4
    <3> QED
      BY <1>1, <3>1
  <2>5. CASE j > p
    <3>1. u[j] = t[j - 1] /\ j - 1 \in 1 .. Len(t) /\ j - 1 >= p
      BY <1>2, <2>1, <2>5
    <3>2. CASE i < p
      <4>1. u[i] = t[i] /\ i \in 1 .. Len(t) /\ i < j - 1
        BY <1>2, <2>1, <2>5, <3>2
      <4> QED
        BY <2>2, <3>1, <4>1
    <3>3. CASE i = p
      <4>1. u[i] = n
        BY <1>2, <3>3
      <4> QED
        BY <1>1, <3>1, <4>1
    <3>4. CASE i > p
      <4>1. u[i] = t[i - 1] /\ i - 1 \in 1 .. Len(t) /\ i - 1 < j - 1
        BY <1>2, <2>1, <3>4
      <4> QED
        BY <2>2, <3>1, <4>1
    <3> QED
      BY <1>2, <2>1, <3>2, <3>3, <3>4
  <2> QED
    BY <1>2, <2>1, <2>3, <2>4, <2>5
<1>4. \A i \in DOMAIN u : u[i] = n \/ \E j \in DOMAIN t : u[i] = t[j]
  <2>1. ASSUME NEW i \in 1 .. Len(t) + 1
        PROVE  u[i] = n \/ \E j \in 1 .. Len(t) : u[i] = t[j]
    <3>1. CASE i < p
      <4>1. u[i] = t[i] /\ i \in 1 .. Len(t)
        BY <1>2, <3>1
      <4> QED
        BY ONLY <4>1
    <3>2. CASE i = p
      BY <1>2, <3>2
    <3>3. CASE i > p
      <4>1. u[i] = t[i - 1] /\ i - 1 \in 1 .. Len(t)
        BY <1>2, <3>3
      <4> QED
        BY ONLY <4>1
    <3> QED
      BY <1>2, <3>1, <3>2, <3>3
  <2>2. DOMAIN u = 1 .. Len(t) + 1 /\ DOMAIN t = 1 .. Len(t)
    BY <1>2
  <2> QED
    BY ONLY <2>1, <2>2
<1>5. /\ \E i \in DOMAIN u : u[i] = n
      /\ \A j \in DOMAIN t : \E i \in DOMAIN u : u[i] = t[j]
  <2>1. u[p] = n /\ p \in DOMAIN u
    BY <1>2
  <2>2. ASSUME NEW j \in 1 .. Len(t) PROVE \E i \in 1 .. Len(t) + 1 : u[i] = t[j]
    <3>1. CASE j < p
      BY <1>2, <3>1
    <3>2. CASE j >= p
      <4>1. j + 1 \in 1 .. Len(t) + 1 /\ ~ (j + 1 < p) /\ j + 1 # p /\ (j + 1) - 1 = j
        BY <1>2, <3>2
      <4>2. u[j + 1] = t[j]
        BY <1>2, <4>1
      <4> QED
        BY <4>1, <4>2
    <3> QED
      BY <1>2, <3>1, <3>2
  <2> QED
    BY <1>2, <2>1, <2>2
<1>6. HeldBy(u) = HeldBy(t) \cup Span(n)
  <2>1. /\ \A x : x \in HeldBy(u) <=> \E i \in DOMAIN u : x \in Span(u[i])
        /\ \A x : x \in HeldBy(t) <=> \E i \in DOMAIN t : x \in Span(t[i])
    BY <1>2, HeldIs
  <2>2. \A x : x \in HeldBy(u) <=> x \in HeldBy(t) \/ x \in Span(n)
    BY ONLY <1>4, <1>5, <2>1
  <2> QED
    BY <2>2
<1>7. HeldBy(t) \cap Span(n) = {}
  <2> SUFFICES ASSUME NEW x \in HeldBy(t), x \in Span(n) PROVE FALSE
    OBVIOUS
  <2>1. PICK i \in DOMAIN t : x \in Span(t[i])
    BY HeldIs
  <2>2. t[i] \in SoundNodes /\ Apart(t[i], n)
    BY <1>2, <2>1
  <2>3. /\ t[i].first \in Nat /\ t[i].last \in Nat /\ n.first \in Nat /\ n.last \in Nat
    BY ONLY <2>2, n \in SoundNodes, NodeFields
  <2> QED
    BY ONLY <2>1, <2>2, <2>3, x \in Span(n) DEF Span, Apart
<1>8. Cardinality(HeldBy(u)) = Cardinality(HeldBy(t)) + (n.last - n.first)
  BY <1>6, <1>7, HeldIs, SpanCounts
<1> QED
  BY <1>2, <1>3, <1>4, <1>6, <1>8 DEF u
-----------------------------------------------------------------------------
(***************************************************************************)
(* The three loops of push_substring are functions of the number of turns. *)
(***************************************************************************)
\* Turn i of the loop that p names, from what the turns before it have left.
Turn(p, a, i) ==
  CASE p.loop = "scan" -> ScanNode(a, p.nodes[i], p.data, p.index, p.endidx)
    [] p.loop = "put" -> PutNode(a, p.nodes[i])
    [] OTHER -> EraseFirst(a)

Turns(p, start, n, f) ==
  f = [i \in 0 .. n |-> IF i = 0 THEN start ELSE Turn(p, f[i - 1], i)]

LEMMA TurnsExist ==
  ASSUME NEW p, NEW start
  PROVE  \A n \in Nat : \E f : Turns(p, start, n, f)
<1> DEFINE P == {n \in Nat : \E f : Turns(p, start, n, f)}
<1>1. 0 \in P
  <2> DEFINE f == [i \in 0 .. 0 |-> start]
  <2>1. Turns(p, start, 0, f)
    BY DEF Turns
  <2> QED
    BY <2>1
<1>2. ASSUME NEW n \in Nat, n \in P PROVE n + 1 \in P
  <2>1. PICK f : Turns(p, start, n, f)
    BY <1>2
  <2> DEFINE g == [i \in 0 .. n + 1 |-> IF i = n + 1 THEN Turn(p, f[n], n + 1) ELSE f[i]]
  <2>2. \A i \in 0 .. n : f[i] = IF i = 0 THEN start ELSE Turn(p, f[i - 1], i)
    BY <2>1 DEF Turns
  <2>3. \A i \in 0 .. n + 1 : g[i] = IF i = 0 THEN start ELSE Turn(p, g[i - 1], i)
    <3> SUFFICES ASSUME NEW i \in 0 .. n + 1
                 PROVE  g[i] = IF i = 0 THEN start ELSE Turn(p, g[i - 1], i)
      OBVIOUS
    <3>1. CASE i = n + 1
      <4>1. g[i] = Turn(p, f[n], i) /\ i - 1 = n /\ n \in 0 .. n + 1 /\ n # n + 1 /\ i # 0
        BY <1>2, <3>1
      <4>2. g[i - 1] = f[n]
        BY <4>1
      <4> QED
        BY <4>1, <4>2
    <3>2. CASE i # n + 1
      <4>1. i \in 0 .. n /\ g[i] = f[i]
        BY <1>2, <3>2
      <4>2. i # 0 => i - 1 \in 0 .. n + 1 /\ i - 1 # n + 1 /\ g[i - 1] = f[i - 1]
        BY <1>2, <4>1
      <4> QED
        BY <2>2, <4>1, <4>2
    <3> QED
      BY <3>1, <3>2
  <2>4. Turns(p, start, n + 1, g)
    <3>1. g = [i \in 0 .. n + 1 |-> g[i]]
      OBVIOUS
    <3> HIDE DEF g
    <3> QED
      BY <2>3, <3>1 DEF Turns
  <2> QED
    BY <1>2, <2>4
<1> HIDE DEF P
<1>3. \A n \in Nat : n \in P
  BY <1>1, <1>2, EveryNumber
<1> QED
  BY <1>3 DEF P

Scans(f, t, start, data, index, endidx) ==
  f = [i \in 0 .. Len(t) |->
         IF i = 0 THEN start ELSE ScanNode(f[i - 1], t[i], data, index, endidx)]

LEMMA ScanExists ==
  ASSUME NEW t, NEW start, NEW data, NEW index, NEW endidx, Len(t) \in Nat
  PROVE  \E f : Scans(f, t, start, data, index, endidx)
<1> DEFINE p == [loop |-> "scan", nodes |-> t, data |-> data, index |-> index,
                 endidx |-> endidx]
<1>1. PICK f : Turns(p, start, Len(t), f)
  BY TurnsExist
<1>2. \A a, i : Turn(p, a, i) = ScanNode(a, t[i], data, index, endidx)
  BY DEF Turn
<1> HIDE DEF p
<1> QED
  BY <1>1, <1>2 DEF Turns, Scans

Puts(f, x, cut) ==
  f = [i \in 0 .. Len(cut) |-> IF i = 0 THEN x ELSE PutNode(f[i - 1], cut[i])]

LEMMA PutExists ==
  ASSUME NEW x, NEW cut, Len(cut) \in Nat
  PROVE  \E f : Puts(f, x, cut)
<1> DEFINE p == [loop |-> "put", nodes |-> cut]
<1>1. PICK f : Turns(p, x, Len(cut), f)
  BY TurnsExist
<1>2. \A a, i : Turn(p, a, i) = PutNode(a, cut[i])
  BY DEF Turn
<1> HIDE DEF p
<1> QED
  BY <1>1, <1>2 DEF Turns, Puts

Drains(f, x, n) ==
  f = [i \in 0 .. n |-> IF i = 0 THEN x ELSE EraseFirst(f[i - 1])]

LEMMA DrainExists ==
  ASSUME NEW x, NEW n \in Nat
  PROVE  \E f : Drains(f, x, n)
<1> DEFINE p == [loop |-> "drain"]
<1>1. PICK f : Turns(p, x, n, f)
  BY TurnsExist
<1>2. \A a, i : Turn(p, a, i) = EraseFirst(a)
  BY DEF Turn
<1> HIDE DEF p
<1> QED
  BY <1>1, <1>2 DEF Turns, Drains

-----------------------------------------------------------------------------
(***************************************************************************)
(* The scan cuts pieces of the excerpt that fill the gaps of the map.      *)
(***************************************************************************)
\* The piece of an excerpt between two of its indices.
LEMMA PieceIs ==
  ASSUME NEW index \in Nat, NEW len \in Nat, index + len <= StreamLen,
         NEW from \in Nat, NEW to \in Nat, index <= from, from < to, to <= index + len
  PROVE  /\ Piece(Excerpt(index, len), index, from, to) \in SoundNodes
         /\ Piece(Excerpt(index, len), index, from, to).first = from
         /\ Piece(Excerpt(index, len), index, from, to).last = to
<1> DEFINE data == Excerpt(index, len)
           pos == from - index
           n == to - from
<1>1. /\ pos \in Nat /\ n \in Nat /\ pos + n <= len /\ pos + n = to - index
      /\ index + pos = from /\ StreamLen \in Nat
  BY ReassemblyAssumption
<1>2. data \in Seq(Nat) /\ Len(data) = len
  BY ExcerptIsSeq
<1>3. Smaller(pos + n, Len(data)) = pos + n
  BY <1>1, <1>2 DEF Smaller
<1>4. Substr(data, pos, n) = SubSeq(data, pos + 1, pos + n)
  BY <1>3 DEF Substr
<1> HIDE DEF pos, n
<1>5. SubSeq(data, pos + 1, pos + n) = Excerpt(index + pos, n)
  BY <1>1 DEF Excerpt
<1>6. Substr(data, pos, n) = Excerpt(from, n)
  BY <1>1, <1>4, <1>5
<1>7. Piece(data, index, from, to) = Node(from, to, Excerpt(from, to - from))
  BY <1>6 DEF Piece, pos, n
<1>8. Node(from, to, Excerpt(from, to - from)) \in SoundNodes
  BY <1>1, NodeIsSound
<1>9. /\ Node(from, to, Excerpt(from, to - from)).first = from
      /\ Node(from, to, Excerpt(from, to - from)).last = to
  BY DEF Node
<1> QED
  BY <1>7, <1>8, <1>9

\* Adding a node behind all the others.
LEMMA AppendSound ==
  ASSUME NEW cut \in Seq(SoundNodes), Ordered(cut), NEW n \in SoundNodes,
         \A k \in DOMAIN cut : cut[k].last <= n.first
  PROVE  /\ Append(cut, n) \in Seq(SoundNodes)
         /\ Ordered(Append(cut, n))
         /\ HeldBy(Append(cut, n)) = HeldBy(cut) \cup Span(n)
         /\ \A k \in DOMAIN Append(cut, n) :
              Append(cut, n)[k] = n \/ \E l \in DOMAIN cut : Append(cut, n)[k] = cut[l]
<1> DEFINE u == Append(cut, n)
<1>1. /\ Len(cut) \in Nat /\ DOMAIN cut = 1 .. Len(cut)
      /\ u \in Seq(SoundNodes) /\ DOMAIN u = 1 .. Len(cut) + 1
      /\ \A k \in 1 .. Len(cut) : u[k] = cut[k]
      /\ u[Len(cut) + 1] = n
  BY AppendProperties
<1> HIDE DEF u
<1>2. Ordered(u)
  <2> SUFFICES ASSUME NEW i \in 1 .. Len(cut) + 1, NEW j \in 1 .. Len(cut) + 1, i < j
               PROVE  u[i].last <= u[j].first
    BY <1>1 DEF Ordered
  <2>1. i \in 1 .. Len(cut) /\ u[i] = cut[i]
    BY <1>1
  <2>2. CASE j = Len(cut) + 1
    BY <1>1, <2>1, <2>2
  <2>3. CASE j # Len(cut) + 1
    <3>1. j \in 1 .. Len(cut) /\ u[j] = cut[j]
      BY <1>1, <2>3
    <3> QED
      BY <1>1, <2>1, <3>1 DEF Ordered
  <2> QED
    BY <2>2, <2>3
<1>3. \A k \in DOMAIN u : u[k] = n \/ \E l \in DOMAIN cut : u[k] = cut[l]
  BY <1>1
<1>4. HeldBy(u) = HeldBy(cut) \cup Span(n)
  <2>1. /\ \A x : x \in HeldBy(u) <=> \E k \in DOMAIN u : x \in Span(u[k])
        /\ \A x : x \in HeldBy(cut) <=> \E k \in DOMAIN cut : x \in Span(cut[k])
    BY <1>1, HeldIs
  <2>2. /\ \E k \in DOMAIN u : u[k] = n
        /\ \A l \in DOMAIN cut : \E k \in DOMAIN u : u[k] = cut[l]
    BY <1>1
  <2>3. \A x : x \in HeldBy(u) <=> x \in HeldBy(cut) \/ x \in Span(n)
    BY ONLY <1>3, <2>1, <2>2
  <2> QED
    BY <2>3
<1> QED
  BY <1>1, <1>2, <1>3, <1>4 DEF u

\* Pieces between from and to that are apart from the nodes of t and each other.
Fitting(t, cut, from, to) ==
  /\ cut \in Seq(SoundNodes) /\ Ordered(cut)
  /\ \A k \in DOMAIN cut :
       /\ from <= cut[k].first /\ cut[k].last <= to
       /\ \A j \in DOMAIN t : Apart(t[j], cut[k])

\* The scan when it has passed i nodes of t, from start to at most end: with the
\* pieces, all is covered up to the index reached.
Scanned(t, i, start, end, a) ==
  /\ a.idx \in Nat /\ start <= a.idx /\ a.done \in BOOLEAN
  /\ IF a.done THEN end <= a.idx ELSE a.idx < end
  /\ ~ a.done => \A j \in 1 .. i : t[j].last <= a.idx
  /\ Fitting(t, a.cut, start, end)
  /\ \A k \in DOMAIN a.cut : a.cut[k].last <= a.idx
  /\ \A y \in start .. a.idx - 1 : y < end => y \in HeldBy(t) \/ y \in HeldBy(a.cut)

\* A piece that begins where the scan is and ends at or before the next node.
LEMMA OnePiece ==
  ASSUME NEW t \in Seq(SoundNodes), NEW cut, NEW start \in Nat, NEW end \in Nat,
         Fitting(t, cut, start, end), NEW n \in SoundNodes,
         start <= n.first, n.last <= end,
         \A k \in DOMAIN cut : cut[k].last <= n.first,
         \A j \in DOMAIN t : Apart(t[j], n)
  PROVE  /\ Fitting(t, Append(cut, n), start, end)
         /\ HeldBy(Append(cut, n)) = HeldBy(cut) \cup Span(n)
         /\ \A b \in Nat : (n.last <= b /\ \A k \in DOMAIN cut : cut[k].last <= b)
              => \A k \in DOMAIN Append(cut, n) : Append(cut, n)[k].last <= b
<1>1. cut \in Seq(SoundNodes) /\ Ordered(cut)
  BY DEF Fitting
<1> DEFINE u == Append(cut, n)
<1>2. /\ u \in Seq(SoundNodes) /\ Ordered(u)
      /\ HeldBy(u) = HeldBy(cut) \cup Span(n)
      /\ \A k \in DOMAIN u : u[k] = n \/ \E l \in DOMAIN cut : u[k] = cut[l]
  BY <1>1, AppendSound
<1> HIDE DEF u
<1>3. Fitting(t, u, start, end)
  BY <1>2 DEF Fitting
<1> QED
  BY <1>2, <1>3 DEF u

\* One turn.
LEMMA ScanTurn ==
  ASSUME NEW t \in Seq(SoundNodes), Ordered(t),
         NEW index \in Nat, NEW len \in Nat, index + len <= StreamLen,
         NEW start \in Nat, index <= start, NEW end \in Nat, end <= index + len,
         NEW i \in 1 .. Len(t), NEW a, Scanned(t, i - 1, start, end, a)
  PROVE  Scanned(t, i, start, end, ScanNode(a, t[i], Excerpt(index, len), index, end))
<1> DEFINE c == t[i]
           b == ScanNode(a, c, Excerpt(index, len), index, end)
<1> SUFFICES Scanned(t, i, start, end, b)
  OBVIOUS
<1>1. /\ a.idx \in Nat /\ start <= a.idx /\ a.done \in BOOLEAN
      /\ IF a.done THEN end <= a.idx ELSE a.idx < end
      /\ ~ a.done => \A j \in 1 .. i - 1 : t[j].last <= a.idx
      /\ Fitting(t, a.cut, start, end)
      /\ \A k \in DOMAIN a.cut : a.cut[k].last <= a.idx
      /\ \A y \in start .. a.idx - 1 : y < end => y \in HeldBy(t) \/ y \in HeldBy(a.cut)
  BY DEF Scanned
<1>2. /\ c \in SoundNodes /\ c.first \in Nat /\ c.last \in Nat /\ c.first < c.last
      /\ i \in Nat /\ DOMAIN t = 1 .. Len(t) /\ Len(t) \in Nat
  <2>1. c \in SoundNodes
    OBVIOUS
  <2> QED
    BY <2>1, NodeFields
<1>3. CASE a.done
  <2>1. b = a
    BY <1>3 DEF ScanNode
  <2> QED
    BY <1>1, <1>3, <2>1 DEF Scanned
<1>4. CASE ~ a.done
  <2> DEFINE m == IF c.first <= end THEN c.first ELSE end
             n == Piece(Excerpt(index, len), index, a.idx, m)
             idx == IF a.idx >= c.last THEN a.idx ELSE c.last
             cut == IF a.idx < c.first THEN Append(a.cut, n) ELSE a.cut
  <2>1. /\ b.idx = idx /\ b.done = (c.last >= end) /\ b.cut = cut
    BY <1>4 DEF ScanNode, Smaller, Larger
  <2> HIDE DEF b
  <2>2. a.idx < end /\ \A j \in 1 .. i - 1 : t[j].last <= a.idx
    BY <1>1, <1>4
  <2>3. /\ idx \in Nat /\ a.idx <= idx /\ start <= idx /\ c.last <= idx
        /\ idx = a.idx \/ idx = c.last
    BY <1>1, <1>2
  <2>4. IF c.last >= end THEN end <= idx ELSE idx < end
    BY <1>1, <1>2, <2>2
  <2>5. \A j \in 1 .. i : t[j].last <= idx
    <3> SUFFICES ASSUME NEW j \in 1 .. i PROVE t[j].last <= idx
      OBVIOUS
    <3>1. CASE j = i
      BY <2>3, <3>1
    <3>2. CASE j # i
      <4>1. j \in 1 .. i - 1 /\ t[j].last <= a.idx /\ t[j] \in SoundNodes
        BY <1>2, <2>2, <3>2
      <4> QED
        BY <1>1, <2>3, <4>1, NodeFields
    <3> QED
      BY <3>1, <3>2
  <2> HIDE DEF idx, cut
  <2>a. /\ b.idx = idx /\ b.cut = cut /\ b.done \in BOOLEAN
        /\ IF b.done THEN end <= b.idx ELSE b.idx < end
    <3> DEFINE behind == c.last >= end
    <3>1. b.done = behind /\ behind \in BOOLEAN
      BY ONLY <2>1
    <3>2. IF behind THEN end <= idx ELSE idx < end
      BY ONLY <2>4
    <3> HIDE DEF behind
    <3>3. b.idx = idx /\ b.cut = cut
      BY ONLY <2>1
    <3> QED
      BY ONLY <3>1, <3>2, <3>3
  <2>b. ASSUME Fitting(t, cut, start, end), \A k \in DOMAIN cut : cut[k].last <= idx,
               \A y \in start .. idx - 1 : y < end => y \in HeldBy(t) \/ y \in HeldBy(cut)
        PROVE  Scanned(t, i, start, end, b)
    BY ONLY <2>a, <2>b, <2>3, <2>5 DEF Scanned
  <2>6. CASE ~ (a.idx < c.first)
    <3>1. cut = a.cut
      BY <2>6 DEF cut
    <3>2. \A k \in DOMAIN cut : cut[k].last <= idx
      <4> SUFFICES ASSUME NEW k \in DOMAIN a.cut PROVE a.cut[k].last <= idx
        BY <3>1
      <4>1. a.cut[k] \in SoundNodes
        BY <1>1 DEF Fitting
      <4>2. a.cut[k].last \in Nat /\ a.cut[k].last <= a.idx
        BY <1>1, <4>1, NodeFields
      <4> QED
        BY ONLY <1>1, <2>3, <4>2
    <3>3. \A y \in start .. idx - 1 : y < end => y \in HeldBy(t) \/ y \in HeldBy(cut)
      <4> SUFFICES ASSUME NEW y \in start .. idx - 1, y < end
                   PROVE  y \in HeldBy(t) \/ y \in HeldBy(a.cut)
        BY <3>1
      <4>1. y < a.idx \/ y \in Span(c)
        BY <1>1, <1>2, <2>3, <2>6 DEF Span
      <4>2. CASE y < a.idx
        BY <1>1, <2>3, <4>2
      <4>3. CASE y \in Span(c)
        BY <1>2, <4>3, HeldIs
      <4> QED
        BY <4>1, <4>2, <4>3
    <3> QED
      BY <1>1, <2>b, <3>1, <3>2, <3>3
  <2>7. CASE a.idx < c.first
    <3>1. cut = Append(a.cut, n)
      BY <2>7 DEF cut
    <3>2. /\ m \in Nat /\ a.idx < m /\ m <= end /\ m <= c.first /\ m <= idx
          /\ m = end \/ m = c.first
      BY <1>1, <1>2, <2>2, <2>3, <2>7
    <3> HIDE DEF m
    <3>3. /\ n \in SoundNodes /\ n.first = a.idx /\ n.last = m
      <4>1. index <= a.idx /\ m <= index + len
        BY <1>1, <3>2
      <4> QED
        BY ONLY <1>1, <3>2, <4>1, index \in Nat, len \in Nat, index + len <= StreamLen,
                PieceIs
    <3> HIDE DEF n
    <3>4. \A j \in DOMAIN t : Apart(t[j], n)
      <4> SUFFICES ASSUME NEW j \in 1 .. Len(t) PROVE Apart(t[j], n)
        BY <1>2
      <4>1. t[j] \in SoundNodes /\ t[j].first \in Nat /\ t[j].last \in Nat
        BY NodeFields
      <4>2. CASE j < i
        <5>1. t[j].last <= a.idx
          BY <1>2, <2>2, <4>2
        <5> QED
          BY <3>3, <5>1 DEF Apart
      <4>3. CASE j >= i
        <5>1. c.first <= t[j].first
          <6>1. CASE j = i
            BY <1>2, <6>1
          <6>2. CASE j > i
            <7>1. c.last <= t[j].first
              BY <1>2, <6>2 DEF Ordered
            <7> QED
              BY <1>2, <4>1, <7>1
          <6> QED
            BY <1>2, <4>3, <6>1, <6>2
        <5> QED
          BY <1>2, <3>2, <3>3, <4>1, <5>1 DEF Apart
      <4> QED
        BY <1>2, <4>2, <4>3
    <3>5. /\ Fitting(t, cut, start, end)
          /\ HeldBy(cut) = HeldBy(a.cut) \cup Span(n)
          /\ \A y \in Nat : (n.last <= y /\ \A k \in DOMAIN a.cut : a.cut[k].last <= y)
               => \A k \in DOMAIN cut : cut[k].last <= y
      <4>1. start <= n.first /\ n.last <= end
        BY <1>1, <3>2, <3>3
      <4>2. \A k \in DOMAIN a.cut : a.cut[k].last <= n.first
        BY <1>1, <3>3
      <4>3. Fitting(t, a.cut, start, end)
        BY <1>1
      <4> QED
        BY ONLY <3>1, <3>3, <3>4, <4>1, <4>2, <4>3, OnePiece, t \in Seq(SoundNodes),
                start \in Nat, end \in Nat
    <3>6. \A k \in DOMAIN cut : cut[k].last <= idx
      <4>1. \A k \in DOMAIN a.cut : a.cut[k].last <= idx
        <5> SUFFICES ASSUME NEW k \in DOMAIN a.cut PROVE a.cut[k].last <= idx
          OBVIOUS
        <5>1. a.cut[k] \in SoundNodes
          BY <1>1 DEF Fitting
        <5>2. a.cut[k].last \in Nat /\ a.cut[k].last <= a.idx
          BY <1>1, <5>1, NodeFields
        <5> QED
          BY ONLY <1>1, <2>3, <5>2
      <4> QED
        BY <2>3, <3>2, <3>3, <3>5, <4>1
    <3>7. \A y \in start .. idx - 1 : y < end => y \in HeldBy(t) \/ y \in HeldBy(cut)
      <4> SUFFICES ASSUME NEW y \in start .. idx - 1, y < end
                   PROVE  y \in HeldBy(t) \/ y \in HeldBy(cut)
        OBVIOUS
      <4>1. y < a.idx \/ y \in Span(n) \/ y \in Span(c)
        BY <1>1, <1>2, <2>3, <2>7, <3>2, <3>3 DEF Span
      <4>2. CASE y < a.idx
        BY <1>1, <2>3, <3>5, <4>2
      <4>3. CASE y \in Span(n)
        BY <3>5, <4>3
      <4>4. CASE y \in Span(c)
        BY <1>2, <4>4, HeldIs
      <4> QED
        BY <4>1, <4>2, <4>3, <4>4
    <3> QED
      BY <2>b, <3>5, <3>6, <3>7
  <2> QED
    BY <2>6, <2>7
<1> QED
  BY <1>1, <1>3, <1>4

\* All the turns.
LEMMA ScanSound ==
  ASSUME NEW t \in Seq(SoundNodes), Ordered(t),
         NEW index \in Nat, NEW len \in Nat, index + len <= StreamLen,
         NEW start \in Nat, index <= start, NEW end \in Nat, end <= index + len,
         start < end,
         NEW a0, a0 = [idx |-> start, done |-> FALSE, cut |-> <<>>],
         NEW f, \A i \in 0 .. Len(t) :
                  f[i] = IF i = 0 THEN a0
                         ELSE ScanNode(f[i - 1], t[i], Excerpt(index, len), index, end)
  PROVE  Scanned(t, Len(t), start, end, f[Len(t)])
<1>1. Len(t) \in Nat
  OBVIOUS
<1>2. Scanned(t, 0, start, end, a0)
  <2>1. a0.idx = start /\ a0.done = FALSE /\ a0.cut = <<>>
    OBVIOUS
  <2>2. Fitting(t, <<>>, start, end)
    BY DEF Fitting, Ordered
  <2>3. \A j \in 1 .. 0 : t[j].last <= a0.idx
    <3>1. \A j \in 1 .. 0 : FALSE
      OBVIOUS
    <3> QED
      BY ONLY <3>1
  <2>4. \A k \in DOMAIN a0.cut : a0.cut[k].last <= a0.idx
    <3>1. DOMAIN a0.cut = {}
      BY <2>1
    <3> QED
      BY ONLY <3>1
  <2>5. \A y \in start .. a0.idx - 1 :
          y < end => y \in HeldBy(t) \/ y \in HeldBy(a0.cut)
    <3>1. \A y \in start .. a0.idx - 1 : FALSE
      BY <2>1
    <3> QED
      BY ONLY <3>1
  <2>6. /\ a0.idx \in Nat /\ start <= a0.idx /\ a0.done \in BOOLEAN /\ ~ a0.done
        /\ a0.idx < end /\ Fitting(t, a0.cut, start, end)
    BY <2>1, <2>2
  <2> QED
    BY ONLY <2>3, <2>4, <2>5, <2>6 DEF Scanned
<1> DEFINE P == {i \in Nat : i <= Len(t) => Scanned(t, i, start, end, f[i])}
<1>3. 0 \in P
  <2>1. 0 \in 0 .. Len(t)
    BY ONLY <1>1
  <2>2. f[0] = IF 0 = 0 THEN a0
               ELSE ScanNode(f[0 - 1], t[0], Excerpt(index, len), index, end)
    BY <2>1, Zenon
  <2> QED
    BY ONLY <1>2, <2>2
<1>4. ASSUME NEW i \in Nat, i \in P PROVE i + 1 \in P
  <2> SUFFICES ASSUME i + 1 <= Len(t) PROVE Scanned(t, i + 1, start, end, f[i + 1])
    OBVIOUS
  <2>1. Scanned(t, i, start, end, f[i])
    BY ONLY <1>1, <1>4, i + 1 <= Len(t)
  <2>2. i + 1 \in 1 .. Len(t) /\ (i + 1) - 1 = i /\ i + 1 # 0 /\ i + 1 \in 0 .. Len(t)
    BY ONLY <1>1, i \in Nat, i + 1 <= Len(t)
  <2>3. f[i + 1] = ScanNode(f[i], t[i + 1], Excerpt(index, len), index, end)
    BY <2>2
  <2>4. Scanned(t, i + 1, start, end,
                ScanNode(f[i], t[i + 1], Excerpt(index, len), index, end))
    <3>1. Scanned(t, (i + 1) - 1, start, end, f[i])
      BY ONLY <2>1, <2>2
    <3> QED
      BY ONLY t \in Seq(SoundNodes), Ordered(t), index \in Nat, len \in Nat,
              index + len <= StreamLen, start \in Nat, index <= start, end \in Nat,
              end <= index + len, <2>2, <3>1, ScanTurn
  <2> QED
    BY ONLY <2>3, <2>4
<1> HIDE DEF P
<1>5. \A i \in Nat : i \in P
  BY <1>3, <1>4, EveryNumber
<1> QED
  BY <1>1, <1>5 DEF P

\* What remains of the excerpt behind the last node makes the last piece.
LEMMA LastPiece ==
  ASSUME NEW t \in Seq(SoundNodes),
         NEW index \in Nat, NEW len \in Nat, index + len <= StreamLen,
         NEW start \in Nat, index <= start, NEW end \in Nat, end <= index + len,
         NEW a, Scanned(t, Len(t), start, end, a),
         NEW p, p = IF a.idx < end
                    THEN Append(a.cut, Piece(Excerpt(index, len), index, a.idx, end))
                    ELSE a.cut
  PROVE  /\ Fitting(t, p, start, end)
         /\ \A y \in start .. end - 1 : y \in HeldBy(t) \/ y \in HeldBy(p)
<1>1. /\ a.idx \in Nat /\ start <= a.idx /\ a.done \in BOOLEAN
      /\ IF a.done THEN end <= a.idx ELSE a.idx < end
      /\ ~ a.done => \A j \in 1 .. Len(t) : t[j].last <= a.idx
      /\ \A k \in DOMAIN a.cut : a.cut[k].last <= a.idx
      /\ \A y \in start .. a.idx - 1 : y < end => y \in HeldBy(t) \/ y \in HeldBy(a.cut)
  BY DEF Scanned
<1>2. Fitting(t, a.cut, start, end)
  BY DEF Scanned
<1>3. CASE ~ (a.idx < end)
  <2>1. p = a.cut
    BY <1>3
  <2>2. \A y \in start .. end - 1 : y \in start .. a.idx - 1 /\ y < end
    BY <1>1, <1>3
  <2> QED
    BY ONLY <1>1, <1>2, <2>1, <2>2
<1>4. CASE a.idx < end
  <2> DEFINE n == Piece(Excerpt(index, len), index, a.idx, end)
  <2>1. p = Append(a.cut, n)
    BY <1>4
  <2>2. n \in SoundNodes /\ n.first = a.idx /\ n.last = end
    <3>1. index <= a.idx
      BY <1>1
    <3> QED
      BY ONLY <1>1, <1>4, <3>1, PieceIs, index \in Nat, len \in Nat,
              index + len <= StreamLen, end \in Nat, end <= index + len
  <2> HIDE DEF n
  <2>3. \A j \in DOMAIN t : Apart(t[j], n)
    <3>1. DOMAIN t = 1 .. Len(t) /\ ~ a.done
      BY <1>1, <1>4
    <3> QED
      BY ONLY <1>1, <2>2, <3>1 DEF Apart
  <2>4. start <= n.first /\ n.last <= end /\ \A k \in DOMAIN a.cut : a.cut[k].last <= n.first
    BY ONLY <1>1, <2>2, end \in Nat
  <2>5. Fitting(t, p, start, end) /\ HeldBy(p) = HeldBy(a.cut) \cup Span(n)
    <3>1. \A k \in DOMAIN a.cut : a.cut[k].last <= n.first
      BY <2>4
    <3> QED
      BY ONLY t \in Seq(SoundNodes), start \in Nat, end \in Nat, <1>2, <2>1, <2>2, <2>3,
              <2>4, <3>1, OnePiece
  <2>6. \A y \in start .. end - 1 : (y \in start .. a.idx - 1 /\ y < end) \/ y \in Span(n)
    BY ONLY <1>1, <2>2, start \in Nat, end \in Nat DEF Span
  <2> QED
    BY ONLY <1>1, <2>1, <2>5, <2>6
<1> QED
  BY <1>3, <1>4

\* The pieces, and with the map they cover the excerpt between start and end.
LEMMA PiecesSound ==
  ASSUME NEW x, x.t \in Seq(SoundNodes), Ordered(x.t), x.unasb \in Nat,
         NEW index \in Nat, NEW len \in Nat, index + len <= StreamLen,
         NEW end \in Nat, end <= index + len, Larger(x.unasb, index) < end
  PROVE  /\ Fitting(x.t, Pieces(x, Excerpt(index, len), index, end),
                    Larger(x.unasb, index), end)
         /\ \A y \in Larger(x.unasb, index) .. end - 1 :
              \/ y \in HeldBy(x.t)
              \/ y \in HeldBy(Pieces(x, Excerpt(index, len), index, end))
<1> DEFINE t == x.t
           data == Excerpt(index, len)
           start == Larger(x.unasb, index)
           a0 == [idx |-> start, done |-> FALSE, cut |-> <<>>]
           f == CHOOSE g : Scans(g, t, a0, data, index, end)
           a == f[Len(t)]
           p == Pieces(x, data, index, end)
<1>1. p = IF a.idx < end THEN Append(a.cut, Piece(data, index, a.idx, end)) ELSE a.cut
  BY DEF Pieces, Scans
<1>2. start \in Nat /\ index <= start /\ start < end
  BY DEF Larger
<1>3. t \in Seq(SoundNodes) /\ Ordered(t) /\ Len(t) \in Nat
  OBVIOUS
<1>4. a0 = [idx |-> start, done |-> FALSE, cut |-> <<>>]
  OBVIOUS
<1> HIDE DEF t, start, a0, p
<1>5. Scans(f, t, a0, data, index, end)
  <2>1. \E g : Scans(g, t, a0, data, index, end)
    BY ONLY <1>3, ScanExists
  <2> QED
    BY ONLY <2>1
<1> HIDE DEF f
<1>6. \A i \in 0 .. Len(t) :
        f[i] = IF i = 0 THEN a0 ELSE ScanNode(f[i - 1], t[i], data, index, end)
  BY ONLY <1>5 DEF Scans
<1>7. Scanned(t, Len(t), start, end, a)
  BY ONLY <1>2, <1>3, <1>4, <1>6, ScanSound, index \in Nat, len \in Nat,
          index + len <= StreamLen, end \in Nat, end <= index + len
<1> HIDE DEF a
<1>8. /\ Fitting(t, p, start, end)
      /\ \A y \in start .. end - 1 : y \in HeldBy(t) \/ y \in HeldBy(p)
  BY ONLY <1>1, <1>2, <1>3, <1>7, LastPiece, index \in Nat, len \in Nat,
          index + len <= StreamLen, end \in Nat, end <= index + len
<1> QED
  BY <1>8 DEF t, start, p
-----------------------------------------------------------------------------
(***************************************************************************)
(* Inserting the pieces.                                                   *)
(***************************************************************************)
\* Two reassemblers that differ in their maps only.
SameElse(x, z) ==
  /\ z.capacity = x.capacity /\ z.out = x.out /\ z.unread = x.unread
  /\ z.unasb = x.unasb /\ z.eof2 = x.eof2

\* x when the first k pieces have been inserted.
PutSoFar(x, cut, k, z) ==
  /\ z \in Trees /\ MapSound(z) /\ SameElse(x, z)
  /\ \A y : y \in HeldBy(z.t) <=> y \in HeldBy(x.t) \/ \E j \in 1 .. k : y \in Span(cut[j])
  /\ \A j \in k + 1 .. Len(cut) : \A i \in DOMAIN z.t : Apart(z.t[i], cut[j])

\* The fields of a reassembler.
LEMMA TreeFields ==
  ASSUME NEW x \in Trees
  PROVE  /\ x.capacity = Capacity /\ x.out \in Streams(Capacity)
         /\ x.szUnasb \in Nat /\ x.unread \in Nat /\ x.unasb \in 0 .. StreamLen
         /\ x.unasb \in Nat /\ x.eof2 \in SizeTs /\ x.t \in Seq(SoundNodes)
         /\ Len(x.t) \in Nat /\ DOMAIN x.t = 1 .. Len(x.t)
         /\ x = [capacity |-> x.capacity, out |-> x.out, szUnasb |-> x.szUnasb,
                 unread |-> x.unread, unasb |-> x.unasb, eof2 |-> x.eof2, t |-> x.t]
  BY ReassemblyAssumption DEF Trees

\* One of them.
LEMMA PutTurn ==
  ASSUME IntHolds, NEW x \in Trees, NEW cut \in Seq(SoundNodes), Ordered(cut),
         NEW k \in 1 .. Len(cut), NEW z, PutSoFar(x, cut, k - 1, z)
  PROVE  PutSoFar(x, cut, k, PutNode(z, cut[k]))
<1> DEFINE n == cut[k]
           u == MapPut(z.t, n)
           w == PutNode(z, n)
<1>1. /\ z \in Trees /\ MapSound(z) /\ SameElse(x, z)
      /\ \A y : y \in HeldBy(z.t)
           <=> y \in HeldBy(x.t) \/ \E j \in 1 .. k - 1 : y \in Span(cut[j])
      /\ \A j \in (k - 1) + 1 .. Len(cut) : \A i \in DOMAIN z.t : Apart(z.t[i], cut[j])
  BY DEF PutSoFar
<1>2. k \in Nat /\ Len(cut) \in Nat /\ n \in SoundNodes /\ DOMAIN cut = 1 .. Len(cut)
  OBVIOUS
<1>3. \A i \in DOMAIN z.t : Apart(z.t[i], n)
  BY <1>1, <1>2
<1>4. /\ z.t \in Seq(SoundNodes) /\ Ordered(z.t)
      /\ z.szUnasb = Cardinality(HeldBy(z.t)) /\ z.szUnasb \in Nat
  BY <1>1, TreeFields DEF MapSound
<1>5. /\ u \in Seq(SoundNodes) /\ Ordered(u)
      /\ \A i \in DOMAIN u : u[i] = n \/ \E j \in DOMAIN z.t : u[i] = z.t[j]
      /\ HeldBy(u) = HeldBy(z.t) \cup Span(n)
      /\ Cardinality(HeldBy(u)) = Cardinality(HeldBy(z.t)) + (n.last - n.first)
  BY ONLY IntHolds, <1>2, <1>3, <1>4, MapPutSound
<1>6. Len(n.data) = n.last - n.first /\ n.last - n.first \in Nat
  BY <1>2, NodeFields
<1> HIDE DEF u
<1>7. w = [z EXCEPT !.t = u, !.szUnasb = z.szUnasb + Len(n.data)]
  BY DEF PutNode, u
<1>8. /\ w \in Trees /\ w.t = u /\ w.szUnasb = z.szUnasb + Len(n.data) /\ SameElse(x, w)
  <2>1. z.szUnasb + Len(n.data) \in Nat
    BY <1>4, <1>6
  <2> QED
    BY ONLY <1>1, <1>5, <1>7, <2>1 DEF Trees, SameElse
<1> HIDE DEF w
<1>9. MapSound(w)
  BY <1>4, <1>5, <1>6, <1>8 DEF MapSound
<1>10. \A y : y \in HeldBy(w.t)
         <=> y \in HeldBy(x.t) \/ \E j \in 1 .. k : y \in Span(cut[j])
  <2>1. \A j : j \in 1 .. k <=> j \in 1 .. k - 1 \/ j = k
    BY <1>2
  <2>2. \A y : y \in HeldBy(w.t) <=> y \in HeldBy(z.t) \/ y \in Span(cut[k])
    BY <1>5, <1>8
  <2> QED
    BY ONLY <1>1, <2>1, <2>2
<1>11. ASSUME NEW j \in k + 1 .. Len(cut), NEW i \in DOMAIN w.t
       PROVE  Apart(w.t[i], cut[j])
  <2>1. w.t[i] = n \/ \E l \in DOMAIN z.t : w.t[i] = z.t[l]
    BY <1>5, <1>8
  <2>2. CASE w.t[i] = n
    <3>1. n.last <= cut[j].first
      BY <1>2 DEF Ordered
    <3> QED
      BY <2>2, <3>1 DEF Apart
  <2>3. CASE \E l \in DOMAIN z.t : w.t[i] = z.t[l]
    <3>1. j \in (k - 1) + 1 .. Len(cut)
      BY <1>2
    <3> QED
      BY <1>1, <2>3, <3>1
  <2> QED
    BY <2>1, <2>2, <2>3
<1>12. PutSoFar(x, cut, k, w)
  BY <1>8, <1>9, <1>10, <1>11 DEF PutSoFar
<1> QED
  BY <1>12 DEF w

\* All of them.
LEMMA InsertAllSound ==
  ASSUME IntHolds, NEW x \in Trees, MapSound(x), NEW cut, NEW from, NEW to,
         Fitting(x.t, cut, from, to)
  PROVE  /\ InsertAll(x, cut) \in Trees
         /\ MapSound(InsertAll(x, cut))
         /\ SameElse(x, InsertAll(x, cut))
         /\ HeldBy(InsertAll(x, cut).t) = HeldBy(x.t) \cup HeldBy(cut)
<1>1. /\ cut \in Seq(SoundNodes) /\ Ordered(cut)
      /\ Len(cut) \in Nat /\ DOMAIN cut = 1 .. Len(cut)
      /\ \A k \in 1 .. Len(cut) : \A j \in DOMAIN x.t : Apart(x.t[j], cut[k])
  BY DEF Fitting
<1> DEFINE f == CHOOSE g : Puts(g, x, cut)
           z == f[Len(cut)]
<1>2. InsertAll(x, cut) = z
  BY DEF InsertAll, Puts
<1>3. Puts(f, x, cut)
  <2>1. \E g : Puts(g, x, cut)
    BY ONLY <1>1, PutExists
  <2> QED
    BY ONLY <2>1
<1> HIDE DEF f
<1>4. \A i \in 0 .. Len(cut) : f[i] = IF i = 0 THEN x ELSE PutNode(f[i - 1], cut[i])
  BY ONLY <1>3 DEF Puts
<1> DEFINE P == {i \in Nat : i <= Len(cut) => PutSoFar(x, cut, i, f[i])}
<1>5. 0 \in P
  <2>1. f[0] = x /\ SameElse(x, x)
    BY <1>1, <1>4 DEF SameElse
  <2>2. \A j \in 1 .. 0 : FALSE
    OBVIOUS
  <2>3. PutSoFar(x, cut, 0, x)
    BY <1>1, <2>1, <2>2 DEF PutSoFar
  <2> QED
    BY <2>1, <2>3
<1>6. ASSUME NEW i \in Nat, i \in P PROVE i + 1 \in P
  <2> SUFFICES ASSUME i + 1 <= Len(cut) PROVE PutSoFar(x, cut, i + 1, f[i + 1])
    OBVIOUS
  <2>1. i + 1 \in 1 .. Len(cut) /\ (i + 1) - 1 = i /\ i + 1 # 0 /\ i + 1 \in 0 .. Len(cut)
    BY <1>1
  <2>2. PutSoFar(x, cut, i, f[i])
    BY <1>1, <1>6
  <2>3. f[i + 1] = PutNode(f[i], cut[i + 1])
    BY <1>4, <2>1
  <2>4. PutSoFar(x, cut, i + 1, PutNode(f[i], cut[i + 1]))
    BY ONLY IntHolds, x \in Trees, <1>1, <2>1, <2>2, PutTurn
  <2> QED
    BY <2>3, <2>4
<1> HIDE DEF P
<1>7. \A i \in Nat : i \in P
  BY <1>5, <1>6, EveryNumber
<1>8. PutSoFar(x, cut, Len(cut), z)
  BY <1>1, <1>7 DEF P
<1> HIDE DEF z
<1>9. HeldBy(z.t) = HeldBy(x.t) \cup HeldBy(cut)
  <2>1. \A y : y \in HeldBy(z.t)
          <=> y \in HeldBy(x.t) \/ \E j \in 1 .. Len(cut) : y \in Span(cut[j])
    BY <1>8 DEF PutSoFar
  <2>2. \A y : y \in HeldBy(cut) <=> \E j \in 1 .. Len(cut) : y \in Span(cut[j])
    BY <1>1, HeldIs
  <2> QED
    BY <2>1, <2>2
<1> QED
  BY <1>2, <1>8, <1>9 DEF PutSoFar
-----------------------------------------------------------------------------
(***************************************************************************)
(* Draining the map into the output.                                       *)
(***************************************************************************)
\* The first node and the others.
LEMMA TailSound ==
  ASSUME NEW t \in Seq(SoundNodes), Ordered(t), t # <<>>
  PROVE  /\ Head(t) = t[1] /\ t[1] \in SoundNodes
         /\ Tail(t) \in Seq(SoundNodes) /\ Ordered(Tail(t)) /\ Len(Tail(t)) = Len(t) - 1
         /\ \A y : y \in HeldBy(t) <=> y \in Span(t[1]) \/ y \in HeldBy(Tail(t))
         /\ \A y \in HeldBy(Tail(t)) : y >= t[1].last
         /\ Cardinality(HeldBy(t))
              = Cardinality(HeldBy(Tail(t))) + (t[1].last - t[1].first)
<1> DEFINE u == Tail(t)
           n == t[1]
<1>1. /\ Len(t) \in Nat \ {0} /\ DOMAIN t = 1 .. Len(t) /\ n \in SoundNodes
      /\ Head(t) = n
      /\ u \in Seq(SoundNodes) /\ Len(u) = Len(t) - 1 /\ DOMAIN u = 1 .. Len(t) - 1
      /\ \A i \in 1 .. Len(t) - 1 : u[i] = t[i + 1]
  OBVIOUS
<1> HIDE DEF u
<1>2. Ordered(u)
  <2> SUFFICES ASSUME NEW i \in 1 .. Len(t) - 1, NEW j \in 1 .. Len(t) - 1, i < j
               PROVE  u[i].last <= u[j].first
    BY <1>1 DEF Ordered
  <2>1. i + 1 \in 1 .. Len(t) /\ j + 1 \in 1 .. Len(t) /\ i + 1 < j + 1
    BY <1>1
  <2>2. u[i] = t[i + 1] /\ u[j] = t[j + 1]
    BY <1>1
  <2> QED
    BY <1>1, <2>1, <2>2 DEF Ordered
<1>3. \A y : y \in HeldBy(t) <=> \E i \in 1 .. Len(t) : y \in Span(t[i])
  BY <1>1, HeldIs
<1>4. \A y : y \in HeldBy(u) <=> \E i \in 1 .. Len(t) - 1 : y \in Span(t[i + 1])
  BY <1>1, HeldIs
<1>5. \A y : y \in HeldBy(t) <=> y \in Span(n) \/ y \in HeldBy(u)
  <2> TAKE y
  <2>1. ASSUME y \in HeldBy(t), y \notin Span(n) PROVE y \in HeldBy(u)
    <3>1. PICK i \in 1 .. Len(t) : y \in Span(t[i])
      BY <1>3, <2>1
    <3>2. i # 1
      BY <2>1, <3>1
    <3>3. i - 1 \in 1 .. Len(t) - 1 /\ (i - 1) + 1 = i
      BY <1>1, <3>2
    <3> QED
      BY <1>4, <3>1, <3>3
  <2>2. y \in Span(n) => y \in HeldBy(t)
    <3>1. 1 \in 1 .. Len(t)
      BY <1>1
    <3> QED
      BY <1>3, <3>1
  <2>3. ASSUME y \in HeldBy(u) PROVE y \in HeldBy(t)
    <3>1. PICK i \in 1 .. Len(t) - 1 : y \in Span(t[i + 1])
      BY <1>4, <2>3
    <3>2. i + 1 \in 1 .. Len(t)
      BY <1>1
    <3> QED
      BY <1>3, <3>1, <3>2
  <2> QED
    BY <2>1, <2>2, <2>3
<1>6. \A y \in HeldBy(u) : y >= n.last
  <2> SUFFICES ASSUME NEW y \in HeldBy(u) PROVE y >= n.last
    OBVIOUS
  <2>1. PICK i \in 1 .. Len(t) - 1 : y \in Span(t[i + 1])
    BY <1>4
  <2>2. i + 1 \in 1 .. Len(t) /\ 1 < i + 1 /\ 1 \in 1 .. Len(t)
    BY <1>1
  <2>3. n.last <= t[i + 1].first /\ t[i + 1] \in SoundNodes
    BY <1>1, <2>2 DEF Ordered
  <2> QED
    BY <1>1, <2>1, <2>3, NodeFields DEF Span
<1>7. Cardinality(HeldBy(t)) = Cardinality(HeldBy(u)) + (n.last - n.first)
  <2>1. HeldBy(t) = HeldBy(u) \cup Span(n)
    BY <1>5
  <2>2. HeldBy(u) \cap Span(n) = {}
    BY <1>1, <1>6, NodeFields DEF Span
  <2>3. IsFiniteSet(HeldBy(u))
    BY <1>1, HeldIs
  <2> QED
    BY ONLY <1>1, <2>1, <2>2, <2>3, SpanCounts
<1> QED
  BY ONLY <1>1, <1>2, <1>5, <1>6, <1>7 DEF u

\* What is held is no more than the stream.
LEMMA HeldCount ==
  ASSUME NEW t \in Seq(SoundNodes)
  PROVE  /\ Cardinality(HeldBy(t)) \in Nat
         /\ SizeT(Cardinality(HeldBy(t))) = Cardinality(HeldBy(t))
<1>1. StreamLen \in Nat /\ Capacity \in Nat /\ StreamLen + Capacity < Word - 1
  BY ReassemblyAssumption
<1>2. HeldBy(t) \in SUBSET (0 .. StreamLen - 1)
  BY HeldIs
<1>3. /\ IsFiniteSet(0 .. StreamLen - 1)
      /\ Cardinality(0 .. StreamLen - 1)
           = IF 0 > StreamLen - 1 THEN 0 ELSE (StreamLen - 1) - 0 + 1
  BY ONLY <1>1, FS_Interval
<1>4. /\ IsFiniteSet(HeldBy(t))
      /\ Cardinality(HeldBy(t)) <= Cardinality(0 .. StreamLen - 1)
  BY ONLY <1>2, <1>3, FS_Subset
<1>5. Cardinality(HeldBy(t)) \in Nat
  BY ONLY <1>4, FS_CardinalityType
<1>6. Cardinality(HeldBy(t)) < Word
  BY ONLY <1>1, <1>3, <1>4, <1>5, WidthAssumption
<1> QED
  BY ONLY <1>5, <1>6, WidthAssumption DEF SizeT

\* The output when the stream before g is in it, u having been before.
Filled(o, u, g) ==
  [o EXCEPT !.buf = Excerpt(o.totRead, g - o.totRead),
            !.rem = o.rem - (g - u), !.totWrite = g]

\* The output holds the stream from where the reader is to unasb, and there is
\* room for all the map holds.
OutSound(x) ==
  /\ x.out.totWrite = x.unasb
  /\ x.unasb = x.out.totRead + (Capacity - x.out.rem)
  /\ x.out.buf = Excerpt(x.out.totRead, x.unasb - x.out.totRead)
  /\ \A y \in HeldBy(x.t) : x.unasb <= y /\ y < x.unasb + x.out.rem

\* The first node does not adjoin the output.
GapFirst(d) == d.t = <<>> \/ Head(d.t).first # d.unasb

\* x when i turns of the loop have moved the bytes before d.unasb.
Drained(x, i, d) ==
  /\ d \in Trees /\ MapSound(d)
  /\ d.capacity = x.capacity /\ d.unread = x.unread /\ d.eof2 = x.eof2
  /\ x.unasb <= d.unasb /\ d.unasb - x.unasb <= x.out.rem
  /\ d.out = Filled(x.out, x.unasb, d.unasb)
  /\ \A y : y \in HeldBy(d.t) <=> y \in HeldBy(x.t) /\ y >= d.unasb
  /\ x.unasb .. d.unasb - 1 \subseteq HeldBy(x.t)
  /\ Len(d.t) = Len(x.t) - i \/ GapFirst(d)

LEMMA FilledIs ==
  ASSUME NEW x \in Trees, OutSound(x),
         NEW g \in Nat, x.unasb <= g, g - x.unasb <= x.out.rem
  PROVE  /\ Filled(x.out, x.unasb, g) \in Streams(Capacity)
         /\ Filled(x.out, x.unasb, g).rem = x.out.rem - (g - x.unasb)
         /\ Filled(x.out, x.unasb, g).totRead = x.out.totRead
         /\ Filled(x.out, x.unasb, g).buf = Excerpt(x.out.totRead, g - x.out.totRead)
         /\ g - x.out.totRead \in Nat
<1>1. /\ x.out \in Streams(Capacity) /\ x.unasb \in Nat /\ Capacity \in Nat
      /\ x.unasb = x.out.totRead + (Capacity - x.out.rem)
  BY TreeFields, ReassemblyAssumption DEF OutSound
<1>2. x.out.totRead \in Nat /\ x.out.rem \in 0 .. Capacity
  BY <1>1 DEF Streams
<1>3. g - x.out.totRead \in Nat /\ x.out.rem - (g - x.unasb) \in 0 .. Capacity
  BY <1>1, <1>2
<1>4. Excerpt(x.out.totRead, g - x.out.totRead) \in Seq(Nat)
  BY <1>2, <1>3, ExcerptIsSeq
<1> QED
  BY <1>1, <1>2, <1>3, <1>4 DEF Streams, Filled

\* Writing the next n bytes of the stream.
LEMMA WriteFills ==
  ASSUME NEW x \in Trees, OutSound(x),
         NEW g \in Nat, x.unasb <= g, g - x.unasb <= x.out.rem,
         NEW n \in Nat, g + n - x.unasb <= x.out.rem
  PROVE  Write(Filled(x.out, x.unasb, g), Excerpt(g, n)) = Filled(x.out, x.unasb, g + n)
<1> DEFINE o == Filled(x.out, x.unasb, g)
           data == Excerpt(g, n)
           tr == x.out.totRead
<1>1. /\ x.out \in Streams(Capacity) /\ tr \in Nat /\ x.unasb \in Nat
      /\ x.out.rem \in Nat
  BY TreeFields, ReassemblyAssumption DEF Streams
<1>2. /\ o \in Streams(Capacity) /\ o.rem = x.out.rem - (g - x.unasb)
      /\ o.buf = Excerpt(tr, g - tr) /\ g - tr \in Nat /\ o.totWrite = g
  <2>1. o.totWrite = g
    BY <1>1 DEF Filled, Streams
  <2> QED
    BY <2>1, FilledIs
<1>3. data \in Seq(Nat) /\ Len(data) = n
  BY ExcerptIsSeq
<1>4. Writable(o, data) = n
  BY <1>1, <1>2, <1>3 DEF Writable, Smaller
<1>5. Accepted(o, data) = data
  <2>1. n \in 0 .. n
    OBVIOUS
  <2>2. SubSeq(data, 1, n) = data
    BY ONLY <2>1, n \in Nat, g \in Nat, ExcerptSplit
  <2> QED
    BY <1>4, <2>2 DEF Accepted
<1>6. o.buf \o data = Excerpt(tr, (g + n) - tr)
  <2>1. tr + (g - tr) = g /\ (g - tr) + n = (g + n) - tr
    BY <1>1
  <2>2. Excerpt(tr, g - tr) \o Excerpt(tr + (g - tr), n) = Excerpt(tr, (g - tr) + n)
    BY ONLY <1>1, <1>2, ExcerptConcat, n \in Nat
  <2> QED
    BY ONLY <1>2, <2>1, <2>2
<1>7. Write(o, data) = [o EXCEPT !.buf = Excerpt(tr, (g + n) - tr), !.rem = o.rem - n,
                                 !.totWrite = o.totWrite + n]
  <2> HIDE DEF o, data
  <2> QED
    BY ONLY <1>4, <1>5, <1>6 DEF Write
<1>8. o.rem - n = x.out.rem - ((g + n) - x.unasb) /\ o.totWrite + n = g + n
  BY <1>1, <1>2
<1>9. o = [x.out EXCEPT !.buf = Excerpt(tr, g - tr), !.rem = x.out.rem - (g - x.unasb),
                        !.totWrite = g]
  BY DEF Filled
<1> HIDE DEF o, tr
<1>10. Write(o, data) = [x.out EXCEPT !.buf = Excerpt(tr, (g + n) - tr),
                              !.rem = x.out.rem - ((g + n) - x.unasb), !.totWrite = g + n]
  BY ONLY <1>1, <1>7, <1>8, <1>9 DEF Streams
<1> QED
  BY <1>10 DEF Filled, o, tr

\* One turn.
LEMMA EraseTurn ==
  ASSUME NEW x \in Trees, OutSound(x), NEW i \in Nat, NEW d, Drained(x, i, d)
  PROVE  Drained(x, i + 1, EraseFirst(d))
<1>1. /\ d \in Trees /\ MapSound(d)
      /\ d.capacity = x.capacity /\ d.unread = x.unread /\ d.eof2 = x.eof2
      /\ x.unasb <= d.unasb /\ d.unasb - x.unasb <= x.out.rem
      /\ d.out = Filled(x.out, x.unasb, d.unasb)
      /\ x.unasb .. d.unasb - 1 \subseteq HeldBy(x.t)
      /\ Len(d.t) = Len(x.t) - i \/ GapFirst(d)
  BY DEF Drained
<1>2. \A y : y \in HeldBy(d.t) <=> y \in HeldBy(x.t) /\ y >= d.unasb
  BY DEF Drained
<1>3. CASE GapFirst(d)
  <2>1. EraseFirst(d) = d
    BY <1>3 DEF EraseFirst, GapFirst
  <2> QED
    BY ONLY <1>1, <1>2, <1>3, <2>1 DEF Drained
<1>4. CASE ~ GapFirst(d)
  <2> DEFINE n == d.t[1]
             u == Tail(d.t)
             len == n.last - n.first
             w == EraseFirst(d)
  <2>1. /\ d.t \in Seq(SoundNodes) /\ Ordered(d.t) /\ d.t # <<>>
        /\ d.szUnasb = Cardinality(HeldBy(d.t)) /\ d.unasb \in Nat /\ x.unasb \in Nat
        /\ x.out.rem \in Nat
    BY <1>1, <1>4, TreeFields, ReassemblyAssumption DEF MapSound, GapFirst, Streams
  <2>2. /\ Head(d.t) = n /\ n \in SoundNodes
        /\ u \in Seq(SoundNodes) /\ Ordered(u) /\ Len(u) = Len(d.t) - 1
        /\ \A y : y \in HeldBy(d.t) <=> y \in Span(n) \/ y \in HeldBy(u)
        /\ \A y \in HeldBy(u) : y >= n.last
        /\ Cardinality(HeldBy(d.t)) = Cardinality(HeldBy(u)) + len
    BY ONLY <2>1, TailSound
  <2> HIDE DEF n, u
  <2>3. /\ n.first = d.unasb /\ n.last \in 0 .. StreamLen /\ n.last \in Nat
        /\ n.first < n.last /\ len \in Nat /\ n.last = d.unasb + len
        /\ n.data = Excerpt(d.unasb, len) /\ Len(n.data) = len
    BY <1>4, <2>2, NodeFields DEF GapFirst
  <2>4. d.unasb + len - x.unasb <= x.out.rem
    <3>1. n.last - 1 \in HeldBy(x.t)
      <4>1. n.last - 1 \in Span(n)
        BY ONLY <2>1, <2>3 DEF Span
      <4>2. n.last - 1 \in HeldBy(d.t)
        BY ONLY <2>2, <4>1
      <4> QED
        BY ONLY <1>2, <4>2
    <3>2. n.last - 1 < x.unasb + x.out.rem
      BY <3>1 DEF OutSound
    <3> QED
      <4>1. x.unasb \in Nat /\ x.out.rem \in Nat /\ len \in Nat /\ d.unasb \in Nat
            /\ n.last = d.unasb + len
        BY <2>1, <2>3
      <4> QED
        BY ONLY <3>2, <4>1
  <2>5. Write(d.out, n.data) = Filled(x.out, x.unasb, n.last)
    <3>1. Write(Filled(x.out, x.unasb, d.unasb), Excerpt(d.unasb, len))
            = Filled(x.out, x.unasb, d.unasb + len)
      BY ONLY <1>1, <2>1, <2>3, <2>4, x \in Trees, OutSound(x), WriteFills
    <3> QED
      BY ONLY <1>1, <2>3, <3>1
  <2>6. SizeT(d.szUnasb - len) = Cardinality(HeldBy(u)) /\ Cardinality(HeldBy(u)) \in Nat
    <3>1. /\ Cardinality(HeldBy(u)) \in Nat
          /\ SizeT(Cardinality(HeldBy(u))) = Cardinality(HeldBy(u))
      BY ONLY <2>2, HeldCount
    <3>2. d.szUnasb - len = Cardinality(HeldBy(u))
      BY ONLY <2>1, <2>2, <2>3, <3>1
    <3> QED
      BY ONLY <3>1, <3>2
  <2>7. w = [d EXCEPT !.out = Filled(x.out, x.unasb, n.last), !.unasb = n.last,
                      !.szUnasb = Cardinality(HeldBy(u)), !.t = u]
    <3>1. w = [d EXCEPT !.out = Write(d.out, n.data), !.unasb = d.unasb + Len(n.data),
                        !.szUnasb = SizeT(d.szUnasb - Len(n.data)), !.t = u]
      BY <1>4, <2>2 DEF EraseFirst, GapFirst, u
    <3> QED
      BY ONLY <2>3, <2>5, <2>6, <3>1
  <2> HIDE DEF w, len
  <2>8. Filled(x.out, x.unasb, n.last) \in Streams(Capacity)
    <3>1. x.unasb <= n.last /\ n.last - x.unasb <= x.out.rem
      BY ONLY <1>1, <2>1, <2>3, <2>4
    <3> QED
      BY ONLY <2>3, <3>1, x \in Trees, OutSound(x), FilledIs
  <2>9. /\ w \in Trees /\ w.capacity = d.capacity /\ w.unread = d.unread
        /\ w.eof2 = d.eof2 /\ w.unasb = n.last /\ w.t = u
        /\ w.out = Filled(x.out, x.unasb, n.last)
        /\ w.szUnasb = Cardinality(HeldBy(u))
    BY ONLY <1>1, <2>2, <2>3, <2>6, <2>7, <2>8 DEF Trees
  <2>10. MapSound(w)
    BY ONLY <2>2, <2>9 DEF MapSound
  <2>11. \A y : y \in HeldBy(w.t) <=> y \in HeldBy(x.t) /\ y >= w.unasb
    <3> TAKE y
    <3>1. y \in HeldBy(d.t) => y \in Nat
      BY <2>1, HeldIs
    <3>2. y \in HeldBy(w.t) => y \in HeldBy(d.t) /\ y >= n.last
      BY <2>2, <2>9
    <3>3. ASSUME y \in HeldBy(x.t), y >= n.last PROVE y \in HeldBy(w.t)
      <4>1. y \in Nat
        BY <3>3, TreeFields, HeldIs
      <4>2. y \in HeldBy(d.t)
        BY ONLY <1>2, <2>1, <2>3, <3>3, <4>1
      <4>3. y \notin Span(n)
        BY ONLY <2>3, <3>3, <4>1 DEF Span
      <4> QED
        BY <2>2, <2>9, <4>2, <4>3
    <3> QED
      BY <1>2, <2>9, <3>2, <3>3
  <2>12. x.unasb .. w.unasb - 1 \subseteq HeldBy(x.t)
    <3> SUFFICES ASSUME NEW y \in x.unasb .. w.unasb - 1 PROVE y \in HeldBy(x.t)
      OBVIOUS
    <3>1. y \in x.unasb .. d.unasb - 1 \/ y \in Span(n)
      BY <2>1, <2>3, <2>9 DEF Span
    <3> QED
      BY <1>1, <1>2, <2>2, <3>1
  <2>13. Len(w.t) = Len(x.t) - (i + 1)
    <3>1. Len(d.t) = Len(x.t) - i /\ Len(x.t) \in Nat
      BY <1>1, <1>4, TreeFields
    <3> QED
      BY ONLY <2>2, <2>9, <3>1, i \in Nat
  <2>14. x.unasb <= w.unasb /\ w.unasb - x.unasb <= x.out.rem
    BY ONLY <1>1, <2>1, <2>3, <2>4, <2>9
  <2>15. Drained(x, i + 1, w)
    BY ONLY <1>1, <2>9, <2>10, <2>11, <2>12, <2>13, <2>14 DEF Drained
  <2> QED
    BY <2>15 DEF w
<1> QED
  BY <1>3, <1>4

\* All the turns: nothing is left that adjoins the output.
LEMMA DrainSound ==
  ASSUME NEW x \in Trees, MapSound(x), OutSound(x)
  PROVE  /\ Drained(x, Len(x.t), Drain(x))
         /\ Drain(x).unasb \notin HeldBy(Drain(x).t)
<1>1. /\ Len(x.t) \in Nat /\ x.unasb \in 0 .. StreamLen /\ x.unasb \in Nat
      /\ x.out \in Streams(Capacity) /\ x.t \in Seq(SoundNodes)
  BY TreeFields
<1> DEFINE f == CHOOSE g : Drains(g, x, Len(x.t))
           d == f[Len(x.t)]
<1>2. Drain(x) = d
  BY DEF Drain, Drains
<1>3. Drains(f, x, Len(x.t))
  <2>1. \E g : Drains(g, x, Len(x.t))
    BY ONLY <1>1, DrainExists
  <2> QED
    BY ONLY <2>1
<1> HIDE DEF f
<1>4. \A i \in 0 .. Len(x.t) : f[i] = IF i = 0 THEN x ELSE EraseFirst(f[i - 1])
  BY ONLY <1>3 DEF Drains
<1> DEFINE P == {i \in Nat : i <= Len(x.t) => Drained(x, i, f[i])}
<1>5. 0 \in P
  <2>1. f[0] = x
    <3>1. 0 \in 0 .. Len(x.t)
      BY ONLY <1>1
    <3>2. f[0] = IF 0 = 0 THEN x ELSE EraseFirst(f[0 - 1])
      BY ONLY <1>4, <3>1, Zenon
    <3> QED
      BY ONLY <3>2
  <2>2. x.out = Filled(x.out, x.unasb, x.unasb)
    <3>1. /\ x.out.rem \in Nat /\ x.out.totWrite = x.unasb
          /\ x.out.buf = Excerpt(x.out.totRead, x.unasb - x.out.totRead)
      BY <1>1, ReassemblyAssumption DEF OutSound, Streams
    <3>2. x.out.rem - (x.unasb - x.unasb) = x.out.rem
      BY ONLY <1>1, <3>1
    <3> QED
      BY ONLY <1>1, <3>1, <3>2 DEF Filled, Streams
  <2>3. /\ x.unasb <= x.unasb /\ x.unasb - x.unasb <= x.out.rem
        /\ Len(x.t) = Len(x.t) - 0
        /\ x.unasb .. x.unasb - 1 \subseteq HeldBy(x.t)
    <3>1. x.out.rem \in Nat
      BY <1>1, ReassemblyAssumption DEF Streams
    <3>2. \A y \in x.unasb .. x.unasb - 1 : FALSE
      BY ONLY <1>1
    <3> QED
      BY ONLY <1>1, <3>1, <3>2
  <2>4. \A y : y \in HeldBy(x.t) <=> y \in HeldBy(x.t) /\ y >= x.unasb
    BY DEF OutSound
  <2>5. Drained(x, 0, x)
    BY ONLY x \in Trees, MapSound(x), <2>2, <2>3, <2>4 DEF Drained
  <2> QED
    BY ONLY <2>1, <2>5
<1>6. ASSUME NEW i \in Nat, i \in P PROVE i + 1 \in P
  <2> SUFFICES ASSUME i + 1 <= Len(x.t) PROVE Drained(x, i + 1, f[i + 1])
    OBVIOUS
  <2>1. i + 1 \in 0 .. Len(x.t) /\ (i + 1) - 1 = i /\ i + 1 # 0 /\ i <= Len(x.t)
    BY <1>1
  <2>2. f[i + 1] = EraseFirst(f[i])
    BY <1>4, <2>1
  <2>3. Drained(x, i, f[i])
    BY <1>6, <2>1
  <2>4. Drained(x, i + 1, EraseFirst(f[i]))
    BY ONLY x \in Trees, OutSound(x), i \in Nat, <2>3, EraseTurn
  <2> QED
    BY ONLY <2>2, <2>4
<1> HIDE DEF P
<1>7. \A i \in Nat : i \in P
  BY <1>5, <1>6, EveryNumber
<1>8. Drained(x, Len(x.t), d)
  BY <1>1, <1>7 DEF P
<1> HIDE DEF d
<1>9. /\ d \in Trees /\ MapSound(d)
      /\ Len(d.t) = Len(x.t) - Len(x.t) \/ GapFirst(d)
      /\ \A y : y \in HeldBy(d.t) <=> y \in HeldBy(x.t) /\ y >= d.unasb
  BY <1>8 DEF Drained
<1>10. d.t \in Seq(SoundNodes) /\ d.unasb \in Nat
  <2>1. d \in Trees
    BY <1>9
  <2> QED
    BY ONLY <2>1, TreeFields
<1>11. GapFirst(d)
  BY ONLY <1>1, <1>9, <1>10 DEF GapFirst
<1>12. d.unasb \notin HeldBy(d.t)
  <2> SUFFICES ASSUME d.unasb \in HeldBy(d.t) PROVE FALSE
    OBVIOUS
  <2>1. d.t # <<>>
    <3>1. \E i \in DOMAIN d.t : d.unasb \in Span(d.t[i])
      BY ONLY <1>10, HeldIs, d.unasb \in HeldBy(d.t)
    <3> QED
      BY <3>1
  <2> DEFINE n == d.t[1]
  <2>2. /\ Head(d.t) = n /\ n \in SoundNodes
        /\ \A y : y \in HeldBy(d.t) <=> y \in Span(n) \/ y \in HeldBy(Tail(d.t))
        /\ \A y \in HeldBy(Tail(d.t)) : y >= n.last
    <3>1. Ordered(d.t)
      BY <1>9 DEF MapSound
    <3> QED
      BY ONLY <1>10, <2>1, <3>1, TailSound
  <2> HIDE DEF n
  <2>3. n.first \in Nat /\ n.last \in Nat /\ n.first < n.last
    BY <2>2, NodeFields
  <2>4. n.first \in HeldBy(d.t)
    BY <2>2, <2>3 DEF Span
  <2>5. n.first > d.unasb
    BY <1>9, <1>10, <1>11, <2>1, <2>2, <2>3, <2>4 DEF GapFirst
  <2> QED
    BY <1>10, <2>2, <2>3, <2>5, d.unasb \in HeldBy(d.t) DEF Span
<1> QED
  BY <1>2, <1>8, <1>12
-----------------------------------------------------------------------------
(***************************************************************************)
(* Each call on the tree is a call on the abstract reassembler.            *)
(***************************************************************************)
LEMMA AbstractIs ==
  ASSUME NEW x, x.t \in Seq(SoundNodes)
  PROVE  Abstract(x) = [capacity |-> x.capacity, out |-> x.out, unasb |-> x.unasb,
                        eof2 |-> x.eof2, stored |-> [i \in HeldBy(x.t) |-> i]]
  BY ByteAtIs DEF Abstract

LEMMA AbstractFields ==
  ASSUME NEW x, x.t \in Seq(SoundNodes)
  PROVE  /\ Abstract(x).capacity = x.capacity /\ Abstract(x).out = x.out
         /\ Abstract(x).unasb = x.unasb /\ Abstract(x).eof2 = x.eof2
         /\ Abstract(x).stored = [i \in HeldBy(x.t) |-> i]
         /\ DOMAIN Abstract(x).stored = HeldBy(x.t)
  BY AbstractIs

LEMMA SameReassembler ==
  ASSUME NEW a \in Reassemblers(Capacity, StreamLen),
         NEW b \in Reassemblers(Capacity, StreamLen),
         a.capacity = b.capacity, a.out = b.out, a.unasb = b.unasb, a.eof2 = b.eof2,
         a.stored = b.stored
  PROVE  a = b
  BY DEF Reassemblers

LEMMA AbstractTyped ==
  ASSUME NEW x \in Trees
  PROVE  Abstract(x) \in Reassemblers(Capacity, StreamLen)
<1>1. /\ x.capacity = Capacity /\ x.out \in Streams(Capacity) /\ x.unasb \in 0 .. StreamLen
      /\ x.eof2 \in SizeTs /\ x.t \in Seq(SoundNodes)
  BY TreeFields
<1>2. HeldBy(x.t) \in SUBSET Nat
  BY <1>1, HeldIs
<1> DEFINE st == [i \in HeldBy(x.t) |-> i]
<1>3. st \in Stores
  <2>1. st \in [HeldBy(x.t) -> Nat]
    BY <1>2
  <2> QED
    BY ONLY <1>2, <2>1 DEF Stores
<1>4. Abstract(x) = [capacity |-> x.capacity, out |-> x.out, unasb |-> x.unasb,
                     eof2 |-> x.eof2, stored |-> st]
  BY <1>1, AbstractIs
<1> HIDE DEF st
<1> QED
  BY ONLY <1>1, <1>3, <1>4 DEF Reassemblers

\* Ending the output.
LEMMA EndTreeIs ==
  ASSUME NEW w \in Trees, MapSound(w)
  PROVE  /\ EndTree(w) \in Trees /\ MapSound(EndTree(w))
         /\ Abstract(EndTree(w)) = EndIfReached(Abstract(w))
<1>1. w.t \in Seq(SoundNodes) /\ w.out \in Streams(Capacity)
  BY TreeFields
<1>2. /\ Abstract(w) = [capacity |-> w.capacity, out |-> w.out, unasb |-> w.unasb,
                        eof2 |-> w.eof2, stored |-> [i \in HeldBy(w.t) |-> i]]
      /\ Abstract(w).unasb = w.unasb /\ Abstract(w).eof2 = w.eof2
      /\ Abstract(w).out = w.out
  BY <1>1, AbstractIs
<1>3. CASE w.unasb # w.eof2
  BY <1>2, <1>3 DEF EndTree, EndIfReached
<1>4. CASE w.unasb = w.eof2
  <2> DEFINE o == EndInput(w.out)
             v == EndTree(w)
  <2>1. o \in Streams(Capacity)
    BY <1>1 DEF EndInput, Streams
  <2>2. NoEof2 = NoEof /\ NoEof \in SizeTs
    BY ReassemblyAssumption, NoEofIsLarge DEF Bounds, NoEof, NoEof2
  <2>3. v = [w EXCEPT !.eof2 = NoEof, !.out = o]
    BY <1>4, <2>2 DEF EndTree
  <2>4. EndIfReached(Abstract(w)) = [Abstract(w) EXCEPT !.eof2 = NoEof, !.out = o]
    BY <1>2, <1>4 DEF EndIfReached
  <2> HIDE DEF o, v
  <2>5. /\ v \in Trees /\ v.t = w.t /\ v.szUnasb = w.szUnasb /\ v.out = o
        /\ v.eof2 = NoEof /\ v.unasb = w.unasb /\ v.capacity = w.capacity
    BY <2>1, <2>2, <2>3 DEF Trees
  <2>6. MapSound(v)
    BY <2>5 DEF MapSound
  <2>7. Abstract(v) = EndIfReached(Abstract(w))
    <3> DEFINE q == Abstract(w)
               z == EndIfReached(q)
    <3>1. /\ q \in Reassemblers(Capacity, StreamLen)
          /\ Abstract(v) \in Reassemblers(Capacity, StreamLen)
      BY <2>5, AbstractTyped
    <3>2. /\ q.capacity = w.capacity /\ q.unasb = w.unasb
          /\ q.stored = [i \in HeldBy(w.t) |-> i]
      BY ONLY <1>1, AbstractFields
    <3>3. z = [q EXCEPT !.eof2 = NoEof, !.out = o]
      BY ONLY <2>4
    <3> HIDE DEF q, z
    <3>4. /\ z \in Reassemblers(Capacity, StreamLen) /\ z.out = o /\ z.eof2 = NoEof
          /\ z.capacity = q.capacity /\ z.unasb = q.unasb /\ z.stored = q.stored
      BY ONLY <2>1, <2>2, <3>1, <3>3 DEF Reassemblers
    <3>5. /\ Abstract(v).capacity = v.capacity /\ Abstract(v).out = v.out
          /\ Abstract(v).unasb = v.unasb /\ Abstract(v).eof2 = v.eof2
          /\ Abstract(v).stored = [i \in HeldBy(v.t) |-> i]
      BY ONLY <1>1, <2>5, AbstractFields
    <3>6. Abstract(v) = z
      BY ONLY <2>5, <3>1, <3>2, <3>4, <3>5, SameReassembler
    <3> QED
      BY <3>6 DEF q, z
  <2> QED
    BY <2>5, <2>6, <2>7 DEF v
<1> QED
  BY <1>3, <1>4

\* A reassembler in the state the properties need, and an excerpt of the stream.
Ready(x, announced) ==
  x \in Trees /\ MapSound(x) /\ Sound(Abstract(x), Capacity, StreamLen, announced)

OfTheStream(from, len, eof) ==
  /\ from \in Nat /\ len \in Nat /\ eof \in BOOLEAN
  /\ from + len <= StreamLen
  /\ eof => from + len = StreamLen

\* What is known of it.
LEMMA ReadyFields ==
  ASSUME NEW x, NEW announced, Ready(x, announced)
  PROVE  /\ x.unasb \in Nat /\ x.out.totRead \in Nat /\ x.out.rem \in Nat
         /\ x.out \in Streams(Capacity) /\ x.capacity = Capacity
         /\ x.t \in Seq(SoundNodes)
         /\ Limit(Abstract(x)) = x.unasb + x.out.rem
         /\ Limit(Abstract(x)) = x.out.totRead + x.capacity
         /\ Limit(Abstract(x)) \in Nat
         /\ x.out.totWrite = x.unasb
         /\ x.unasb = x.out.totRead + (Capacity - x.out.rem)
         /\ x.out.buf = Excerpt(x.out.totRead, x.unasb - x.out.totRead)
         /\ \A y \in HeldBy(x.t) : x.unasb < y /\ y < Limit(Abstract(x))
<1> DEFINE r == Abstract(x)
<1>1. x \in Trees /\ Sound(r, Capacity, StreamLen, announced)
  BY DEF Ready
<1>2. /\ x.unasb \in Nat /\ x.out \in Streams(Capacity) /\ x.capacity = Capacity
      /\ x.t \in Seq(SoundNodes) /\ Capacity \in Nat
  BY <1>1, TreeFields, ReassemblyAssumption
<1>3. /\ r.capacity = x.capacity /\ r.out = x.out /\ r.unasb = x.unasb
      /\ DOMAIN r.stored = HeldBy(x.t)
  BY <1>2, AbstractFields
<1> HIDE DEF r
<1>4. x.out.totRead \in Nat /\ x.out.rem \in Nat /\ x.out.rem \in 0 .. Capacity
  BY <1>2 DEF Streams
<1>5. /\ r.out.totWrite = r.unasb
      /\ r.unasb = r.out.totRead + (Capacity - r.out.rem)
      /\ r.out.buf = Excerpt(r.out.totRead, r.unasb - r.out.totRead)
      /\ DOMAIN r.stored \subseteq Window(r, StreamLen)
  BY <1>1 DEF Sound
<1>6. Limit(r) = x.out.totRead + x.capacity
  BY <1>3 DEF Limit
<1>7. Limit(r) = x.unasb + x.out.rem /\ Limit(r) \in Nat
  BY ONLY <1>2, <1>3, <1>4, <1>5, <1>6
<1>8. \A y \in HeldBy(x.t) : x.unasb < y /\ y < Limit(r)
  <2>1. \A y \in HeldBy(x.t) : y \in r.unasb + 1 .. Limit(r) - 1
    BY ONLY <1>3, <1>5 DEF Window
  <2> QED
    BY ONLY <1>2, <1>3, <1>7, <2>1
<1> QED
  BY ONLY <1>2, <1>3, <1>4, <1>5, <1>6, <1>7, <1>8 DEF r

\* The state in which push_substring looks for gaps, and where it stops to.
Started(x, from, len, eof) ==
  [x EXCEPT !.unread = x.out.totRead, !.eof2 = EofAfter(x, Excerpt(from, len), from, eof)]

Room(x, from, len) == Smaller(from + len, Limit(Abstract(x)))

LEMMA StartedIs ==
  ASSUME NEW x, NEW announced, Ready(x, announced),
         NEW from, NEW len, NEW eof, OfTheStream(from, len, eof)
  PROVE  LET z == Started(x, from, len, eof)
             r == Abstract(x)
             data == Excerpt(from, len)
         IN  /\ z \in Trees /\ MapSound(z)
             /\ z.capacity = x.capacity /\ z.out = x.out /\ z.unasb = x.unasb
             /\ z.t = x.t /\ z.eof2 = EndAfter(r, data, from, eof)
             /\ EndAfter(r, data, from, eof) \in SizeTs
             /\ EndIdx(z, data, from) = Room(x, from, len)
             /\ Fresh(r, data, from) = Larger(x.unasb, from) .. Room(x, from, len) - 1
             /\ Room(x, from, len) \in Nat /\ Room(x, from, len) <= from + len
             /\ PushTree(x, data, from, eof)
                  = IF Room(x, from, len) <= Larger(x.unasb, from) THEN EndTree(z)
                    ELSE EndTree(Drain(InsertAll(z,
                           Pieces(z, data, from, Room(x, from, len)))))
<1> DEFINE z == Started(x, from, len, eof)
           r == Abstract(x)
           data == Excerpt(from, len)
           room == Room(x, from, len)
<1>1. /\ x \in Trees /\ MapSound(x)
      /\ from \in Nat /\ len \in Nat /\ eof \in BOOLEAN /\ from + len <= StreamLen
      /\ eof => from + len = StreamLen
  BY DEF Ready, OfTheStream
<1>2. /\ x.unasb \in Nat /\ x.out.totRead \in Nat /\ x.t \in Seq(SoundNodes)
      /\ Limit(r) = x.out.totRead + x.capacity /\ Limit(r) \in Nat
      /\ x.eof2 \in SizeTs
  BY <1>1, ReadyFields, TreeFields
<1>3. r.eof2 = x.eof2 /\ r.unasb = x.unasb
  BY <1>2, AbstractFields
<1> HIDE DEF r
<1>4. Len(data) = len
  BY <1>1, ExcerptIsSeq
<1>5. SizeT(from + len) = from + len /\ StreamLen \in SizeTs
  <2>1. StreamLen \in Nat /\ Capacity \in Nat /\ StreamLen + Capacity < Word - 1
    BY ReassemblyAssumption
  <2> QED
    BY ONLY <1>1, <2>1, WidthAssumption DEF SizeT, SizeTs
<1> HIDE DEF data
<1>6. /\ EofAfter(x, data, from, eof) = EndAfter(r, data, from, eof)
      /\ EndAfter(r, data, from, eof) \in SizeTs
  BY ONLY <1>1, <1>2, <1>3, <1>4, <1>5 DEF EofAfter, EndAfter
<1>7. z = [x EXCEPT !.unread = x.out.totRead, !.eof2 = EofAfter(x, data, from, eof)]
  BY DEF Started, data
<1> HIDE DEF z
<1>8. /\ z \in Trees /\ z.capacity = x.capacity /\ z.out = x.out /\ z.unasb = x.unasb
      /\ z.t = x.t /\ z.szUnasb = x.szUnasb /\ z.unread = x.out.totRead
      /\ z.eof2 = EndAfter(r, data, from, eof)
  BY ONLY <1>1, <1>2, <1>6, <1>7 DEF Trees
<1>9. MapSound(z)
  BY <1>1, <1>8 DEF MapSound
<1>10. room = Smaller(from + len, Limit(r)) /\ room \in Nat /\ room <= from + len
  BY <1>1, <1>2 DEF Room, Smaller, r
<1> HIDE DEF room
<1>11. EndIdx(z, data, from) = room
  BY ONLY <1>2, <1>4, <1>5, <1>8, <1>10 DEF EndIdx
<1>12. Fresh(r, data, from) = Larger(x.unasb, from) .. room - 1
  BY ONLY <1>3, <1>4, <1>5, <1>10 DEF Fresh
<1>13. PushTree(x, data, from, eof)
         = IF room <= Larger(x.unasb, from) THEN EndTree(z)
           ELSE EndTree(Drain(InsertAll(z, Pieces(z, data, from, room))))
  BY ONLY <1>7, <1>8, <1>11 DEF PushTree, UnreadNow
<1> QED
  BY ONLY <1>6, <1>8, <1>9, <1>10, <1>11, <1>12, <1>13 DEF r, z, data, room

\* There is one first gap.
LEMMA GapIsUnique ==
  ASSUME NEW S, NEW u \in Nat, NEW g \in Nat, NEW h \in Nat, u <= g, u <= h,
         g \notin S, h \notin S, u .. g - 1 \subseteq S, u .. h - 1 \subseteq S
  PROVE  g = h
<1>1. ~ (g < h)
  <2> SUFFICES ASSUME g < h PROVE FALSE
    OBVIOUS
  <2>1. g \in u .. h - 1
    OBVIOUS
  <2> QED
    BY <2>1
<1>2. ~ (h < g)
  <2> SUFFICES ASSUME h < g PROVE FALSE
    OBVIOUS
  <2>1. h \in u .. g - 1
    OBVIOUS
  <2> QED
    BY <2>1
<1> QED
  BY <1>1, <1>2

\* A tree that has moved what adjoined the output is what the abstract
\* reassembler has assembled.
LEMMA TreeAssembled ==
  ASSUME NEW x, NEW announced, Ready(x, announced),
         NEW from, NEW len, NEW eof, OfTheStream(from, len, eof),
         NEW w \in Trees, MapSound(w), w.capacity = x.capacity,
         w.eof2 = EndAfter(Abstract(x), Excerpt(from, len), from, eof),
         x.unasb <= w.unasb, w.unasb - x.unasb <= x.out.rem,
         w.out = Filled(x.out, x.unasb, w.unasb),
         NEW S, S = Covered(Abstract(x), from, len),
         HeldBy(w.t) = {y \in S : y >= w.unasb},
         w.unasb \notin S, x.unasb .. w.unasb - 1 \subseteq S
  PROVE  /\ EndTree(w) \in Trees /\ MapSound(EndTree(w))
         /\ Abstract(EndTree(w)) = Pushed(Abstract(x), from, len, eof)
<1> DEFINE r == Abstract(x)
           data == Excerpt(from, len)
           e == EndAfter(r, data, from, eof)
           q == Assembled(r, w.unasb, S, e)
<1>1. /\ Sound(r, Capacity, StreamLen, announced)
      /\ from \in Nat /\ len \in Nat /\ from + len <= StreamLen
      /\ x.unasb \in Nat /\ w.unasb \in Nat /\ w.unasb \in 0 .. StreamLen
      /\ x.out.rem \in Nat /\ StreamLen \in Nat
  BY ReadyFields, TreeFields, ReassemblyAssumption DEF Ready, OfTheStream
<1>2. /\ r.capacity = x.capacity /\ r.out = x.out /\ r.unasb = x.unasb
      /\ Limit(r) = x.unasb + x.out.rem
  BY ReadyFields, AbstractFields
<1>3. S \in SUBSET OpenWindow(r, StreamLen) /\ Stored(r, data, from) = [i \in S |-> i]
  BY ONLY <1>1, StoredFields, S = Covered(Abstract(x), from, len)
<1>4. e \in SizeTs
  BY StartedIs
<1>5. w.unasb \in r.unasb .. StreamLen /\ w.unasb <= Limit(r)
  BY <1>1, <1>2
<1> HIDE DEF r, e
<1>6. q \in Reassemblers(Capacity, StreamLen)
  <2>1. Contents(Assembled(r, w.unasb, S, e), r, w.unasb, S, e, Capacity, StreamLen)
    BY ONLY <1>1, <1>3, <1>4, <1>5, w.unasb \notin S, AssembledFields
  <2> QED
    BY ONLY <2>1 DEF Contents
<1>7. /\ q.capacity = r.capacity /\ q.out = Filled(r.out, r.unasb, w.unasb)
      /\ q.unasb = w.unasb /\ q.eof2 = e
      /\ q.stored = [i \in {j \in S : j >= w.unasb} |-> i]
  <2>1. r \in Reassemblers(Capacity, StreamLen)
    BY <1>1 DEF Sound
  <2> QED
    BY ONLY <2>1 DEF Assembled, Filled, Reassemblers
<1> HIDE DEF q
<1>8. Abstract(w) = q
  <2>1. /\ Abstract(w) \in Reassemblers(Capacity, StreamLen)
        /\ Abstract(w).capacity = w.capacity /\ Abstract(w).out = w.out
        /\ Abstract(w).unasb = w.unasb /\ Abstract(w).eof2 = w.eof2
        /\ Abstract(w).stored = [i \in HeldBy(w.t) |-> i]
    BY TreeFields, AbstractTyped, AbstractFields
  <2>2. w.eof2 = e
    BY DEF e, r
  <2> QED
    BY ONLY <1>2, <1>6, <1>7, <2>1, <2>2, SameReassembler, w.capacity = x.capacity,
            w.out = Filled(x.out, x.unasb, w.unasb),
            HeldBy(w.t) = {y \in S : y >= w.unasb}
<1>9. Assemble(Holding(r, S, e)) = q
  <2>1. PICK g \in r.unasb .. StreamLen :
          /\ g <= Limit(r) /\ g \notin S /\ r.unasb .. g - 1 \subseteq S
          /\ Assemble(Holding(r, S, e)) = Assembled(r, g, S, e)
    BY ONLY <1>1, <1>3, <1>4, AssembleFields
  <2>2. g \in Nat /\ x.unasb <= g /\ x.unasb .. g - 1 \subseteq S
    BY ONLY <1>1, <1>2, <2>1
  <2>3. g = w.unasb
    BY ONLY <1>1, <2>1, <2>2, GapIsUnique, x.unasb <= w.unasb, w.unasb \notin S,
            x.unasb .. w.unasb - 1 \subseteq S
  <2> QED
    BY ONLY <2>1, <2>3 DEF q
<1>10. Pushed(r, from, len, eof) = EndIfReached(Abstract(w))
  <2>1. Pushed(r, from, len, eof)
          = EndIfReached(Assemble([r EXCEPT !.eof2 = e, !.stored = Stored(r, data, from)]))
    BY DEF Pushed, PushSubstring, e
  <2>2. [r EXCEPT !.eof2 = e, !.stored = Stored(r, data, from)] = Holding(r, S, e)
    BY ONLY <1>3 DEF Holding
  <2> QED
    BY ONLY <1>8, <1>9, <2>1, <2>2
<1>11. /\ EndTree(w) \in Trees /\ MapSound(EndTree(w))
       /\ Abstract(EndTree(w)) = EndIfReached(Abstract(w))
  BY EndTreeIs
<1> QED
  BY <1>10, <1>11 DEF r

\* An excerpt with nothing new in it.
LEMMA PushNothing ==
  ASSUME NEW x, NEW announced, Ready(x, announced),
         NEW from, NEW len, NEW eof, OfTheStream(from, len, eof),
         NEW z, z = Started(x, from, len, eof),
         Room(x, from, len) <= Larger(x.unasb, from)
  PROVE  /\ EndTree(z) \in Trees /\ MapSound(EndTree(z))
         /\ Abstract(EndTree(z)) = Pushed(Abstract(x), from, len, eof)
<1> DEFINE S == Covered(Abstract(x), from, len)
<1>1. /\ z \in Trees /\ MapSound(z)
      /\ z.capacity = x.capacity /\ z.out = x.out /\ z.unasb = x.unasb /\ z.t = x.t
      /\ z.eof2 = EndAfter(Abstract(x), Excerpt(from, len), from, eof)
      /\ Fresh(Abstract(x), Excerpt(from, len), from)
           = Larger(x.unasb, from) .. Room(x, from, len) - 1
      /\ Room(x, from, len) \in Nat
  BY StartedIs
<1>2. /\ x.unasb \in Nat /\ x.out.rem \in Nat /\ x.out \in Streams(Capacity)
      /\ x.out.totWrite = x.unasb
      /\ x.out.buf = Excerpt(x.out.totRead, x.unasb - x.out.totRead)
      /\ \A y \in HeldBy(x.t) : x.unasb < y
      /\ x.t \in Seq(SoundNodes)
  BY ReadyFields
<1>3. S = HeldBy(x.t)
  <2>1. Larger(x.unasb, from) \in Nat
    BY <1>2 DEF Larger, OfTheStream
  <2>2. \A y \in Larger(x.unasb, from) .. Room(x, from, len) - 1 : FALSE
    BY ONLY <1>1, <2>1, Room(x, from, len) <= Larger(x.unasb, from)
  <2>3. DOMAIN Abstract(x).stored = HeldBy(x.t)
    BY <1>2, AbstractFields
  <2> QED
    BY ONLY <1>1, <2>2, <2>3 DEF Covered
<1>4. x.out = Filled(x.out, x.unasb, x.unasb)
  <2>1. x.out.rem - (x.unasb - x.unasb) = x.out.rem
    BY ONLY <1>2
  <2> QED
    BY ONLY <1>2, <2>1 DEF Filled, Streams
<1>5. \A y \in HeldBy(x.t) : y \in Nat
  BY ONLY <1>2, HeldIs
<1> HIDE DEF S
<1>6. /\ z.unasb \notin S /\ HeldBy(z.t) = {y \in S : y >= z.unasb}
      /\ x.unasb <= z.unasb /\ z.unasb - x.unasb <= x.out.rem
      /\ x.unasb .. z.unasb - 1 \subseteq S
      /\ z.out = Filled(x.out, x.unasb, z.unasb)
  <2>1. \A y \in x.unasb .. x.unasb - 1 : FALSE
    BY ONLY <1>2
  <2>2. \A y \in S : y >= x.unasb
    BY ONLY <1>2, <1>3, <1>5
  <2> QED
    BY ONLY <1>1, <1>2, <1>3, <1>4, <1>5, <2>1, <2>2
<1>7. S = Covered(Abstract(x), from, len)
  BY DEF S
<1>8. /\ z \in Trees /\ MapSound(z) /\ z.capacity = x.capacity
      /\ z.eof2 = EndAfter(Abstract(x), Excerpt(from, len), from, eof)
  BY ONLY <1>1
<1> QED
  BY ONLY <1>6, <1>7, <1>8, Ready(x, announced), OfTheStream(from, len, eof),
          TreeAssembled

\* An excerpt with something new, which goes into the map and, with what adjoins
\* it, from there to the output.
LEMMA PushPieces ==
  ASSUME IntHolds, NEW x, NEW announced, Ready(x, announced),
         NEW from, NEW len, NEW eof, OfTheStream(from, len, eof),
         NEW z, z = Started(x, from, len, eof),
         ~ (Room(x, from, len) <= Larger(x.unasb, from)),
         NEW w, w = Drain(InsertAll(z, Pieces(z, Excerpt(from, len), from,
                                              Room(x, from, len))))
  PROVE  /\ EndTree(w) \in Trees /\ MapSound(EndTree(w))
         /\ Abstract(EndTree(w)) = Pushed(Abstract(x), from, len, eof)
<1> DEFINE S == Covered(Abstract(x), from, len)
           room == Room(x, from, len)
           start == Larger(x.unasb, from)
           cut == Pieces(z, Excerpt(from, len), from, room)
           v == InsertAll(z, cut)
<1>1. /\ z \in Trees /\ MapSound(z)
      /\ z.capacity = x.capacity /\ z.out = x.out /\ z.unasb = x.unasb /\ z.t = x.t
      /\ z.eof2 = EndAfter(Abstract(x), Excerpt(from, len), from, eof)
      /\ Fresh(Abstract(x), Excerpt(from, len), from) = start .. room - 1
      /\ room \in Nat /\ room <= from + len
  BY StartedIs
<1>2. /\ x.unasb \in Nat /\ x.out.rem \in Nat /\ x.out.totWrite = x.unasb
      /\ x.unasb = x.out.totRead + (Capacity - x.out.rem)
      /\ x.out.buf = Excerpt(x.out.totRead, x.unasb - x.out.totRead)
      /\ Limit(Abstract(x)) = x.unasb + x.out.rem
      /\ x.t \in Seq(SoundNodes)
  BY ReadyFields
<1>3. /\ from \in Nat /\ len \in Nat /\ from + len <= StreamLen
      /\ Sound(Abstract(x), Capacity, StreamLen, announced) /\ Ordered(x.t)
      /\ start \in Nat /\ start < room
  BY <1>1, <1>2 DEF OfTheStream, Ready, MapSound, Larger
<1>4. \A y \in S : x.unasb <= y /\ y < x.unasb + x.out.rem
  <2>1. S \in SUBSET OpenWindow(Abstract(x), StreamLen)
    BY ONLY <1>3, StoredFields
  <2>2. \A y \in S : y \in Abstract(x).unasb .. Limit(Abstract(x)) - 1
    BY ONLY <2>1 DEF OpenWindow
  <2>3. Abstract(x).unasb = x.unasb
    BY ONLY <1>2, AbstractFields
  <2> QED
    BY ONLY <1>2, <2>2, <2>3
<1>5. S = HeldBy(x.t) \cup (start .. room - 1)
  <2>1. DOMAIN Abstract(x).stored = HeldBy(x.t)
    BY ONLY <1>2, AbstractFields
  <2> QED
    BY ONLY <1>1, <2>1 DEF Covered
<1>6. S = Covered(Abstract(x), from, len)
  OBVIOUS
<1> HIDE DEF S
<1>7. /\ Fitting(z.t, cut, start, room)
      /\ \A y \in start .. room - 1 : y \in HeldBy(z.t) \/ y \in HeldBy(cut)
  <2>1. /\ z.t \in Seq(SoundNodes) /\ Ordered(z.t) /\ z.unasb \in Nat
        /\ Larger(z.unasb, from) = start /\ Larger(z.unasb, from) < room
    BY <1>1, <1>2, <1>3
  <2>2. /\ Fitting(z.t, cut, Larger(z.unasb, from), room)
        /\ \A y \in Larger(z.unasb, from) .. room - 1 :
             y \in HeldBy(z.t) \/ y \in HeldBy(cut)
    BY ONLY <1>1, <1>3, <2>1, PiecesSound
  <2> QED
    BY ONLY <2>1, <2>2
<1> HIDE DEF cut, start, room
<1>8. /\ v \in Trees /\ MapSound(v) /\ SameElse(z, v)
      /\ HeldBy(v.t) = HeldBy(z.t) \cup HeldBy(cut)
  BY ONLY IntHolds, <1>1, <1>7, InsertAllSound
<1>9. HeldBy(cut) \subseteq start .. room - 1
  <2> SUFFICES ASSUME NEW y \in HeldBy(cut) PROVE y \in start .. room - 1
    OBVIOUS
  <2>1. /\ cut \in Seq(SoundNodes)
        /\ \A k \in DOMAIN cut : start <= cut[k].first /\ cut[k].last <= room
    BY <1>7 DEF Fitting
  <2>2. PICK k \in DOMAIN cut : y \in Span(cut[k])
    BY <2>1, HeldIs
  <2>3. cut[k] \in SoundNodes
    BY <2>1
  <2> QED
    BY <1>1, <1>3, <2>1, <2>2, <2>3, NodeFields DEF Span
<1> HIDE DEF v
<1>10. HeldBy(v.t) = S
  BY ONLY <1>1, <1>5, <1>7, <1>8, <1>9
<1>11. v.out = x.out /\ v.unasb = x.unasb /\ v.capacity = x.capacity /\ v.eof2 = z.eof2
  BY ONLY <1>1, <1>8 DEF SameElse
<1>12. OutSound(v)
  BY ONLY <1>2, <1>4, <1>10, <1>11 DEF OutSound
<1>13. w = Drain(v)
  BY DEF v, cut, room
<1>14. Drained(v, Len(v.t), w) /\ w.unasb \notin HeldBy(w.t)
  BY ONLY <1>8, <1>12, <1>13, DrainSound
<1>15. /\ w \in Trees /\ MapSound(w) /\ w.capacity = x.capacity /\ w.eof2 = z.eof2
       /\ x.unasb <= w.unasb /\ w.unasb - x.unasb <= x.out.rem
       /\ w.out = Filled(x.out, x.unasb, w.unasb)
       /\ \A y : y \in HeldBy(w.t) <=> y \in S /\ y >= w.unasb
       /\ x.unasb .. w.unasb - 1 \subseteq S
  BY ONLY <1>10, <1>11, <1>14 DEF Drained
<1>16. HeldBy(w.t) = {y \in S : y >= w.unasb} /\ w.unasb \notin S
  <2>1. w.unasb \in Nat
    BY <1>15, TreeFields
  <2> QED
    BY ONLY <1>14, <1>15, <2>1
<1> QED
  BY ONLY <1>1, <1>6, <1>15, <1>16, Ready(x, announced), OfTheStream(from, len, eof),
          TreeAssembled

\* push_substring.
LEMMA PushImplements ==
  ASSUME IntHolds, NEW x, NEW announced, Ready(x, announced),
         NEW from, NEW len, NEW eof, OfTheStream(from, len, eof)
  PROVE  /\ Ready(PushTree(x, Excerpt(from, len), from, eof), announced \/ eof)
         /\ Abstract(PushTree(x, Excerpt(from, len), from, eof))
              = PushSubstring(Abstract(x), Excerpt(from, len), from, eof)
<1> DEFINE p == PushTree(x, Excerpt(from, len), from, eof)
           z == Started(x, from, len, eof)
           w == Drain(InsertAll(z, Pieces(z, Excerpt(from, len), from,
                                          Room(x, from, len))))
           small == Room(x, from, len) <= Larger(x.unasb, from)
<1>1. p = IF small THEN EndTree(z) ELSE EndTree(w)
  BY StartedIs
<1> HIDE DEF p, z, w
<1>2. /\ p \in Trees /\ MapSound(p)
      /\ Abstract(p) = Pushed(Abstract(x), from, len, eof)
  <2>1. CASE small
    <3>1. p = EndTree(z)
      BY <1>1, <2>1
    <3> QED
      BY ONLY <2>1, <3>1, PushNothing, Ready(x, announced), OfTheStream(from, len, eof)
          DEF z
  <2>2. CASE ~ small
    <3>1. p = EndTree(w)
      BY <1>1, <2>2
    <3> QED
      BY ONLY IntHolds, <2>2, <3>1, PushPieces, Ready(x, announced),
              OfTheStream(from, len, eof) DEF z, w
  <2> QED
    BY ONLY <2>1, <2>2
<1>3. Sound(Pushed(Abstract(x), from, len, eof), Capacity, StreamLen, announced \/ eof)
  <2>1. /\ from \in Nat /\ len \in Nat /\ eof \in BOOLEAN
        /\ from + len <= StreamLen
        /\ eof => from + len = StreamLen
        /\ Sound(Abstract(x), Capacity, StreamLen, announced)
    BY DEF OfTheStream, Ready
  <2> QED
    BY ONLY <2>1, PushIsSound
<1>4. Ready(p, announced \/ eof)
  BY ONLY <1>2, <1>3 DEF Ready
<1> QED
  BY ONLY <1>2, <1>4 DEF p, Pushed

\* Reading from the output.
LEMMA ReadImplements ==
  ASSUME NEW x, NEW announced, Ready(x, announced), NEW n \in 1 .. BufferSize(x.out)
  PROVE  /\ Ready(ReadTree(x, n), announced)
         /\ Abstract(ReadTree(x, n)) = ReadOut(Abstract(x), n)
<1> DEFINE r == Abstract(x)
           q == ReadOut(r, n)
           p == ReadTree(x, n)
           o == PopOutput(x.out, n)
<1>1. /\ x \in Trees /\ MapSound(x) /\ Sound(r, Capacity, StreamLen, announced)
      /\ x.t \in Seq(SoundNodes)
  BY TreeFields DEF Ready
<1>2. /\ r.capacity = x.capacity /\ r.out = x.out /\ r.unasb = x.unasb
      /\ r.eof2 = x.eof2 /\ r.stored = [i \in HeldBy(x.t) |-> i]
  BY <1>1, AbstractFields
<1> HIDE DEF r
<1>3. Sound(q, Capacity, StreamLen, announced)
  BY ONLY <1>1, <1>2, ReadIsSound, n \in 1 .. BufferSize(x.out)
<1>4. /\ r \in Reassemblers(Capacity, StreamLen)
      /\ q \in Reassemblers(Capacity, StreamLen)
  BY <1>1, <1>3 DEF Sound
<1>5. q = [r EXCEPT !.out = o] /\ p = [x EXCEPT !.out = o]
  BY <1>2 DEF ReadOut, ReadTree
<1> HIDE DEF q, p, o
<1>6. /\ q.out = o /\ q.capacity = r.capacity /\ q.unasb = r.unasb
      /\ q.eof2 = r.eof2 /\ q.stored = r.stored /\ o \in Streams(Capacity)
  BY ONLY <1>4, <1>5 DEF Reassemblers
<1>7. /\ p \in Trees /\ p.out = o /\ p.t = x.t /\ p.szUnasb = x.szUnasb
      /\ p.capacity = x.capacity /\ p.unasb = x.unasb /\ p.eof2 = x.eof2
  BY ONLY <1>1, <1>5, <1>6 DEF Trees
<1>8. MapSound(p)
  BY <1>1, <1>7 DEF MapSound
<1>9. Abstract(p) = q
  <2>1. /\ Abstract(p) \in Reassemblers(Capacity, StreamLen)
        /\ Abstract(p).capacity = p.capacity /\ Abstract(p).out = p.out
        /\ Abstract(p).unasb = p.unasb /\ Abstract(p).eof2 = p.eof2
        /\ Abstract(p).stored = [i \in HeldBy(p.t) |-> i]
    BY ONLY <1>1, <1>7, AbstractTyped, AbstractFields
  <2> QED
    BY ONLY <1>2, <1>4, <1>6, <1>7, <2>1, SameReassembler
<1>10. Ready(p, announced)
  BY ONLY <1>3, <1>7, <1>8, <1>9 DEF Ready
<1> QED
  BY ONLY <1>9, <1>10 DEF p, q, r
-----------------------------------------------------------------------------
(***************************************************************************)
(* The specification.                                                      *)
(***************************************************************************)
\* The inductive invariant.
IInv == Ready(s, last)

LEMMA StreamFits ==
  /\ Bounds(Capacity, StreamLen)
  /\ MaxExcerpt \in Nat
  BY ReassemblyAssumption DEF Bounds

LEMMA InitEstablishesIInv ==
  ASSUME Init
  PROVE  IInv /\ Abs!Init
<1>1. s = [capacity |-> Capacity, out |-> NewByteStream(Capacity), szUnasb |-> 0,
           unread |-> 0, unasb |-> 0, eof2 |-> NoEof, t |-> <<>>]
      /\ last = FALSE
  BY DEF Init, NewTree, NoEof, NoEof2
<1>2. <<>> \in Seq(SoundNodes) /\ HeldBy(<<>>) = {} /\ Ordered(<<>>)
  BY DEF HeldBy, Ordered
<1>3. Sound(NewReassembler(Capacity), Capacity, StreamLen, FALSE)
  BY StreamFits, NewIsSound
<1>4. NewReassembler(Capacity)
        = [capacity |-> Capacity, out |-> NewByteStream(Capacity), unasb |-> 0,
           eof2 |-> NoEof, stored |-> <<>>]
  BY DEF NewReassembler
<1>5. NewByteStream(Capacity) \in Streams(Capacity) /\ NoEof \in SizeTs
  <2>1. NewReassembler(Capacity) \in Reassemblers(Capacity, StreamLen)
    BY <1>3 DEF Sound
  <2> QED
    BY ONLY <1>4, <2>1 DEF Reassemblers
<1>6. s \in Trees
  BY ONLY <1>1, <1>2, <1>5, ReassemblyAssumption DEF Trees
<1>7. MapSound(s)
  BY <1>1, <1>2, FS_EmptySet DEF MapSound
<1>8. Abstract(s) = NewReassembler(Capacity)
  <2>1. [i \in HeldBy(<<>>) |-> i] = <<>>
    BY <1>2
  <2>2. Abstract(s) = [capacity |-> s.capacity, out |-> s.out, unasb |-> s.unasb,
                       eof2 |-> s.eof2, stored |-> [i \in HeldBy(s.t) |-> i]]
    BY ONLY <1>1, <1>2, AbstractIs
  <2> QED
    BY ONLY <1>1, <1>4, <2>1, <2>2
<1>9. IInv
  BY ONLY <1>1, <1>3, <1>6, <1>7, <1>8 DEF IInv, Ready
<1>10. Abs!Init
  BY <1>1, <1>8 DEF Abs!Init, Abs!NewReassembler, NewReassembler, Abs!NewByteStream,
                    NewByteStream, Abs!NoEof, NoEof, Abs!SizeT, SizeT
<1> QED
  BY <1>9, <1>10

\* The operators of the instance are those of Reassembly.
LEMMA SameOperators ==
  /\ \A x, data, i, eof : Abs!PushSubstring(x, data, i, eof) = PushSubstring(x, data, i, eof)
  /\ \A x, n : Abs!ReadOut(x, n) = ReadOut(x, n)
  /\ \A from, len : Abs!Excerpt(from, len) = Excerpt(from, len)
<1>1. ASSUME NEW x, NEW data, NEW i, NEW eof
      PROVE  Abs!PushSubstring(x, data, i, eof) = PushSubstring(x, data, i, eof)
  BY DEF Abs!PushSubstring, PushSubstring, Abs!EndIfReached, EndIfReached, Abs!Assemble,
         Assemble, Abs!Stored, Stored, Abs!EndAfter, EndAfter, Abs!FirstGap, FirstGap,
         Abs!Limit, Limit, Abs!NoEof, NoEof, Abs!EndInput, EndInput, Abs!Write, Write,
         Abs!Fresh, Fresh, Abs!ByteOf, ByteOf, Abs!Larger, Larger, Abs!Smaller, Smaller,
         Abs!SizeT, SizeT, Abs!Accepted, Accepted, Abs!Writable, Writable
<1>2. \A x, n : Abs!ReadOut(x, n) = ReadOut(x, n)
  BY DEF Abs!ReadOut, ReadOut, Abs!PopOutput, PopOutput, Abs!Smaller, Smaller
<1>3. \A from, len : Abs!Excerpt(from, len) = Excerpt(from, len)
  BY DEF Abs!Excerpt, Excerpt
<1> QED
  BY <1>1, <1>2, <1>3

LEMMA NextImplements ==
  ASSUME IntHolds, IInv, [Next]_vars
  PROVE  IInv' /\ [Abs!Next]_(Abs!vars)
<1>1. Ready(s, last)
  BY DEF IInv
<1>2. ASSUME NEW from \in 0 .. StreamLen, NEW len \in 0 .. MaxExcerpt,
             NEW eof \in BOOLEAN, Push(from, len, eof)
      PROVE  IInv' /\ Abs!Next
  <2>1. /\ OfTheStream(from, len, eof)
        /\ s' = PushTree(s, Excerpt(from, len), from, eof)
        /\ last' = (last \/ eof)
    BY <1>2, ReassemblyAssumption DEF Push, OfTheStream
  <2>2. /\ Ready(PushTree(s, Excerpt(from, len), from, eof), last \/ eof)
        /\ Abstract(PushTree(s, Excerpt(from, len), from, eof))
             = PushSubstring(Abstract(s), Excerpt(from, len), from, eof)
    BY ONLY IntHolds, <1>1, <2>1, PushImplements
  <2>3. IInv'
    BY ONLY <2>1, <2>2 DEF IInv
  <2>4. Abstract(s)' = Abs!PushSubstring(Abstract(s), Abs!Excerpt(from, len), from, eof)
    <3>1. Abstract(s)' = Abstract(s')
      BY DEF Abstract, HeldBy, ByteAt
    <3> QED
      BY ONLY <2>1, <2>2, <3>1, SameOperators
  <2>5. Abs!Push(from, len, eof)
    BY <2>1, <2>4 DEF Abs!Push, OfTheStream
  <2> QED
    BY <2>3, <2>5 DEF Abs!Next, Abs!PushAny
<1>3. ASSUME Read PROVE IInv' /\ Abs!Next
  <2>1. PICK n \in 1 .. BufferSize(s.out) : s' = ReadTree(s, n) /\ last' = last
    BY <1>3 DEF Read
  <2>2. /\ Ready(ReadTree(s, n), last)
        /\ Abstract(ReadTree(s, n)) = ReadOut(Abstract(s), n)
    BY ONLY <1>1, <2>1, ReadImplements
  <2>3. IInv'
    BY ONLY <2>1, <2>2 DEF IInv
  <2>4. Abstract(s)' = Abs!ReadOut(Abstract(s), n)
    <3>1. Abstract(s)' = Abstract(s')
      BY DEF Abstract, HeldBy, ByteAt
    <3> QED
      BY ONLY <2>1, <2>2, <3>1, SameOperators
  <2>5. Abs!BufferSize(Abs!StreamOut(Abstract(s))) = BufferSize(s.out)
    <3>1. Abstract(s).out = s.out
      BY <1>1, ReadyFields, AbstractFields
    <3> QED
      BY <3>1 DEF Abs!BufferSize, Abs!StreamOut, BufferSize
  <2>6. Abs!Read
    BY <2>1, <2>4, <2>5 DEF Abs!Read
  <2> QED
    BY <2>3, <2>6 DEF Abs!Next
<1>4. CASE UNCHANGED vars
  <2>1. s' = s /\ last' = last
    BY <1>4 DEF vars
  <2>2. IInv'
    BY ONLY <1>1, <2>1 DEF IInv
  <2>3. UNCHANGED Abs!vars
    <3>1. Abstract(s)' = Abstract(s')
      BY DEF Abstract, HeldBy, ByteAt
    <3> QED
      BY ONLY <2>1, <3>1 DEF Abs!vars
  <2> QED
    BY <2>2, <2>3
<1> QED
  BY <1>2, <1>3, <1>4 DEF Next, PushAny

LEMMA IInvHolds ==
  ASSUME IntHolds
  PROVE  Spec => []IInv
<1>1. Init => IInv
  BY InitEstablishesIInv
<1>2. IInv /\ [Next]_vars => IInv'
  BY NextImplements
<1> QED
  BY <1>1, <1>2, PTL DEF Spec
-----------------------------------------------------------------------------
\* However the excerpts come, the nodes of the map are apart and in order, none
\* adjoins the output, and szUnasb counts their bytes once each
\* (stream_reassembler.hh:53-57, stream_reassembler.cc:37-60).
THEOREM TreeOKHolds ==
  ASSUME IntHolds
  PROVE  Spec => []TreeOK
<1>1. IInv => TreeOK
  <2> SUFFICES ASSUME IInv PROVE TreeOK
    OBVIOUS
  <2>1. /\ s.t \in Seq(SoundNodes) /\ Ordered(s.t) /\ s.unasb \in Nat
        /\ s.szUnasb = Cardinality(HeldBy(s.t))
        /\ \A y \in HeldBy(s.t) : s.unasb < y
    BY ReadyFields DEF IInv, Ready, MapSound
  <2>2. ASSUME NEW i \in DOMAIN s.t
        PROVE  /\ s.t[i].first < s.t[i].last
               /\ Len(s.t[i].data) = s.t[i].last - s.t[i].first
               /\ s.t[i].first > IF i = 1 THEN s.unasb ELSE s.t[i - 1].last - 1
    <3>1. s.t[i] \in SoundNodes /\ i \in 1 .. Len(s.t) /\ DOMAIN s.t = 1 .. Len(s.t)
          /\ Len(s.t) \in Nat
      BY <2>1, <2>2
    <3>2. /\ s.t[i].first < s.t[i].last /\ s.t[i].first \in Nat /\ s.t[i].last \in Nat
          /\ Len(s.t[i].data) = s.t[i].last - s.t[i].first
      BY <3>1, NodeFields
    <3>3. s.t[i].first > s.unasb
      <4>1. s.t[i].first \in Span(s.t[i])
        BY ONLY <3>2 DEF Span
      <4>2. s.t[i].first \in HeldBy(s.t)
        BY ONLY <2>1, <2>2, <4>1, HeldIs
      <4> QED
        BY <2>1, <3>2, <4>2
    <3>4. ASSUME i # 1 PROVE s.t[i].first > s.t[i - 1].last - 1
      <4>1. i - 1 \in DOMAIN s.t /\ i - 1 < i
        BY <3>1, <3>4
      <4>2. s.t[i - 1] \in SoundNodes /\ s.t[i - 1].last <= s.t[i].first
        BY <2>1, <2>2, <4>1 DEF Ordered
      <4> QED
        BY <3>2, <4>2, NodeFields
    <3> QED
      BY <3>2, <3>3, <3>4
  <2> QED
    BY <2>1, <2>2 DEF TreeOK
<1> QED
  BY <1>1, IInvHolds, PTL

\* Every call on the tree is a call on the abstract reassembler, or changes nothing
\* of it (push_substring, stream_reassembler.cc:23-65).
THEOREM ImplementsHolds ==
  ASSUME IntHolds
  PROVE  Spec => Implements
<1>1. Init => IInv /\ Abs!Init
  BY InitEstablishesIInv
<1>2. IInv /\ [Next]_vars => IInv' /\ [Abs!Next]_(Abs!vars)
  BY NextImplements
<1> QED
  BY <1>1, <1>2, PTL DEF Spec, Implements, Abs!Spec

\* The reader is given the stream in its order (stream_reassembler.cc:37-60).
THEOREM TreeInOrder ==
  ASSUME IntHolds
  PROVE  Spec => []InOrder
<1>1. IInv => InOrder
  BY SameOperators DEF IInv, Ready, Sound, InOrder, Abs!InOrder
<1> QED
  BY <1>1, IInvHolds, PTL

\* Unread and stored bytes share the capacity (stream_reassembler.hh:33-34).
THEOREM TreeWithinCapacity ==
  ASSUME IntHolds
  PROVE  Spec => []WithinCapacity
<1>1. IInv => WithinCapacity
  <2> SUFFICES ASSUME IInv PROVE WithinCapacity
    OBVIOUS
  <2> DEFINE r == Abstract(s)
  <2>1. Sound(r, Capacity, StreamLen, last)
    BY DEF IInv, Ready
  <2>2. /\ BufferSize(r.out) + Cardinality(DOMAIN r.stored) <= Capacity
        /\ DOMAIN r.stored \subseteq r.unasb + 1 .. Limit(r) - 1
    BY ONLY <2>1, SoundIsWithin
  <2> HIDE DEF r
  <2>3. /\ Abs!BufferSize(Abs!StreamOut(r)) = BufferSize(r.out)
        /\ Abs!Limit(r) = Limit(r)
    BY DEF Abs!StreamOut, Abs!BufferSize, BufferSize, Abs!Limit, Limit
  <2>4. Abs!UnassembledBytes(r) = Cardinality(DOMAIN r.stored)
    BY DEF Abs!UnassembledBytes, Abs!Cardinality, Cardinality, Abs!IsFiniteSet, IsFiniteSet
  <2> QED
    BY <2>2, <2>3, <2>4 DEF WithinCapacity, Abs!WithinCapacity, r
<1> QED
  BY <1>1, IInvHolds, PTL

\* The output is ended when, and only when, the end has been announced and all
\* before it assembled (stream_reassembler.cc:27-36, 61-64).
THEOREM TreeEndedIffComplete ==
  ASSUME IntHolds
  PROVE  Spec => []EndedIffComplete
<1>1. IInv => EndedIffComplete
  BY DEF IInv, Ready, Sound, EndedIffComplete, Abs!EndedIffComplete, Abs!InputEnded,
         Abs!StreamOut
<1> QED
  BY <1>1, IInvHolds, PTL
-----------------------------------------------------------------------------
(***************************************************************************)
(* The same of the abstract reassembler itself, which TCPReceiver is built *)
(* on: of any that starts empty and is fed so, the tree or not.            *)
(***************************************************************************)
VARIABLE reassembler   \* any reassembler

Any == INSTANCE ReassemblySpec WITH r <- reassembler

AnyInv == Sound(reassembler, Capacity, StreamLen, last)

\* The operators of the instance are those the lemmas are about.
LEMMA SameOfAny ==
  /\ \A x, data, i, eof : Any!PushSubstring(x, data, i, eof) = PushSubstring(x, data, i, eof)
  /\ \A x, n : Any!ReadOut(x, n) = ReadOut(x, n)
  /\ \A from, len : Any!Excerpt(from, len) = Excerpt(from, len)
  /\ Any!NewReassembler(Capacity) = NewReassembler(Capacity)
<1>1. ASSUME NEW x, NEW data, NEW i, NEW eof
      PROVE  Any!PushSubstring(x, data, i, eof) = PushSubstring(x, data, i, eof)
  BY DEF Any!PushSubstring, PushSubstring, Any!EndIfReached, EndIfReached, Any!Assemble,
         Assemble, Any!Stored, Stored, Any!EndAfter, EndAfter, Any!FirstGap, FirstGap,
         Any!Limit, Limit, Any!NoEof, NoEof, Any!EndInput, EndInput, Any!Write, Write,
         Any!Fresh, Fresh, Any!ByteOf, ByteOf, Any!Larger, Larger, Any!Smaller, Smaller,
         Any!SizeT, SizeT, Any!Accepted, Accepted, Any!Writable, Writable
<1>2. \A x, n : Any!ReadOut(x, n) = ReadOut(x, n)
  BY DEF Any!ReadOut, ReadOut, Any!PopOutput, PopOutput, Any!Smaller, Smaller
<1>3. \A from, len : Any!Excerpt(from, len) = Excerpt(from, len)
  BY DEF Any!Excerpt, Excerpt
<1>4. Any!NewReassembler(Capacity) = NewReassembler(Capacity)
  BY DEF Any!NewReassembler, NewReassembler, Any!NewByteStream, NewByteStream, Any!NoEof,
         NoEof, Any!SizeT, SizeT
<1> QED
  BY <1>1, <1>2, <1>3, <1>4

LEMMA AnyKeepsSound ==
  ASSUME AnyInv, [Any!Next]_(Any!vars)
  PROVE  AnyInv'
<1>1. ASSUME NEW from \in 0 .. StreamLen, NEW len \in 0 .. MaxExcerpt,
             NEW eof \in BOOLEAN, Any!Push(from, len, eof)
      PROVE  AnyInv'
  <2>1. /\ from \in Nat /\ len \in Nat
        /\ from + len <= StreamLen
        /\ eof => from + len = StreamLen
        /\ reassembler' = Pushed(reassembler, from, len, eof)
        /\ last' = (last \/ eof)
    BY <1>1, SameOfAny, ReassemblyAssumption DEF Any!Push, Pushed
  <2>2. Sound(Pushed(reassembler, from, len, eof), Capacity, StreamLen, last \/ eof)
    BY ONLY AnyInv, <2>1, PushIsSound, eof \in BOOLEAN DEF AnyInv
  <2> QED
    BY ONLY <2>1, <2>2 DEF AnyInv
<1>2. CASE Any!Read
  <2>1. PICK n \in 1 .. BufferSize(reassembler.out) :
          reassembler' = ReadOut(reassembler, n) /\ last' = last
    BY <1>2, SameOfAny DEF Any!Read, Any!StreamOut, Any!BufferSize, BufferSize
  <2>2. Sound(ReadOut(reassembler, n), Capacity, StreamLen, last)
    BY ReadIsSound DEF AnyInv
  <2> QED
    BY ONLY <2>1, <2>2 DEF AnyInv
<1>3. CASE UNCHANGED Any!vars
  BY <1>3 DEF Any!vars, AnyInv
<1> QED
  BY <1>1, <1>2, <1>3 DEF Any!Next, Any!PushAny

LEMMA AnyInvHolds == Any!Spec => []AnyInv
<1>1. Any!Init => AnyInv
  BY StreamFits, NewIsSound, SameOfAny DEF Any!Init, AnyInv
<1>2. AnyInv /\ [Any!Next]_(Any!vars) => AnyInv'
  BY AnyKeepsSound
<1> QED
  BY <1>1, <1>2, PTL DEF Any!Spec

\* The reader is given the bytes of the stream in its order, whatever the order of
\* the excerpts (push_substring, stream_reassembler.cc:37-60).
THEOREM InOrderHolds == Any!Spec => []Any!InOrder
<1>1. AnyInv => Any!InOrder
  BY SameOfAny DEF AnyInv, Sound, Any!InOrder
<1> QED
  BY <1>1, AnyInvHolds, PTL

\* Unread and stored bytes together never exceed the capacity, and none is stored
\* outside the window (stream_reassembler.hh:33-34).
THEOREM WithinCapacityHolds == Any!Spec => []Any!WithinCapacity
<1>1. AnyInv => Any!WithinCapacity
  <2> SUFFICES ASSUME AnyInv PROVE Any!WithinCapacity
    OBVIOUS
  <2> DEFINE r == reassembler
  <2>1. /\ BufferSize(r.out) + Cardinality(DOMAIN r.stored) <= Capacity
        /\ DOMAIN r.stored \subseteq r.unasb + 1 .. Limit(r) - 1
    BY SoundIsWithin DEF AnyInv
  <2>2. /\ Any!BufferSize(Any!StreamOut(r)) = BufferSize(r.out)
        /\ Any!Limit(r) = Limit(r)
    BY DEF Any!StreamOut, Any!BufferSize, BufferSize, Any!Limit, Limit
  <2>3. Any!UnassembledBytes(r) = Cardinality(DOMAIN r.stored)
    BY DEF Any!UnassembledBytes, Any!Cardinality, Cardinality, Any!IsFiniteSet, IsFiniteSet
  <2> QED
    BY <2>1, <2>2, <2>3 DEF Any!WithinCapacity
<1> QED
  BY <1>1, AnyInvHolds, PTL

\* The output is ended exactly when the end has been announced and everything
\* before it assembled (stream_reassembler.cc:27-36, 61-64).
THEOREM EndedIffCompleteHolds == Any!Spec => []Any!EndedIffComplete
<1>1. AnyInv => Any!EndedIffComplete
  BY DEF AnyInv, Sound, Any!EndedIffComplete, Any!InputEnded, Any!StreamOut
<1> QED
  BY <1>1, AnyInvHolds, PTL
=============================================================================
