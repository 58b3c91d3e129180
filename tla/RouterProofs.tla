---------------------------- MODULE RouterProofs ----------------------------
(***************************************************************************)
(* For every address width, every number of ports, every routing table and *)
(* every history of it: the scan of route_one_datagram finds the route     *)
(* with the longest prefix that matches, but for longer ones behind a      *)
(* matching direct route; and a router forwards a datagram once, aged by   *)
(* one hop, to a port that a route for its destination names.              *)
(***************************************************************************)
EXTENDS RouterSpec, FiniteSetTheorems, SequenceTheorems, WellFoundedInduction, TLAPS

\* A router as its owner built it: Ports interfaces, each with the datagrams
\* that it has handed up, and a table of routes to those interfaces.
PortsSound(ports) ==
  /\ ports = [i \in 1 .. Ports |-> ports[i]]
  /\ \A i \in 1 .. Ports :
       /\ ports[i] = [ni |-> ports[i].ni, datagramsOut |-> ports[i].datagramsOut]
       /\ ports[i].datagramsOut \in Seq(Datagrams)

RouterSound(r) ==
  /\ r = [ports |-> r.ports, table |-> r.table]
  /\ PortsSound(r.ports)
  /\ r.table \in Seq(Routes(1 .. Ports))

IInv == RouterSound(router) /\ arrived \in 0 .. MaxDatagrams
-----------------------------------------------------------------------------
\* A set of natural numbers that is not empty has a least element.
LEMMA LeastElement ==
  ASSUME NEW T \in SUBSET Nat, T # {}
  PROVE  \E x \in T : \A y \in T : x <= y
<1> DEFINE R == OpToRel(<, Nat)
<1>1. \E x \in T : \A y \in T : ~ (<<y, x>> \in R)
  <2> HIDE DEF R
  <2>1. IsWellFoundedOn(R, Nat)
    BY NatLessThanWellFounded DEF R
  <2> QED
    BY <2>1, WFMin
<1>2. PICK x \in T : \A y \in T : ~ (<<y, x>> \in R)
  BY <1>1
<1>3. \A y \in T : x <= y
  <2> SUFFICES ASSUME NEW y \in T PROVE x <= y
    OBVIOUS
  <2>1. ~ (<<y, x>> \in R)
    BY <1>2
  <2>2. ~ (y < x)
    BY <2>1 DEF OpToRel
  <2> QED
    BY <2>2
<1> QED
  BY <1>3

\* A set with 0 and, up to n, the successor of each of its numbers has n.
LEMMA UpTo ==
  ASSUME NEW P, NEW n \in Nat, 0 \in P, \A k \in 0 .. n - 1 : k \in P => k + 1 \in P
  PROVE  \A k \in 0 .. n : k \in P
<1> DEFINE T == {k \in 0 .. n : k \notin P}
<1>1. SUFFICES ASSUME T # {} PROVE FALSE
  OBVIOUS
<1>2. PICK x \in T : \A y \in T : x <= y
  <2>1. T \in SUBSET Nat
    OBVIOUS
  <2> HIDE DEF T
  <2> QED
    BY <1>1, <2>1, LeastElement
<1>3. x \in 1 .. n /\ x - 1 \in 0 .. n - 1 /\ (x - 1) + 1 = x /\ ~ (x <= x - 1)
  BY <1>2
<1>4. x - 1 \in P
  BY <1>2, <1>3
<1> QED
  BY <1>2, <1>3, <1>4
-----------------------------------------------------------------------------
(***************************************************************************)
(* The loops of the code are functions of the number of turns.             *)
(***************************************************************************)
\* Turn i of the loop that p names, from what the turns before it have left.
Turn(p, a, i) ==
  CASE p.loop = "shift" -> 2 * a
    [] p.loop = "scan"  -> Look(a, p.table[i], p.dst)
    [] p.loop = "queue" -> RouteOneDatagram(a, p.queue[i])
    [] OTHER            -> RouteQueue(a, i)

Turns(p, start, n, f) ==
  f = [i \in 0 .. n |-> IF i = 0 THEN start ELSE Turn(p, f[i - 1], i)]

LEMMA TurnsExist ==
  ASSUME NEW p, NEW start, NEW n \in Nat
  PROVE  \E f : Turns(p, start, n, f)
<1> DEFINE P == {k \in Nat : \E f : Turns(p, start, k, f)}
<1>1. 0 \in P
  <2> DEFINE f == [i \in 0 .. 0 |-> start]
  <2>1. Turns(p, start, 0, f)
    BY DEF Turns
  <2> QED
    BY <2>1
<1>2. ASSUME NEW k \in 0 .. n - 1, k \in P PROVE k + 1 \in P
  <2>1. PICK f : Turns(p, start, k, f)
    BY <1>2
  <2> DEFINE g == [i \in 0 .. k + 1 |-> IF i = k + 1 THEN Turn(p, f[k], k + 1) ELSE f[i]]
  <2>2. \A i \in 0 .. k : f[i] = IF i = 0 THEN start ELSE Turn(p, f[i - 1], i)
    BY <2>1 DEF Turns
  <2>3. \A i \in 0 .. k + 1 : g[i] = IF i = 0 THEN start ELSE Turn(p, g[i - 1], i)
    <3> SUFFICES ASSUME NEW i \in 0 .. k + 1
                 PROVE  g[i] = IF i = 0 THEN start ELSE Turn(p, g[i - 1], i)
      OBVIOUS
    <3>1. CASE i = k + 1
      <4>1. g[i] = Turn(p, f[k], i) /\ i - 1 = k /\ k \in 0 .. k + 1 /\ k # k + 1 /\ i # 0
        BY <1>2, <3>1
      <4>2. g[i - 1] = f[k]
        BY <4>1
      <4> QED
        BY <4>1, <4>2
    <3>2. CASE i # k + 1
      <4>1. i \in 0 .. k /\ g[i] = f[i]
        BY <1>2, <3>2
      <4>2. i # 0 => i - 1 \in 0 .. k + 1 /\ i - 1 # k + 1 /\ g[i - 1] = f[i - 1]
        BY <1>2, <4>1
      <4> QED
        BY <2>2, <4>1, <4>2
    <3> QED
      BY <3>1, <3>2
  <2>4. Turns(p, start, k + 1, g)
    <3>1. g = [i \in 0 .. k + 1 |-> g[i]]
      OBVIOUS
    <3> HIDE DEF g
    <3> QED
      BY <2>3, <3>1 DEF Turns
  <2> QED
    BY <1>2, <2>4
<1> HIDE DEF P
<1>3. n \in P
  BY <1>1, <1>2, UpTo
<1> QED
  BY <1>3 DEF P
-----------------------------------------------------------------------------
(***************************************************************************)
(* Two addresses have the same high bits exactly if shifting the low ones  *)
(* out makes them equal.                                                   *)
(***************************************************************************)
\* The powers of two.
LEMMA Pow2Is ==
  /\ Pow2[0] = 1
  /\ \A b \in 0 .. AddressBits - 1 : Pow2[b + 1] = 2 * Pow2[b]
  /\ \A b \in 0 .. AddressBits : Pow2[b] \in Nat /\ Pow2[b] > 0
<1> DEFINE p == [loop |-> "shift"]
           n == AddressBits
<1>1. n \in Nat
  BY RouterAssumption
<1>2. PICK f : Turns(p, 1, n, f)
  BY <1>1, TurnsExist
<1>3. f = [i \in 0 .. n |-> IF i = 0 THEN 1 ELSE 2 * f[i - 1]]
  BY <1>2 DEF Turns, Turn
<1>4. Pow2 = [i \in 0 .. n |-> IF i = 0 THEN 1 ELSE 2 * Pow2[i - 1]]
  BY <1>3 DEF Pow2
<1>5. Pow2[0] = 1
  BY <1>1, <1>4
<1>6. ASSUME NEW b \in 0 .. n - 1 PROVE Pow2[b + 1] = 2 * Pow2[b]
  <2>1. b + 1 \in 0 .. n /\ b + 1 # 0 /\ (b + 1) - 1 = b
    BY <1>1
  <2> QED
    BY <1>4, <2>1
<1> DEFINE P == {b \in 0 .. n : Pow2[b] \in Nat /\ Pow2[b] > 0}
<1>7. 0 \in P
  BY <1>1, <1>5
<1>8. \A b \in 0 .. n - 1 : b \in P => b + 1 \in P
  BY <1>1, <1>6
<1> HIDE DEF P
<1>9. \A b \in 0 .. n : b \in P
  BY <1>1, <1>7, <1>8, UpTo
<1> QED
  BY <1>5, <1>6, <1>9 DEF P

\* Shifting by one more bit halves; the bit shifted out is the remainder.
LEMMA ShiftHalves ==
  ASSUME NEW a \in Nat, NEW b \in 0 .. AddressBits - 1
  PROVE  /\ a \div Pow2[b] \in Nat /\ a \div Pow2[b + 1] \in Nat
         /\ a \div Pow2[b + 1] = (a \div Pow2[b]) \div 2
         /\ a \div Pow2[b] = 2 * (a \div Pow2[b + 1]) + ((a \div Pow2[b]) % 2)
<1>1. \A m \in Nat : m > 0 => /\ a \div m \in Nat
                              /\ a \div (2 * m) = (a \div m) \div 2
  OBVIOUS
<1>2. /\ Pow2[b] \in Nat /\ Pow2[b] > 0 /\ Pow2[b + 1] = 2 * Pow2[b]
  BY Pow2Is, RouterAssumption
<1>3. a \div Pow2[b] \in Nat /\ a \div Pow2[b + 1] = (a \div Pow2[b]) \div 2
  BY <1>1, <1>2
<1> DEFINE x == a \div Pow2[b]
<1>4. x \in Nat => x \div 2 \in Nat /\ x = 2 * (x \div 2) + (x % 2)
  <2> HIDE DEF x
  <2> QED
    OBVIOUS
<1> QED
  BY ONLY <1>3, <1>4

\* dst >> (32 - len) == prefix >> (32 - len) compares the bits that Matches names.
LEMMA SamePrefixMatches ==
  ASSUME NEW route \in Routes(1 .. Ports), NEW dst \in IPs
  PROVE  SamePrefix(route, dst) <=> Matches(route, dst)
<1> DEFINE n == AddressBits
           low == n - route.len
           a == route.prefix
           Same(b) == dst \div Pow2[b] = a \div Pow2[b]
           Bit(b) == (dst \div Pow2[b]) % 2 = (a \div Pow2[b]) % 2
<1>1. n \in Nat /\ low \in 0 .. n /\ route.len \in 0 .. n /\ a \in 0 .. Pow2[n] - 1
      /\ dst \in 0 .. Pow2[n] - 1 /\ a \in Nat /\ dst \in Nat
  BY RouterAssumption, Pow2Is DEF Routes
<1>2. \A b \in 0 .. n - 1 : Same(b) <=> Same(b + 1) /\ Bit(b)
  <2> TAKE b \in 0 .. n - 1
  <2> DEFINE x == dst \div Pow2[b]
             y == a \div Pow2[b]
             u == dst \div Pow2[b + 1]
             v == a \div Pow2[b + 1]
  <2>1. x \in Nat /\ u = x \div 2 /\ x = 2 * u + (x % 2)
    BY <1>1, ShiftHalves
  <2>2. y \in Nat /\ v = y \div 2 /\ y = 2 * v + (y % 2)
    BY <1>1, ShiftHalves
  <2>3. x = y <=> u = v /\ x % 2 = y % 2
    <3> HIDE DEF x, y, u, v
    <3> QED
      BY ONLY <2>1, <2>2
  <2> QED
    BY <2>3
<1>3. Same(n)
  <2>1. ASSUME NEW m \in Nat, NEW x \in 0 .. m - 1 PROVE x \div m = 0
    BY SMTT(20)
  <2>2. Pow2[n] \in Nat
    BY <1>1, Pow2Is
  <2>3. dst \div Pow2[n] = 0 /\ a \div Pow2[n] = 0
    BY <1>1, <2>1, <2>2
  <2> QED
    BY <2>3
<1>4. SamePrefix(route, dst) <=> Same(low)
  BY DEF SamePrefix
<1>5. Matches(route, dst) <=> \A b \in low .. n - 1 : Bit(b)
  BY DEF Matches
<1> HIDE DEF Same, Bit, n, low, a
<1>6. ASSUME Same(low) PROVE \A b \in low .. n - 1 : Bit(b)
  <2> DEFINE P == {k \in Nat : low + k <= n => Same(low + k)}
  <2>1. 0 \in P
    BY <1>1, <1>6
  <2>2. \A k \in 0 .. n - low - 1 : k \in P => k + 1 \in P
    <3> SUFFICES ASSUME NEW k \in 0 .. n - low - 1, k \in P PROVE k + 1 \in P
      OBVIOUS
    <3>1. low + k \in 0 .. n - 1 /\ low + k <= n /\ k + 1 \in Nat
          /\ low + (k + 1) = (low + k) + 1
      BY <1>1
    <3>2. Same(low + k)
      BY <3>1
    <3>3. Same(low + (k + 1))
      BY <1>2, <3>1, <3>2
    <3> QED
      BY <3>1, <3>3
  <2>3. n - low \in Nat
    BY <1>1
  <2>4. \A k \in 0 .. n - low : k \in P
    <3> HIDE DEF P
    <3> QED
      BY <2>1, <2>2, <2>3, UpTo
  <2> TAKE b \in low .. n - 1
  <2>5. b - low \in 0 .. n - low /\ low + (b - low) = b /\ b <= n /\ b \in 0 .. n - 1
    BY <1>1
  <2>6. Same(b)
    BY <2>4, <2>5
  <2> QED
    BY <1>2, <2>5, <2>6
<1>7. ASSUME \A b \in low .. n - 1 : Bit(b) PROVE Same(low)
  <2> DEFINE P == {k \in Nat : n - k >= low => Same(n - k)}
  <2>1. 0 \in P
    BY <1>1, <1>3
  <2>2. \A k \in 0 .. n - low - 1 : k \in P => k + 1 \in P
    <3> SUFFICES ASSUME NEW k \in 0 .. n - low - 1, k \in P PROVE k + 1 \in P
      OBVIOUS
    <3>1. /\ n - k >= low /\ n - (k + 1) \in 0 .. n - 1 /\ n - (k + 1) \in low .. n - 1
          /\ (n - (k + 1)) + 1 = n - k /\ k + 1 \in Nat
      BY <1>1
    <3>2. Same(n - k) /\ Bit(n - (k + 1))
      BY <1>7, <3>1
    <3>3. Same(n - (k + 1))
      BY <1>2, <3>1, <3>2
    <3> QED
      BY <3>1, <3>3
  <2>3. n - low \in Nat /\ n - (n - low) = low /\ low >= low /\ n - low \in 0 .. n - low
    BY <1>1
  <2>4. n - low \in P
    <3> HIDE DEF P
    <3> QED
      BY <2>1, <2>2, <2>3, UpTo
  <2> QED
    BY <2>3, <2>4
<1> QED
  BY <1>4, <1>5, <1>6, <1>7

\* A route is taken if it matches and no longer one has been found.  That a
\* default route matches everything takes no case of its own.
LEMMA TakesIs ==
  ASSUME NEW route \in Routes(1 .. Ports), NEW dst \in IPs, NEW max \in 0 .. AddressBits
  PROVE  Takes(route, dst, max) <=> Matches(route, dst) /\ route.len >= max
<1>1. AddressBits \in Nat /\ route.len \in 0 .. AddressBits
  BY RouterAssumption DEF Routes
<1>2. CASE route.len = 0
  <2>1. Matches(route, dst)
    BY <1>1, <1>2 DEF Matches
  <2>2. route.len >= max <=> max = 0
    BY <1>1, <1>2
  <2> QED
    BY <1>2, <2>1, <2>2 DEF Takes
<1>3. CASE route.len # 0
  BY <1>3, SamePrefixMatches DEF Takes
<1> QED
  BY <1>2, <1>3
-----------------------------------------------------------------------------
(***************************************************************************)
(* The scan of the table.                                                  *)
(***************************************************************************)
Nothing == [max |-> 0, route |-> NoRoute, done |-> FALSE]

Scans(f, table, dst) ==
  f = [i \in 0 .. Len(table) |-> IF i = 0 THEN Nothing ELSE Look(f[i - 1], table[i], dst)]

LEMMA ChosenIs ==
  ASSUME NEW table, NEW dst, Len(table) \in Nat
  PROVE  \E f : Scans(f, table, dst) /\ Chosen(table, dst) = f[Len(table)].route
<1> DEFINE p == [loop |-> "scan", table |-> table, dst |-> dst]
<1>1. PICK f : Turns(p, Nothing, Len(table), f)
  BY TurnsExist
<1>2. \A a, i : Turn(p, a, i) = Look(a, table[i], dst)
  BY DEF Turn
<1> HIDE DEF p
<1>3. \E g : Scans(g, table, dst)
  BY <1>1, <1>2 DEF Turns, Scans
<1> DEFINE found == CHOOSE g : Scans(g, table, dst)
<1>4. Scans(found, table, dst)
  BY <1>3
<1>5. Chosen(table, dst) = found[Len(table)].route
  BY DEF Chosen, Scans, Nothing
<1> QED
  BY <1>4, <1>5

\* The matching routes among the first k.
MatchingUpTo(table, dst, k) == {i \in 1 .. k : Matches(table[i], dst)}

\* What the first k turns have found.
BestUpTo(found, table, dst, k) ==
  LET matching == MatchingUpTo(table, dst, k) IN
  IF matching = {} THEN found = Nothing
  ELSE \E i \in matching :
         /\ found = [max |-> table[i].len, route |-> table[i],
                     done |-> table[i].hop = Direct]
         /\ \A j \in matching :
              table[j].len > table[i].len => table[i].hop = Direct /\ i < j

LEMMA ScanTurn ==
  ASSUME NEW table \in Seq(Routes(1 .. Ports)), NEW dst \in IPs,
         NEW k \in 0 .. Len(table) - 1,
         NEW found, BestUpTo(found, table, dst, k)
  PROVE  BestUpTo(Look(found, table[k + 1], dst), table, dst, k + 1)
<1> DEFINE route == table[k + 1]
           before == MatchingUpTo(table, dst, k)
           after == MatchingUpTo(table, dst, k + 1)
           N == AddressBits
<1>1. /\ Len(table) \in Nat /\ N \in Nat
      /\ k \in Nat /\ k + 1 \in 1 .. Len(table)
      /\ \A i \in 1 .. k + 1 : table[i] \in Routes(1 .. Ports)
  BY RouterAssumption
<1>2. \A i \in 1 .. k + 1 : table[i].len \in 0 .. N
  BY <1>1 DEF Routes
<1>3. before \subseteq 1 .. k
  BY DEF MatchingUpTo
<1>4. after = before \cup (IF Matches(route, dst) THEN {k + 1} ELSE {})
  BY <1>1 DEF MatchingUpTo
<1>5. CASE before = {}
  <2>1. found = Nothing
    BY <1>5 DEF BestUpTo
  <2>2. ~ found.done /\ found.max = 0
    BY <2>1 DEF Nothing
  <2>3. Takes(route, dst, found.max) <=> Matches(route, dst)
    BY <1>1, <1>2, <2>2, TakesIs
  <2>4. CASE Matches(route, dst)
    <3>1. after = {k + 1}
      BY <1>4, <1>5, <2>4
    <3>2. Look(found, route, dst)
            = [max |-> route.len, route |-> route, done |-> route.hop = Direct]
      BY <2>2, <2>3, <2>4 DEF Look
    <3>3. ~ (route.len > route.len)
      BY <1>1, <1>2
    <3> QED
      BY <3>1, <3>2, <3>3 DEF BestUpTo
  <2>5. CASE ~ Matches(route, dst)
    <3>1. after = {}
      BY <1>4, <1>5, <2>5
    <3>2. Look(found, route, dst) = Nothing
      BY <2>1, <2>3, <2>5 DEF Look
    <3> QED
      BY <3>1, <3>2 DEF BestUpTo
  <2> QED
    BY <2>4, <2>5
<1>6. CASE before # {}
  <2>1. PICK i \in before :
          /\ found = [max |-> table[i].len, route |-> table[i],
                      done |-> table[i].hop = Direct]
          /\ \A j \in before :
               table[j].len > table[i].len => table[i].hop = Direct /\ i < j
    BY <1>6 DEF BestUpTo
  <2>2. /\ found.max = table[i].len /\ (found.done <=> table[i].hop = Direct)
        /\ i \in 1 .. k /\ i \in after /\ i < k + 1 /\ i \in 1 .. k + 1
    <3>1. found.max = table[i].len /\ (found.done <=> table[i].hop = Direct)
      BY ONLY <2>1
    <3>2. i \in 1 .. k /\ i \in after
      BY <1>3, <1>4
    <3> QED
      BY <1>1, <3>1, <3>2
  <2>3. Takes(route, dst, found.max) <=> Matches(route, dst) /\ route.len >= table[i].len
    BY <1>1, <1>2, <2>2, TakesIs
  <2>4. CASE ~ found.done /\ Takes(route, dst, found.max)
    <3>1. Look(found, route, dst)
            = [max |-> route.len, route |-> route, done |-> route.hop = Direct]
      BY <2>4 DEF Look
    <3>2. k + 1 \in after
      BY <1>4, <2>3, <2>4
    <3>3. ASSUME NEW j \in after PROVE ~ (table[j].len > route.len)
      <4>1. CASE j \in before
        <5>1. ~ (table[j].len > table[i].len)
          BY <2>1, <2>2, <2>4, <4>1
        <5>2. j \in 1 .. k + 1
          BY <1>1, <1>3, <4>1
        <5>3. table[j].len \in Nat /\ table[i].len \in Nat /\ route.len \in Nat
          BY <1>1, <1>2, <2>2, <5>2
        <5> QED
          BY <2>3, <2>4, <5>1, <5>3
      <4>2. CASE j = k + 1
        BY <1>1, <1>2, <4>2
      <4> QED
        BY <1>4, <4>1, <4>2
    <3> QED
      BY <3>1, <3>2, <3>3 DEF BestUpTo
  <2>5. CASE found.done \/ ~ Takes(route, dst, found.max)
    <3>1. Look(found, route, dst) = found
      BY <2>5 DEF Look
    <3>2. ASSUME NEW j \in after, table[j].len > table[i].len
          PROVE  table[i].hop = Direct /\ i < j
      <4>1. CASE j \in before
        BY <2>1, <3>2, <4>1
      <4>2. CASE j = k + 1 /\ j \notin before
        <5>1. Matches(route, dst)
          BY <1>4, <4>2
        <5>2. route.len \in Nat /\ table[i].len \in Nat /\ route.len > table[i].len
          BY <1>1, <1>2, <2>2, <3>2, <4>2
        <5>3. found.done
          BY <2>3, <2>5, <5>1, <5>2
        <5> QED
          BY <2>2, <4>2, <5>3
      <4> QED
        BY <1>4, <4>1, <4>2
    <3> QED
      BY <2>1, <2>2, <3>1, <3>2 DEF BestUpTo
  <2> QED
    BY <2>4, <2>5
<1> QED
  BY <1>5, <1>6

\* What the whole scan finds.
LEMMA ChosenIsBest ==
  ASSUME NEW table \in Seq(Routes(1 .. Ports)), NEW dst \in IPs
  PROVE  LET matching == MatchingUpTo(table, dst, Len(table))
             route == Chosen(table, dst)
         IN  IF matching = {} THEN route = NoRoute
             ELSE \E i \in matching :
                    /\ route = table[i]
                    /\ \A j \in matching :
                         table[j].len > route.len => route.hop = Direct /\ i < j
<1>1. Len(table) \in Nat
  OBVIOUS
<1>2. PICK f : Scans(f, table, dst) /\ Chosen(table, dst) = f[Len(table)].route
  BY <1>1, ChosenIs
<1> DEFINE P == {k \in 0 .. Len(table) : BestUpTo(f[k], table, dst, k)}
<1>3. 0 \in P
  <2>1. f[0] = Nothing
    BY <1>1, <1>2 DEF Scans
  <2>2. MatchingUpTo(table, dst, 0) = {}
    BY DEF MatchingUpTo
  <2> QED
    BY <1>1, <2>1, <2>2 DEF BestUpTo
<1>4. \A k \in 0 .. Len(table) - 1 : k \in P => k + 1 \in P
  <2> SUFFICES ASSUME NEW k \in 0 .. Len(table) - 1, k \in P PROVE k + 1 \in P
    OBVIOUS
  <2>1. k + 1 \in 0 .. Len(table) /\ k + 1 # 0 /\ (k + 1) - 1 = k
    BY <1>1
  <2>2. f[k + 1] = Look(f[k], table[k + 1], dst)
    BY <1>2, <2>1 DEF Scans
  <2>3. BestUpTo(f[k + 1], table, dst, k + 1)
    BY <2>2, ScanTurn
  <2> QED
    BY <2>1, <2>3
<1>5. BestUpTo(f[Len(table)], table, dst, Len(table))
  <2> DEFINE n == Len(table)
  <2>1. n \in Nat /\ n \in 0 .. n
    BY <1>1
  <2>2. \A k \in 0 .. n - 1 : k \in P => k + 1 \in P
    BY <1>4
  <2> HIDE DEF P, n
  <2>3. \A k \in 0 .. n : k \in P
    BY <1>3, <2>1, <2>2, UpTo
  <2>4. n \in P
    BY <2>1, <2>3
  <2> QED
    BY <2>4 DEF P, n
<1> DEFINE matching == MatchingUpTo(table, dst, Len(table))
           found == f[Len(table)]
<1>6. Chosen(table, dst) = found.route
  BY <1>2
<1>7. CASE matching = {}
  <2>1. found = Nothing
    BY <1>5, <1>7 DEF BestUpTo
  <2> QED
    BY <1>6, <1>7, <2>1 DEF Nothing
<1>8. CASE matching # {}
  <2>1. PICK i \in matching :
          /\ found = [max |-> table[i].len, route |-> table[i],
                      done |-> table[i].hop = Direct]
          /\ \A j \in matching :
               table[j].len > table[i].len => table[i].hop = Direct /\ i < j
    BY <1>5, <1>8 DEF BestUpTo
  <2>2. Chosen(table, dst) = table[i]
    BY <1>6, <2>1
  <2> QED
    BY <1>8, <2>1, <2>2
<1> QED
  BY <1>7, <1>8
-----------------------------------------------------------------------------
(***************************************************************************)
(* The methods keep a router sound, and only add_route touches the table.  *)
(***************************************************************************)
LEMMA AddRouteIs ==
  ASSUME NEW table \in Seq(Routes(1 .. Ports)), NEW route \in Routes(1 .. Ports)
  PROVE  AddRoute(table, route) \in Seq(Routes(1 .. Ports))
<1> DEFINE same == {i \in DOMAIN table :
                      table[i].prefix = route.prefix /\ table[i].len = route.len}
<1>1. CASE same = {}
  <2>1. AddRoute(table, route) = Append(table, route)
    BY <1>1 DEF AddRoute
  <2> QED
    BY <2>1
<1>2. CASE same # {}
  <2> DEFINE c == CHOOSE i \in same : \A j \in same : i <= j
  <2>1. same \in SUBSET Nat
    OBVIOUS
  <2>2. c \in same
    <3> HIDE DEF same
    <3>1. \E i \in same : \A j \in same : i <= j
      BY <1>2, <2>1, LeastElement
    <3> QED
      BY <3>1
  <2>3. AddRoute(table, route) = [table EXCEPT ![c].hop = route.hop]
    BY <1>2 DEF AddRoute
  <2> HIDE DEF c
  <2>4. c \in 1 .. Len(table) /\ table[c] \in Routes(1 .. Ports)
    BY <2>2
  <2>5. [table[c] EXCEPT !.hop = route.hop] \in Routes(1 .. Ports)
    BY <2>4 DEF Routes
  <2> QED
    BY <2>3, <2>4, <2>5
<1> QED
  BY <1>1, <1>2

\* What route_one_datagram changes is the interface of one port.
LEMMA RouteOneIs ==
  ASSUME NEW r, RouterSound(r), NEW dgram
  PROVE  RouterSound(RouteOneDatagram(r, dgram)) /\ RouteOneDatagram(r, dgram).table = r.table
<1> DEFINE i == Chosen(r.table, dgram.dst).interface
<1>1. \/ RouteOneDatagram(r, dgram) = r
      \/ \E ni : RouteOneDatagram(r, dgram) = [r EXCEPT !.ports[i].ni = ni]
  BY DEF RouteOneDatagram
<1>2. ASSUME NEW ni PROVE RouterSound([r EXCEPT !.ports[i].ni = ni])
                            /\ [r EXCEPT !.ports[i].ni = ni].table = r.table
  <2> HIDE DEF i
  <2> DEFINE ports == [r.ports EXCEPT ![i].ni = ni]
  <2>1. [r EXCEPT !.ports[i].ni = ni] = [ports |-> ports, table |-> r.table]
    BY DEF RouterSound
  <2>2. PortsSound(r.ports)
    BY DEF RouterSound
  <2>3. PortsSound(ports)
    <3>1. ports = [j \in 1 .. Ports |-> ports[j]]
      BY <2>2 DEF PortsSound
    <3>2. ASSUME NEW j \in 1 .. Ports
          PROVE  /\ ports[j] = [ni |-> ports[j].ni, datagramsOut |-> ports[j].datagramsOut]
                 /\ ports[j].datagramsOut \in Seq(Datagrams)
      <4> DEFINE q == r.ports[j]
      <4>1. /\ q = [ni |-> q.ni, datagramsOut |-> q.datagramsOut]
            /\ q.datagramsOut \in Seq(Datagrams)
        BY <2>2 DEF PortsSound
      <4>2. ports[j] = IF j = i THEN [q EXCEPT !.ni = ni] ELSE q
        BY <2>2 DEF PortsSound
      <4> HIDE DEF q, ports
      <4>3. [q EXCEPT !.ni = ni] = [ni |-> ni, datagramsOut |-> q.datagramsOut]
        BY <4>1
      <4> QED
        BY <4>1, <4>2, <4>3
    <3> HIDE DEF ports
    <3> QED
      BY <3>1, <3>2 DEF PortsSound
  <2> HIDE DEF ports
  <2> QED
    BY <2>1, <2>3 DEF RouterSound
<1> QED
  BY <1>1, <1>2

\* A port may change as long as it stays one.
LEMMA PortChanged ==
  ASSUME NEW r, RouterSound(r), NEW i \in 1 .. Ports, NEW port,
         port = [ni |-> port.ni, datagramsOut |-> port.datagramsOut],
         port.datagramsOut \in Seq(Datagrams)
  PROVE  /\ RouterSound([r EXCEPT !.ports[i] = port])
         /\ [r EXCEPT !.ports[i] = port].table = r.table
<1> DEFINE ports == [r.ports EXCEPT ![i] = port]
<1>1. [r EXCEPT !.ports[i] = port] = [ports |-> ports, table |-> r.table]
  BY DEF RouterSound
<1>2. PortsSound(r.ports)
  BY DEF RouterSound
<1>3. /\ ports = [j \in 1 .. Ports |-> ports[j]]
      /\ \A j \in 1 .. Ports : ports[j] = IF j = i THEN port ELSE r.ports[j]
  BY <1>2 DEF PortsSound
<1> HIDE DEF ports
<1>4. PortsSound(ports)
  BY <1>2, <1>3 DEF PortsSound
<1> QED
  BY <1>1, <1>4 DEF RouterSound

Queues(f, r, queue) ==
  f = [k \in 0 .. Len(queue) |-> IF k = 0 THEN r ELSE RouteOneDatagram(f[k - 1], queue[k])]

LEMMA QueueTurns ==
  ASSUME NEW r, RouterSound(r), NEW i \in 1 .. Ports
  PROVE  LET queue == r.ports[i].datagramsOut
         IN  /\ Len(queue) \in Nat
             /\ \E f : /\ Queues(f, r, queue)
                       /\ RouteQueue(r, i) = [f[Len(queue)] EXCEPT !.ports[i] = HandedUpTaken(@)]
<1> DEFINE queue == r.ports[i].datagramsOut
           n == Len(queue)
           p == [loop |-> "queue", queue |-> queue]
<1>1. n \in Nat
  BY DEF RouterSound, PortsSound
<1>2. PICK t : Turns(p, r, n, t)
  BY <1>1, TurnsExist
<1>3. \A a, k : Turn(p, a, k) = RouteOneDatagram(a, queue[k])
  BY DEF Turn
<1>4. \E g : Queues(g, r, queue)
  <2> HIDE DEF p
  <2> QED
    BY <1>2, <1>3 DEF Turns, Queues
<1> DEFINE f == CHOOSE g : Queues(g, r, queue)
<1>5. Queues(f, r, queue)
  BY <1>4
<1>6. RouteQueue(r, i) = [f[n] EXCEPT !.ports[i] = HandedUpTaken(@)]
  BY DEF RouteQueue, Queues
<1> QED
  BY <1>1, <1>5, <1>6

LEMMA RouteQueueIs ==
  ASSUME NEW r, RouterSound(r), NEW i \in 1 .. Ports
  PROVE  RouterSound(RouteQueue(r, i)) /\ RouteQueue(r, i).table = r.table
<1> DEFINE queue == r.ports[i].datagramsOut
           n == Len(queue)
<1>1. n \in Nat
  BY QueueTurns
<1>2. PICK f : /\ Queues(f, r, queue)
               /\ RouteQueue(r, i) = [f[n] EXCEPT !.ports[i] = HandedUpTaken(@)]
  BY QueueTurns
<1>5. Queues(f, r, queue)
  BY <1>2
<1>6. RouteQueue(r, i) = [f[n] EXCEPT !.ports[i] = HandedUpTaken(@)]
  BY <1>2
<1> HIDE DEF queue
<1> DEFINE P == {k \in 0 .. n : RouterSound(f[k]) /\ f[k].table = r.table}
<1>7. 0 \in P
  BY <1>1, <1>5 DEF Queues
<1>8. \A k \in 0 .. n - 1 : k \in P => k + 1 \in P
  <2> SUFFICES ASSUME NEW k \in 0 .. n - 1, k \in P PROVE k + 1 \in P
    OBVIOUS
  <2>1. k + 1 \in 0 .. n /\ k + 1 # 0 /\ (k + 1) - 1 = k
    BY <1>1
  <2>2. f[k + 1] = RouteOneDatagram(f[k], queue[k + 1])
    BY <1>5, <2>1 DEF Queues
  <2>3. RouterSound(f[k + 1]) /\ f[k + 1].table = r.table
    BY <2>2, RouteOneIs
  <2> QED
    BY <2>1, <2>3
<1>9. RouterSound(f[n]) /\ f[n].table = r.table
  <2>1. n \in 0 .. n
    BY <1>1
  <2> HIDE DEF P, n
  <2>2. n \in P
    BY <1>1, <1>7, <1>8, <2>1, UpTo
  <2> QED
    BY <2>2 DEF P
<1> DEFINE port == HandedUpTaken(f[n].ports[i])
<1>10. port = [ni |-> f[n].ports[i].ni, datagramsOut |-> <<>>]
  <2> DEFINE q == f[n].ports[i]
  <2>1. q = [ni |-> q.ni, datagramsOut |-> q.datagramsOut]
    BY <1>9 DEF RouterSound, PortsSound
  <2> HIDE DEF q
  <2>2. [q EXCEPT !.datagramsOut = <<>>] = [ni |-> q.ni, datagramsOut |-> <<>>]
    BY <2>1
  <2> QED
    BY <2>2 DEF HandedUpTaken, q
<1>11. /\ port = [ni |-> port.ni, datagramsOut |-> port.datagramsOut]
       /\ port.datagramsOut \in Seq(Datagrams)
  BY <1>10
<1>12. RouteQueue(r, i) = [f[n] EXCEPT !.ports[i] = port]
  BY <1>6
<1> HIDE DEF port, n
<1> QED
  BY <1>9, <1>11, <1>12, PortChanged

Passes(f, r) ==
  f = [i \in 0 .. Len(r.ports) |-> IF i = 0 THEN r ELSE RouteQueue(f[i - 1], i)]

LEMMA PassTurns ==
  ASSUME NEW r, RouterSound(r)
  PROVE  /\ Ports \in Nat
         /\ \E f : /\ f = [i \in 0 .. Ports |-> IF i = 0 THEN r ELSE RouteQueue(f[i - 1], i)]
                   /\ RouteAll(r) = f[Ports]
<1> DEFINE n == Len(r.ports)
           p == [loop |-> "ports"]
<1>1. n \in Nat /\ n = Ports
  <2>1. r.ports = [i \in 1 .. Ports |-> r.ports[i]] /\ Ports \in Nat
    BY RouterSpecAssumption DEF RouterSound, PortsSound
  <2> QED
    BY <2>1
<1>2. PICK t : Turns(p, r, n, t)
  BY <1>1, TurnsExist
<1>3. \A a, i : Turn(p, a, i) = RouteQueue(a, i)
  BY DEF Turn
<1>4. \E g : Passes(g, r)
  <2> HIDE DEF p
  <2> QED
    BY <1>2, <1>3 DEF Turns, Passes
<1> DEFINE f == CHOOSE g : Passes(g, r)
<1>5. Passes(f, r)
  BY <1>4
<1>6. RouteAll(r) = f[n]
  BY DEF RouteAll, Passes
<1> HIDE DEF f
<1> QED
  BY <1>1, <1>5, <1>6 DEF Passes

LEMMA RouteAllIs ==
  ASSUME NEW r, RouterSound(r)
  PROVE  RouterSound(RouteAll(r)) /\ RouteAll(r).table = r.table
<1> DEFINE n == Ports
<1>1. n \in Nat /\ n = Ports
  BY PassTurns
<1>5. PICK f : /\ f = [i \in 0 .. Ports |-> IF i = 0 THEN r ELSE RouteQueue(f[i - 1], i)]
               /\ RouteAll(r) = f[Ports]
  BY PassTurns
<1>6. RouteAll(r) = f[n]
  BY <1>5
<1> DEFINE P == {k \in 0 .. n : RouterSound(f[k]) /\ f[k].table = r.table}
<1>7. 0 \in P
  BY <1>1, <1>5
<1>8. \A k \in 0 .. n - 1 : k \in P => k + 1 \in P
  <2> SUFFICES ASSUME NEW k \in 0 .. n - 1, k \in P PROVE k + 1 \in P
    OBVIOUS
  <2>1. k + 1 \in 0 .. n /\ k + 1 # 0 /\ (k + 1) - 1 = k /\ k + 1 \in 1 .. Ports
    BY <1>1
  <2>2. f[k + 1] = RouteQueue(f[k], k + 1)
    BY <1>5, <2>1
  <2>3. RouterSound(f[k + 1]) /\ f[k + 1].table = r.table
    BY <2>1, <2>2, RouteQueueIs
  <2> QED
    BY <2>1, <2>3
<1>9. RouterSound(f[n]) /\ f[n].table = r.table
  <2>1. n \in 0 .. n
    BY <1>1
  <2> HIDE DEF P, n
  <2>2. n \in P
    BY <1>1, <1>7, <1>8, <2>1, UpTo
  <2> QED
    BY <2>2 DEF P
<1> QED
  BY <1>6, <1>9
-----------------------------------------------------------------------------
(***************************************************************************)
(* The inductive invariant.                                                *)
(***************************************************************************)
\* Taking the frames off touches the interfaces only.
LEMMA TakenIs ==
  ASSUME RouterSound(router)
  PROVE  RouterSound(Taken) /\ Taken.table = router.table
<1> DEFINE ports == [i \in DOMAIN router.ports |->
                       [router.ports[i] EXCEPT !.ni.framesOut = <<>>]]
<1>1. Taken = [ports |-> ports, table |-> router.table]
  BY DEF Taken, RouterSound
<1>2. PortsSound(router.ports)
  BY DEF RouterSound
<1>3. ports = [i \in 1 .. Ports |-> [router.ports[i] EXCEPT !.ni.framesOut = <<>>]]
  BY <1>2 DEF PortsSound
<1>4. ASSUME NEW i \in 1 .. Ports
      PROVE  /\ ports[i] = [ni |-> ports[i].ni, datagramsOut |-> ports[i].datagramsOut]
             /\ ports[i].datagramsOut \in Seq(Datagrams)
  <2> DEFINE q == router.ports[i]
             ni == [q.ni EXCEPT !.framesOut = <<>>]
  <2>1. /\ q = [ni |-> q.ni, datagramsOut |-> q.datagramsOut]
        /\ q.datagramsOut \in Seq(Datagrams)
    BY <1>2 DEF PortsSound
  <2>2. ports[i] = [q EXCEPT !.ni = ni]
    BY <1>3
  <2> HIDE DEF q, ports, ni
  <2>3. [q EXCEPT !.ni = ni] = [ni |-> ni, datagramsOut |-> q.datagramsOut]
    BY <2>1
  <2> QED
    BY <2>1, <2>2, <2>3
<1>5. PortsSound(ports)
  <2>1. ports = [i \in 1 .. Ports |-> ports[i]]
    BY <1>3
  <2> HIDE DEF ports
  <2> QED
    BY <1>4, <2>1 DEF PortsSound
<1> HIDE DEF ports
<1> QED
  BY <1>1, <1>5 DEF RouterSound

LEMMA InitEstablishesIInv ==
  ASSUME Init
  PROVE  IInv
<1> DEFINE start == [i \in 1 .. Ports |-> NewInterface(PortEth, PortIp)]
           ports == [i \in 1 .. Ports |-> [ni |-> start[i], datagramsOut |-> <<>>]]
<1>1. Len(start) = Ports
  BY RouterSpecAssumption
<1>2. router = [ports |-> ports, table |-> <<>>]
  BY <1>1 DEF Init, NewRouter
<1>3. PortsSound(ports)
  <2>1. ports = [i \in 1 .. Ports |-> ports[i]]
    OBVIOUS
  <2>2. ASSUME NEW i \in 1 .. Ports
        PROVE  /\ ports[i] = [ni |-> ports[i].ni, datagramsOut |-> ports[i].datagramsOut]
               /\ ports[i].datagramsOut \in Seq(Datagrams)
    <3> DEFINE q == ports[i]
               ni == start[i]
               out == << >>
    <3>1. q = [ni |-> ni, datagramsOut |-> out] /\ out \in Seq(Datagrams)
      OBVIOUS
    <3> HIDE DEF q, ni, out
    <3>2. q = [ni |-> q.ni, datagramsOut |-> q.datagramsOut] /\ q.datagramsOut = out
      BY ONLY <3>1
    <3> QED
      BY <3>1, <3>2 DEF q
  <2> HIDE DEF ports
  <2> QED
    BY <2>1, <2>2 DEF PortsSound
<1> HIDE DEF ports
<1>4. RouterSound(router)
  BY <1>2, <1>3 DEF RouterSound
<1> QED
  BY <1>4, RouterSpecAssumption DEF IInv, Init

\* A frame for a port: the datagram of one that hands it up is one.
LEMMA RecvAsyncIs ==
  ASSUME NEW port, port = [ni |-> port.ni, datagramsOut |-> port.datagramsOut],
         port.datagramsOut \in Seq(Datagrams),
         NEW frame, CarriesARP(frame) \/ frame.dgram \in Datagrams
  PROVE  LET after == RecvAsync(port, frame)
         IN  /\ after = [ni |-> after.ni, datagramsOut |-> after.datagramsOut]
             /\ after.datagramsOut \in Seq(Datagrams)
<1> DEFINE out == IF HandsUp(port.ni, frame) THEN Append(port.datagramsOut, frame.dgram)
                  ELSE port.datagramsOut
           ni == RecvFrame(port.ni, frame)
<1>1. out \in Seq(Datagrams)
  <2>1. HandsUp(port.ni, frame) => frame.dgram \in Datagrams
    BY DEF HandsUp
  <2> QED
    BY <2>1
<1>2. RecvAsync(port, frame) = [port EXCEPT !.ni = ni, !.datagramsOut = out]
  BY DEF RecvAsync
<1> HIDE DEF out, ni
<1>3. RecvAsync(port, frame) = [ni |-> ni, datagramsOut |-> out]
  BY <1>2
<1> QED
  BY <1>1, <1>3

\* Receiving on port i.
LEMMA ReceiveKeeps ==
  ASSUME RouterSound(router), NEW i \in 1 .. Ports,
         NEW frame, CarriesARP(frame) \/ frame.dgram \in Datagrams
  PROVE  LET after == [Taken EXCEPT !.ports[i] = RecvAsync(@, frame)]
         IN  RouterSound(after) /\ after.table = router.table
<1> DEFINE port == Taken.ports[i]
           now == RecvAsync(port, frame)
<1>1. RouterSound(Taken) /\ Taken.table = router.table
  BY TakenIs
<1>2. /\ port = [ni |-> port.ni, datagramsOut |-> port.datagramsOut]
      /\ port.datagramsOut \in Seq(Datagrams)
  BY <1>1 DEF RouterSound, PortsSound
<1> HIDE DEF port
<1>3. /\ now = [ni |-> now.ni, datagramsOut |-> now.datagramsOut]
      /\ now.datagramsOut \in Seq(Datagrams)
  BY <1>2, RecvAsyncIs
<1>4. [Taken EXCEPT !.ports[i] = RecvAsync(@, frame)] = [Taken EXCEPT !.ports[i] = now]
  BY DEF port
<1> HIDE DEF now
<1>5. /\ RouterSound([Taken EXCEPT !.ports[i] = now])
      /\ [Taken EXCEPT !.ports[i] = now].table = Taken.table
  BY <1>1, <1>3, PortChanged
<1> QED
  BY <1>1, <1>4, <1>5

LEMMA NextKeepsIInv ==
  ASSUME IInv, [Next]_vars
  PROVE  IInv'
<1> USE DEF IInv
<1>1. ASSUME NEW route \in Offered, Add(route) PROVE IInv'
  <2>1. RouterSound(Taken)
    BY TakenIs
  <2>2. route \in Routes(1 .. Ports)
    BY RouterSpecAssumption
  <2> DEFINE table == AddRoute(Taken.table, route)
  <2>3. table \in Seq(Routes(1 .. Ports))
    BY <2>1, <2>2, AddRouteIs DEF RouterSound
  <2>4. router' = [Taken EXCEPT !.table = table] /\ arrived' = arrived
    BY <1>1 DEF Add
  <2> HIDE DEF table
  <2>5. router' = [ports |-> Taken.ports, table |-> table]
    BY <2>1, <2>4 DEF RouterSound
  <2>6. RouterSound(router')
    BY <2>1, <2>3, <2>5 DEF RouterSound
  <2> QED
    BY <2>4, <2>6 DEF RouterSound, PortsSound
<1>2. ASSUME NEW i \in 1 .. Ports, NEW dst \in Dsts, NEW ttl \in Ttls, Arrive(i, dst, ttl)
      PROVE  IInv'
  <2> DEFINE dgram == [number |-> arrived + 1, dst |-> dst, ttl |-> ttl, came |-> ttl]
             frame == IPv4Frame(NeighbourEth, PortEth, dgram)
  <2>1. arrived + 1 \in 1 .. MaxDatagrams
    BY <1>2, RouterSpecAssumption DEF Arrive
  <2>2. dgram \in Datagrams
    BY <2>1, RouterSpecAssumption
  <2>3. frame.dgram \in Datagrams
    BY <2>2 DEF IPv4Frame
  <2>4. /\ router' = [Taken EXCEPT !.ports[i] = RecvAsync(@, frame)]
        /\ arrived' = arrived + 1
    BY <1>2 DEF Arrive
  <2> HIDE DEF frame
  <2>5. RouterSound(router')
    BY <2>3, <2>4, ReceiveKeeps
  <2> QED
    BY <2>1, <2>4, <2>5 DEF RouterSound, PortsSound
<1>3. ASSUME NEW i \in 1 .. Ports, NEW ip \in Neighbours, Hear(i, ip) PROVE IInv'
  <2> DEFINE frame == ARPFrame(NeighbourEth, PortEth,
                        [opcode |-> Replies, senderEth |-> NeighbourEth,
                         senderIp |-> ip, targetIp |-> PortIp])
  <2>1. CarriesARP(frame)
    BY DEF CarriesARP, ARPFrame
  <2>2. /\ router' = [Taken EXCEPT !.ports[i] = RecvAsync(@, frame)]
        /\ arrived' = arrived
    BY <1>3 DEF Hear
  <2> HIDE DEF frame
  <2>3. RouterSound(router')
    BY <2>1, <2>2, ReceiveKeeps
  <2> QED
    BY <2>2, <2>3 DEF RouterSound, PortsSound
<1>4. CASE Route
  <2>1. RouterSound(router') /\ arrived' = arrived
    BY <1>4, TakenIs, RouteAllIs DEF Route
  <2> QED
    BY <2>1 DEF RouterSound, PortsSound
<1>5. CASE UNCHANGED vars
  BY <1>5 DEF vars, RouterSound, PortsSound
<1> QED
  BY <1>1, <1>2, <1>3, <1>4, <1>5 DEF Next

\* The invariant that the rest follows from.
LEMMA IInvHolds == Spec => []IInv
<1>1. Init => IInv
  BY InitEstablishesIInv
<1>2. IInv /\ [Next]_vars => IInv'
  BY NextKeepsIInv
<1> QED
  BY <1>1, <1>2, PTL DEF Spec

\* "the route with the longest prefix_length that matches the datagram's
\* destination address" (router.hh:48-50) is what the scan finds, for every
\* address width, every table and every order in which the routes were added,
\* but for longer routes behind a matching one to an attached network
\* (router.cc:49-64).
THEOREM LongestFoundHolds == Spec => []LongestFound
<1>1. IInv => LongestFound
  <2> SUFFICES ASSUME IInv, NEW dst \in IPs
               PROVE  LET route == Chosen(router.table, dst) IN
                      IF Matching(dst) = {} THEN route = NoRoute
                      ELSE \E i \in Matching(dst) :
                             /\ route = router.table[i]
                             /\ \A j \in Matching(dst) :
                                  router.table[j].len > route.len =>
                                    route.hop = Direct /\ i < j
    BY DEF LongestFound
  <2>1. router.table \in Seq(Routes(1 .. Ports))
    BY DEF IInv, RouterSound
  <2>2. Matching(dst) = MatchingUpTo(router.table, dst, Len(router.table))
    BY <2>1 DEF Matching, MatchingUpTo
  <2> QED
    BY <2>1, <2>2, ChosenIsBest
<1> QED
  BY <1>1, IInvHolds, PTL
-----------------------------------------------------------------------------
(***************************************************************************)
(* A router forwards a datagram once.  During a call the frames that the   *)
(* ports have queued count as sent: HeldWith(r, gone) is what the router r *)
(* holds and has sent, gone having been sent before the call.              *)
(***************************************************************************)
InterfaceSound(ni) ==
  /\ ni = [eth |-> ni.eth, ip |-> ni.ip, framesOut |-> ni.framesOut, cache |-> ni.cache,
           cooldown |-> ni.cooldown, pending |-> ni.pending]
  /\ ni.eth \in Eths /\ ni.ip \in IPs
  /\ ni.framesOut \in Seq(Frames)
  /\ \A hop \in DOMAIN ni.cache : ni.cache[hop].eth \in Eths
  /\ ni.pending \in [IPs -> Seq(Datagrams)]

InterfacesSound(r) == \A i \in 1 .. Ports : InterfaceSound(r.ports[i].ni)

Sent == [1 .. Ports -> Seq(Frames)]

HeldSound(held) ==
  /\ held.in \in [1 .. Ports -> Seq(Datagrams)]
  /\ held.wait \in [1 .. Ports -> [IPs -> Seq(Datagrams)]]
  /\ held.out \in Sent

HeldWith(r, gone) ==
  [in   |-> [i \in 1 .. Ports |-> r.ports[i].datagramsOut],
   wait |-> [i \in 1 .. Ports |-> r.ports[i].ni.pending],
   out  |-> [i \in 1 .. Ports |-> gone[i] \o r.ports[i].ni.framesOut]]

\* A route of the table has taken the datagram to port i, and it has aged.
Routed(table, i, dgram) ==
  /\ dgram.ttl = dgram.came - 1 /\ dgram.ttl > 0
  /\ \E j \in DOMAIN table : Matches(table[j], dgram.dst) /\ table[j].interface = i

\* Those in the places D have been routed already; the others are all different,
\* and no number is above top.
Forwards(held, D, table, top) ==
  /\ \A p, q \in Places(held) \ D : p # q => At(held, p).number # At(held, q).number
  /\ \A p \in Places(held) \ D : At(held, p).number <= top
  /\ \A p \in Places(held) :
       IF p.line = In THEN At(held, p).ttl = At(held, p).came
       ELSE Routed(table, p.port, At(held, p))

Place(i, line, k) == [port |-> i, line |-> line, pos |-> k]

LEMMA LinesDiffer == In # Out /\ In \notin IPs /\ Out \notin IPs
<1>1. \A ip \in IPs : ip \in Int /\ ip >= 0
  BY RouterAssumption, Pow2Is
<1> QED
  BY <1>1 DEF In, Out

LEMMA PlaceIs ==
  ASSUME NEW held
  PROVE  /\ \A p \in Places(held) :
              /\ p = Place(p.port, p.line, p.pos)
              /\ p.port \in 1 .. Ports /\ p.line \in Lines
              /\ p.pos \in Filled(held, p.port, p.line)
         /\ \A i \in 1 .. Ports, line \in Lines :
              \A k \in Filled(held, i, line) : Place(i, line, k) \in Places(held)
<1>1. ASSUME NEW p \in Places(held)
      PROVE  \E i \in 1 .. Ports, line \in Lines :
               \E k \in Filled(held, i, line) : p = Place(i, line, k)
  BY DEF Places, Place
<1>2. ASSUME NEW i \in 1 .. Ports, NEW line \in Lines, NEW k \in Filled(held, i, line)
      PROVE  Place(i, line, k) \in Places(held)
  <2> DEFINE S(j, l) == {[port |-> j, line |-> l, pos |-> m] : m \in Filled(held, j, l)}
  <2>1. Places(held) = UNION {S(j, l) : j \in 1 .. Ports, l \in Lines}
    BY DEF Places
  <2>2. Place(i, line, k) \in S(i, line)
    BY DEF Place
  <2> HIDE DEF S
  <2>3. S(i, line) \in {S(j, l) : j \in 1 .. Ports, l \in Lines}
    OBVIOUS
  <2> QED
    BY <2>1, <2>2, <2>3
<1>3. \A i, line, k : /\ Place(i, line, k).port = i
                      /\ Place(i, line, k).line = line
                      /\ Place(i, line, k).pos = k
  BY DEF Place
<1> QED
  BY <1>1, <1>2, <1>3

\* The line of a place tells what is there.
LEMMA InsideIn ==
  ASSUME NEW held, NEW p, p.line = In
  PROVE  /\ \A m : m \in Filled(held, p.port, p.line) <=> m \in DOMAIN held.in[p.port]
         /\ At(held, p) = held.in[p.port][p.pos]
  BY LinesDiffer DEF Filled, At

LEMMA InsideOut ==
  ASSUME NEW held, NEW p, p.line = Out
  PROVE  /\ \A m : m \in Filled(held, p.port, p.line) <=>
                     m \in DOMAIN held.out[p.port] /\ ~ CarriesARP(held.out[p.port][m])
         /\ At(held, p) = held.out[p.port][p.pos].dgram
  BY LinesDiffer DEF Filled, At

LEMMA InsideWait ==
  ASSUME NEW held, NEW p, p.line \in IPs
  PROVE  /\ \A m : m \in Filled(held, p.port, p.line)
                     <=> m \in DOMAIN held.wait[p.port][p.line]
         /\ At(held, p) = held.wait[p.port][p.line][p.pos]
  BY LinesDiffer DEF Filled, At

LEMMA PlaceFields ==
  ASSUME NEW i, NEW line, NEW k
  PROVE  /\ Place(i, line, k).port = i
         /\ Place(i, line, k).line = line
         /\ Place(i, line, k).pos = k
  BY DEF Place

\* A line that has not changed has the same datagrams in it.
SameLine(held, after, i, line) ==
  /\ line = In => after.in[i] = held.in[i]
  /\ line = Out => after.out[i] = held.out[i]
  /\ line \in IPs => after.wait[i][line] = held.wait[i][line]

LEMMA SamePlace ==
  ASSUME NEW held, NEW after, NEW p \in Places(after),
         SameLine(held, after, p.port, p.line)
  PROVE  p \in Places(held) /\ At(after, p) = At(held, p)
<1>1. /\ p = Place(p.port, p.line, p.pos)
      /\ p.port \in 1 .. Ports /\ p.line \in Lines
      /\ p.pos \in Filled(after, p.port, p.line)
  BY PlaceIs
<1>2. /\ p.pos \in Filled(held, p.port, p.line)
      /\ At(after, p) = At(held, p)
    <2>1. CASE p.line = In
    BY <1>1, <2>1, InsideIn DEF SameLine
  <2>2. CASE p.line = Out
    BY <1>1, <2>2, InsideOut DEF SameLine
  <2>3. CASE p.line \in IPs
    BY <1>1, <2>3, InsideWait DEF SameLine
  <2> QED
    BY <1>1, <2>1, <2>2, <2>3 DEF Lines
<1>3. Place(p.port, p.line, p.pos) \in Places(held)
  BY <1>1, <1>2, PlaceIs
<1> QED
  BY <1>1, <1>2, <1>3

\* One datagram in a new place, everything else where it was.
LEMMA OneMore ==
  ASSUME NEW held, NEW after, NEW D, NEW table, NEW top, NEW new, NEW high,
         Forwards(held, D, table, top),
         \A p \in Places(after) : p # new => p \in Places(held) /\ At(after, p) = At(held, p),
         IF new.line = In THEN At(after, new).ttl = At(after, new).came
         ELSE Routed(table, new.port, At(after, new)),
         \A p \in Places(held) \ D : At(held, p).number # At(after, new).number,
         At(after, new).number <= high,
         \A p \in Places(held) \ D : At(held, p).number <= high
  PROVE  Forwards(after, D, table, high)
  BY DEF Forwards

\* Datagrams have moved to other places of the same port.
LEMMA Moved ==
  ASSUME NEW held, NEW after, NEW table, NEW top, NEW g,
         Forwards(held, {}, table, top),
         \A p \in Places(after) :
           /\ g[p] \in Places(held) /\ At(after, p) = At(held, g[p])
           /\ g[p].port = p.port /\ (g[p].line = In <=> p.line = In),
         \A p, q \in Places(after) : p # q => g[p] # g[q]
  PROVE  Forwards(after, {}, table, top)
  BY DEF Forwards

\* A frame carries ARP or a datagram.
LEMMA FrameIs ==
  /\ \A f \in Frames : ~ CarriesARP(f) => f.dgram \in Datagrams
  /\ \A src \in Eths, dst \in Eths, d \in Datagrams :
       /\ IPv4Frame(src, dst, d) \in Frames /\ ~ CarriesARP(IPv4Frame(src, dst, d))
       /\ IPv4Frame(src, dst, d).dgram = d
<1>1. \A f \in ARPFrames : CarriesARP(f)
  BY DEF ARPFrames, CarriesARP
<1>2. \A f \in IPv4Frames : f.dgram \in Datagrams
  BY DEF IPv4Frames
<1>3. ASSUME NEW src \in Eths, NEW dst \in Eths, NEW d \in Datagrams
      PROVE  /\ IPv4Frame(src, dst, d) \in Frames /\ ~ CarriesARP(IPv4Frame(src, dst, d))
             /\ IPv4Frame(src, dst, d).dgram = d
  BY DEF IPv4Frame, Frames, IPv4Frames, CarriesARP
<1> QED
  BY <1>1, <1>2, <1>3 DEF Frames

\* What is held is made of datagrams.
LEMMA HeldDatagrams ==
  ASSUME NEW held, HeldSound(held), NEW p \in Places(held)
  PROVE  At(held, p) \in Datagrams
<1> DEFINE i == p.port
           line == p.line
           k == p.pos
           d == At(held, p)
<1>1. i \in 1 .. Ports /\ line \in Lines /\ k \in Filled(held, i, line)
  BY PlaceIs
<1>2. CASE line = In
  <2>1. k \in DOMAIN held.in[i] /\ d = held.in[i][k]
    BY <1>1, <1>2, InsideIn
  <2>2. held.in[i] \in Seq(Datagrams)
    BY <1>1 DEF HeldSound
  <2> HIDE DEF i, k, d
  <2>3. d \in Datagrams
    BY <2>1, <2>2
  <2> QED
    BY <2>3 DEF d
<1>3. CASE line = Out
  <2>1. k \in DOMAIN held.out[i] /\ ~ CarriesARP(held.out[i][k]) /\ d = held.out[i][k].dgram
    BY <1>1, <1>3, InsideOut
  <2>2. held.out[i] \in Seq(Frames)
    BY <1>1 DEF HeldSound, Sent
  <2> HIDE DEF i, k, d
  <2>3. held.out[i][k] \in Frames
    BY <2>1, <2>2
  <2>4. d \in Datagrams
    BY <2>1, <2>3, FrameIs
  <2> QED
    BY <2>4 DEF d
<1>4. CASE line \in IPs
  <2>1. k \in DOMAIN held.wait[i][line] /\ d = held.wait[i][line][k]
    BY <1>1, <1>4, InsideWait
  <2>2. held.wait[i][line] \in Seq(Datagrams)
    BY <1>1, <1>4 DEF HeldSound
  <2> HIDE DEF i, k, d, line
  <2>3. d \in Datagrams
    BY <2>1, <2>2
  <2> QED
    BY <2>3 DEF d
<1> QED
  BY <1>1, <1>2, <1>3, <1>4 DEF Lines

LEMMA HeldWithSound ==
  ASSUME NEW r, RouterSound(r), InterfacesSound(r), NEW gone \in Sent
  PROVE  HeldSound(HeldWith(r, gone))
BY ConcatProperties DEF RouterSound, PortsSound, InterfacesSound, InterfaceSound,
   HeldSound, HeldWith, Sent

-----------------------------------------------------------------------------
(***************************************************************************)
(* Where the calls on an interface put a datagram.                         *)
(***************************************************************************)
LEMMA AppendIs ==
  ASSUME NEW S, NEW s \in Seq(S), NEW e \in S
  PROVE  /\ Append(s, e) \in Seq(S)
         /\ DOMAIN Append(s, e) = DOMAIN s \cup {Len(s) + 1}
         /\ \A k \in DOMAIN s : Append(s, e)[k] = s[k]
         /\ Append(s, e)[Len(s) + 1] = e
  OBVIOUS

\* One more at the end of a line of port i.
OutAppended(held, after, i, f) ==
  /\ after.in = held.in /\ after.wait = held.wait
  /\ after.out = [held.out EXCEPT ![i] = Append(@, f)]

WaitAppended(held, after, i, hop, d) ==
  /\ after.in = held.in /\ after.out = held.out
  /\ after.wait = [held.wait EXCEPT ![i][hop] = Append(@, d)]

InAppended(held, after, i, d) ==
  /\ after.out = held.out /\ after.wait = held.wait
  /\ after.in = [held.in EXCEPT ![i] = Append(@, d)]

\* A frame more has been sent by port i.
LEMMA OutGrows ==
  ASSUME NEW held, HeldSound(held), NEW i \in 1 .. Ports, NEW f \in Frames,
         NEW after, OutAppended(held, after, i, f)
  PROVE  LET new == Place(i, Out, Len(held.out[i]) + 1)
         IN  /\ \A p \in Places(after) :
                  p # new => p \in Places(held) /\ At(after, p) = At(held, p)
             /\ At(after, new) = f.dgram
             /\ new \in Places(after) => ~ CarriesARP(f)
<1> DEFINE s == held.out[i]
           t == Append(s, f)
           new == Place(i, Out, Len(s) + 1)
<1>0. s = held.out[i]
  OBVIOUS
<1>1. s \in Seq(Frames)
  BY DEF HeldSound, Sent
<1>2. /\ after.out[i] = t /\ \A j \in 1 .. Ports : j # i => after.out[j] = held.out[j]
      /\ after.in = held.in /\ after.wait = held.wait
  BY DEF HeldSound, Sent, OutAppended
<1>3. DOMAIN t = DOMAIN s \cup {Len(s) + 1} /\ (\A k \in DOMAIN s : t[k] = s[k])
      /\ t[Len(s) + 1] = f
  BY <1>1, AppendIs
<1> HIDE DEF new, s, t
<1>4. ASSUME NEW p \in Places(after), p # new
      PROVE  p \in Places(held) /\ At(after, p) = At(held, p)
  <2>1. /\ p = Place(p.port, p.line, p.pos) /\ p.port \in 1 .. Ports
        /\ p.line \in Lines /\ p.pos \in Filled(after, p.port, p.line)
    BY PlaceIs
  <2>2. CASE ~ (p.line = Out /\ p.port = i)
    <3>1. SameLine(held, after, p.port, p.line)
      BY <1>2, <2>1, <2>2 DEF SameLine
    <3> QED
      BY <3>1, SamePlace
  <2>3. CASE p.line = Out /\ p.port = i
    <3>1. p.pos # Len(s) + 1
      BY <1>4, <2>1, <2>3 DEF new
    <3>2. /\ p.pos \in DOMAIN after.out[p.port] /\ ~ CarriesARP(after.out[p.port][p.pos])
          /\ At(after, p) = after.out[p.port][p.pos].dgram
          /\ p.pos \in Filled(held, p.port, p.line)
               <=> p.pos \in DOMAIN held.out[p.port] /\ ~ CarriesARP(held.out[p.port][p.pos])
          /\ At(held, p) = held.out[p.port][p.pos].dgram
      BY <2>1, <2>3, InsideOut
    <3>3. after.out[p.port] = t /\ held.out[p.port] = s
      BY <1>0, <1>2, <2>3
    <3>4. p.pos \in DOMAIN t /\ ~ CarriesARP(t[p.pos]) /\ At(after, p) = t[p.pos].dgram
      BY <2>1, <3>2, <3>3
    <3>5. p.pos \in DOMAIN s /\ t[p.pos] = s[p.pos]
      BY <1>3, <3>1, <3>4
    <3>6. p.pos \in Filled(held, p.port, p.line) /\ At(held, p) = s[p.pos].dgram
      BY <3>2, <3>3, <3>4, <3>5
    <3>7. Place(p.port, p.line, p.pos) \in Places(held)
      BY <2>1, <3>6, PlaceIs
    <3> QED
      BY <2>1, <3>4, <3>5, <3>6, <3>7
  <2> QED
    BY <2>2, <2>3
<1>5. new.port = i /\ new.line = Out /\ new.pos = Len(s) + 1
  BY PlaceFields DEF new
<1>6. At(after, new) = f.dgram
  <2>1. At(after, new) = after.out[new.port][new.pos].dgram
    BY <1>5, InsideOut
  <2> QED
    BY <1>2, <1>3, <1>5, <2>1
<1>7. ASSUME new \in Places(after) PROVE ~ CarriesARP(f)
  <2>1. new.pos \in Filled(after, new.port, new.line)
    BY <1>7, PlaceIs
  <2>2. ~ CarriesARP(after.out[new.port][new.pos])
    BY <1>5, <2>1, InsideOut
  <2> QED
    BY <1>2, <1>3, <1>5, <2>2
<1> QED
  BY <1>4, <1>6, <1>7 DEF new, s

\* A datagram more waits at port i for a hop.
LEMMA WaitGrows ==
  ASSUME NEW held, HeldSound(held), NEW i \in 1 .. Ports, NEW hop \in IPs,
         NEW d \in Datagrams, NEW after, WaitAppended(held, after, i, hop, d)
  PROVE  LET new == Place(i, hop, Len(held.wait[i][hop]) + 1)
         IN  /\ \A p \in Places(after) :
                  p # new => p \in Places(held) /\ At(after, p) = At(held, p)
             /\ At(after, new) = d
<1> DEFINE s == held.wait[i][hop]
           t == Append(s, d)
           new == Place(i, hop, Len(s) + 1)
<1>0. s = held.wait[i][hop]
  OBVIOUS
<1>1. s \in Seq(Datagrams)
  BY DEF HeldSound
<1>2. /\ after.wait[i][hop] = t
      /\ \A j \in 1 .. Ports, h \in IPs :
           ~ (j = i /\ h = hop) => after.wait[j][h] = held.wait[j][h]
      /\ after.in = held.in /\ after.out = held.out
  <2>1. /\ held.wait \in [1 .. Ports -> [IPs -> Seq(Datagrams)]]
        /\ after.wait = [held.wait EXCEPT ![i][hop] = t]
        /\ after.in = held.in /\ after.out = held.out
    BY DEF HeldSound, WaitAppended
  <2> HIDE DEF t
  <2> DEFINE w == held.wait
             v == after.wait
  <2>2. v[i] = [w[i] EXCEPT ![hop] = t] /\ \A j \in 1 .. Ports : j # i => v[j] = w[j]
    BY <2>1
  <2>3. w[i] \in [IPs -> Seq(Datagrams)]
    BY <2>1
  <2> QED
    BY <2>1, <2>2, <2>3
<1>3. DOMAIN t = DOMAIN s \cup {Len(s) + 1} /\ (\A k \in DOMAIN s : t[k] = s[k])
      /\ t[Len(s) + 1] = d
  BY <1>1, AppendIs
<1> HIDE DEF new, s, t
<1>4. ASSUME NEW p \in Places(after), p # new
      PROVE  p \in Places(held) /\ At(after, p) = At(held, p)
  <2>1. /\ p = Place(p.port, p.line, p.pos) /\ p.port \in 1 .. Ports
        /\ p.line \in Lines /\ p.pos \in Filled(after, p.port, p.line)
    BY PlaceIs
  <2>2. CASE ~ (p.line = hop /\ p.port = i)
    <3>1. SameLine(held, after, p.port, p.line)
      BY <1>2, <2>1, <2>2 DEF SameLine
    <3> QED
      BY <3>1, SamePlace
  <2>3. CASE p.line = hop /\ p.port = i
    <3>1. p.pos # Len(s) + 1
      BY <1>4, <2>1, <2>3 DEF new
    <3>2. /\ p.pos \in DOMAIN after.wait[p.port][p.line]
          /\ At(after, p) = after.wait[p.port][p.line][p.pos]
          /\ p.pos \in Filled(held, p.port, p.line)
               <=> p.pos \in DOMAIN held.wait[p.port][p.line]
          /\ At(held, p) = held.wait[p.port][p.line][p.pos]
      <4>1. p.line \in IPs
        BY <2>3
      <4> QED
        BY <2>1, <4>1, InsideWait
    <3>3. after.wait[p.port][p.line] = t /\ held.wait[p.port][p.line] = s
      BY <1>0, <1>2, <2>3
    <3>4. p.pos \in DOMAIN t /\ At(after, p) = t[p.pos]
      BY <2>1, <3>2, <3>3
    <3>5. p.pos \in DOMAIN s /\ t[p.pos] = s[p.pos]
      BY <1>3, <3>1, <3>4
    <3>6. p.pos \in Filled(held, p.port, p.line) /\ At(held, p) = s[p.pos]
      BY <3>2, <3>3, <3>4, <3>5
    <3>7. Place(p.port, p.line, p.pos) \in Places(held)
      BY <2>1, <3>6, PlaceIs
    <3> QED
      BY <2>1, <3>4, <3>5, <3>6, <3>7
  <2> QED
    BY <2>2, <2>3
<1>5. new.port = i /\ new.line = hop /\ new.pos = Len(s) + 1
  BY PlaceFields DEF new
<1>6. At(after, new) = d
  <2>1. At(after, new) = after.wait[new.port][new.line][new.pos]
    BY <1>5, InsideWait
  <2> QED
    BY <1>2, <1>3, <1>5, <2>1
<1> QED
  BY <1>4, <1>6 DEF new, s

\* Either the hop is known and a frame with the datagram is sent, or the datagram
\* is dropped, or it waits and the hop is asked for.
Sends(ni, after, d, hop) ==
  \/ /\ after.pending = ni.pending
     /\ \E f \in Frames : /\ ~ CarriesARP(f) /\ f.dgram = d
                          /\ after.framesOut = Append(ni.framesOut, f)
  \/ after.pending = ni.pending /\ after.framesOut = ni.framesOut
  \/ /\ after.pending = [ni.pending EXCEPT ![hop] = Append(@, d)]
     /\ \E f \in Frames : CarriesARP(f) /\ after.framesOut = Append(ni.framesOut, f)

LEMMA QueueIs ==
  ASSUME NEW ni, InterfaceSound(ni), NEW frames \in Seq(Frames)
  PROVE  /\ Queue(ni, frames) = [eth |-> ni.eth, ip |-> ni.ip,
                                 framesOut |-> ni.framesOut \o frames, cache |-> ni.cache,
                                 cooldown |-> ni.cooldown, pending |-> ni.pending]
         /\ ni.framesOut \o frames \in Seq(Frames)
<1>1. ni.framesOut \in Seq(Frames)
  BY DEF InterfaceSound
<1>2. ni.framesOut \o frames \in Seq(Frames)
  BY <1>1, ConcatProperties
<1>3. ni = [eth |-> ni.eth, ip |-> ni.ip, framesOut |-> ni.framesOut, cache |-> ni.cache,
            cooldown |-> ni.cooldown, pending |-> ni.pending]
  BY DEF InterfaceSound
<1> DEFINE q == ni.framesOut \o frames
<1>4. Queue(ni, frames) = [ni EXCEPT !.framesOut = q]
  BY DEF Queue
<1> HIDE DEF q
<1>5. Queue(ni, frames) = [eth |-> ni.eth, ip |-> ni.ip, framesOut |-> q, cache |-> ni.cache,
                           cooldown |-> ni.cooldown, pending |-> ni.pending]
  BY <1>3, <1>4
<1> QED
  BY <1>2, <1>5 DEF q

LEMMA ConcatOne ==
  ASSUME NEW S, NEW s \in Seq(S), NEW e \in S
  PROVE  s \o <<e>> = Append(s, e)
  OBVIOUS

LEMMA SendIs ==
  ASSUME NEW ni, InterfaceSound(ni), NEW d \in Datagrams, NEW hop \in IPs
  PROVE  InterfaceSound(SendDatagram(ni, d, hop)) /\ Sends(ni, SendDatagram(ni, d, hop), d, hop)
<1> DEFINE after == SendDatagram(ni, d, hop)
<1>0. /\ ni.framesOut \in Seq(Frames) /\ ni.pending \in [IPs -> Seq(Datagrams)]
      /\ ni.eth \in Eths /\ ni.ip \in IPs
      /\ \A x \in DOMAIN ni.cache : ni.cache[x].eth \in Eths
  BY DEF InterfaceSound
<1>1. CASE hop \in DOMAIN ni.cache
  <2> DEFINE f == IPv4Frame(ni.eth, ni.cache[hop].eth, d)
  <2>1. f \in Frames /\ ~ CarriesARP(f) /\ f.dgram = d
    BY <1>0, <1>1, FrameIs
  <2>2. after = Queue(ni, <<f>>)
    BY <1>1 DEF SendDatagram
  <2> HIDE DEF f, after
  <2>3. <<f>> \in Seq(Frames) /\ ni.framesOut \o <<f>> = Append(ni.framesOut, f)
    BY <1>0, <2>1, ConcatOne
  <2>4. /\ after = [eth |-> ni.eth, ip |-> ni.ip, framesOut |-> ni.framesOut \o <<f>>,
                    cache |-> ni.cache, cooldown |-> ni.cooldown, pending |-> ni.pending]
        /\ ni.framesOut \o <<f>> \in Seq(Frames)
    BY <2>2, <2>3, QueueIs
  <2> DEFINE q == ni.framesOut \o <<f>>
  <2>5. q = Append(ni.framesOut, f) /\ q \in Seq(Frames)
    BY <2>3, <2>4
  <2>6. after = [eth |-> ni.eth, ip |-> ni.ip, framesOut |-> q,
                 cache |-> ni.cache, cooldown |-> ni.cooldown, pending |-> ni.pending]
    BY <2>4
  <2> HIDE DEF q
  <2>7. after.framesOut = q /\ after.pending = ni.pending
    BY <2>6
  <2>8. InterfaceSound(after)
    BY <1>0, <2>5, <2>6 DEF InterfaceSound
  <2>9. Sends(ni, after, d, hop)
    BY <2>1, <2>5, <2>7 DEF Sends
  <2> QED
    BY <2>8, <2>9 DEF after
<1>2. CASE hop \notin DOMAIN ni.cache /\ hop \in DOMAIN ni.cooldown
  BY <1>2 DEF SendDatagram, Sends
<1>3. CASE hop \notin DOMAIN ni.cache /\ hop \notin DOMAIN ni.cooldown
  <2> DEFINE f == ARPRequest(ni, hop)
             q == ni.framesOut \o <<f>>
             w == [ni.pending EXCEPT ![hop] = Append(@, d)]
             c == With(ni.cooldown, hop, CooldownTime)
             b == Queue(ni, <<f>>)
  <2>1. f \in Frames /\ CarriesARP(f)
    BY <1>0 DEF ARPRequest, ARPFrame, Frames, ARPFrames, ARPMessages, CarriesARP
  <2>2. after = [b EXCEPT !.pending[hop] = Append(@, d), !.cooldown = With(@, hop, CooldownTime)]
    BY <1>3 DEF SendDatagram, Ask
  <2>3. w \in [IPs -> Seq(Datagrams)]
    BY <1>0
  <2> HIDE DEF f
  <2>4. <<f>> \in Seq(Frames) /\ q = Append(ni.framesOut, f)
    BY <1>0, <2>1, ConcatOne
  <2>5. /\ b = [eth |-> ni.eth, ip |-> ni.ip, framesOut |-> q, cache |-> ni.cache,
                cooldown |-> ni.cooldown, pending |-> ni.pending]
        /\ q \in Seq(Frames)
    BY <2>4, QueueIs
  <2> HIDE DEF b, q
  <2>6. b.pending = ni.pending /\ b.cooldown = ni.cooldown
    BY <2>5
  <2>7. after = [b EXCEPT !.pending = w, !.cooldown = c]
    BY <2>2, <2>6
  <2> HIDE DEF after, w, c
  <2>8. after = [eth |-> ni.eth, ip |-> ni.ip, framesOut |-> q, cache |-> ni.cache,
                 cooldown |-> c, pending |-> w]
    BY <2>5, <2>7
  <2>9. after.framesOut = q /\ after.pending = w
    BY <2>8
  <2>10. InterfaceSound(after)
    BY <1>0, <2>3, <2>5, <2>8 DEF InterfaceSound
  <2>11. Sends(ni, after, d, hop)
    BY <2>1, <2>4, <2>9 DEF Sends, w
  <2> QED
    BY <2>10, <2>11 DEF after
<1> QED
  BY <1>1, <1>2, <1>3
-----------------------------------------------------------------------------
(***************************************************************************)
(* What route() does to the places of the datagrams.                       *)
(***************************************************************************)
\* The interface of one port replaced.
WithInterface(r, i, ni) == [r EXCEPT !.ports[i].ni = ni]

PortSwapped(r, after, i, ni) ==
  \A j \in 1 .. Ports :
    /\ after.ports[j].ni = IF j = i THEN ni ELSE r.ports[j].ni
    /\ after.ports[j].datagramsOut = r.ports[j].datagramsOut

HeldSwapped(held, now, i, wait, out) ==
  /\ now.in = held.in
  /\ now.wait = [held.wait EXCEPT ![i] = wait]
  /\ now.out = [held.out EXCEPT ![i] = out]

LEMMA InterfaceChanged ==
  ASSUME NEW r, RouterSound(r), NEW i \in 1 .. Ports, NEW ni, NEW gone \in Sent,
         NEW after, after = WithInterface(r, i, ni),
         NEW held, held = HeldWith(r, gone), NEW now, now = HeldWith(after, gone)
  PROVE  /\ PortSwapped(r, after, i, ni)
         /\ HeldSwapped(held, now, i, ni.pending, gone[i] \o ni.framesOut)
<1> DEFINE ports == [r.ports EXCEPT ![i].ni = ni]
<1>1. PortsSound(r.ports)
  BY DEF RouterSound
<1>2. after.ports = ports
  BY DEF RouterSound, WithInterface
<1>3. ASSUME NEW j \in 1 .. Ports
      PROVE  /\ after.ports[j].ni = IF j = i THEN ni ELSE r.ports[j].ni
             /\ after.ports[j].datagramsOut = r.ports[j].datagramsOut
  <2> DEFINE q == r.ports[j]
  <2>1. q = [ni |-> q.ni, datagramsOut |-> q.datagramsOut]
    BY <1>1 DEF PortsSound
  <2>2. ports[j] = IF j = i THEN [q EXCEPT !.ni = ni] ELSE q
    BY <1>1 DEF PortsSound
  <2> HIDE DEF q, ports
  <2>3. [q EXCEPT !.ni = ni] = [ni |-> ni, datagramsOut |-> q.datagramsOut]
    BY <2>1
  <2>4. /\ ports[j].ni = IF j = i THEN ni ELSE q.ni
        /\ ports[j].datagramsOut = q.datagramsOut
    BY <2>2, <2>3
  <2> QED
    BY <1>2, <2>4 DEF q
<1>4. now.in = held.in
  BY <1>3 DEF HeldWith
<1>5. now.wait = [held.wait EXCEPT ![i] = ni.pending]
  <2>1. /\ now.wait = [j \in 1 .. Ports |-> after.ports[j].ni.pending]
        /\ held.wait = [j \in 1 .. Ports |-> r.ports[j].ni.pending]
    BY DEF HeldWith
  <2> DEFINE v == now.wait
             w == held.wait
             e == ni.pending
  <2>2. ASSUME NEW j \in 1 .. Ports
        PROVE  v[j] = IF j = i THEN e ELSE w[j]
    <3>1. v[j] = after.ports[j].ni.pending /\ w[j] = r.ports[j].ni.pending
      BY <2>1
    <3>2. CASE j = i
      <4>1. after.ports[j].ni = ni
        BY <1>3, <3>2
      <4> QED
        BY <3>1, <3>2, <4>1
    <3>3. CASE j # i
      <4>1. after.ports[j].ni = r.ports[j].ni
        BY <1>3, <3>3
      <4> QED
        BY <3>1, <3>3, <4>1
    <3> QED
      BY <3>2, <3>3
  <2>3. v = [j \in 1 .. Ports |-> v[j]] /\ w = [j \in 1 .. Ports |-> w[j]]
    BY <2>1
  <2> HIDE DEF v, w, e
  <2>4. v = [w EXCEPT ![i] = e]
    BY ONLY <2>2, <2>3, i \in 1 .. Ports
  <2> QED
    BY <2>4 DEF v, w, e
<1>6. now.out = [held.out EXCEPT ![i] = gone[i] \o ni.framesOut]
  <2>1. /\ now.out = [j \in 1 .. Ports |-> gone[j] \o after.ports[j].ni.framesOut]
        /\ held.out = [j \in 1 .. Ports |-> gone[j] \o r.ports[j].ni.framesOut]
    BY DEF HeldWith
  <2> DEFINE v == now.out
             w == held.out
             e == gone[i] \o ni.framesOut
  <2>2. ASSUME NEW j \in 1 .. Ports
        PROVE  v[j] = IF j = i THEN e ELSE w[j]
    <3>1. v[j] = gone[j] \o after.ports[j].ni.framesOut /\ w[j] = gone[j] \o r.ports[j].ni.framesOut
      BY <2>1
    <3>2. CASE j = i
      <4>1. after.ports[j].ni = ni
        BY <1>3, <3>2
      <4> QED
        BY <3>1, <3>2, <4>1
    <3>3. CASE j # i
      <4>1. after.ports[j].ni = r.ports[j].ni
        BY <1>3, <3>3
      <4> QED
        BY <3>1, <3>3, <4>1
    <3> QED
      BY <3>2, <3>3
  <2>3. v = [j \in 1 .. Ports |-> v[j]] /\ w = [j \in 1 .. Ports |-> w[j]]
    BY <2>1
  <2> HIDE DEF v, w, e
  <2>4. v = [w EXCEPT ![i] = e]
    BY ONLY <2>2, <2>3, i \in 1 .. Ports
  <2> QED
    BY <2>4 DEF v, w, e
<1> QED
  BY <1>3, <1>4, <1>5, <1>6 DEF PortSwapped, HeldSwapped

LEMMA ConcatAppend ==
  ASSUME NEW s \in Seq(Frames), NEW t \in Seq(Frames), NEW f \in Frames
  PROVE  s \o Append(t, f) = Append(s \o t, f)
  OBVIOUS

\* A frame with a message of ARP sent is no change of where datagrams are.
LEMMA OutQuiet ==
  ASSUME NEW held, HeldSound(held), NEW i \in 1 .. Ports, NEW f \in Frames, CarriesARP(f),
         NEW after, OutAppended(held, after, i, f)
  PROVE  \A p \in Places(after) : p \in Places(held) /\ At(after, p) = At(held, p)
<1> DEFINE new == Place(i, Out, Len(held.out[i]) + 1)
<1>1. /\ \A p \in Places(after) : p # new => p \in Places(held) /\ At(after, p) = At(held, p)
      /\ new \in Places(after) => ~ CarriesARP(f)
  BY OutGrows
<1> QED
  BY <1>1

\* Fewer places, the same datagrams.
LEMMA Fewer ==
  ASSUME NEW held, NEW after, NEW D, NEW E, NEW table, NEW top,
         Forwards(held, D, table, top),
         \A p \in Places(after) : p \in Places(held) /\ At(after, p) = At(held, p),
         \A p \in Places(after) \ E : p \notin D
  PROVE  Forwards(after, E, table, top)
  BY DEF Forwards

\* A datagram that is in no place but those in D is given to the port of a route.
LEMMA SendForwards ==
  ASSUME NEW r, RouterSound(r), InterfacesSound(r), NEW gone \in Sent,
         NEW i \in 1 .. Ports, NEW hop \in IPs, NEW d \in Datagrams, NEW D, NEW top,
         Forwards(HeldWith(r, gone), D, r.table, top),
         Routed(r.table, i, d), d.number <= top,
         \A p \in Places(HeldWith(r, gone)) \ D : At(HeldWith(r, gone), p).number # d.number,
         NEW after, after = [r EXCEPT !.ports[i].ni = SendDatagram(@, d, hop)]
  PROVE  /\ InterfacesSound(after)
         /\ \A j \in 1 .. Ports : after.ports[j].datagramsOut = r.ports[j].datagramsOut
         /\ Forwards(HeldWith(after, gone), D, r.table, top)
<1> DEFINE ni == r.ports[i].ni
           next == SendDatagram(ni, d, hop)
           held == HeldWith(r, gone)
           now == HeldWith(after, gone)
<1>0. /\ after = WithInterface(r, i, next)
      /\ held = HeldWith(r, gone) /\ now = HeldWith(after, gone)
  BY DEF WithInterface
<1>1. InterfaceSound(ni)
  BY DEF InterfacesSound
<1>2. InterfaceSound(next) /\ Sends(ni, next, d, hop)
  BY <1>1, SendIs
<1>3. HeldSound(held)
  BY HeldWithSound
<1>4. /\ held.wait[i] = ni.pending
      /\ held.out[i] = gone[i] \o ni.framesOut
      /\ gone[i] \in Seq(Frames) /\ ni.framesOut \in Seq(Frames)
      /\ ni.pending \in [IPs -> Seq(Datagrams)]
  BY <1>1 DEF HeldWith, Sent, InterfaceSound
<1> HIDE DEF next, held, now, ni
<1>5. /\ \A j \in 1 .. Ports :
           /\ after.ports[j].ni = IF j = i THEN next ELSE r.ports[j].ni
           /\ after.ports[j].datagramsOut = r.ports[j].datagramsOut
      /\ now.in = held.in
      /\ now.wait = [held.wait EXCEPT ![i] = next.pending]
      /\ now.out = [held.out EXCEPT ![i] = gone[i] \o next.framesOut]
  <2>1. /\ RouterSound(r) /\ gone \in Sent /\ i \in 1 .. Ports
        /\ after = WithInterface(r, i, next)
        /\ held = HeldWith(r, gone) /\ now = HeldWith(after, gone)
    BY <1>0
  <2>2. /\ PortSwapped(r, after, i, next)
        /\ HeldSwapped(held, now, i, next.pending, gone[i] \o next.framesOut)
    BY ONLY <2>1, InterfaceChanged
  <2> QED
    BY <2>2 DEF PortSwapped, HeldSwapped
<1>6. Forwards(held, D, r.table, top)
  BY DEF held
<1>7. \A p \in Places(held) \ D : At(held, p).number # d.number /\ At(held, p).number <= top
  BY <1>6 DEF Forwards, held
<1>8. /\ held.wait \in [1 .. Ports -> [IPs -> Seq(Datagrams)]]
      /\ held.out \in [1 .. Ports -> Seq(Frames)]
  BY <1>3 DEF HeldSound, Sent
<1>9. InterfacesSound(after)
  BY <1>2, <1>5 DEF InterfacesSound
<1>10. Forwards(now, D, r.table, top)
  <2>1. CASE /\ next.pending = ni.pending
             /\ \E f \in Frames : /\ ~ CarriesARP(f) /\ f.dgram = d
                                  /\ next.framesOut = Append(ni.framesOut, f)
    <3>1. PICK f \in Frames : /\ ~ CarriesARP(f) /\ f.dgram = d
                              /\ next.framesOut = Append(ni.framesOut, f)
      BY <2>1
    <3>2. gone[i] \o next.framesOut = Append(held.out[i], f)
      <4>1. gone[i] \o Append(ni.framesOut, f) = Append(gone[i] \o ni.framesOut, f)
        BY <1>4, ConcatAppend
      <4> QED
        BY <1>4, <3>1, <4>1
    <3>3. now.wait = held.wait
      BY <1>4, <1>5, <1>8, <2>1
    <3>4. now.out = [held.out EXCEPT ![i] = Append(@, f)]
      BY <1>5, <3>2
    <3> DEFINE new == Place(i, Out, Len(held.out[i]) + 1)
    <3>5. /\ \A p \in Places(now) :
               p # new => p \in Places(held) /\ At(now, p) = At(held, p)
          /\ At(now, new) = d
      <4>1. now.in = held.in
        BY <1>5
      <4>2. f.dgram = d
        BY <3>1
      <4>3. /\ \A p \in Places(now) :
                 p # new => p \in Places(held) /\ At(now, p) = At(held, p)
            /\ At(now, new) = f.dgram
        <5>1. OutAppended(held, now, i, f)
          BY <3>3, <3>4, <4>1 DEF OutAppended
        <5> QED
          BY <1>3, <5>1, OutGrows
      <4> QED
        BY <4>2, <4>3
    <3>6. new.port = i /\ new.line # In
      BY PlaceFields, LinesDiffer
    <3> HIDE DEF new
    <3> QED
      BY <1>6, <1>7, <3>5, <3>6, OneMore
  <2>2. CASE next.pending = ni.pending /\ next.framesOut = ni.framesOut
    <3>1. now.wait = held.wait /\ now.out = held.out
      BY <1>4, <1>5, <1>8, <2>2
    <3>2. \A p \in Places(now) : SameLine(held, now, p.port, p.line)
      BY <1>5, <3>1 DEF SameLine
    <3>3. \A p \in Places(now) : p \in Places(held) /\ At(now, p) = At(held, p)
      BY <3>2, SamePlace
    <3> QED
      BY <1>6, <3>3, Fewer
  <2>3. CASE /\ next.pending = [ni.pending EXCEPT ![hop] = Append(@, d)]
             /\ \E f \in Frames : CarriesARP(f) /\ next.framesOut = Append(ni.framesOut, f)
    <3>1. PICK f \in Frames : CarriesARP(f) /\ next.framesOut = Append(ni.framesOut, f)
      BY <2>3
    <3>2. gone[i] \o next.framesOut = Append(held.out[i], f)
      <4>1. gone[i] \o Append(ni.framesOut, f) = Append(gone[i] \o ni.framesOut, f)
        BY <1>4, ConcatAppend
      <4> QED
        BY <1>4, <3>1, <4>1
    <3>3. now.out = [held.out EXCEPT ![i] = Append(@, f)]
      BY <1>5, <3>2
    <3> DEFINE t == Append(held.wait[i][hop], d)
    <3>4. t \in Seq(Datagrams)
      <4>1. held.wait[i][hop] \in Seq(Datagrams)
        BY <1>8
      <4> QED
        BY <4>1, AppendIs
    <3>5. next.pending = [held.wait[i] EXCEPT ![hop] = t]
      BY <1>4, <2>3
    <3>6. now.wait = [held.wait EXCEPT ![i][hop] = t]
      <4> HIDE DEF t
      <4> QED
        BY <1>5, <1>8, <3>5
    <3> DEFINE middle == [in |-> held.in, wait |-> now.wait, out |-> held.out]
    <3>7. middle.in = held.in /\ middle.wait = now.wait /\ middle.out = held.out
      OBVIOUS
    <3>8. HeldSound(middle)
      <4>1. now.wait \in [1 .. Ports -> [IPs -> Seq(Datagrams)]]
        <5> HIDE DEF t
        <5>1. held.wait[i] \in [IPs -> Seq(Datagrams)]
          BY <1>8
        <5>2. next.pending \in [IPs -> Seq(Datagrams)]
          BY <3>4, <3>5, <5>1
        <5> QED
          BY <1>5, <1>8, <5>2
      <4> HIDE DEF middle
      <4> QED
        BY <1>3, <3>7, <4>1 DEF HeldSound
    <3> HIDE DEF middle
    <3>9. middle.wait = [held.wait EXCEPT ![i][hop] = Append(@, d)]
      BY <3>6, <3>7
    <3> DEFINE new == Place(i, hop, Len(held.wait[i][hop]) + 1)
    <3>10. /\ \A p \in Places(middle) :
                p # new => p \in Places(held) /\ At(middle, p) = At(held, p)
           /\ At(middle, new) = d
      <4>1. WaitAppended(held, middle, i, hop, d)
        BY <3>7, <3>9 DEF WaitAppended
      <4> QED
        BY <1>3, <4>1, WaitGrows
    <3>11. new.port = i /\ new.line # In
      BY PlaceFields, LinesDiffer
    <3> HIDE DEF new
    <3>12. Forwards(middle, D, r.table, top)
      BY <1>6, <1>7, <3>10, <3>11, OneMore
    <3>13. \A p \in Places(now) : p \in Places(middle) /\ At(now, p) = At(middle, p)
      <4>1. now.in = middle.in /\ now.wait = middle.wait
        BY <1>5, <3>7
      <4>2. now.out = [middle.out EXCEPT ![i] = Append(@, f)]
        BY <3>3, <3>7
      <4>3. OutAppended(middle, now, i, f)
        BY <4>1, <4>2 DEF OutAppended
      <4> QED
        BY <3>1, <3>8, <4>3, OutQuiet
    <3> QED
      BY <3>12, <3>13, Fewer
  <2> QED
    BY <1>2, <2>1, <2>2, <2>3 DEF Sends
<1> QED
  BY <1>5, <1>9, <1>10 DEF now

LEMMA RouteOneForwards ==
  ASSUME NEW r, RouterSound(r), InterfacesSound(r), NEW gone \in Sent,
         NEW dgram \in Datagrams, NEW D, NEW top,
         Forwards(HeldWith(r, gone), D, r.table, top),
         dgram.ttl = dgram.came, dgram.number <= top,
         \A p \in Places(HeldWith(r, gone)) \ D :
           At(HeldWith(r, gone), p).number # dgram.number
  PROVE  LET after == RouteOneDatagram(r, dgram)
         IN  /\ InterfacesSound(after)
             /\ \A j \in 1 .. Ports : after.ports[j].datagramsOut = r.ports[j].datagramsOut
             /\ Forwards(HeldWith(after, gone), D, r.table, top)
<1> DEFINE route == Chosen(r.table, dgram.dst)
           hop   == IF route.hop = Direct THEN dgram.dst ELSE route.hop
           d     == [dgram EXCEPT !.ttl = @ - 1]
           i     == route.interface
<1>1. CASE Expires(dgram) \/ route = NoRoute
  BY <1>1 DEF RouteOneDatagram
<1>2. CASE ~ (Expires(dgram) \/ route = NoRoute)
  <2>1. RouteOneDatagram(r, dgram) = [r EXCEPT !.ports[i].ni = SendDatagram(@, d, hop)]
    BY <1>2 DEF RouteOneDatagram
  <2>2. r.table \in Seq(Routes(1 .. Ports))
    BY DEF RouterSound
  <2>3. /\ dgram.number \in 1 .. MaxDatagrams /\ dgram.dst \in IPs
        /\ dgram.ttl \in 0 .. MaxTtl /\ dgram.came \in 0 .. MaxTtl
        /\ dgram = [number |-> dgram.number, dst |-> dgram.dst, ttl |-> dgram.ttl,
                    came |-> dgram.came]
    BY RouterSpecAssumption
  <2>4. dgram.ttl > 1
    BY <1>2, <2>3, RouterSpecAssumption DEF Expires
  <2>5. d = [number |-> dgram.number, dst |-> dgram.dst, ttl |-> dgram.ttl - 1,
             came |-> dgram.came]
    BY <2>3
  <2>6. dgram.ttl - 1 \in 0 .. MaxTtl /\ dgram.ttl - 1 > 0
    BY <2>3, <2>4, RouterSpecAssumption
  <2> HIDE DEF d
  <2>7. d \in Datagrams
    BY <2>3, <2>5, <2>6, RouterSpecAssumption
  <2>8. PICK j \in MatchingUpTo(r.table, dgram.dst, Len(r.table)) : route = r.table[j]
    <3> DEFINE matching == MatchingUpTo(r.table, dgram.dst, Len(r.table))
    <3>1. matching # {} /\ \E j \in matching : route = r.table[j]
      BY <1>2, <2>2, <2>3, ChosenIsBest
    <3> QED
      BY <3>1
  <2>9. j \in DOMAIN r.table /\ Matches(r.table[j], dgram.dst)
    BY <2>2, <2>8 DEF MatchingUpTo
  <2>10. route \in Routes(1 .. Ports)
    BY <2>2, <2>8, <2>9
  <2> HIDE DEF route
  <2>11. i \in 1 .. Ports /\ (route.hop \in IPs \/ route.hop = Direct)
    BY <2>10 DEF Routes
  <2>12. hop \in IPs
    BY <2>3, <2>11
  <2>13. r.table[j].interface = i
    BY <2>8
  <2> HIDE DEF hop, i
  <2>14. Routed(r.table, i, d)
    BY <2>5, <2>6, <2>9, <2>13 DEF Routed
  <2>15. d.number = dgram.number
    BY <2>5
  <2> QED
    BY <2>1, <2>7, <2>11, <2>12, <2>14, <2>15, SendForwards
<1> QED
  BY <1>1, <1>2

\* The places of the first k datagrams that port i has handed up.
Done(i, k) == {Place(i, In, m) : m \in 1 .. k}

\* What a loop of route() keeps, D being the places already dealt with.
Underway(r, gone, D, table, top) ==
  /\ RouterSound(r) /\ InterfacesSound(r) /\ r.table = table
  /\ Forwards(HeldWith(r, gone), D, table, top)

LEMMA TurnForwards ==
  ASSUME NEW r, NEW gone \in Sent, NEW i \in 1 .. Ports, NEW table, NEW top \in Int,
         NEW k \in Nat, k + 1 \in DOMAIN r.ports[i].datagramsOut,
         Underway(r, gone, Done(i, k), table, top)
  PROVE  LET after == RouteOneDatagram(r, r.ports[i].datagramsOut[k + 1])
         IN  /\ Underway(after, gone, Done(i, k + 1), table, top)
             /\ \A j \in 1 .. Ports : after.ports[j].datagramsOut = r.ports[j].datagramsOut
<1> DEFINE dgram == r.ports[i].datagramsOut[k + 1]
           held == HeldWith(r, gone)
           here == Place(i, In, k + 1)
           after == RouteOneDatagram(r, dgram)
<1>1. /\ RouterSound(r) /\ InterfacesSound(r) /\ r.table = table
      /\ Forwards(held, Done(i, k), table, top)
  BY DEF Underway
<1>2. r.ports[i].datagramsOut \in Seq(Datagrams)
  BY <1>1 DEF RouterSound, PortsSound
<1>3. dgram \in Datagrams
  BY <1>2
<1>4. held.in[i] = r.ports[i].datagramsOut
  BY DEF HeldWith
<1>5. here.port = i /\ here.line = In /\ here.pos = k + 1
  BY PlaceFields
<1> HIDE DEF held, here, dgram, after
<1>6. k + 1 \in Filled(held, i, In) /\ At(held, here) = dgram
  BY <1>4, <1>5, InsideIn DEF dgram
<1>7. here \in Places(held)
  BY <1>6, PlaceIs DEF here, Lines
<1>8. here \notin Done(i, k)
  <2>1. \A m \in 1 .. k : Place(i, In, m).pos # k + 1
    BY PlaceFields
  <2> QED
    BY <1>5, <2>1 DEF Done
<1>9. here \in Done(i, k + 1) /\ Done(i, k) \subseteq Done(i, k + 1)
  BY DEF Done, here
<1>10. dgram.ttl = dgram.came /\ dgram.number <= top
  BY <1>1, <1>5, <1>6, <1>7, <1>8 DEF Forwards
<1>11. \A p \in Places(held) \ Done(i, k + 1) : At(held, p).number # dgram.number
  BY <1>1, <1>6, <1>7, <1>8, <1>9 DEF Forwards
<1>12. Forwards(held, Done(i, k + 1), table, top)
  <2>1. \A p \in Places(held) \ Done(i, k + 1) : p \notin Done(i, k)
    BY <1>9
  <2> QED
    BY <1>1, <2>1, Fewer
<1>13. /\ InterfacesSound(after)
       /\ \A j \in 1 .. Ports : after.ports[j].datagramsOut = r.ports[j].datagramsOut
       /\ Forwards(HeldWith(after, gone), Done(i, k + 1), table, top)
  BY <1>1, <1>3, <1>10, <1>11, <1>12, RouteOneForwards DEF held, after
<1>14. RouterSound(after) /\ after.table = table
  BY <1>1, RouteOneIs DEF after
<1> QED
  BY <1>13, <1>14 DEF Underway, after, dgram

\* The loop over one queue, which is then empty.
LEMMA QueueForwards ==
  ASSUME NEW r, NEW gone \in Sent, NEW i \in 1 .. Ports, NEW table, NEW top \in Int,
         Underway(r, gone, {}, table, top)
  PROVE  Underway(RouteQueue(r, i), gone, {}, table, top)
<1> DEFINE queue == r.ports[i].datagramsOut
           n == Len(queue)
           after == RouteQueue(r, i)
<1>1. RouterSound(r)
  BY DEF Underway
<1>2. n \in Nat
  BY <1>1, QueueTurns
<1>3. PICK f : /\ Queues(f, r, queue)
               /\ after = [f[n] EXCEPT !.ports[i] = HandedUpTaken(@)]
  BY <1>1, QueueTurns
<1>4. queue \in Seq(Datagrams)
  BY <1>1 DEF RouterSound, PortsSound
<1> DEFINE Good(a, k) == /\ Underway(a, gone, Done(i, k), table, top)
                         /\ \A j \in 1 .. Ports :
                              a.ports[j].datagramsOut = r.ports[j].datagramsOut
           P == {k \in 0 .. n : Good(f[k], k)}
<1>5. 0 \in P
  <2>1. f[0] = r
    <3>1. f = [k \in 0 .. n |-> IF k = 0 THEN r ELSE RouteOneDatagram(f[k - 1], queue[k])]
      BY <1>3 DEF Queues
    <3> HIDE DEF n, queue
    <3> QED
      BY <1>2, <3>1
  <2>2. Done(i, 0) = {}
    BY DEF Done
  <2>3. Good(r, 0)
    BY <2>2
  <2>4. 0 \in 0 .. n
    BY <1>2
  <2> HIDE DEF Good, n
  <2> QED
    BY <2>1, <2>3, <2>4
<1>6. \A k \in 0 .. n - 1 : k \in P => k + 1 \in P
  <2> SUFFICES ASSUME NEW k \in 0 .. n - 1, k \in P PROVE k + 1 \in P
    OBVIOUS
  <2>1. k \in Nat /\ k + 1 \in 0 .. n /\ k + 1 # 0 /\ (k + 1) - 1 = k /\ k + 1 \in 1 .. n
    BY <1>2
  <2>2. f[k + 1] = RouteOneDatagram(f[k], queue[k + 1])
    BY <1>3, <2>1 DEF Queues
  <2>3. Good(f[k], k)
    OBVIOUS
  <2>4. f[k].ports[i].datagramsOut = queue
    BY <2>3
  <2>5. k + 1 \in DOMAIN queue
    BY <1>4, <2>1
  <2> HIDE DEF queue
  <2> DEFINE a == f[k]
  <2>6. /\ Underway(a, gone, Done(i, k), table, top)
        /\ a.ports[i].datagramsOut = queue
        /\ \A j \in 1 .. Ports : a.ports[j].datagramsOut = r.ports[j].datagramsOut
    BY <2>3, <2>4
  <2> HIDE DEF a, n
  <2> DEFINE b == RouteOneDatagram(a, queue[k + 1])
  <2>7. /\ Underway(b, gone, Done(i, k + 1), table, top)
        /\ \A j \in 1 .. Ports : b.ports[j].datagramsOut = a.ports[j].datagramsOut
    BY <2>1, <2>5, <2>6, TurnForwards
  <2>8. Good(b, k + 1)
    BY <2>6, <2>7
  <2>9. f[k + 1] = b
    BY <2>2 DEF a
  <2> QED
    BY <2>1, <2>8, <2>9
<1>7. Good(f[n], n)
  <2>1. n \in 0 .. n
    BY <1>2
  <2> HIDE DEF P, n
  <2>2. n \in P
    BY <1>2, <1>5, <1>6, <2>1, UpTo
  <2> QED
    BY <2>2 DEF P
<1> DEFINE last == f[n]
           held == HeldWith(last, gone)
           now == HeldWith(after, gone)
<1>8. RouterSound(after) /\ after.table = table
  BY <1>1, RouteQueueIs DEF Underway
<1>9. /\ Underway(last, gone, Done(i, n), table, top)
      /\ \A j \in 1 .. Ports : last.ports[j].datagramsOut = r.ports[j].datagramsOut
      /\ after = [last EXCEPT !.ports[i] = HandedUpTaken(@)]
  BY <1>3, <1>7
<1>10. last.ports[i].datagramsOut = queue
  BY <1>9
<1> HIDE DEF last, after, queue, n
<1>11. RouterSound(last) /\ InterfacesSound(last) /\ Forwards(held, Done(i, n), table, top)
  BY <1>9 DEF Underway
<1>12. \A j \in 1 .. Ports :
         /\ after.ports[j].ni = last.ports[j].ni
         /\ after.ports[j].datagramsOut = IF j = i THEN <<>> ELSE last.ports[j].datagramsOut
  <2> DEFINE ports == [last.ports EXCEPT ![i].datagramsOut = <<>>]
  <2>1. after.ports = ports
    BY <1>9, <1>11 DEF RouterSound, HandedUpTaken
  <2> TAKE j \in 1 .. Ports
  <2> DEFINE q == last.ports[j]
  <2>2. q = [ni |-> q.ni, datagramsOut |-> q.datagramsOut]
    BY <1>11 DEF RouterSound, PortsSound
  <2>3. ports[j] = IF j = i THEN [q EXCEPT !.datagramsOut = <<>>] ELSE q
    BY <1>11 DEF RouterSound, PortsSound
  <2> HIDE DEF q, ports
  <2>4. [q EXCEPT !.datagramsOut = <<>>] = [ni |-> q.ni, datagramsOut |-> <<>>]
    BY <2>2
  <2>5. /\ ports[j].ni = q.ni
        /\ ports[j].datagramsOut = IF j = i THEN <<>> ELSE q.datagramsOut
    BY <2>3, <2>4
  <2> QED
    BY <2>1, <2>5 DEF q
<1>13. InterfacesSound(after)
  BY <1>11, <1>12 DEF InterfacesSound
<1>14. /\ now.wait = held.wait /\ now.out = held.out
       /\ \A j \in 1 .. Ports : now.in[j] = IF j = i THEN <<>> ELSE held.in[j]
       /\ held.in[i] = queue
  BY <1>12, <1>10 DEF HeldWith
<1> HIDE DEF held, now
<1>15. ASSUME NEW p \in Places(now)
       PROVE  p \in Places(held) /\ At(now, p) = At(held, p) /\ p \notin Done(i, n)
  <2>1. /\ p.port \in 1 .. Ports /\ p.line \in Lines
        /\ p.pos \in Filled(now, p.port, p.line)
    BY PlaceIs
  <2>2. ~ (p.line = In /\ p.port = i)
    <3> SUFFICES ASSUME p.line = In, p.port = i PROVE FALSE
      OBVIOUS
    <3>1. p.pos \in DOMAIN now.in[i]
      BY <2>1, InsideIn
    <3>2. now.in[i] = <<>>
      BY <1>14
    <3> QED
      BY <3>1, <3>2
  <2>3. SameLine(held, now, p.port, p.line)
    BY <1>14, <2>1, <2>2 DEF SameLine
  <2>4. p \notin Done(i, n)
    <3>1. \A m \in 1 .. n : Place(i, In, m).port = i /\ Place(i, In, m).line = In
      BY PlaceFields
    <3> QED
      BY <2>2, <3>1 DEF Done
  <2> QED
    BY <2>3, <2>4, SamePlace
<1>16. Forwards(now, {}, table, top)
  BY <1>11, <1>15, Fewer
<1> QED
  BY <1>8, <1>13, <1>16 DEF Underway, now, after

\* The loop over the ports.
LEMMA PassForwards ==
  ASSUME NEW r, NEW gone \in Sent, NEW table, NEW top \in Int,
         Underway(r, gone, {}, table, top)
  PROVE  Underway(RouteAll(r), gone, {}, table, top)
<1> DEFINE n == Ports
<1>1. RouterSound(r)
  BY DEF Underway
<1>2. n \in Nat
  BY <1>1, PassTurns
<1>3. PICK f : /\ f = [i \in 0 .. Ports |-> IF i = 0 THEN r ELSE RouteQueue(f[i - 1], i)]
               /\ RouteAll(r) = f[Ports]
  BY <1>1, PassTurns
<1> DEFINE P == {k \in 0 .. n : Underway(f[k], gone, {}, table, top)}
<1>4. 0 \in P
  BY <1>2, <1>3
<1>5. \A k \in 0 .. n - 1 : k \in P => k + 1 \in P
  <2> SUFFICES ASSUME NEW k \in 0 .. n - 1, k \in P PROVE k + 1 \in P
    OBVIOUS
  <2>1. k + 1 \in 0 .. n /\ k + 1 # 0 /\ (k + 1) - 1 = k /\ k + 1 \in 1 .. Ports
    BY <1>2
  <2>2. f[k + 1] = RouteQueue(f[k], k + 1)
    BY <1>3, <2>1
  <2>3. Underway(f[k + 1], gone, {}, table, top)
    BY <2>1, <2>2, QueueForwards
  <2> QED
    BY <2>1, <2>3
<1>6. Underway(f[n], gone, {}, table, top)
  <2>1. n \in 0 .. n
    BY <1>2
  <2> HIDE DEF P, n
  <2>2. n \in P
    BY <1>2, <1>4, <1>5, <2>1, UpTo
  <2> QED
    BY <2>2 DEF P
<1> QED
  BY <1>3, <1>6
-----------------------------------------------------------------------------
(***************************************************************************)
(* The steps, and the theorem.                                             *)
(***************************************************************************)
FInv ==
  /\ IInv
  /\ InterfacesSound(router) /\ sent \in Sent
  /\ Forwards(Held, {}, router.table, arrived)

\* The router between two calls, its frames taken off.
LEMMA TakenForwards ==
  ASSUME FInv
  PROVE  /\ HeldWith(Taken, sent) = Held
         /\ \A i \in 1 .. Ports :
              /\ Taken.ports[i].datagramsOut = router.ports[i].datagramsOut
              /\ Taken.ports[i].ni.pending = router.ports[i].ni.pending
              /\ Taken.ports[i].ni.framesOut = <<>>
         /\ Underway(Taken, sent, {}, router.table, arrived)
<1>1. RouterSound(Taken) /\ Taken.table = router.table
  BY TakenIs DEF FInv, IInv
<1>2. PortsSound(router.ports) /\ InterfacesSound(router) /\ sent \in Sent
  BY DEF FInv, IInv, RouterSound
<1> DEFINE ports == [i \in DOMAIN router.ports |->
                       [router.ports[i] EXCEPT !.ni.framesOut = <<>>]]
<1>3. Taken.ports = ports
  BY DEF Taken, FInv, IInv, RouterSound
<1>4. ASSUME NEW i \in 1 .. Ports
      PROVE  /\ Taken.ports[i].datagramsOut = router.ports[i].datagramsOut
             /\ Taken.ports[i].ni.pending = router.ports[i].ni.pending
             /\ Taken.ports[i].ni.framesOut = <<>>
             /\ InterfaceSound(Taken.ports[i].ni)
  <2> DEFINE q == router.ports[i]
             ni == q.ni
             none == << >>
             next == [ni EXCEPT !.framesOut = none]
  <2>1. q = [ni |-> q.ni, datagramsOut |-> q.datagramsOut]
    BY <1>2 DEF PortsSound
  <2>2. InterfaceSound(ni)
    BY <1>2 DEF InterfacesSound
  <2>3. ports[i] = [q EXCEPT !.ni = next]
    BY <1>2 DEF PortsSound
  <2>4. none \in Seq(Frames)
    OBVIOUS
  <2> HIDE DEF ports, q, ni, none
  <2>5. next = [eth |-> ni.eth, ip |-> ni.ip, framesOut |-> none, cache |-> ni.cache,
                cooldown |-> ni.cooldown, pending |-> ni.pending]
    BY <2>2 DEF InterfaceSound
  <2> HIDE DEF next
  <2>6. ports[i] = [ni |-> next, datagramsOut |-> q.datagramsOut]
    BY <2>1, <2>3
  <2>7. next.pending = ni.pending /\ next.framesOut = none
    BY <2>5
  <2>8. InterfaceSound(next)
    BY <2>2, <2>4, <2>5 DEF InterfaceSound
  <2>9. ports[i].ni = next /\ ports[i].datagramsOut = q.datagramsOut
    BY <2>6
  <2> QED
    BY <1>3, <2>7, <2>8, <2>9 DEF q, ni, none
<1>5. HeldWith(Taken, sent) = Held
  <2> DEFINE h == HeldWith(Taken, sent)
             e == [i \in 1 .. Ports |-> sent[i] \o Taken.ports[i].ni.framesOut]
  <2>1. h = [in   |-> [i \in 1 .. Ports |-> Taken.ports[i].datagramsOut],
             wait |-> [i \in 1 .. Ports |-> Taken.ports[i].ni.pending],
             out  |-> e]
    BY DEF HeldWith
  <2>2. [i \in 1 .. Ports |-> Taken.ports[i].datagramsOut]
          = [i \in 1 .. Ports |-> router.ports[i].datagramsOut]
    BY <1>4
  <2>3. [i \in 1 .. Ports |-> Taken.ports[i].ni.pending]
          = [i \in 1 .. Ports |-> router.ports[i].ni.pending]
    BY <1>4
  <2>4. e = sent
    <3>1. ASSUME NEW i \in 1 .. Ports PROVE sent[i] \o Taken.ports[i].ni.framesOut = sent[i]
      <4>1. sent[i] \in Seq(Frames)
        BY <1>2 DEF Sent
      <4>2. sent[i] \o <<>> = sent[i]
        BY <4>1
      <4> QED
        BY <1>4, <4>2
    <3> QED
      BY <1>2, <3>1 DEF Sent
  <2> HIDE DEF h, e
  <2> QED
    BY <2>1, <2>2, <2>3, <2>4 DEF Held, h
<1>6. InterfacesSound(Taken)
  BY <1>4 DEF InterfacesSound
<1> QED
  BY <1>1, <1>4, <1>5, <1>6 DEF Underway, FInv

\* A call whose frames are recorded.
LEMMA RecordIs ==
  ASSUME FInv, Record, RouterSound(router'), InterfacesSound(router')
  PROVE  sent' \in Sent /\ Held' = HeldWith(router', sent)
<1>1. sent' = [i \in 1 .. Ports |-> sent[i] \o router'.ports[i].ni.framesOut]
  BY DEF Record
<1>2. ASSUME NEW i \in 1 .. Ports
      PROVE  sent[i] \o router'.ports[i].ni.framesOut \in Seq(Frames)
  <2>1. sent[i] \in Seq(Frames)
    BY DEF FInv, Sent
  <2>2. router'.ports[i].ni.framesOut \in Seq(Frames)
    BY DEF InterfacesSound, InterfaceSound
  <2> QED
    BY <2>1, <2>2, ConcatProperties
<1>3. sent' \in Sent
  BY <1>1, <1>2 DEF Sent
<1>4. Held' = HeldWith(router', sent)
  BY <1>1 DEF Held, HeldWith
<1> QED
  BY <1>3, <1>4

LEMMA InitEstablishesFInv ==
  ASSUME Init
  PROVE  FInv
<1>1. IInv
  BY InitEstablishesIInv
<1> DEFINE ni == NewInterface(PortEth, PortIp)
           start == [i \in 1 .. Ports |-> ni]
           ports == [i \in 1 .. Ports |-> [ni |-> start[i], datagramsOut |-> <<>>]]
<1>2. Len(start) = Ports
  BY RouterSpecAssumption
<1>3. router = [ports |-> ports, table |-> <<>>] /\ sent = [i \in 1 .. Ports |-> <<>>]
  BY <1>2 DEF Init, NewRouter
<1>4. InterfaceSound(ni) /\ ni.pending = [hop \in IPs |-> <<>>]
  BY RouterSpecAssumption DEF NewInterface, InterfaceSound
<1> HIDE DEF ni
<1>5. \A i \in 1 .. Ports : router.ports[i].ni = ni /\ router.ports[i].datagramsOut = <<>>
  BY <1>3
<1>6. InterfacesSound(router)
  BY <1>4, <1>5 DEF InterfacesSound
<1>7. sent \in Sent
  BY <1>3 DEF Sent
<1>8. \A i \in 1 .. Ports : /\ Held.in[i] = <<>> /\ Held.out[i] = <<>>
                            /\ \A hop \in IPs : Held.wait[i][hop] = <<>>
  BY <1>3, <1>4, <1>5 DEF Held
<1>9. Places(Held) = {}
  <2> SUFFICES ASSUME NEW p \in Places(Held) PROVE FALSE
    OBVIOUS
  <2>1. p.port \in 1 .. Ports /\ p.line \in Lines /\ p.pos \in Filled(Held, p.port, p.line)
    BY PlaceIs
  <2>2. CASE p.line = In
    <3>1. p.pos \in DOMAIN Held.in[p.port]
      BY <2>1, <2>2, InsideIn
    <3> QED
      BY <1>8, <2>1, <3>1
  <2>3. CASE p.line = Out
    <3>1. p.pos \in DOMAIN Held.out[p.port]
      BY <2>1, <2>3, InsideOut
    <3> QED
      BY <1>8, <2>1, <3>1
  <2>4. CASE p.line \in IPs
    <3>1. p.pos \in DOMAIN Held.wait[p.port][p.line]
      BY <2>1, <2>4, InsideWait
    <3> QED
      BY <1>8, <2>1, <2>4, <3>1
  <2> QED
    BY <2>1, <2>2, <2>3, <2>4 DEF Lines
<1>10. Forwards(Held, {}, router.table, arrived)
  BY <1>9 DEF Forwards
<1> QED
  BY <1>1, <1>6, <1>7, <1>10 DEF FInv

LEMMA RouteKeeps ==
  ASSUME FInv, Route, IInv'
  PROVE  FInv'
<1>1. router' = RouteAll(Taken) /\ Record /\ arrived' = arrived
  BY DEF Route
<1>2. Underway(Taken, sent, {}, router.table, arrived) /\ sent \in Sent /\ arrived \in Int
  BY TakenForwards DEF FInv, IInv
<1>3. Underway(router', sent, {}, router.table, arrived)
  BY <1>1, <1>2, PassForwards
<1>4. /\ RouterSound(router') /\ InterfacesSound(router') /\ router'.table = router.table
      /\ Forwards(HeldWith(router', sent), {}, router.table, arrived)
  BY <1>3 DEF Underway
<1>5. sent' \in Sent /\ Held' = HeldWith(router', sent)
  BY <1>1, <1>4, RecordIs
<1>6. Forwards(Held', {}, router'.table, arrived')
  BY <1>1, <1>4, <1>5
<1> QED
  BY <1>4, <1>5, <1>6 DEF FInv

\* A route added takes no route away.
LEMMA AddRouteKeeps ==
  ASSUME NEW table \in Seq(Routes(1 .. Ports)), NEW route \in Routes(1 .. Ports),
         NEW i, NEW dgram, Routed(table, i, dgram)
  PROVE  Routed(AddRoute(table, route), i, dgram)
<1> DEFINE same == {j \in DOMAIN table :
                      table[j].prefix = route.prefix /\ table[j].len = route.len}
           after == AddRoute(table, route)
<1>1. PICK m \in DOMAIN table : Matches(table[m], dgram.dst) /\ table[m].interface = i
  BY DEF Routed
<1>2. /\ m \in DOMAIN after
      /\ after[m].prefix = table[m].prefix /\ after[m].len = table[m].len
      /\ after[m].interface = table[m].interface
  <2>1. CASE same = {}
    <3>1. after = Append(table, route)
      BY <2>1 DEF AddRoute
    <3> HIDE DEF after
    <3>2. m \in DOMAIN after /\ after[m] = table[m]
      BY <3>1, AppendIs
    <3> QED
      BY <3>2
  <2>2. CASE same # {}
    <3> DEFINE c == CHOOSE j \in same : \A k \in same : j <= k
    <3>1. after = [table EXCEPT ![c].hop = route.hop]
      BY <2>2 DEF AddRoute
    <3> HIDE DEF c, after
    <3>2. m \in DOMAIN after
      BY <3>1
    <3> DEFINE q == table[m]
    <3>3. q \in Routes(1 .. Ports)
      OBVIOUS
    <3>4. after[m] = IF m = c THEN [q EXCEPT !.hop = route.hop] ELSE q
      BY <3>1
    <3> HIDE DEF q
    <3>5. LET p == [q EXCEPT !.hop = route.hop]
          IN  p.prefix = q.prefix /\ p.len = q.len /\ p.interface = q.interface
      BY <3>3 DEF Routes
    <3> QED
      BY <3>2, <3>4, <3>5 DEF q
  <2> QED
    BY <2>1, <2>2
<1> HIDE DEF after
<1>3. Matches(after[m], dgram.dst) /\ after[m].interface = i
  BY <1>1, <1>2 DEF Matches
<1> QED
  BY <1>2, <1>3 DEF Routed, after

LEMMA AddForwards ==
  ASSUME FInv, IInv', NEW route \in Offered, Add(route)
  PROVE  FInv'
<1>1. /\ router' = [Taken EXCEPT !.table = AddRoute(@, route)]
      /\ arrived' = arrived /\ sent' = sent
  BY DEF Add
<1>2. /\ RouterSound(Taken) /\ InterfacesSound(Taken) /\ Taken.table = router.table
      /\ \A i \in 1 .. Ports :
           /\ Taken.ports[i].datagramsOut = router.ports[i].datagramsOut
           /\ Taken.ports[i].ni.pending = router.ports[i].ni.pending
  BY TakenForwards DEF Underway
<1> DEFINE table == AddRoute(router.table, route)
<1>3. router'.ports = Taken.ports /\ router'.table = table
  BY <1>1, <1>2 DEF RouterSound
<1> HIDE DEF table
<1>4. Held' = Held
  <2>1. \A i \in 1 .. Ports :
          /\ router'.ports[i].datagramsOut = router.ports[i].datagramsOut
          /\ router'.ports[i].ni.pending = router.ports[i].ni.pending
    BY <1>2, <1>3
  <2> QED
    BY <1>1, <2>1 DEF Held
<1>5. InterfacesSound(router')
  BY <1>2, <1>3 DEF InterfacesSound
<1>6. Forwards(Held, {}, table, arrived)
  <2>1. Forwards(Held, {}, router.table, arrived)
    BY DEF FInv
  <2>2. \A i, dgram : Routed(router.table, i, dgram) => Routed(table, i, dgram)
    BY AddRouteKeeps, RouterSpecAssumption DEF table, FInv, IInv, RouterSound
  <2> QED
    BY <2>1, <2>2 DEF Forwards
<1>7. Forwards(Held', {}, router'.table, arrived')
  BY <1>1, <1>3, <1>4, <1>6
<1>8. sent' \in Sent
  BY <1>1 DEF FInv
<1> QED
  BY <1>5, <1>7, <1>8 DEF FInv

\* A datagram more has been handed up by port i.
LEMMA InGrows ==
  ASSUME NEW held, HeldSound(held), NEW i \in 1 .. Ports, NEW d \in Datagrams,
         NEW after, InAppended(held, after, i, d)
  PROVE  LET new == Place(i, In, Len(held.in[i]) + 1)
         IN  /\ \A p \in Places(after) :
                  p # new => p \in Places(held) /\ At(after, p) = At(held, p)
             /\ At(after, new) = d
<1> DEFINE s == held.in[i]
           t == Append(s, d)
           new == Place(i, In, Len(s) + 1)
<1>0. s = held.in[i]
  OBVIOUS
<1>1. s \in Seq(Datagrams)
  BY DEF HeldSound
<1>2. /\ after.in[i] = t /\ \A j \in 1 .. Ports : j # i => after.in[j] = held.in[j]
      /\ after.out = held.out /\ after.wait = held.wait
  BY DEF HeldSound, InAppended
<1>3. DOMAIN t = DOMAIN s \cup {Len(s) + 1} /\ (\A k \in DOMAIN s : t[k] = s[k])
      /\ t[Len(s) + 1] = d
  BY <1>1, AppendIs
<1> HIDE DEF new, s, t
<1>4. ASSUME NEW p \in Places(after), p # new
      PROVE  p \in Places(held) /\ At(after, p) = At(held, p)
  <2>1. /\ p = Place(p.port, p.line, p.pos) /\ p.port \in 1 .. Ports
        /\ p.line \in Lines /\ p.pos \in Filled(after, p.port, p.line)
    BY PlaceIs
  <2>2. CASE ~ (p.line = In /\ p.port = i)
    <3>1. SameLine(held, after, p.port, p.line)
      BY <1>2, <2>1, <2>2 DEF SameLine
    <3> QED
      BY <3>1, SamePlace
  <2>3. CASE p.line = In /\ p.port = i
    <3>1. p.pos # Len(s) + 1
      BY <1>4, <2>1, <2>3 DEF new
    <3>2. /\ p.pos \in DOMAIN after.in[p.port]
          /\ At(after, p) = after.in[p.port][p.pos]
          /\ p.pos \in Filled(held, p.port, p.line) <=> p.pos \in DOMAIN held.in[p.port]
          /\ At(held, p) = held.in[p.port][p.pos]
      BY <2>1, <2>3, InsideIn
    <3>3. after.in[p.port] = t /\ held.in[p.port] = s
      BY <1>0, <1>2, <2>3
    <3>4. p.pos \in DOMAIN s /\ t[p.pos] = s[p.pos]
      BY <1>3, <3>1, <3>2, <3>3
    <3>5. p.pos \in Filled(held, p.port, p.line) /\ At(held, p) = At(after, p)
      BY <3>2, <3>3, <3>4
    <3>6. Place(p.port, p.line, p.pos) \in Places(held)
      BY <2>1, <3>5, PlaceIs
    <3> QED
      BY <2>1, <3>5, <3>6
  <2> QED
    BY <2>2, <2>3
<1>5. new.port = i /\ new.line = In /\ new.pos = Len(s) + 1
  BY PlaceFields DEF new
<1>6. At(after, new) = d
  <2>1. At(after, new) = after.in[new.port][new.pos]
    BY <1>5, InsideIn
  <2> QED
    BY <1>2, <1>3, <1>5, <2>1
<1> QED
  BY <1>4, <1>6 DEF new, s

\* What a call on one port of the router leaves of the others.
LEMMA OnePort ==
  ASSUME FInv, NEW i \in 1 .. Ports, NEW port,
         router' = [Taken EXCEPT !.ports[i] = port]
  PROVE  /\ \A j \in 1 .. Ports :
              router'.ports[j] = IF j = i THEN port ELSE Taken.ports[j]
         /\ router'.table = router.table
<1>1. RouterSound(Taken) /\ Taken.table = router.table
  BY TakenIs DEF FInv, IInv
<1> DEFINE ports == [Taken.ports EXCEPT ![i] = port]
<1>2. router' = [ports |-> ports, table |-> Taken.table]
  BY <1>1 DEF RouterSound
<1>3. \A j \in 1 .. Ports : ports[j] = IF j = i THEN port ELSE Taken.ports[j]
  BY <1>1 DEF RouterSound, PortsSound
<1> HIDE DEF ports
<1>4. router'.ports = ports /\ router'.table = Taken.table
  BY ONLY <1>2
<1> QED
  BY ONLY <1>1, <1>3, <1>4

LEMMA HeldIsSound ==
  ASSUME FInv
  PROVE  HeldSound(Held)
<1>1. RouterSound(Taken) /\ InterfacesSound(Taken) /\ HeldWith(Taken, sent) = Held
  BY TakenForwards DEF Underway
<1>2. sent \in Sent
  BY DEF FInv
<1>3. HeldSound(HeldWith(Taken, sent))
  BY <1>1, <1>2, HeldWithSound
<1> QED
  BY <1>1, <1>3

LEMMA ArriveForwards ==
  ASSUME FInv, IInv', NEW i \in 1 .. Ports, NEW dst \in Dsts, NEW ttl \in Ttls,
         Arrive(i, dst, ttl)
  PROVE  FInv'
<1> DEFINE d == [number |-> arrived + 1, dst |-> dst, ttl |-> ttl, came |-> ttl]
           frame == IPv4Frame(NeighbourEth, PortEth, d)
           old == Taken.ports[i]
           port == RecvAsync(old, frame)
<1>1. /\ router' = [Taken EXCEPT !.ports[i] = port]
      /\ arrived' = arrived + 1 /\ sent' = sent /\ arrived \in Nat
  BY DEF Arrive, FInv, IInv
<1>2. arrived + 1 \in 1 .. MaxDatagrams
  BY RouterSpecAssumption DEF Arrive, FInv, IInv
<1>3. /\ d \in Datagrams /\ d.number = arrived + 1 /\ d.ttl = d.came
  BY <1>2, RouterSpecAssumption
<1> HIDE DEF d
<1>4. ~ CarriesARP(frame) /\ frame.dgram = d
  BY <1>3, RouterSpecAssumption, FrameIs
<1>5. /\ RouterSound(Taken) /\ InterfacesSound(Taken)
      /\ \A j \in 1 .. Ports :
           /\ Taken.ports[j].datagramsOut = router.ports[j].datagramsOut
           /\ Taken.ports[j].ni.pending = router.ports[j].ni.pending
  BY TakenForwards DEF Underway
<1>6. old = [ni |-> old.ni, datagramsOut |-> old.datagramsOut]
  BY <1>5 DEF RouterSound, PortsSound
<1> HIDE DEF frame, old
<1>7. /\ port.ni = old.ni
      /\ port.datagramsOut = old.datagramsOut
           \/ port.datagramsOut = Append(old.datagramsOut, d)
  <2> DEFINE out == IF HandsUp(old.ni, frame) THEN Append(old.datagramsOut, d)
                    ELSE old.datagramsOut
  <2>1. RecvFrame(old.ni, frame) = old.ni
    BY <1>4 DEF RecvFrame
  <2>2. port = [old EXCEPT !.ni = old.ni, !.datagramsOut = out]
    BY <1>4, <2>1 DEF RecvAsync
  <2> HIDE DEF out
  <2>3. port = [ni |-> old.ni, datagramsOut |-> out]
    BY <1>6, <2>2
  <2> QED
    BY <2>3 DEF out
<1> HIDE DEF port
<1>8. /\ \A j \in 1 .. Ports : router'.ports[j] = IF j = i THEN port ELSE Taken.ports[j]
      /\ router'.table = router.table
  BY <1>1, OnePort
<1>9. \A j \in 1 .. Ports : router'.ports[j].ni = Taken.ports[j].ni
  BY <1>7, <1>8 DEF old
<1>10. InterfacesSound(router') /\ sent' \in Sent
  BY <1>1, <1>5, <1>9 DEF InterfacesSound, FInv
<1>11. Held'.wait = Held.wait /\ Held'.out = Held.out
  BY <1>1, <1>5, <1>9 DEF Held
<1>12. HeldSound(Held)
  BY HeldIsSound
<1>13. Forwards(Held, {}, router.table, arrived)
  BY DEF FInv
<1>14. \A p \in Places(Held) : At(Held, p).number \in Int
  <2>1. \A p \in Places(Held) : At(Held, p) \in Datagrams
    BY <1>12, HeldDatagrams
  <2> QED
    BY <2>1, RouterSpecAssumption
<1>15. \A p \in Places(Held) : /\ At(Held, p).number <= arrived + 1
                               /\ At(Held, p).number # arrived + 1
  <2>1. \A p \in Places(Held) : At(Held, p).number <= arrived
    BY <1>13 DEF Forwards
  <2> QED
    BY <1>1, <1>14, <2>1
<1>16. Forwards(Held', {}, router.table, arrived + 1)
  <2> DEFINE before == Held
             after == Held'
  <2>1. \A j \in 1 .. Ports :
          /\ before.in[j] = Taken.ports[j].datagramsOut
          /\ after.in[j] = router'.ports[j].datagramsOut
    BY <1>5 DEF Held
  <2>2. \A j \in 1 .. Ports : j # i => after.in[j] = before.in[j]
    BY <1>8, <2>1
  <2>3. before.in[i] = old.datagramsOut /\ after.in[i] = port.datagramsOut
    BY <1>8, <2>1 DEF old
  <2>4. after.in = [j \in 1 .. Ports |-> after.in[j]]
    BY DEF Held
  <2>5. before.in \in [1 .. Ports -> Seq(Datagrams)]
    BY <1>12 DEF HeldSound
  <2>6. /\ after.wait = before.wait /\ after.out = before.out
        /\ HeldSound(before) /\ Forwards(before, {}, router.table, arrived)
        /\ \A p \in Places(before) \ {} : /\ At(before, p).number <= arrived + 1
                                          /\ At(before, p).number # d.number
    BY <1>3, <1>11, <1>12, <1>13, <1>15
  <2> HIDE DEF before, after
  <2>7. CASE port.datagramsOut = old.datagramsOut
    <3>1. \A j \in 1 .. Ports : after.in[j] = before.in[j]
      BY <2>2, <2>3, <2>7
    <3>2. \A p \in Places(after) : SameLine(before, after, p.port, p.line)
      BY <2>6, <3>1, PlaceIs DEF SameLine
    <3>3. \A p \in Places(after) : p \in Places(before) /\ At(after, p) = At(before, p)
      BY <3>2, SamePlace
    <3>4. Forwards(after, {}, router.table, arrived + 1)
      BY <2>6, <3>3 DEF Forwards
    <3> QED
      BY <3>4 DEF after
  <2>8. CASE port.datagramsOut = Append(old.datagramsOut, d)
    <3> DEFINE t == Append(before.in[i], d)
    <3>1. after.in[i] = t
      BY <2>3, <2>8
    <3>2. after.in = [before.in EXCEPT ![i] = t]
      <4> HIDE DEF t
      <4> QED
        BY <2>2, <2>4, <2>5, <3>1
    <3>3. after.in = [before.in EXCEPT ![i] = Append(@, d)]
      BY <3>2
    <3> DEFINE new == Place(i, In, Len(before.in[i]) + 1)
    <3>4. /\ \A p \in Places(after) :
               p # new => p \in Places(before) /\ At(after, p) = At(before, p)
          /\ At(after, new) = d
      <4>1. after.wait = before.wait /\ after.out = before.out /\ HeldSound(before)
        BY <2>6
      <4>2. d \in Datagrams /\ i \in 1 .. Ports
        BY <1>3
      <4>3. InAppended(before, after, i, d)
        BY <3>3, <4>1 DEF InAppended
      <4> QED
        BY ONLY <4>1, <4>2, <4>3, InGrows
    <3>5. new.line = In
      BY PlaceFields
    <3> HIDE DEF new
    <3>6. /\ At(after, new).ttl = At(after, new).came
          /\ At(after, new).number <= arrived + 1
          /\ \A p \in Places(before) \ {} : At(before, p).number # At(after, new).number
      BY <1>1, <1>3, <2>6, <3>4
    <3>7. Forwards(after, {}, router.table, arrived + 1)
      BY <2>6, <3>4, <3>5, <3>6, OneMore
    <3> QED
      BY <3>7 DEF after
  <2> QED
    BY <1>7, <2>7, <2>8
<1>17. Forwards(Held', {}, router'.table, arrived')
  BY <1>1, <1>8, <1>16
<1> QED
  BY <1>10, <1>17 DEF FInv

\* A reply heard: what waits for its sender is sent, in order.
Flushes(ni, after, ip) ==
  \/ after.pending = ni.pending /\ after.framesOut = ni.framesOut
  \/ /\ after.pending = [ni.pending EXCEPT ![ip] = <<>>]
     /\ \E W \in Seq(Frames) :
          /\ after.framesOut = ni.framesOut \o W
          /\ Len(W) = Len(ni.pending[ip])
          /\ \A k \in DOMAIN W : ~ CarriesARP(W[k]) /\ W[k].dgram = ni.pending[ip][k]

LEMMA HearIs ==
  ASSUME NEW ni, InterfaceSound(ni), NEW ip \in IPs, NEW frame,
         frame = ARPFrame(NeighbourEth, PortEth,
                   [opcode |-> Replies, senderEth |-> NeighbourEth,
                    senderIp |-> ip, targetIp |-> PortIp])
  PROVE  InterfaceSound(RecvFrame(ni, frame)) /\ Flushes(ni, RecvFrame(ni, frame), ip)
<1> DEFINE arp == frame.arp
           after == RecvFrame(ni, frame)
<1>1. /\ arp.opcode = Replies /\ arp.senderEth = NeighbourEth /\ arp.senderIp = ip
      /\ CarriesARP(frame)
  BY DEF ARPFrame, CarriesARP
<1>2. /\ ni.framesOut \in Seq(Frames) /\ ni.pending \in [IPs -> Seq(Datagrams)]
      /\ ni.eth \in Eths /\ ni.ip \in IPs
      /\ \A x \in DOMAIN ni.cache : ni.cache[x].eth \in Eths
      /\ ni = [eth |-> ni.eth, ip |-> ni.ip, framesOut |-> ni.framesOut, cache |-> ni.cache,
               cooldown |-> ni.cooldown, pending |-> ni.pending]
  BY DEF InterfaceSound
<1> HIDE DEF arp
<1>3. CASE ~ IsFor(ni, frame)
  <2>1. after = ni
    BY <1>3 DEF RecvFrame
  <2> QED
    BY <2>1 DEF Flushes
<1>4. CASE IsFor(ni, frame)
  <2> DEFINE entry == [eth |-> arp.senderEth, left |-> CacheTime]
             c == With(ni.cache, ip, entry)
             learnt == Learn(ni, arp)
  <2>1. learnt = [ni EXCEPT !.cache = c]
    BY <1>1 DEF Learn
  <2>2. \A x \in DOMAIN c : c[x].eth \in Eths
    <3>1. entry.eth \in Eths
      BY <1>1, RouterSpecAssumption
    <3> HIDE DEF entry
    <3>2. ASSUME NEW x \in DOMAIN c PROVE c[x].eth \in Eths
      <4>1. x \in DOMAIN ni.cache \cup {ip} /\ c[x] = IF x = ip THEN entry ELSE ni.cache[x]
        BY DEF With
      <4>2. CASE x = ip
        BY <3>1, <4>1, <4>2
      <4>3. CASE x # ip
        BY <1>2, <4>1, <4>3
      <4> QED
        BY <4>2, <4>3
    <3> QED
      BY <3>2
  <2> HIDE DEF learnt, c
  <2>3. learnt = [eth |-> ni.eth, ip |-> ni.ip, framesOut |-> ni.framesOut, cache |-> c,
                  cooldown |-> ni.cooldown, pending |-> ni.pending]
    BY <1>2, <2>1
  <2>4. /\ learnt.eth = ni.eth /\ learnt.ip = ni.ip /\ learnt.framesOut = ni.framesOut
        /\ learnt.cache = c /\ learnt.cooldown = ni.cooldown /\ learnt.pending = ni.pending
    BY <2>3
  <2>5. InterfaceSound(learnt)
    BY <1>2, <2>2, <2>3, <2>4 DEF InterfaceSound
  <2> DEFINE s == ni.pending[ip]
             W == Waiting(learnt, arp)
             q == ni.framesOut \o W
             w == [ni.pending EXCEPT ![ip] = <<>>]
             b == Queue(learnt, W)
  <2>6. s \in Seq(Datagrams)
    BY <1>2
  <2>7. W = [k \in 1 .. Len(s) |-> IPv4Frame(ni.eth, NeighbourEth, s[k])]
    BY <1>1, <2>4 DEF Waiting
  <2> HIDE DEF s, W
  <2>8. ASSUME NEW k \in 1 .. Len(s)
        PROVE  W[k] \in Frames /\ ~ CarriesARP(W[k]) /\ W[k].dgram = s[k]
    <3>1. s[k] \in Datagrams
      BY <2>6
    <3>2. W[k] = IPv4Frame(ni.eth, NeighbourEth, s[k])
      BY <2>7
    <3>3. NeighbourEth \in Eths
      BY RouterSpecAssumption
    <3> QED
      BY <1>2, <3>1, <3>2, <3>3, FrameIs
  <2>9. W \in Seq(Frames) /\ Len(W) = Len(s) /\ DOMAIN W = 1 .. Len(s)
    <3>1. Len(s) \in Nat
      BY <2>6
    <3>2. W = [k \in 1 .. Len(s) |-> W[k]]
      BY <2>7
    <3>3. W \in [1 .. Len(s) -> Frames]
      BY <2>8, <3>2
    <3> QED
      BY <3>1, <3>3
  <2>10. /\ b = [eth |-> ni.eth, ip |-> ni.ip, framesOut |-> q, cache |-> c,
                 cooldown |-> ni.cooldown, pending |-> ni.pending]
         /\ q \in Seq(Frames)
    BY <2>4, <2>5, <2>9, QueueIs
  <2>11. Answer(Flush(learnt, arp), frame) = Flush(learnt, arp)
    BY <1>1 DEF Answer, Replies, Requests, arp
  <2>12. after = Flush(learnt, arp)
    BY <1>1, <1>4, <2>11 DEF RecvFrame, arp, learnt
  <2>13. Flush(learnt, arp) = [b EXCEPT !.pending[ip] = <<>>]
    BY <1>1 DEF Flush, W
  <2>14. w \in [IPs -> Seq(Datagrams)]
    BY <1>2
  <2> HIDE DEF b, q, after
  <2>15. b.pending = ni.pending
    BY <2>10
  <2>16. after = [b EXCEPT !.pending = w]
    BY <2>12, <2>13, <2>15
  <2> HIDE DEF w
  <2>17. after = [eth |-> ni.eth, ip |-> ni.ip, framesOut |-> q, cache |-> c,
                  cooldown |-> ni.cooldown, pending |-> w]
    BY <2>10, <2>16
  <2>18. after.framesOut = q /\ after.pending = w /\ after.cache = c
    BY <2>17
  <2>19. InterfaceSound(after)
    BY <1>2, <2>2, <2>10, <2>14, <2>17, <2>18 DEF InterfaceSound
  <2>20. Flushes(ni, after, ip)
    <3>1. after.framesOut = ni.framesOut \o W
      BY <2>18 DEF q
    <3>2. after.pending = [ni.pending EXCEPT ![ip] = <<>>]
      BY <2>18 DEF w
    <3>3. /\ Len(W) = Len(ni.pending[ip])
          /\ \A k \in DOMAIN W : ~ CarriesARP(W[k]) /\ W[k].dgram = ni.pending[ip][k]
      BY <2>8, <2>9 DEF s
    <3> QED
      BY <2>9, <3>1, <3>2, <3>3 DEF Flushes
  <2> QED
    BY <2>19, <2>20 DEF after
<1> QED
  BY <1>3, <1>4

LEMMA ConcatIs ==
  ASSUME NEW S, NEW s \in Seq(S), NEW t \in Seq(S)
  PROVE  /\ Len(s) \in Nat /\ Len(t) \in Nat /\ DOMAIN s = 1 .. Len(s)
         /\ DOMAIN (s \o t) = 1 .. Len(s) + Len(t)
         /\ \A k \in DOMAIN s : (s \o t)[k] = s[k]
         /\ \A k \in DOMAIN (s \o t) : k > Len(s) =>
              k - Len(s) \in DOMAIN t /\ (s \o t)[k] = t[k - Len(s)]
  BY ConcatProperties

\* Datagrams that have waited at port i for the hop ip have been sent, in W.
Flushed(held, after, i, ip, W) ==
  /\ Len(W) = Len(held.wait[i][ip])
  /\ \A k \in DOMAIN W : ~ CarriesARP(W[k]) /\ W[k].dgram = held.wait[i][ip][k]
  /\ after.in = held.in
  /\ after.wait = [held.wait EXCEPT ![i][ip] = <<>>]
  /\ after.out = [held.out EXCEPT ![i] = @ \o W]

LEMMA FlushForwards ==
  ASSUME NEW held, HeldSound(held), NEW i \in 1 .. Ports, NEW ip \in IPs,
         NEW W \in Seq(Frames), NEW after, Flushed(held, after, i, ip, W),
         NEW table, NEW top, Forwards(held, {}, table, top)
  PROVE  Forwards(after, {}, table, top)
<1>0. /\ Len(W) = Len(held.wait[i][ip])
      /\ \A k \in DOMAIN W : ~ CarriesARP(W[k]) /\ W[k].dgram = held.wait[i][ip][k]
      /\ after.in = held.in
      /\ after.wait = [held.wait EXCEPT ![i][ip] = <<>>]
      /\ after.out = [held.out EXCEPT ![i] = @ \o W]
  BY DEF Flushed
<1> DEFINE s == held.wait[i][ip]
           o == held.out[i]
           t == o \o W
           n == Len(o)
<1>1. s \in Seq(Datagrams) /\ o \in Seq(Frames) /\ W \in Seq(Frames)
  BY DEF HeldSound, Sent
<1>2. /\ after.out[i] = t
      /\ \A j \in 1 .. Ports : j # i => after.out[j] = held.out[j]
  <2>1. held.out \in [1 .. Ports -> Seq(Frames)]
    BY DEF HeldSound, Sent
  <2> DEFINE v == after.out
             u == held.out
  <2>2. v = [u EXCEPT ![i] = t] /\ u \in [1 .. Ports -> Seq(Frames)]
    BY <1>0, <2>1
  <2> HIDE DEF u, v, t
  <2>3. v[i] = t /\ \A j \in 1 .. Ports : j # i => v[j] = u[j]
    BY ONLY <2>2, i \in 1 .. Ports
  <2> QED
    BY <2>3 DEF u, v
<1>3. /\ after.wait[i][ip] = <<>>
      /\ \A j \in 1 .. Ports, h \in IPs :
           ~ (j = i /\ h = ip) => after.wait[j][h] = held.wait[j][h]
  <2> DEFINE none == << >>
             v == after.wait
             u == held.wait
  <2>1. v = [u EXCEPT ![i][ip] = none] /\ u \in [1 .. Ports -> [IPs -> Seq(Datagrams)]]
    BY <1>0 DEF HeldSound
  <2> HIDE DEF u, v, none
  <2>2. /\ v[i] = [u[i] EXCEPT ![ip] = none] /\ u[i] \in [IPs -> Seq(Datagrams)]
        /\ \A j \in 1 .. Ports : j # i => v[j] = u[j]
    BY ONLY <2>1, i \in 1 .. Ports
  <2>3. v[i][ip] = none /\ \A h \in IPs : h # ip => v[i][h] = u[i][h]
    BY ONLY <2>2, ip \in IPs
  <2>4. /\ v[i][ip] = none
        /\ \A j \in 1 .. Ports, h \in IPs : ~ (j = i /\ h = ip) => v[j][h] = u[j][h]
    BY ONLY <2>2, <2>3
  <2> QED
    BY <2>4 DEF u, v, none
<1>4. /\ n \in Nat /\ DOMAIN o = 1 .. n /\ DOMAIN t = 1 .. n + Len(W) /\ Len(W) \in Nat
      /\ \A k \in DOMAIN o : t[k] = o[k]
      /\ \A k \in DOMAIN t : k > n => k - n \in DOMAIN W /\ t[k] = W[k - n]
  <2> HIDE DEF o
  <2>1. o \in Seq(Frames) /\ W \in Seq(Frames)
    BY <1>1
  <2> QED
    BY ONLY <2>1, ConcatIs
<1>5. DOMAIN W = DOMAIN s /\ \A k \in DOMAIN W : ~ CarriesARP(W[k]) /\ W[k].dgram = s[k]
  BY <1>0, <1>1
<1> HIDE DEF s, o, t, n
<1> DEFINE New(p) == p.line = Out /\ p.port = i /\ p.pos > n
           g == [p \in Places(after) |-> IF New(p) THEN Place(i, ip, p.pos - n) ELSE p]
<1>6. ASSUME NEW p \in Places(after), New(p)
      PROVE  /\ Place(i, ip, p.pos - n) \in Places(held)
             /\ At(after, p) = At(held, Place(i, ip, p.pos - n))
             /\ p.pos \in Int
  <2>1. p.pos \in Filled(after, p.port, p.line)
    BY PlaceIs
  <2>2. /\ p.pos \in DOMAIN after.out[p.port]
        /\ At(after, p) = after.out[p.port][p.pos].dgram
    <3>1. p.line = Out
      BY <1>6
    <3> QED
      BY ONLY <2>1, <3>1, InsideOut
  <2>3. p.pos \in DOMAIN t /\ At(after, p) = t[p.pos].dgram /\ p.pos \in Int
    BY <1>2, <1>4, <1>6, <2>2
  <2> DEFINE k == p.pos - n
             from == Place(i, ip, k)
  <2>4. k \in DOMAIN W /\ t[p.pos] = W[k]
    BY <1>4, <1>6, <2>3
  <2> HIDE DEF k
  <2>5. k \in DOMAIN s /\ At(after, p) = s[k]
    BY <1>5, <2>3, <2>4
  <2>6. from.port = i /\ from.line = ip /\ from.pos = k
    BY PlaceFields
  <2> HIDE DEF from
  <2>7. from.line \in IPs
    BY <2>6
  <2>8. /\ from.pos \in Filled(held, from.port, from.line)
             <=> from.pos \in DOMAIN held.wait[from.port][from.line]
        /\ At(held, from) = held.wait[from.port][from.line][from.pos]
    BY <2>7, InsideWait
  <2>9. k \in Filled(held, i, ip) /\ At(held, from) = s[k]
    BY <2>5, <2>6, <2>8 DEF s
  <2>10. from \in Places(held)
    BY <2>9, PlaceIs DEF from, Lines
  <2> QED
    BY <2>3, <2>5, <2>9, <2>10 DEF from, k
<1>7. ASSUME NEW p \in Places(after), ~ New(p)
      PROVE  /\ p \in Places(held) /\ At(after, p) = At(held, p)
             /\ ~ (p.line = ip /\ p.port = i)
  <2>1. /\ p = Place(p.port, p.line, p.pos) /\ p.port \in 1 .. Ports
        /\ p.line \in Lines /\ p.pos \in Filled(after, p.port, p.line)
    BY PlaceIs
  <2>2. ~ (p.line = ip /\ p.port = i)
    <3> SUFFICES ASSUME p.line = ip, p.port = i PROVE FALSE
      OBVIOUS
    <3>1. p.line \in IPs
      OBVIOUS
    <3>2. p.pos \in DOMAIN after.wait[p.port][p.line]
      BY <2>1, <3>1, InsideWait
    <3>3. after.wait[p.port][p.line] = <<>>
      BY <1>3
    <3> QED
      BY <3>2, <3>3
  <2>3. CASE ~ (p.line = Out /\ p.port = i)
    <3>1. SameLine(held, after, p.port, p.line)
      BY <1>0, <1>2, <1>3, <2>1, <2>2, <2>3 DEF SameLine
    <3> QED
      BY <2>2, <3>1, SamePlace
  <2>4. CASE p.line = Out /\ p.port = i
    <3>1. /\ p.pos \in DOMAIN after.out[p.port] /\ ~ CarriesARP(after.out[p.port][p.pos])
          /\ At(after, p) = after.out[p.port][p.pos].dgram
          /\ p.pos \in Filled(held, p.port, p.line)
               <=> p.pos \in DOMAIN held.out[p.port] /\ ~ CarriesARP(held.out[p.port][p.pos])
          /\ At(held, p) = held.out[p.port][p.pos].dgram
      <4>1. p.line = Out
        BY <2>4
      <4> QED
        BY ONLY <2>1, <4>1, InsideOut
    <3>2. after.out[p.port] = t /\ held.out[p.port] = o
      BY <1>2, <2>4 DEF o
    <3>3. p.pos \in DOMAIN t
      BY <3>1, <3>2
    <3>4. p.pos \in DOMAIN o /\ t[p.pos] = o[p.pos]
      BY <1>4, <1>7, <2>4, <3>3
    <3>5. p.pos \in Filled(held, p.port, p.line) /\ At(after, p) = At(held, p)
      BY <3>1, <3>2, <3>4
    <3>6. Place(p.port, p.line, p.pos) \in Places(held)
      BY <2>1, <3>5, PlaceIs
    <3> QED
      BY <2>1, <2>2, <3>5, <3>6
  <2> QED
    BY <2>3, <2>4
<1>8. \A p \in Places(after) :
        /\ g[p] \in Places(held) /\ At(after, p) = At(held, g[p])
        /\ g[p].port = p.port /\ (g[p].line = In <=> p.line = In)
  <2> TAKE p \in Places(after)
  <2>1. CASE New(p)
    <3> DEFINE from == Place(i, ip, p.pos - n)
    <3>1. from.port = i /\ from.line = ip
      BY PlaceFields
    <3>2. g[p] = from
      BY <2>1
    <3>3. from \in Places(held) /\ At(after, p) = At(held, from)
      BY <1>6, <2>1
    <3> HIDE DEF from, g
    <3> QED
      BY <2>1, <3>1, <3>2, <3>3, LinesDiffer
  <2>2. CASE ~ New(p)
    <3>1. g[p] = p
      BY <2>2
    <3>2. p \in Places(held) /\ At(after, p) = At(held, p)
      BY <1>7, <2>2
    <3> HIDE DEF g
    <3> QED
      BY <3>1, <3>2
  <2> QED
    BY <2>1, <2>2
<1>9. \A p, q \in Places(after) : p # q => g[p] # g[q]
  <2> TAKE p, q \in Places(after)
  <2> HAVE p # q
  <2>1. p = Place(p.port, p.line, p.pos) /\ q = Place(q.port, q.line, q.pos)
    BY PlaceIs
  <2>2. /\ g[p] = IF New(p) THEN Place(i, ip, p.pos - n) ELSE p
        /\ g[q] = IF New(q) THEN Place(i, ip, q.pos - n) ELSE q
    OBVIOUS
  <2> HIDE DEF g
  <2>3. CASE New(p) /\ New(q)
    <3>1. p.pos \in Int /\ q.pos \in Int
      BY <1>6, <2>3
    <3>2. p.pos # q.pos
      BY <2>1, <2>3
    <3>3. p.pos - n # q.pos - n
      BY <1>4, <3>1, <3>2
    <3>4. Place(i, ip, p.pos - n) # Place(i, ip, q.pos - n)
      BY <3>3, PlaceFields
    <3> QED
      BY <2>2, <2>3, <3>4
  <2>4. CASE New(p) /\ ~ New(q)
    <3>1. ~ (q.line = ip /\ q.port = i)
      BY <1>7, <2>4
    <3>2. Place(i, ip, p.pos - n).line = ip /\ Place(i, ip, p.pos - n).port = i
      BY PlaceFields
    <3> QED
      BY <2>2, <2>4, <3>1, <3>2
  <2>5. CASE ~ New(p) /\ New(q)
    <3>1. ~ (p.line = ip /\ p.port = i)
      BY <1>7, <2>5
    <3>2. Place(i, ip, q.pos - n).line = ip /\ Place(i, ip, q.pos - n).port = i
      BY PlaceFields
    <3> QED
      BY <2>2, <2>5, <3>1, <3>2
  <2>6. CASE ~ New(p) /\ ~ New(q)
    BY <2>2, <2>6
  <2> QED
    BY <2>3, <2>4, <2>5, <2>6
<1> HIDE DEF g
<1> QED
  BY <1>8, <1>9, Moved

LEMMA HearForwards ==
  ASSUME FInv, IInv', NEW i \in 1 .. Ports, NEW ip \in Neighbours, Hear(i, ip)
  PROVE  FInv'
<1> DEFINE frame == ARPFrame(NeighbourEth, PortEth,
                      [opcode |-> Replies, senderEth |-> NeighbourEth,
                       senderIp |-> ip, targetIp |-> PortIp])
           old == Taken.ports[i]
           port == RecvAsync(old, frame)
           ni == old.ni
           next == RecvFrame(ni, frame)
<1>1. router' = [Taken EXCEPT !.ports[i] = port] /\ Record /\ arrived' = arrived
  BY DEF Hear
<1>2. /\ RouterSound(Taken) /\ InterfacesSound(Taken) /\ HeldWith(Taken, sent) = Held
      /\ \A j \in 1 .. Ports :
           /\ Taken.ports[j].datagramsOut = router.ports[j].datagramsOut
           /\ Taken.ports[j].ni.pending = router.ports[j].ni.pending
           /\ Taken.ports[j].ni.framesOut = <<>>
  BY TakenForwards DEF Underway
<1>3. ip \in IPs
  BY RouterSpecAssumption
<1>4. InterfaceSound(ni)
  BY <1>2 DEF InterfacesSound
<1>5. InterfaceSound(next) /\ Flushes(ni, next, ip)
  BY <1>3, <1>4, HearIs
<1>6. CarriesARP(frame)
  BY DEF CarriesARP, ARPFrame
<1>7. old = [ni |-> old.ni, datagramsOut |-> old.datagramsOut]
  BY <1>2 DEF RouterSound, PortsSound
<1> HIDE DEF frame, old
<1>8. port.ni = next /\ port.datagramsOut = old.datagramsOut
  <2>1. ~ HandsUp(old.ni, frame)
    BY <1>6 DEF HandsUp
  <2>2. port = [old EXCEPT !.ni = next, !.datagramsOut = old.datagramsOut]
    BY <2>1 DEF RecvAsync
  <2> HIDE DEF next
  <2>3. port = [ni |-> next, datagramsOut |-> old.datagramsOut]
    BY <1>7, <2>2
  <2> QED
    BY <2>3
<1> HIDE DEF port
<1>9. /\ \A j \in 1 .. Ports : router'.ports[j] = IF j = i THEN port ELSE Taken.ports[j]
      /\ router'.table = router.table
  BY <1>1, OnePort
<1> HIDE DEF next
<1>10. /\ router'.ports[i].ni = next
       /\ \A j \in 1 .. Ports : j # i => router'.ports[j].ni = Taken.ports[j].ni
       /\ \A j \in 1 .. Ports : router'.ports[j].datagramsOut = Taken.ports[j].datagramsOut
  BY <1>8, <1>9 DEF old
<1>11. InterfacesSound(router')
  BY <1>2, <1>5, <1>10 DEF InterfacesSound
<1>12. RouterSound(router')
  BY DEF IInv
<1>13. sent' \in Sent /\ Held' = HeldWith(router', sent)
  BY <1>1, <1>11, <1>12, RecordIs
<1>14. HeldSound(Held) /\ Forwards(Held, {}, router.table, arrived) /\ sent \in Sent
  BY HeldIsSound DEF FInv
<1> DEFINE before == Held
           after == Held'
<1>15. /\ before.in = [j \in 1 .. Ports |-> Taken.ports[j].datagramsOut]
       /\ before.wait = [j \in 1 .. Ports |-> Taken.ports[j].ni.pending]
       /\ before.out = sent
       /\ after.in = [j \in 1 .. Ports |-> router'.ports[j].datagramsOut]
       /\ after.wait = [j \in 1 .. Ports |-> router'.ports[j].ni.pending]
       /\ after.out = [j \in 1 .. Ports |-> sent[j] \o router'.ports[j].ni.framesOut]
  <2>1. /\ HeldWith(Taken, sent).in = [j \in 1 .. Ports |-> Taken.ports[j].datagramsOut]
        /\ HeldWith(Taken, sent).wait = [j \in 1 .. Ports |-> Taken.ports[j].ni.pending]
        /\ HeldWith(router', sent).in = [j \in 1 .. Ports |-> router'.ports[j].datagramsOut]
        /\ HeldWith(router', sent).wait = [j \in 1 .. Ports |-> router'.ports[j].ni.pending]
        /\ HeldWith(router', sent).out
             = [j \in 1 .. Ports |-> sent[j] \o router'.ports[j].ni.framesOut]
    BY DEF HeldWith
  <2>2. Held.out = sent
    BY DEF Held
  <2> QED
    BY ONLY <1>2, <1>13, <2>1, <2>2
<1>16. HeldSound(before) /\ Forwards(before, {}, router.table, arrived)
  BY <1>14
<1> HIDE DEF before, after, ni
<1>17. /\ \A j \in 1 .. Ports : after.in[j] = before.in[j]
       /\ \A j \in 1 .. Ports : j # i => after.wait[j] = before.wait[j]
       /\ \A j \in 1 .. Ports : j # i => after.out[j] = before.out[j]
       /\ before.wait[i] = ni.pending /\ after.wait[i] = next.pending
       /\ before.out[i] = sent[i] /\ after.out[i] = sent[i] \o next.framesOut
       /\ ni.framesOut = <<>>
  <2>1. \A j \in 1 .. Ports : after.in[j] = before.in[j]
    BY <1>10, <1>15
  <2>2. ASSUME NEW j \in 1 .. Ports, j # i
        PROVE  after.wait[j] = before.wait[j] /\ after.out[j] = before.out[j]
    <3>1. router'.ports[j].ni = Taken.ports[j].ni
      BY <1>10, <2>2
    <3>2. sent[j] \in Seq(Frames)
      BY <1>14 DEF Sent
    <3>3. sent[j] \o <<>> = sent[j]
      BY <3>2
    <3>4. /\ before.wait[j] = Taken.ports[j].ni.pending
          /\ after.wait[j] = router'.ports[j].ni.pending
          /\ before.out[j] = sent[j]
          /\ after.out[j] = sent[j] \o router'.ports[j].ni.framesOut
      BY <1>15
    <3>5. Taken.ports[j].ni.framesOut = <<>>
      BY <1>2
    <3> QED
      BY ONLY <3>1, <3>3, <3>4, <3>5
  <2>3. before.wait[i] = ni.pending /\ after.wait[i] = next.pending
    BY <1>10, <1>15 DEF ni, old
  <2>4. before.out[i] = sent[i] /\ after.out[i] = sent[i] \o next.framesOut
    BY <1>10, <1>15
  <2>5. ni.framesOut = <<>>
    BY <1>2 DEF ni, old
  <2> QED
    BY <2>1, <2>2, <2>3, <2>4, <2>5
<1>18. sent[i] \in Seq(Frames)
  BY <1>14 DEF Sent
<1>19. Forwards(after, {}, router.table, arrived)
  <2>1. CASE next.pending = ni.pending /\ next.framesOut = ni.framesOut
    <3>1. sent[i] \o <<>> = sent[i]
      BY <1>18
    <3>2. \A j \in 1 .. Ports : /\ after.in[j] = before.in[j]
                                /\ after.wait[j] = before.wait[j]
                                /\ after.out[j] = before.out[j]
      BY <1>17, <2>1, <3>1
    <3>3. \A p \in Places(after) : SameLine(before, after, p.port, p.line)
      BY <3>2, PlaceIs DEF SameLine
    <3>4. \A p \in Places(after) : p \in Places(before) /\ At(after, p) = At(before, p)
      BY <3>3, SamePlace
    <3> QED
      BY <1>16, <3>4, Fewer
  <2>2. CASE /\ next.pending = [ni.pending EXCEPT ![ip] = <<>>]
             /\ \E W \in Seq(Frames) :
                  /\ next.framesOut = ni.framesOut \o W
                  /\ Len(W) = Len(ni.pending[ip])
                  /\ \A k \in DOMAIN W : ~ CarriesARP(W[k]) /\ W[k].dgram = ni.pending[ip][k]
    <3>1. PICK W \in Seq(Frames) :
            /\ next.framesOut = ni.framesOut \o W
            /\ Len(W) = Len(ni.pending[ip])
            /\ \A k \in DOMAIN W : ~ CarriesARP(W[k]) /\ W[k].dgram = ni.pending[ip][k]
      BY <2>2
    <3>2. next.framesOut = W
      <4>1. <<>> \o W = W
        OBVIOUS
      <4> QED
        BY <1>17, <3>1, <4>1
    <3> DEFINE u == before.wait
               v == after.wait
               x == before.out
               y == after.out
               none == << >>
               t == x[i] \o W
    <3>3. /\ u = [j \in 1 .. Ports |-> u[j]] /\ v = [j \in 1 .. Ports |-> v[j]]
          /\ x = [j \in 1 .. Ports |-> x[j]] /\ y = [j \in 1 .. Ports |-> y[j]]
          /\ after.in = [j \in 1 .. Ports |-> after.in[j]]
          /\ before.in = [j \in 1 .. Ports |-> before.in[j]]
      <4>1. x \in [1 .. Ports -> Seq(Frames)]
        BY <1>14, <1>15 DEF Sent
      <4> QED
        BY <1>15, <4>1
    <3>4. /\ \A j \in 1 .. Ports : j # i => v[j] = u[j]
          /\ \A j \in 1 .. Ports : j # i => y[j] = x[j]
          /\ u[i] = ni.pending /\ v[i] = [u[i] EXCEPT ![ip] = none]
          /\ y[i] = t
      BY <1>17, <2>2, <3>2
    <3>5. after.in = before.in
      BY ONLY <1>17, <3>3
    <3>6. /\ Len(W) = Len(before.wait[i][ip])
          /\ \A k \in DOMAIN W : ~ CarriesARP(W[k]) /\ W[k].dgram = before.wait[i][ip][k]
      BY <3>1, <3>4
    <3> HIDE DEF none, u, v, x, y
    <3>7. v = [u EXCEPT ![i][ip] = none]
      BY ONLY <3>3, <3>4, i \in 1 .. Ports
    <3>8. y = [x EXCEPT ![i] = @ \o W]
      <4> HIDE DEF t
      <4>1. y = [x EXCEPT ![i] = t]
        BY ONLY <3>3, <3>4, i \in 1 .. Ports
      <4> QED
        BY <4>1 DEF t
    <3>9. /\ after.wait = [before.wait EXCEPT ![i][ip] = <<>>]
          /\ after.out = [before.out EXCEPT ![i] = @ \o W]
      BY <3>7, <3>8 DEF u, v, x, y, none
    <3>10. /\ W \in Seq(Frames) /\ i \in 1 .. Ports /\ ip \in IPs
      BY <1>3
    <3>11. Flushed(before, after, i, ip, W)
      BY ONLY <3>5, <3>6, <3>9 DEF Flushed
    <3> QED
      BY ONLY <1>16, <3>10, <3>11, FlushForwards
  <2> QED
    BY <1>5, <2>1, <2>2 DEF Flushes
<1>20. Forwards(Held', {}, router'.table, arrived')
  BY <1>1, <1>9, <1>19 DEF after
<1> QED
  BY <1>11, <1>13, <1>20 DEF FInv

LEMMA NextKeepsFInv ==
  ASSUME FInv, [Next]_vars
  PROVE  FInv'
<1>1. IInv'
  BY NextKeepsIInv DEF FInv
<1>2. ASSUME NEW route \in Offered, Add(route) PROVE FInv'
  BY <1>1, <1>2, AddForwards
<1>3. ASSUME NEW i \in 1 .. Ports, NEW dst \in Dsts, NEW ttl \in Ttls, Arrive(i, dst, ttl)
      PROVE  FInv'
  BY <1>1, <1>3, ArriveForwards
<1>4. ASSUME NEW i \in 1 .. Ports, NEW ip \in Neighbours, Hear(i, ip) PROVE FInv'
  BY <1>1, <1>4, HearForwards
<1>5. CASE Route
  BY <1>1, <1>5, RouteKeeps
<1>6. CASE UNCHANGED vars
  <2>1. router' = router /\ sent' = sent /\ arrived' = arrived /\ Held' = Held
    BY <1>6 DEF vars, Held
  <2>2. Forwards(Held, {}, router.table, arrived) /\ InterfacesSound(router) /\ sent \in Sent
    BY DEF FInv
  <2>3. Forwards(Held', {}, router'.table, arrived') /\ InterfacesSound(router') /\ sent' \in Sent
    BY <2>1, <2>2
  <2> QED
    BY <1>1, <2>3 DEF FInv
<1> QED
  BY <1>2, <1>3, <1>4, <1>5, <1>6 DEF Next

\* No datagram is in two places or leaves twice, for every number of ports, every
\* table and every order of arrivals, answers and calls of route(); each that has
\* been routed has aged by one hop, is not dead, and went to a port that a route
\* for its destination names (router.cc:44-81).
THEOREM ForwardedOnceHolds == Spec => []ForwardedOnce
<1>1. Init => FInv
  BY InitEstablishesFInv
<1>2. FInv /\ [Next]_vars => FInv'
  BY NextKeepsFInv
<1>3. FInv => ForwardedOnce
  <2> SUFFICES ASSUME FInv PROVE ForwardedOnce
    OBVIOUS
  <2>1. Forwards(Held, {}, router.table, arrived)
    BY DEF FInv
  <2>2. \A p, q \in Places(Held) : p # q => At(Held, p).number # At(Held, q).number
    BY <2>1 DEF Forwards
  <2>3. \A p \in Places(Held) : p.line # In => Routed(router.table, p.port, At(Held, p))
    BY <2>1 DEF Forwards
  <2>4. \A i, dgram : Routed(router.table, i, dgram) =>
          \E j \in Matching(dgram.dst) : router.table[j].interface = i
    BY DEF Routed, Matching
  <2> QED
    BY <2>2, <2>3, <2>4 DEF ForwardedOnce, Routed
<1> QED
  BY <1>1, <1>2, <1>3, PTL DEF Spec
=============================================================================
