------------------------- MODULE StreamReassembler -------------------------
(***************************************************************************)
(* stream_reassembler.hh / stream_reassembler.cc as written: the stored    *)
(* excerpts are the nodes of a std::map whose keys [first, last) are       *)
(* compared by struct comp, which narrows both ends to int.                *)
(* The map is the sequence t of its nodes in iteration order.              *)
(***************************************************************************)
EXTENDS ByteStream, WrappingIntegers
SE == INSTANCE SequencesExt

CONSTANT IntRange   \* 2^32, the number of int values

ASSUME IntAssumption == IntRange \in Nat /\ IntRange % 2 = 0 /\ IntRange > 0

NoEof2 == SizeT(-1)

NewTree(capacity) ==
  [capacity |-> capacity, out |-> NewByteStream(capacity), szUnasb |-> 0,
   unread |-> 0, unasb |-> 0, eof2 |-> NoEof2, t |-> <<>>]

Node(first, last, data) == [first |-> first, last |-> last, data |-> data]

\* std::string::substr(pos, len)
Substr(data, pos, len) == SubSeq(data, pos + 1, Smaller(pos + len, Len(data)))
-----------------------------------------------------------------------------
\* size_t to int, and struct comp: both ends must be smaller, so that keys that
\* overlap are equivalent.
ToInt(x) == ((x + IntRange \div 2) % IntRange) - IntRange \div 2

Less(a, b) == ToInt(a.first) < ToInt(b.first) /\ ToInt(a.last) < ToInt(b.last)

\* t[key] = data: an equivalent key already there keeps its bounds.
MapPut(t, n) ==
  LET lower == {i \in 1 .. Len(t) : ~ Less(t[i], n)}
      p     == IF lower = {} THEN Len(t) + 1
               ELSE CHOOSE i \in lower : \A j \in lower : i <= j
  IN  IF p <= Len(t) /\ ~ Less(n, t[p])
      THEN [t EXCEPT ![p].data = n.data]
      ELSE SE!InsertAt(t, p, n)
-----------------------------------------------------------------------------
\* What falls before node c of the map: the next piece, if there is a gap there.
\* acc holds the index reached, whether the scan is over, and the pieces so far.
Piece(data, index, from, to) == Node(from, to, Substr(data, from - index, to - from))

ScanNode(acc, c, data, index, endidx) ==
  IF acc.done THEN acc
  ELSE [idx  |-> Larger(acc.idx, c.last),
        done |-> c.last >= endidx,
        cut  |-> IF acc.idx < c.first
                 THEN Append(acc.cut, Piece(data, index, acc.idx, Smaller(c.first, endidx)))
                 ELSE acc.cut]

PiecesOverStored(s, data, index, endidx) ==  \* faulty variant
  <<Node(Larger(s.unasb, index), endidx,
         Substr(data, Larger(s.unasb, index) - index,
                endidx - Larger(s.unasb, index)))>>

\* The pieces of data that fall into the gaps between the stored nodes.
Pieces(s, data, index, endidx) ==
  LET scan[i \in 0 .. Len(s.t)] ==
        IF i = 0 THEN [idx |-> Larger(s.unasb, index), done |-> FALSE, cut |-> <<>>]
        ELSE ScanNode(scan[i - 1], s.t[i], data, index, endidx)
      end == scan[Len(s.t)]
  IN  IF end.idx < endidx THEN Append(end.cut, Piece(data, index, end.idx, endidx))
      ELSE end.cut

\* Erase the first node of the map if it starts where the output ends.
EraseFirst(s) ==
  IF s.t # <<>> /\ Head(s.t).first = s.unasb
  THEN [s EXCEPT !.out = Write(@, Head(s.t).data),
                 !.unasb = @ + Len(Head(s.t).data),
                 !.szUnasb = SizeT(@ - Len(Head(s.t).data)),
                 !.t = Tail(@)]
  ELSE s

\* The loop goes round once for each node at most.
Drain(s) ==
  LET drain[i \in 0 .. Len(s.t)] == IF i = 0 THEN s ELSE EraseFirst(drain[i - 1])
  IN  drain[Len(s.t)]

EndTree(s) ==
  IF s.unasb = s.eof2
  THEN [s EXCEPT !.eof2 = NoEof2, !.out = EndInput(@)]
  ELSE s

PutNode(s, n) == [s EXCEPT !.t = MapPut(@, n), !.szUnasb = @ + Len(n.data)]

\* The map after the pieces have been inserted.
InsertAll(s, cut) ==
  LET put[i \in 0 .. Len(cut)] == IF i = 0 THEN s ELSE PutNode(put[i - 1], cut[i])
  IN  put[Len(cut)]

UnreadKept(s) == s.unread  \* faulty variant
UnreadNow(s) == s.out.totRead

\* Where the part of an excerpt that there is room for ends.
EndIdxWithoutLimit(s, data, index) == SizeT(index + Len(data))  \* faulty variant
EndIdx(s, data, index) == Smaller(SizeT(index + Len(data)), s.unread + s.capacity)

EofIfInOrder(s, data, index, eof) ==  \* faulty variant
  IF eof /\ index <= s.unasb THEN SizeT(index + Len(data)) ELSE s.eof2
EofAfter(s, data, index, eof) ==
  IF eof THEN SizeT(index + Len(data)) ELSE s.eof2

PushTree(s0, data, index, eof) ==
  LET s == [s0 EXCEPT !.unread = UnreadNow(s0),
                      !.eof2 = EofAfter(s0, data, index, eof)]
      endidx == EndIdx(s, data, index)
  IN  IF endidx <= Larger(s.unasb, index) THEN EndTree(s)
      ELSE EndTree(Drain(InsertAll(s, Pieces(s, data, index, endidx))))

ReadTree(s, n) == [s EXCEPT !.out = PopOutput(@, n)]
=============================================================================
