----------------------- MODULE StreamReassemblerSpec -----------------------
(***************************************************************************)
(* The interval tree fed as in ReassemblySpec, and the mapping under which *)
(* it implements that specification.                                       *)
(***************************************************************************)
EXTENDS StreamReassembler, Reassembly   \* Reassembly for its Excerpt

CONSTANTS
  Capacity,    \* constructor argument
  StreamLen,   \* bytes in the stream
  MaxExcerpt   \* longest excerpt

ASSUME ReassemblyAssumption ==
  /\ Capacity \in Nat
  /\ StreamLen \in Nat
  /\ MaxExcerpt \in Nat
  /\ StreamLen + Capacity < Word - 1   \* no index comes near 2^64

VARIABLES
  s,      \* the StreamReassembler
  last    \* history: an excerpt flagged as the last one has been pushed

vars == <<s, last>>

Init ==
  /\ s = NewTree(Capacity)
  /\ last = FALSE

Push(from, len, eof) ==
  /\ from + len <= StreamLen
  /\ eof => from + len = StreamLen
  /\ s' = PushTree(s, Excerpt(from, len), from, eof)
  /\ last' = (last \/ eof)

PushAny ==
  \E from \in 0 .. StreamLen, len \in 0 .. MaxExcerpt, eof \in BOOLEAN :
    Push(from, len, eof)

Read ==
  \E n \in 1 .. BufferSize(s.out) :
    /\ s' = ReadTree(s, n)
    /\ UNCHANGED last

Next == PushAny \/ Read

-----------------------------------------------------------------------------
\* The indices of the bytes that the nodes of a map t hold, and the byte at one.
HeldBy(t) == UNION {t[i].first .. t[i].last - 1 : i \in DOMAIN t}

ByteAt(t, i) ==
  LET n == CHOOSE n \in DOMAIN t : i \in t[n].first .. t[n].last - 1
  IN  t[n].data[i - t[n].first + 1]

\* Weak fairness of Push(from, len, eof), its ENABLED written out: a push that
\* would change something is made again and again, or ceases to.
Repeats(from, len, eof) ==
  \/ []<>~(\/ PushTree(s, Excerpt(from, len), from, eof) # s
           \/ eof /\ ~ last)
  \/ []<><<Push(from, len, eof)>>_vars

\* A sender retransmits every byte, and the end; the application keeps reading.
Fairness ==
  /\ \A i \in 0 .. StreamLen - 1 : Repeats(i, 1, FALSE)
  /\ Repeats(StreamLen, 0, TRUE)
  /\ WF_vars(Read)

Spec == Init /\ [][Next]_vars /\ Fairness
-----------------------------------------------------------------------------
\* Each node is as long as its key says, the nodes are disjoint and in order,
\* and the first does not start where the output ends; szUnasb counts the bytes
\* they hold, once each (stream_reassembler.hh:53-57).
TreeOK ==
  /\ \A i \in DOMAIN s.t :
       /\ s.t[i].first < s.t[i].last
       /\ Len(s.t[i].data) = s.t[i].last - s.t[i].first
       /\ s.t[i].first > IF i = 1 THEN s.unasb ELSE s.t[i - 1].last - 1
  /\ s.szUnasb = Cardinality(HeldBy(s.t))

\* Forget how the stored bytes are cut into nodes.
Abstract(x) ==
  [capacity |-> x.capacity, out |-> x.out, unasb |-> x.unasb, eof2 |-> x.eof2,
   stored |-> [i \in HeldBy(x.t) |-> ByteAt(x.t, i)]]

Abs == INSTANCE ReassemblySpec WITH r <- Abstract(s)

\* The tree implements the abstract reassembler: every call on it is a call on
\* that one (push_substring, stream_reassembler.cc:23-65).  Fairness is left
\* out: it is the caller's, the same in both specifications.
Implements == Abs!Spec

\* What ReassemblySpec promises, of the tree.  The excerpts come out in the order
\* of the stream, each stored byte waiting at its own index
\* (push_substring, stream_reassembler.cc:37-60).
InOrder == Abs!InOrder

\* Unread and stored bytes share the capacity (stream_reassembler.hh:33-34).
WithinCapacity == Abs!WithinCapacity

\* The output is ended when, and only when, the end has been announced and all
\* before it assembled (stream_reassembler.cc:27-36, 61-64).
EndedIffComplete == Abs!EndedIffComplete

\* Under retransmission the whole stream is delivered and ended: the window
\* slides as the reader reads (stream_reassembler.cc:24-26).
Delivered == Abs!Delivered
=============================================================================
