----------------------------- MODULE SocketPair -----------------------------
(***************************************************************************)
(* A pair of connected AF_UNIX stream sockets, and the methods of          *)
(* file_descriptor.cc and socket.cc by which the code uses its two ends.   *)
(* What the kernel does is modelled from these uses: bytes arrive in       *)
(* order; what was written before a shutdown can still be read; a write    *)
(* into a direction that is shut down raises SIGPIPE, which the code does  *)
(* not handle; writing nothing does nothing.                               *)
(***************************************************************************)
EXTENDS ByteStream

CONSTANT PipeSize   \* bytes the kernel holds in each direction

ASSUME PipeAssumption == PipeSize \in Nat \ {0}

Owner == "owner"     \* the application's end
Thread == "thread"   \* the end of the TCPConnection's thread
PairEnds == {Owner, Thread}
Facing(e) == IF e = Owner THEN Thread ELSE Owner

\* For each end the bytes on their way to it, and whether no more will come.
NewPair ==
  [data |-> [e \in PairEnds |-> <<>>], shut |-> [e \in PairEnds |-> FALSE]]
-----------------------------------------------------------------------------
Readable(pair, e) == pair.data[e] # <<>> \/ pair.shut[e]
RoomFrom(pair, e) == PipeSize - Len(pair.data[Facing(e)])
CanTakeMore(pair, e) == RoomFrom(pair, e) > 0
HungUp(pair, e) == \A f \in PairEnds : pair.shut[f]

\* FileDescriptor::read(limit): what it returns, whether it notes the end of file,
\* and the pair after it.
BytesRead(pair, e, limit) ==
  SubSeq(pair.data[e], 1, Smaller(limit, Len(pair.data[e])))

ReadsEof(pair, e, limit) == limit > 0 /\ pair.data[e] = <<>> /\ pair.shut[e]

AfterRead(pair, e, limit) ==
  [pair EXCEPT !.data[e] = SubSeq(@, Smaller(limit, Len(@)) + 1, Len(@))]

\* FileDescriptor::write(data, false): how much of it goes, and the pair after it.
BytesWritten(pair, e, data) == Smaller(Len(data), RoomFrom(pair, e))
Breaks(pair, e, data) == data # <<>> /\ pair.shut[Facing(e)]

AfterWrite(pair, e, data) ==
  [pair EXCEPT !.data[Facing(e)] = @ \o SubSeq(data, 1, BytesWritten(pair, e, data))]

\* Socket::shutdown(SHUT_WR) and (SHUT_RDWR)
ShutWr(pair, e) == [pair EXCEPT !.shut[Facing(e)] = TRUE]
ShutRdwr(pair) == [pair EXCEPT !.shut = [e \in PairEnds |-> TRUE]]
=============================================================================
