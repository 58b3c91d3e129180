-------------------------- MODULE TCPSpongeSocket --------------------------
(***************************************************************************)
(* tcp_sponge_socket.hh / tcp_sponge_socket.cc: the four event-loop rules  *)
(* that join a TCPConnection to a pair of local sockets, whose other end   *)
(* the owner holds, and to a datagram adapter.  The record k is all that   *)
(* the rules read and write.                                               *)
(***************************************************************************)
EXTENDS TCPState, SocketPair, EventLoop

NewSocket ==
  [tcp |-> NewConnection(0), pair |-> NewPair, eof |-> FALSE,
   outboundShutdown |-> FALSE, inboundShutdown |-> FALSE,
   inbox |-> <<>>,    \* segments that the adapter's socket holds
   wire |-> <<>>,     \* segments given to the adapter, not yet taken by the network
   died |-> "no"]     \* how the process has ended, if it has

Dies(k, why) == [k EXCEPT !.died = why]


Rules == <<"DatagramIn", "DataIn", "DataOut", "DatagramOut">>
-----------------------------------------------------------------------------
Interested(k, r) ==
  LET in == Inbound(k.tcp) IN
  CASE r = "DatagramIn" -> Active(k.tcp)
    [] r = "DataIn" -> /\ Active(k.tcp) /\ ~ k.outboundShutdown
                       /\ RemainingCapacity(Outbound(k.tcp)) > 0
    [] r = "DataOut" -> \/ ~ BufferEmpty(in)
                        \/ (Eof(in) \/ in.error) /\ ~ k.inboundShutdown
    [] r = "DatagramOut" -> k.tcp.segmentsOut # <<>>

\* What poll reports for each rule's descriptor.
Ready(k) ==
  {r \in {"DatagramIn"} : k.inbox # <<>>}
  \cup {r \in {"DataIn"} : Readable(k.pair, Thread)}
  \cup {r \in {"DataOut"} : CanTakeMore(k.pair, Thread)}
  \cup {"DatagramOut"}
HungUpRules(k) ==
  {r \in {"DataIn", "DataOut"} : HungUp(k.pair, Thread)}

\* Only rule 2 watches a descriptor for reading that can come to an end.
Defunct(k, r) == r = "DataIn" /\ k.eof
-----------------------------------------------------------------------------
\* Rule 1.
DatagramIn(k) ==
  [k EXCEPT !.inbox = Tail(@), !.tcp = SegmentReceived(@, Head(k.inbox))]

\* Rule 2, also when it is cancelled.
EndOutbound(k) ==
  [k EXCEPT !.tcp = EndInputStream(@), !.outboundShutdown = TRUE]

\* The bytes that TCPConnection::write takes.
Takes(c, data) == IF Active(c) THEN Writable(Outbound(c), data) ELSE 0

OfferFromPair(k) == RemainingCapacity(Outbound(k.tcp))

DataIn(k) ==
  LET n    == OfferFromPair(k)
      data == BytesRead(k.pair, Thread, n)
      read == [k EXCEPT !.pair = AfterRead(@, Thread, n),
                        !.tcp = ConnectionWrite(@, data),
                        !.eof = ReadsEof(k.pair, Thread, n)]
  IN  IF Takes(k.tcp, data) # Len(data) THEN Dies(read, "short write")
      ELSE IF read.eof THEN EndOutbound(read) ELSE read

\* Rule 3.  The stream is over when it has ended and been read, or is in error,
\* whatever of it is still unread then.
OverWhenEnded(in) == InputEnded(in) \/ in.error  \* faulty variant
InboundOver(in) == Eof(in) \/ in.error

PoppedAll(k, data) == Len(data)  \* faulty variant
PoppedAsWritten(k, data) == BytesWritten(k.pair, Thread, data)

DataOut(k) ==
  LET in   == Inbound(k.tcp)
      data == PeekOutput(in, BufferSize(in))
      sent == [k EXCEPT
                !.pair = AfterWrite(@, Thread, data),
                !.tcp = ConnectionRead(@, PoppedAsWritten(k, data))]
  IN  IF Breaks(k.pair, Thread, data) THEN Dies(k, "broken pipe")
      ELSE IF InboundOver(Inbound(sent.tcp))
      THEN [sent EXCEPT !.pair = ShutWr(@, Thread), !.inboundShutdown = TRUE]
      ELSE sent

\* Rule 4.
DatagramOut(k) ==
  [k EXCEPT !.wire = @ \o k.tcp.segmentsOut, !.tcp.segmentsOut = <<>>]

Callback(k, r) ==
  CASE r = "DatagramIn" -> DatagramIn(k)
    [] r = "DataIn" -> DataIn(k)
    [] r = "DataOut" -> DataOut(k)
    [] r = "DatagramOut" -> DatagramOut(k)

\* Each callback reads or writes its descriptor.
Served(k, r) == TRUE

Cancel(k, r) == IF r = "DataIn" THEN EndOutbound(k) ELSE k

(***************************************************************************)
(* A turn of wait_next_event: rules is the list of rules, polled those     *)
(* that are polled until poll returns, and todo the results that are       *)
(* still to be acted on: a rule, and whether it is defunct.                *)
(***************************************************************************)
NewLoop == [rules |-> Rules, polled |-> {}, todo |-> <<>>]

SetUpSocket(k, rules) == SetUp(k, rules, Defunct, Interested, Cancel)

\* The rules whose results ask for something are served in order.
Polled(k, loop) ==
  LET hung   == {r \in loop.polled : IsDefunct(r, loop.polled, Ready(k), HungUpRules(k))}
      ready  == {r \in loop.polled : IsReady(r, loop.polled, Ready(k))}
      asking == Those(loop.rules, hung \cup ready)
  IN  [loop EXCEPT !.polled = {},
         !.todo = [i \in DOMAIN asking |->
                     [rule |-> asking[i], defunct |-> asking[i] \in hung]]]

\* The result at the head of todo.
ServeSocket(k, loop) ==
  LET r == Head(loop.todo).rule IN
  IF Head(loop.todo).defunct THEN Cancel(k, r)
  ELSE IF BusyWait(k, r, Served, Callback, Interested) THEN Dies(k, "busy wait")
  ELSE Callback(k, r)

Rest(loop) ==
  [loop EXCEPT !.todo = Tail(@),
     !.rules = IF Head(loop.todo).defunct THEN Erased(@, Head(loop.todo).rule) ELSE @]

TurnOver(loop) == [NewLoop EXCEPT !.rules = loop.rules]

AfterWaitIdle(k, ms) == k  \* faulty variant

\* _tcp_loop, after wait_next_event.
AfterWait(k, ms) == IF Active(k.tcp) THEN [k EXCEPT !.tcp = TickConnection(@, ms)] ELSE k

\* The conditions under which connect and listen_and_accept stay in the loop.
StillConnecting(k) == Is(k.tcp, "SYN_SENT")
StillListening(k) == \E s \in {"LISTEN", "SYN_RCVD", "SYN_SENT"} : Is(k.tcp, s)
=============================================================================
