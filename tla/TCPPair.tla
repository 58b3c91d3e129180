------------------------------ MODULE TCPPair ------------------------------
(***************************************************************************)
(* Two endpoints, the applications above them and the network between      *)
(* them.  Each application writes its stream, ends it and reads; the       *)
(* network carries the segments one way or the other and may lose, repeat  *)
(* and reorder them, MaxFaults times in all.  Each endpoint has its own    *)
(* clock.                                                                  *)
(***************************************************************************)
EXTENDS TCPConnection

CONSTANTS
  Client, Server,   \* the two ends
  Openers,          \* the ends that call connect
  Isn,              \* initial sequence number of each end
  StreamLen,        \* bytes each application writes
  MayLose, MayRepeat, MayReorder,   \* what the network does to a segment
  MaxFaults,        \* bound of the model: how often
  MaxInFlight,      \* bound of the model: segments on the way in one direction
  PromptNetwork,    \* no clock ticks while a segment is on its way
  PromptApps        \* no clock ticks while an application has something to do

Ends == {Client, Server}
Other(e) == IF e = Client THEN Server ELSE Client

ASSUME PairAssumption ==
  /\ Client # Server
  /\ Openers \subseteq Ends
  /\ Isn \in [Ends -> RawValues]
  /\ StreamLen \in [Ends -> Nat]
  /\ {MayLose, MayRepeat, MayReorder, PromptNetwork, PromptApps} \subseteq BOOLEAN
  /\ {MaxFaults, MaxInFlight} \subseteq Nat

VARIABLES
  conn,    \* the TCPConnection at each end
  net,     \* segments on their way to each end, oldest first
  faults   \* segments lost, repeated or overtaken so far

vars == <<conn, net, faults>>

Init ==
  /\ conn = [e \in Ends |-> NewConnection(Isn[e])]
  /\ net = [e \in Ends |-> <<>>]
  /\ faults = 0
-----------------------------------------------------------------------------
Without(seq, i) == SubSeq(seq, 1, i - 1) \o SubSeq(seq, i + 1, Len(seq))

Fits(e, c) == Len(net[Other(e)]) + Len(c.segmentsOut) <= MaxInFlight

\* End e becomes c; the network takes what c has queued, after the segments rest
\* of those already on their way to e.
Become(e, c, rest) ==
  /\ Fits(e, c)
  /\ conn' = [conn EXCEPT ![e] = [c EXCEPT !.segmentsOut = <<>>]]
  /\ net' = [net EXCEPT ![e] = rest, ![Other(e)] = @ \o c.segmentsOut]

\* connect or listen_and_accept has returned, so the application has its socket.
Established(c) == HasAckno(c.receiver) /\ c.sender.acked > 0

CanConnect(e) == e \in Openers /\ conn[e].sender.nextSeqno = 0

AppConnect(e) ==
  /\ CanConnect(e)
  /\ Become(e, Connect(conn[e]), net[e])
  /\ UNCHANGED faults

Left(e) == StreamLen[e] - Outbound(conn[e]).totWrite

Unwritten(e) == [k \in 1 .. Left(e) |-> Outbound(conn[e]).totWrite + k - 1]

CanWrite(e) ==
  /\ Active(conn[e]) /\ Established(conn[e])
  /\ Left(e) > 0 /\ RemainingCapacity(Outbound(conn[e])) > 0

\* The application offers what it has left; write takes what fits.
AppWrite(e) ==
  /\ CanWrite(e)
  /\ Become(e, ConnectionWrite(conn[e], Unwritten(e)), net[e])
  /\ UNCHANGED faults

CanEnd(e) ==
  /\ Active(conn[e]) /\ Established(conn[e])
  /\ Left(e) = 0
  /\ ~ InputEnded(Outbound(conn[e]))

\* The application ends its stream when it has written all of it.
AppEnd(e) ==
  /\ CanEnd(e)
  /\ Become(e, EndInputStream(conn[e]), net[e])
  /\ UNCHANGED faults

CanRead(e) == BufferSize(Inbound(conn[e])) > 0

AppRead(e) ==
  /\ CanRead(e)
  /\ conn' = [conn EXCEPT ![e] = ConnectionRead(@, BufferSize(Inbound(@)))]
  /\ UNCHANGED <<net, faults>>

CanTick(e) ==
  /\ PromptNetwork => \A f \in Ends : net[f] = <<>>
  /\ PromptApps => \A f \in Ends : ~ (CanWrite(f) \/ CanEnd(f) \/ CanRead(f))
  /\ Active(conn[e]) /\ ~ Untouched(conn[e])

Tick(e) ==
  /\ CanTick(e)
  /\ Become(e, TickConnection(conn[e], 1), net[e])
  /\ UNCHANGED faults
-----------------------------------------------------------------------------
Deliver(e) ==
  /\ net[e] # <<>>
  /\ Become(e, SegmentReceived(conn[e], Head(net[e])), Tail(net[e]))
  /\ UNCHANGED faults

Overtake(e) ==
  \E i \in 2 .. Len(net[e]) :
    /\ MayReorder /\ faults < MaxFaults
    /\ Become(e, SegmentReceived(conn[e], net[e][i]), Without(net[e], i))
    /\ faults' = faults + 1

Repeat(e) ==
  \E i \in 1 .. Len(net[e]) :
    /\ MayRepeat /\ faults < MaxFaults
    /\ Become(e, SegmentReceived(conn[e], net[e][i]), net[e])
    /\ faults' = faults + 1

Lose(e) ==
  \E i \in 1 .. Len(net[e]) :
    /\ MayLose /\ faults < MaxFaults
    /\ net' = [net EXCEPT ![e] = Without(@, i)]
    /\ faults' = faults + 1
    /\ UNCHANGED conn

App(e) == AppConnect(e) \/ AppWrite(e) \/ AppEnd(e) \/ AppRead(e)
Network(e) == Deliver(e) \/ Overtake(e) \/ Repeat(e) \/ Lose(e)

Next == \E e \in Ends : App(e) \/ Tick(e) \/ Network(e)

(***************************************************************************)
(* The event loop runs at each end, the clocks tick, the network delivers  *)
(* what it does not lose, and the applications go on: every action but the *)
(* faults is weakly fair.  The later conjuncts are WF_vars of their action *)
(* with ENABLED <<action>>_vars written out, which TLC evaluates faster.   *)
(***************************************************************************)
Ticked(e) == TickConnection(conn[e], 1)
Received(e) == SegmentReceived(conn[e], Head(net[e]))

EnabledConnect(e) == CanConnect(e) /\ Fits(e, Connect(conn[e]))
EnabledWrite(e) == CanWrite(e) /\ Fits(e, ConnectionWrite(conn[e], Unwritten(e)))
EnabledEnd(e) == CanEnd(e) /\ Fits(e, EndInputStream(conn[e]))
EnabledTick(e) == CanTick(e) /\ Fits(e, Ticked(e)) /\ Ticked(e) # conn[e]
EnabledDeliver(e) == net[e] # <<>> /\ Fits(e, Received(e))

Fairness ==
  \A e \in Ends :
    /\ WF_vars(AppRead(e))
    /\ []<>(~ EnabledConnect(e)) \/ []<><<AppConnect(e)>>_vars
    /\ []<>(~ EnabledWrite(e)) \/ []<><<AppWrite(e)>>_vars
    /\ []<>(~ EnabledEnd(e)) \/ []<><<AppEnd(e)>>_vars
    /\ []<>(~ EnabledTick(e)) \/ []<><<Tick(e)>>_vars
    /\ []<>(~ EnabledDeliver(e)) \/ []<><<Deliver(e)>>_vars

Spec == Init /\ [][Next]_vars /\ Fairness
-----------------------------------------------------------------------------
Bytes == 0 .. Larger(StreamLen[Client], StreamLen[Server]) - 1

\* What an application reads is a prefix of what the other wrote, whatever the
\* network and the clocks do.
StreamsIntact ==
  \A e \in Ends :
    LET in == Inbound(conn[e]) IN
    /\ in.buf = [k \in 1 .. BufferSize(in) |-> in.totRead + k - 1]
    /\ in.totWrite <= Outbound(conn[Other(e)]).totRead

\* An end whose FIN is acknowledged, or that stops without an error, has had its whole
\* stream delivered, whatever the network and the clocks do.
DoneMeansDelivered ==
  \A e \in Ends :
    \/ OutboundDone(conn[e]) /\ conn[e].finsent
    \/ ~ Active(conn[e]) /\ ~ Inbound(conn[e]).error
    => InputEnded(Inbound(conn[Other(e)])) \/ Inbound(conn[Other(e)]).error

\* An end that stops without an error has had its own stream delivered and has
\* received the other's.
CleanClose ==
  \A e \in Ends :
    ~ Active(conn[e]) /\ ~ Inbound(conn[e]).error =>
      /\ OutboundDone(conn[e])
      /\ InputEnded(Inbound(conn[e]))

\* Both ends stop in the end, without a reset, having delivered both streams.
BothFinish ==
  <>[](\A e \in Ends :
         ~ Active(conn[e]) /\ ~ Inbound(conn[e]).error /\ Eof(Inbound(conn[e]))
         /\ Inbound(conn[e]).totRead = StreamLen[Other(e)])

\* Whatever is lost, neither end goes on for ever: a segment is retransmitted at
\* most MAX_RETX_ATTEMPTS times "before giving up" (tcp_config.hh:17).
BothStop == <>[](\A e \in Ends : Active(conn[e]) => Untouched(conn[e]))
=============================================================================
