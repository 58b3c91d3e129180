------------------------ MODULE TCPSpongeSocketSpec ------------------------
(***************************************************************************)
(* A TCPSpongeSocket, the owner that holds it and a peer on the network.   *)
(* The owner and the TCPConnection's thread share the pair of local        *)
(* sockets, and the flag _abort; while connect or listen_and_accept runs   *)
(* the loop is the owner's own.  The peer is any program that numbers its  *)
(* segments as TCP does: it may answer or not, end its stream early        *)
(* or reset, and the network may lose what the socket sends.               *)
(***************************************************************************)
EXTENDS TCPSpongeSocket

CONSTANTS
  OwnerLen, PeerLen,   \* bounds of the model: bytes the owner and the peer send,
  MaxInbox,            \* segments that wait for the adapter,
  PeerWindow,          \* window the peer advertises
  TickMs               \* TCP_TICK_MS

ASSUME SocketAssumption ==
  /\ {OwnerLen, PeerLen, MaxInbox, PeerWindow} \subseteq Nat
  /\ TickMs \in Nat \ {0}

VARIABLES
  k,      \* what the rules work on
  loop,   \* the event loop
  pc,     \* where the loop is
  owner,  \* the owner: where it is, what it has written and read
  peer    \* the peer: positions sent, positions heard of and acknowledged

vars == <<k, loop, pc, owner, peer>>

Init ==
  /\ k = NewSocket
  /\ loop = NewLoop
  /\ pc = "idle"
  /\ owner = [at |-> "new", written |-> 0, read |-> <<>>, shut |-> FALSE, sawEof |-> FALSE]
  /\ peer = [sent |-> 0, heard |-> 0, told |-> 0, fin |-> FALSE, reset |-> FALSE]

Alive == k.died = "no"
Aborted == owner.at = "destroying"
InOpening == owner.at \in {"connecting", "listening"}
-----------------------------------------------------------------------------
(* The owner. *)

OwnerAct(at) == Alive /\ owner.at = at

OwnerConnect ==
  /\ OwnerAct("new")
  /\ k' = [k EXCEPT !.tcp = Connect(@)]
  /\ owner' = [owner EXCEPT !.at = "connecting"]
  /\ pc' = "setup"
  /\ UNCHANGED <<loop, peer>>

OwnerListen ==
  /\ OwnerAct("new")
  /\ owner' = [owner EXCEPT !.at = "listening"]
  /\ pc' = "setup"
  /\ UNCHANGED <<k, loop, peer>>

OwnerWrite ==
  /\ OwnerAct("open") /\ ~ owner.shut
  /\ owner.written < OwnerLen
  /\ CanTakeMore(k.pair, Owner) /\ ~ k.pair.shut[Thread]
  /\ k' = [k EXCEPT !.pair = AfterWrite(@, Owner, <<owner.written>>)]
  /\ owner' = [owner EXCEPT !.written = @ + 1]
  /\ UNCHANGED <<loop, pc, peer>>

OwnerShutWr ==
  /\ OwnerAct("open") /\ ~ owner.shut
  /\ k' = [k EXCEPT !.pair = ShutWr(@, Owner)]
  /\ owner' = [owner EXCEPT !.shut = TRUE]
  /\ UNCHANGED <<loop, pc, peer>>

OwnerRead ==
  /\ OwnerAct("open") /\ ~ owner.sawEof
  /\ Readable(k.pair, Owner)
  /\ k' = [k EXCEPT !.pair = AfterRead(@, Owner, PipeSize)]
  /\ owner' = [owner EXCEPT !.read = @ \o BytesRead(k.pair, Owner, PipeSize),
                            !.sawEof = ReadsEof(k.pair, Owner, PipeSize)]
  /\ UNCHANGED <<loop, pc, peer>>

\* wait_until_closed, called as tcp_sponge_socket.hh:65-66 advises: at end of file.
OwnerWait ==
  /\ OwnerAct("open") /\ owner.sawEof
  /\ k' = [k EXCEPT !.pair = ShutRdwr(@)]
  /\ owner' = [owner EXCEPT !.at = "waiting"]
  /\ UNCHANGED <<loop, pc, peer>>

\* The destructor, at any time after connect or listen_and_accept.
OwnerDestroy ==
  /\ OwnerAct("open")
  /\ owner' = [owner EXCEPT !.at = "destroying"]
  /\ UNCHANGED <<k, loop, pc, peer>>

\* Either has joined the thread.
OwnerJoined ==
  /\ Alive /\ owner.at \in {"waiting", "destroying"} /\ pc = "done"
  /\ owner' = [owner EXCEPT !.at = "gone"]
  /\ UNCHANGED <<k, loop, pc, peer>>
-----------------------------------------------------------------------------
(* The loop: the owner's while it connects or listens, then the thread's. *)

LoopAct(at) == Alive /\ pc = at

StillOpening ==
  IF owner.at = "connecting" THEN StillConnecting(k) ELSE StillListening(k)

\* connect or listen_and_accept leaves the loop and starts the thread.
Opened ==
  /\ InOpening
  /\ LoopAct("exit") \/ (LoopAct("setup") /\ ~ StillOpening)
  /\ owner' = [owner EXCEPT !.at = "open"]
  /\ pc' = "setup"
  /\ UNCHANGED <<k, loop, peer>>

TurnBegins ==
  /\ LoopAct("setup") /\ (InOpening => StillOpening)
  /\ LET set == SetUpSocket(k, loop.rules) IN
     /\ k' = set.w
     /\ loop' = [loop EXCEPT !.rules = set.rules, !.polled = set.polled]
     /\ pc' = IF NothingToPoll(set.polled) THEN "exit" ELSE "poll"
  /\ UNCHANGED <<owner, peer>>

Returns == PollReturns(loop.rules, loop.polled, Ready(k), HungUpRules(k))

PollSucceeds ==
  /\ LoopAct("poll") /\ Returns
  /\ loop' = Polled(k, loop)
  /\ pc' = "serve"
  /\ UNCHANGED <<k, owner, peer>>

\* The highest position of the stream that has reached the peer, with those of the
\* segments.
Heard(segs) ==
  Larger(peer.heard,
    LET ends == {segs[i].seqno + LengthInSequenceSpace(segs[i]) : i \in DOMAIN segs}
    IN  IF ends = {} THEN 0 ELSE CHOOSE n \in ends : \A m \in ends : m <= n)

\* One rule is served; what rule 4 sends reaches the peer or is lost.
ServeRule ==
  /\ LoopAct("serve") /\ loop.todo # <<>>
  /\ LET served == ServeSocket(k, loop) IN
     /\ k' = [served EXCEPT !.wire = <<>>]
     /\ peer' \in {peer} \cup
                  (IF peer.reset THEN {} ELSE {[peer EXCEPT !.heard = Heard(served.wire)]})
  /\ loop' = Rest(loop)
  /\ UNCHANGED <<pc, owner>>

\* wait_next_event has returned, ms after the last tick.
TurnEnds(ms) ==
  /\ \/ LoopAct("serve") /\ loop.todo = <<>>
     \/ LoopAct("poll") /\ ~ Returns /\ ms = TickMs   \* the timeout
  /\ ~ Aborted
  /\ k' = AfterWait(k, ms)
  /\ loop' = TurnOver(loop)
  /\ pc' = "setup"
  /\ UNCHANGED <<owner, peer>>

\* The end of _tcp_main.
ThreadEnds ==
  /\ ~ InOpening
  /\ \/ LoopAct("exit")
     \/ Aborted /\ LoopAct("serve") /\ loop.todo = <<>>
     \/ Aborted /\ LoopAct("poll") /\ ~ Returns
  /\ k' = [k EXCEPT !.pair = ShutRdwr(@)]
  /\ loop' = TurnOver(loop)
  /\ pc' = "done"
  /\ UNCHANGED <<owner, peer>>
-----------------------------------------------------------------------------
(* The peer. *)

\* What the peer sends is acknowledged and numbered as TCP does.
Numbered(seg) ==
  [seg EXCEPT !.seqno = peer.sent, !.ack = peer.heard > 0, !.ackno = peer.heard,
              !.win = PeerWindow]

Sends(seg) ==
  /\ Alive /\ ~ peer.reset /\ owner.at # "new" /\ pc # "done"
  /\ Len(k.inbox) < MaxInbox
  /\ k' = [k EXCEPT !.inbox = Append(@, Numbered(seg))]
  /\ peer' = [peer EXCEPT !.sent = @ + LengthInSequenceSpace(seg), !.told = peer.heard,
                          !.fin = @ \/ seg.fin, !.reset = seg.rst]
  /\ UNCHANGED <<loop, pc, owner>>

PeerSyn == peer.sent = 0 /\ Sends([EmptySegment EXCEPT !.syn = TRUE])

\* A byte, or all that are left and the FIN with them.
PeerData ==
  /\ peer.sent \in 1 .. PeerLen /\ ~ peer.fin
  /\ \E n \in {1, PeerLen + 1 - peer.sent} :
       Sends([EmptySegment EXCEPT !.payload = [i \in 1 .. n |-> peer.sent - 2 + i],
                                  !.fin = (n > 1)])

PeerFin == peer.sent > 0 /\ ~ peer.fin /\ Sends([EmptySegment EXCEPT !.fin = TRUE])

PeerAck == peer.sent > 0 /\ peer.told < peer.heard /\ Sends(EmptySegment)

PeerReset == Sends([EmptySegment EXCEPT !.rst = TRUE])

OwnerNext ==
  \/ OwnerConnect \/ OwnerListen \/ OwnerWrite \/ OwnerShutWr \/ OwnerRead
  \/ OwnerWait \/ OwnerDestroy \/ OwnerJoined
LoopNext ==
  \/ Opened \/ TurnBegins \/ PollSucceeds \/ ServeRule \/ ThreadEnds
  \/ \E ms \in {0, TickMs} : TurnEnds(ms)
PeerNext == PeerSyn \/ PeerData \/ PeerFin \/ PeerAck \/ PeerReset

Next == OwnerNext \/ LoopNext \/ PeerNext

(***************************************************************************)
(* The operating system runs the loop and the clock it reads goes on;      *)
(* nothing is assumed of the owner, of the peer or of the network.  The    *)
(* two conjuncts are WF_vars(LoopNext) and SF_vars(TurnEnds(TickMs)), with *)
(* ENABLED written out and LoopNext told by what only its steps change.    *)
(***************************************************************************)
LoopCanGoOn == Alive /\ pc \notin {"idle", "done"}
TurnCanEnd ==
  /\ ~ Aborted
  /\ (LoopAct("serve") /\ loop.todo = <<>>) \/ (LoopAct("poll") /\ ~ Returns)

Fairness ==
  /\ []<>(~ LoopCanGoOn) \/ []<><<pc' # pc \/ loop' # loop>>_vars
  /\ <>[](~ TurnCanEnd) \/ []<><<TurnEnds(TickMs)>>_vars

Spec == Init /\ [][Next]_vars /\ Fairness
-----------------------------------------------------------------------------
Count(n) == [i \in 1 .. n |-> i - 1]

\* The bytes of the peer that the socket has taken, wherever they are by now.
Inward == owner.read \o k.pair.data[Owner] \o Inbound(k.tcp).buf

\* Nothing is lost, repeated or put out of order between the owner and the
\* connection: the bytes on their way outward follow those that the connection
\* has taken, and what the owner has read is followed by what is in the pair and
\* in the stream (rules 2 and 3, tcp_sponge_socket.cc:94-152).
BetweenOwnerAndConnection ==
  Alive =>
    /\ Count(owner.written) = Count(Outbound(k.tcp).totWrite) \o k.pair.data[Thread]
    /\ Inward = Count(Inbound(k.tcp).totWrite)

\* The owner reads end of file only if the peer's stream was complete and all of it
\* has been read, or there was an error, or the connection had stopped by itself
\* (rule 3 and _tcp_main, tcp_sponge_socket.cc:123-152, 265).
EofExplained ==
  Alive /\ owner.sawEof =>
    \/ peer.fin /\ Len(owner.read) = Inbound(k.tcp).totWrite
    \/ Inbound(k.tcp).error
    \/ pc = "done" /\ ~ Active(k.tcp) /\ OutboundDone(k.tcp)

StepsOfRFC793 ==
  {<<"LISTEN", "SYN_SENT">>, <<"LISTEN", "SYN_RCVD">>,
   <<"SYN_SENT", "SYN_RCVD">>, <<"SYN_SENT", "ESTABLISHED">>,
   <<"SYN_RCVD", "ESTABLISHED">>, <<"SYN_RCVD", "FIN_WAIT_1">>,
   <<"ESTABLISHED", "FIN_WAIT_1">>, <<"ESTABLISHED", "CLOSE_WAIT">>,
   <<"FIN_WAIT_1", "FIN_WAIT_2">>, <<"FIN_WAIT_1", "CLOSING">>,
   <<"FIN_WAIT_1", "TIME_WAIT">>, <<"FIN_WAIT_2", "TIME_WAIT">>,
   <<"CLOSING", "TIME_WAIT">>, <<"CLOSE_WAIT", "LAST_ACK">>,
   <<"LAST_ACK", "CLOSED">>, <<"TIME_WAIT", "CLOSED">>}

\* One, two or three steps.
Follows(r, s) ==
  {p \in (DOMAIN Official) \X (DOMAIN Official) :
     \E n \in DOMAIN Official : <<p[1], n>> \in r /\ <<n, p[2]>> \in s}
LaterInRFC793 ==
  LET two == Follows(StepsOfRFC793, StepsOfRFC793)
  IN  StepsOfRFC793 \cup two \cup Follows(two, StepsOfRFC793)

\* From one official state a connection comes to another only along the steps of
\* RFC 793 (several at once when one segment brings an ACK and a FIN), or by a
\* reset: it never goes back, and never from the active to the passive close
\* (tcp_state.hh:19-22).
OfficialSteps ==
  [][LET before == StateOf(k.tcp)
         after  == StateOf(k'.tcp)
     IN  before # after =>
           \A s, t \in DOMAIN Official :
             before = Official[s] /\ after = Official[t] =>
               t = "RESET" \/ <<s, t>> \in LaterInRFC793]_vars

\* The process is not ended by a write into a direction that has been shut down,
\* or by an exception, unless the connection has been reset
\* (tcp_sponge_socket.cc:94-146).
DiesOnlyByReset == Alive \/ Inbound(k.tcp).error

\* "TCPConnection::write() accepted less than advertised length" is never thrown
\* (tcp_sponge_socket.cc:103-105).
WriteAccepted == k.died # "short write"

\* The owner is in connect, or in a call that has yet to see the thread end.
InCall ==
  /\ Alive
  /\ owner.at \in {"connecting", "destroying", "waiting"}
  /\ pc # "done"

\* connect returns, whatever the peer does; once the destructor has asked the
\* thread to stop, or wait_until_closed has shut the socket down, the thread ends
\* (tcp_sponge_socket.cc:25-38, 178-200).
CallsReturn == []<>(~ InCall)
=============================================================================
