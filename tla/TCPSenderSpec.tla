--------------------------- MODULE TCPSenderSpec ---------------------------
(***************************************************************************)
(* A sender between an application and the acknowledgments of a peer.      *)
(* An acknowledgment names any position up to one past what was sent       *)
(* (old, repeated, of part of a segment, of what was never sent), with any *)
(* window.  The owner takes what each call has queued before the next one, *)
(* as TCPConnection does (tcp_connection.cc:40-63): segmentsOut holds what *)
(* the last call queued.                                                   *)
(***************************************************************************)
EXTENDS TCPSender

CONSTANTS
  Isn,           \* initial sequence number
  SendCapacity,  \* capacity of the outbound stream
  StreamLen,     \* bytes the application writes
  Windows,       \* window sizes the peer advertises
  Milliseconds,  \* arguments of tick
  MaxRetx,       \* bound of the model: crtx at which the owner gives up
  MaxRto         \* bound of the model: largest timeout explored

ASSUME SenderSpecAssumption ==
  /\ Isn \in RawValues /\ SendCapacity \in Nat /\ StreamLen \in Nat
  /\ MaxRetx \in Nat /\ MaxRto \in Nat
  /\ 2 * MaxRto < UIntRange   \* no timeout overflows within the bound
  /\ Windows \subseteq Nat /\ Milliseconds \subseteq Nat \ {0}
  /\ 2 * (StreamLen + 3) < Round   \* no acknowledgment is half a round old

VARIABLE snd   \* the TCPSender
vars == <<snd>>

Byte == 0 .. StreamLen - 1
FinPosition == StreamLen + 1

\* The sender with its queue emptied by the owner.
Taken == [snd EXCEPT !.segmentsOut = <<>>]

Init == snd = NewSender(Isn, SendCapacity)

\* Byte number i of the stream is i itself.
AppWrite ==
  \E n \in 1 .. Smaller(StreamLen - snd.stream.totWrite, snd.stream.rem) :
    /\ ~ InputEnded(snd.stream)
    /\ snd' = [Taken EXCEPT !.stream =
                 Write(@, [k \in 1 .. n |-> snd.stream.totWrite + k - 1])]

AppEnd ==
  /\ snd.stream.totWrite = StreamLen
  /\ ~ InputEnded(snd.stream)
  /\ snd' = [Taken EXCEPT !.stream = EndInput(@)]

Fill == snd' = FillWindow(Taken)

PeerAck ==
  \E p \in 0 .. snd.nextSeqno + 1, win \in Windows :
    /\ snd.nextSeqno > 0
    /\ snd' = AckReceived(Taken, Wrap(p, Isn), win)

Tick ==
  \E ms \in Milliseconds :
    /\ snd.crtx <= MaxRetx
    /\ snd.rto <= MaxRto
    /\ snd' = TickSender(Taken, ms)

SendEmpty == snd' = SendEmptySegment(Taken)

Next == AppWrite \/ AppEnd \/ Fill \/ PeerAck \/ Tick \/ SendEmpty

Spec == Init /\ [][Next]_vars
-----------------------------------------------------------------------------
First(seg) == PositionOf(snd, seg)
Past(seg) == First(seg) + LengthInSequenceSpace(seg)

\* A segment carries what the stream holds at the position its number names: the
\* SYN at 0, byte i at i + 1, the FIN after the last byte and nowhere else.
Truthful(seg) ==
  /\ seg.syn <=> First(seg) = 0 /\ LengthInSequenceSpace(seg) > 0
  /\ \A k \in DOMAIN seg.payload : seg.payload[k] = First(seg) + k - 2
  /\ seg.fin <=> Past(seg) = FinPosition + 1 /\ LengthInSequenceSpace(seg) > 0

\* Every sequence number sent and not acknowledged is in an outstanding segment,
\* in exactly one, with the right content; nothing acknowledged is: what the
\* peer lacks can always be sent again and nothing else is
\* (tcp_sender.cc:67-97, 114-125).
EverythingCovered ==
  /\ \A p \in snd.acked .. snd.nextSeqno - 1 :
       Cardinality({o \in snd.outstanding :
                      p \in First(o.seg) .. Past(o.seg) - 1}) = 1
  /\ \A o \in snd.outstanding :
       /\ Truthful(o.seg)
       /\ snd.acked < Past(o.seg) /\ Past(o.seg) <= snd.nextSeqno

\* The FIN is sent once, after every byte, and nothing follows it.
FinIsLast ==
  /\ snd.finSent <=> snd.nextSeqno = FinPosition + 1
  /\ snd.nextSeqno > 0 =>
       snd.stream.totRead + 1 + One(snd.finSent) = snd.nextSeqno

\* Between calls every timer is running, none for longer than the timeout, and
\* an older segment never expires after a newer one, although each is started
\* when its segment is sent and tick compares them one by one
\* (tcp_sender.cc:131-159).
TimersInOrder ==
  \A o, p \in snd.outstanding :
    /\ o.left \in 1 .. snd.rto
    /\ First(o.seg) < First(p.seg) => o.left <= p.left

\* New data never goes beyond the last window the peer advertised (a closed one
\* counts for one byte), also when the window has shrunk under what was sent.
WithinWindow ==
  [][snd'.nextSeqno # snd.nextSeqno /\ snd.nextSeqno > 0 =>
       snd'.nextSeqno <= snd.acked + snd.window]_vars

\* What tick sends is the segment the peer needs next: the one at or just before
\* the acknowledged position.
RetransmitsFirstMissing ==
  [][snd'.crtx > snd.crtx =>
       /\ Len(snd'.segmentsOut) = 1
       /\ snd.acked \in First(snd'.segmentsOut[1]) .. Past(snd'.segmentsOut[1]) - 1]_vars
=============================================================================
