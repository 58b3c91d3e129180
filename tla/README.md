# A verification of the sponge TCP stack

TLA+ models of the user-space TCP in `src/sponge`: byte stream, reassembler,
sequence numbers, receiver, sender and connection; two connections over a faulty
network; the socket with its thread, event loop and local socket pair; the adapters
and packet formats; the network interface with ARP, the router, and the simulated
networks of `apps/network_simulator.cc`. TLC checks small instances; TLAPS proves
the theorems listed below for every value of the constants.

## Inventory

| Component | State | Operations | Correct when |
|---|---|---|---|
| `ByteStream` | capacity, room left, two counters, end and error flags, buffer | write, peek, pop/read, end_input, set_error | FIFO, nothing lost; counters agree with the buffer |
| `wrap` / `unwrap` | none | 64-bit position to 32-bit number and back | the nearest position is recovered, over any number of wraps |
| `StreamReassembler` | output stream, next index wanted, index of the end, interval tree of stored excerpts | push_substring | output is the stream in order whatever the order of the excerpts; capacity bounds stored and assembled bytes together; ended iff complete |
| `TCPReceiver` | reassembler, ISN, checkpoint, status | segment_received, ackno, window_size | segments are placed where the peer meant them; ackno is the first position not received; the FIN is not acknowledged early |
| `TCPSender` | outbound stream, next position, acknowledged position, window, outstanding segments with timers, retransmission timeout and count | fill_window, ack_received, tick, send_empty_segment | what the peer lacks is always outstanding; new data within the window; the right segment is retransmitted |
| `TCPConnection` | a sender, a receiver, flags (lingering, active, FIN sent), time since the last segment sent | connect, write, end_input_stream, segment_received, tick | both streams delivered; closes cleanly; gives up on a dead peer |
| `TCPState` | none: computed from a connection | the official states, comparison | the states follow one another as in RFC 793 |
| `EventLoop` | rules, with interest, callback and cancellation | add_rule, wait_next_event | every ready rule is served; no rule spins; returns when nothing is left |
| `TCPSpongeSocket` | a connection, a local socket pair, four rules, a thread, an abort flag | connect, listen_and_accept, the rules, wait_until_closed, destructor | every byte crosses once and in order; end of file has a cause; calls return; the process survives |
| adapters (UDP, TUN, TAP, lossy) | addresses and ports, listening flag | read, write, wrap and unwrap in IP and Ethernet | only the peer's segments come out, only a SYN binds |
| packet formats | none | parse and serialize TCP, IPv4, Ethernet, ARP; Internet checksum | what is parsed is what was serialized, or an error |
| `NetworkInterface` | ARP cache, cooldown, pending datagrams, frames to send, clock | send_datagram, recv_frame, tick | a datagram leaves for the right address, once and in order; ARP requests are limited |
| `Router` | routing table, interfaces | add_route, route_one_datagram, route | longest prefix wins; no datagram is duplicated or outlives its time |
| applications | the simulated networks of `network_simulator` | exchange frames, route, tick | datagrams reach whom they should and nobody else |

How they interact. The TCP thread's event loop is the only caller of a
`TCPConnection`: rule 1 hands it an inbound segment from the adapter, rule 2 bytes
the owner has written into its half of the local socket pair, rule 3 moves bytes of
the inbound stream into the pair, rule 4 gives what the connection has queued to the
adapter; after each turn the loop ticks the clock. Before the connection is
open the owner's own thread runs the loop, inside `connect` or `listen_and_accept`.
Owner and thread share the socket pair and the flag `_abort`, nothing else. The
connection hands a segment to the receiver first (which pushes its payload into
the reassembler, which writes the output stream) and then, if it carries an ACK, to
the sender; then lets the sender fill the window; and stamps all outgoing
segments with the receiver's ackno. A `NetworkInterface` is called by its owner
(the TAP adapter, or a router), who hands it datagrams and frames, ticks it and takes
the frames it queues; the `Router` owns several, takes what they hand up and gives
each datagram to one of them.

Hard behaviours, line by line, are the hazards in `PROJECT.json`: FIN and SYN out
of order, sequence numbers that wrap, excerpts that overlap, one timer per
segment, windows that shrink, retransmissions that cross answers, the several ways
of closing, bytes on their way between owner and connection when either stops,
rules whose interest was read before another callback ran, datagrams of strangers,
ARP entries that expire while datagrams wait, and routes that hide one another.

## Modules

| Module | Models |
|---|---|
| `ByteStream`, `ByteStreamSpec` | the class as a record and operators; one stream between a writer and a reader |
| `WrappingIntegers` | `wrap` and `unwrap` with the two widths as constants |
| `Reassembly`, `ReassemblySpec` | the abstract reassembler: the stored bytes as a function from index to byte. It is what `TCPReceiver` is built on and what the tree implements |
| `StreamReassembler`, `StreamReassemblerSpec` | the interval tree as written, with its narrowing comparison; the refinement mapping to `ReassemblySpec` |
| `TCPSegment` | the header fields TCP acts on |
| `TCPReceiver`, `TCPReceiverSpec` | the receiver on top of `Reassembly`; segments of one peer stream in any order |
| `TCPSender`, `TCPSenderSpec` | the sender; writes, acknowledgments and ticks in any order |
| `TCPConnection` | sender and receiver joined; each public method is one operator |
| `TCPPair` | two connections, two applications and a network |
| `TCPState` | the summaries of sender and receiver, the official states |
| `SocketPair` | external: the two connected local sockets, with shutdown and hang-up |
| `EventLoop` | `wait_next_event`: setting up, poll, serving, cancellation, the busy-wait test |
| `TCPSpongeSocket`, `TCPSpongeSocketSpec` | the four rules, connect and listen loops, thread; with the owner's calls and a peer |
| `Parser`, `Formats` | `NetParser`/`NetUnparser`; the four headers, payload and checksum, byte by byte; a 32-bit number is the pair of its halves |
| `Adapters`, `AdapterSpec` | UDP, TUN, TAP and lossy adapters; several hosts and a network that damages datagrams |
| `NetworkInterface`, `NetworkInterfaceSpec` | cache, cooldown and waiting datagrams; an interface among neighbours that say anything |
| `Router`, `RouterSpec` | the table, its scan, and the asynchronous interfaces; a router whose owner adds routes while datagrams arrive |
| `NetworkSimulator` | the hosts, the wires and the router of `network_simulator.cc`, with its kinds of traffic |
| `SharedLemmas`, `StreamReassemblerProofs`, `TCPReceiverProofs`, `TCPSenderProofs`, `TCPPairProofs`, `TCPSpongeSocketProofs` (which begins with `ByteStreamSpec`), `NetworkInterfaceProofs`, `RouterProofs` | the theorems |
| `MC*` | instances for TLC, where the constants need a definition; otherwise the `.cfg` has the name of the `...Spec` module it runs |

An object is a record with its fields; a method that changes it is an operator
from the object to the object after the call, named after the method
(`Write`, `PushSubstring`, `Receive`, `AckReceived`, `SegmentReceived`, ...).
The `...Spec` modules hold an object in a variable and have one action per
caller's step, so an action is always a whole handler: receiving a segment
includes placing it, reassembling, processing the ACK, filling the window and
answering. Compositions are made of the operators, not of the `...Spec` modules.
In `TCPSpongeSocketSpec` an action is what runs between two points at which the
owner, the peer or the clock can be seen: setting up the poll, its return, one
callback, the end of a turn; and each call of the owner.

Abstractions. A byte is its place in its stream, so that a lost, repeated or
misplaced byte shows. Below the adapters, ports, checksums and lengths are those of
`Formats`; above them a segment is the record `TCPSegment`. Logging and texts for
printing are left out. The sender's clock and expiry times are the time each
segment has left; the connection's clock is the time since it last sent, counted
up to the linger time; the interface's clock and the times of its entries are the
time each entry has left. The multimap of outstanding segments is a set, as
its key is never read. The widths of the integers are constants (`Round` for
2^32, `Word` for 2^64, `IntRange` for int, `UIntRange` for unsigned int), so
that every boundary fits a small instance. The stack's four buffers between owner
and network hold a few bytes (`PipeSize`, `RecvCapacity`, `SendCapacity`).

Operators marked *faulty variant* follow no code. Each is what the definition
after it would be after a plausible slip (a dropped guard, an off-by-one); put in
that definition's place it must break the property that `PROJECT.json`
pairs it with, which shows that the property can be broken at all.

## Runs

Passing runs:

| Run | Shows | Bounds, and why they are enough |
|---|---|---|
| `byte_stream` | FIFO, accounting, everything read | buffer of 4, 8 bytes through it: fills, empties and refills |
| `reassembler_tree` | the tree implements `ReassemblySpec`, keeps its own shape and count, stays in its capacity, ends iff complete; what is retransmitted is delivered | window 6, stream 9, excerpts up to 4: an excerpt can span several nodes, lie before, across and beyond the window; int holds the indices |
| `receiver` | order, an exact checkpoint, `unwrap` nearest, no early FIN acknowledgment, the exact ackno as long as the FIN is not ahead of missing data; SYN, FIN and ACK come in any order | rounds of 22, stream 24 across the wrap, segments up to 3, two behind the window: every branch of `unwrap` occurs; initial sequence number in the lower half of the space (see below) |
| `sender` | coverage, timers, window, retransmission, FIN | stream of 4 in segments of 2 across the wrap, windows 0, 1 and 3, one retransmission beyond the first, timeouts 2 and 4 |
| `pair` | data intact, and an acknowledged FIN or a stop without an error means delivered, with clocks of any speed and one segment lost, repeated or overtaken | one byte each way, at most 3 segments in flight each way, retransmissions and resets included; a lost segment's retransmission crosses its answer |
| `pair_prompt` | both streams delivered and a clean close | streams of 5 and 3, segments of 2; simultaneous open and close included |
| `socket` | bytes cross between owner and connection once and in order, end of file has a cause, only a reset lets a callback throw, states follow RFC 793, waiting calls return | two bytes each way through pipes and send buffers of one byte, so that every one of them fills; one segment waiting at the adapter; the first timeout gives up, for the retransmissions are `pair`'s |
| `adapters` | what comes out is what the peer sent, only a SYN binds, only the peer understands what is sent | three hosts of which two differ in the port only; two segments that arrive, or one and a copy of it with any one byte damaged or cut at any length; one written; the bytes are those on the wire |
| `network_interface` | order and no repetition per hop, fresh addresses only, nothing held back for a known address, requests spaced | two neighbouring IP addresses that two stations claim in turn, 3 datagrams (sent, waiting, dropped), cache 3 and cooldown 2 ticks, so that each may expire before the other; the addresses that are not the interface's own are interchangeable, which the symmetry of the run uses |
| `router` | longest prefix found, each datagram forwarded at most once, alive, by the right port | 2-bit addresses, 5 routes (default, equal lengths, one prefix twice, low bits set, attached and by gateway) in every order in tables up to 3, 2 interfaces, 2 datagrams; no clock, which `network_interface` covers |
| `network_simulator` | the simulator's own check never throws, nothing is delivered twice, the network comes to rest | the topology of the program with 5-bit addresses, up to four datagrams of its kinds of traffic in every order, 6 rounds of exchange each: with 4 or 5 a datagram that waits for two ARP answers is too late, so that the check is sharp |

One run must find a violation, a disagreement between the code and what its
comments say (quoted in `PROJECT.json`, "findings"):

| Run | Shows |
|---|---|
| `pair_lost_data` | one lost segment, and an end closes without an error before its inbound stream is complete |

Four configurations belong to no run. Each shows what a deviation listed below
comes to, and TLC finds the property it names violated:

| Configuration | Property | Shows |
|---|---|---|
| `StreamReassemblerSpecNarrow.cfg` | `InOrder` | past 2^31 the tree's comparison narrows and bytes are misplaced |
| `MCTCPPairForever.cfg` | `BothStop` | after two losses both ends retransmit without end |
| `MCTCPPairEmpty.cfg` | `DoneMeansDelivered` | the FIN of an empty stream, behind an ACK that overtook the SYN, is acknowledged and never found |
| `TCPSpongeSocketSpecReset.cfg` | `WriteAccepted` | a reset that arrives in the same turn as bytes of the owner makes the thread throw "accepted less than advertised length" |

Deadlock is not checked: every system here may stop, when a stream is read to its
end, two connections are closed, the thread has been joined, or the bound on
datagrams, segments or routes is reached.

## Deviations of the code from what it promises

Met while modelling; the models follow the code, and the passing runs state what
is left of the promise.

Streams and numbers:

- `write` accepts bytes after `end_input` (`byte_stream.cc:20`), and `pop_output`
  counts more than is buffered (`byte_stream.cc:33`); no caller does either.
- The keys of the interval tree are compared as int (`stream_reassembler.hh:16`).
- Within a round of 2^64 `unwrap`'s test for room to go back overflows
  (`wrapping_integers.cc:38`); no connection gets there, and the theorem excludes it.

Receiver, sender, connection:

- A FIN that arrives ahead of data, with nothing stored, makes the ackno cover the
  missing data (`tcp_receiver.cc:38`); `AckExact` excepts that state, and
  `pair_lost_data` shows what comes of it.
- A SYN repeated after the FIN takes the FIN out of the ackno again
  (`tcp_receiver.cc:15`).
- An ACK that overtakes the SYN computes a checkpoint from an ISN not yet known
  (`tcp_receiver.cc:19`). With an initial sequence number in the upper half of
  the space the checkpoint is then a round off for good; `receiver` takes one in
  the lower half, where it does no harm, and the theorems about it exclude that ACK.
  In `pair` it comes: the bytes of the stream are then never found, so that the peer
  retransmits until it gives up. If the stream is empty its FIN is not found either,
  and acknowledged nevertheless: the peer closes, and this end's reader waits for ever
  (`MCTCPPairEmpty.cfg`).
- Acknowledgments do not reset the count of retransmissions (`tcp_sender.cc:112`).
- The timeout doubles without a bound (`tcp_sender.cc:140`).
- The linger timeout also ends a connection whose inbound stream is still open
  (`tcp_connection.cc:138`); `pair_prompt` assumes applications that are faster.
- The advertised window is the capacity, not the room there is
  (`tcp_connection.cc:46`); in `pair` the sender overruns it, which costs a
  retransmission and no data.
- The destructor queues a RST that nothing sends any more (`tcp_connection.cc:173`),
  against `tcp_sponge_socket.hh:75`.

Socket and event loop:

- Rule 2 reads its capacity after another callback of the same turn may have taken a
  reset; the write then accepts nothing and the thread throws
  (`tcp_sponge_socket.cc:101-105`). `DiesOnlyByReset` says that nothing else does.
- After a partial write into the pair and an inbound error, rule 3 shuts the pair
  down and its next write raises SIGPIPE (`tcp_sponge_socket.cc:123-152`).
- `connect` and `listen_and_accept` compare whole states, lingering included
  (`tcp_sponge_socket.cc:226-258`): a FIN before the ACK of the own SYN leads to
  a state without a name and they return early.
- While a connection lingers, the hang-up of the owner's half makes poll return at
  once although no rule asked: the loop spins (`eventloop.cc:97-121`).
- A signal ends the loop, and other errors of poll fall through to results never
  filled in (`eventloop.cc:102`); the program installs no handler.
- `bidirectional_stream_copy` does not return after a reset by the peer as long as
  standard input stays open (`bidirectional_stream_copy.cc:29-39`).

Below:

- The parsers of datagram, segment and frame ignore the result of parsing the
  header (`ipv4_datagram.cc:11`): a wrong header checksum is accepted. The checksum
  over the segment is what stands between a damaged datagram and the connection.
- The names of the parser's errors are one fewer than the errors (`parser.cc:8-15`).
- The lossy adapter may drop a SYN that the one below has already adopted
  (`lossy_fd_adapter.hh:42`).
- A datagram for a hop that is being asked for is dropped, not queued
  (`network_interface.cc:46`), so that delivery is no property of the interface.
- A direct route ends the scan and so hides a longer one after it
  (`router.cc:58`); `LongestFound` allows exactly that.
- `add_route` for a known prefix keeps the old interface (`router.cc:35`).
- In `network_simulator` no time passes, so that what waits for an unanswered
  request waits for ever, and interfaces without a wire pile up their frames.
- `lab7` ticks 50 ms for every event, whatever the clock says.

## Fairness

`ByteStreamSpec` assumes only that the reader keeps reading (rule 3 has interest
as long as the buffer is not empty). `StreamReassemblerSpec`
assumes that a retransmitting sender pushes every byte and the end again and
again (`Repeats`) and that the application reads. `TCPPair` assumes weak
fairness of each end's event loop, clock and application and of delivery: the
loop polls with a timeout of 10 ms and ticks after every turn
(`tcp_sponge_socket.cc:27-37`). `TCPSpongeSocketSpec` assumes that the operating
system runs the thread and that the clock goes on between turns, and nothing of the
owner, of the peer or of the network: a call returns although the peer is silent.
Fairness conditions are written out as the definition of weak or strong fairness
with ENABLED replaced by the guard it equals, which TLC evaluates much faster.
The other specifications assume no fairness and claim no liveness. Nothing
obliges the network to lose, repeat or reorder. `PromptNetwork` and `PromptApps`
are assumptions of some runs: clocks that tick only when the network, or the
applications, have nothing to do. Where they are TRUE a retransmission happens
only after a loss.

## Proofs

The first part of `TCPSpongeSocketProofs` proves, for every capacity and every length
of the stream, three properties of `ByteStreamSpec`, which is what rules 2 and 3 of
the socket do to a stream: `StreamTypeCorrect`, `AccountingHolds`,
`FifoHolds`. None is inductive alone: the buffer's length is right only if the
counters are, and the order only if both are. The inductive invariant `StreamInv`
says that the buffer is the run of `Capacity - rem` numbers that follows the
`totRead` numbers already read. The lemmas `RunConcat` and `RunSplit` say that
runs are appended and cut as numbers are, which is all a write and a read do.
The theorems assume nothing but `StreamAssumption`; that readers pop no more
than is buffered is a guard of the specification, as it is of every caller.

`SharedLemmas` proves, for every pair of widths, that `unwrap` returns a position
that wraps to its argument and that none is nearer to the checkpoint
(`UnwrapNearest`), and hence that a position less than half a round away is
recovered (`UnwrapInvertsWrap`). The argument: positions that wrap to the same
number are a multiple of a round apart (`WrapDistance`), so that any candidate
lies at least `Forward` above the checkpoint or `Back` below it (`EitherSide`).
The checkpoint must be two rounds below the largest size_t: beyond that the code's
test overflows.

`SharedLemmas` and the end of `StreamReassemblerProofs` prove of the abstract
reassembler, instantiated there with a variable of its own, that the output is the stream in order, that stored and unread bytes share the capacity,
and that the output is ended iff all of it has been assembled: `InOrderHolds`,
`WithinCapacityHolds`, `EndedIffCompleteHolds`. The invariant `Sound` adds to these
that what is stored lies strictly inside the window (the next index wanted is never
stored, or it would have been assembled) and that the index of the end is
remembered from its announcement until it is reached. That assembling finds the
next missing index at all needs a least element of a set of numbers
(`LeastElement`, from the well-foundedness of `<`). The lemmas speak of a
reassembler and its parameters, not of a variable, so that `TCPReceiverProofs`,
`TCPPairProofs`, `TCPSpongeSocketProofs` and the refinement of the tree use them too. `ReassemblyAssumption`
says that no index comes near 2^64.

`StreamReassemblerProofs` proves that the interval tree implements `ReassemblySpec`,
for every capacity, stream and order of excerpts: `ImplementsHolds`, and with it
`TreeOKHolds`, `TreeInOrder`, `TreeWithinCapacity` and `TreeEndedIffComplete`. The
invariant `IInv` says that the nodes are excerpts of the stream (`SoundNodes`), apart
and in order, that `szUnasb` is the number of bytes they hold (`MapSound`), and
that the abstract reassembler is `Sound`; that no node adjoins the output is a part
of the last. Each loop of push_substring is a function of the number of its turns
and has a predicate that every turn keeps: `Scanned` (with the pieces cut so far all
is covered up to the index reached, and the pieces are apart from every node and
each other), `PutSoFar` (the pieces to come are apart from every node, so that
struct comp finds a place of its own for the next one) and `Drained` (what has left
the map is in the output, and the loop goes on as long as the first node adjoins
it). That no more of them are needed than the map has nodes comes out of the last.
`GapIsUnique` then says that the tree has stopped where the abstract reassembler
stops. The hypothesis `IntHolds` says that every index of the stream is an
int, so that `comp` narrows nothing; where it fails so does `InOrder`, as
`StreamReassemblerSpecNarrow.cfg` shows.

`TCPReceiverProofs` proves the five properties of the run `receiver` for every
capacity, initial sequence number and stream, over any number of wraps:
`InOrderHolds`, `CheckpointExactHolds`, `UnwrapIsNearestHolds`, `AckExactHolds`,
`FinAckedOnlyWhenCompleteHolds`. The invariant `IInv` joins `Sound` of the
reassembler to what the peer has sent: the positions taken in (`got`) are the
reassembler's, the status tells whether SYN and FIN have come, and the checkpoint is
within a window and a lag of the next index wanted (`NearWindow`). The last is
what makes `UnwrapInvertsWrap` apply, so that every segment is placed where
the peer meant it (`IndexIsExact`), so that the push is one of the stream. The
hypothesis `Ordinary` says that no index comes within two rounds of 2^64 and
excludes the ACK that overtakes the SYN, of which the first property is not true.

`TCPSenderProofs` proves the five properties of the run `sender` for every stream,
capacity, payload size, set of windows and initial sequence number:
`EverythingIsCovered`, `FinComesLast`, `TimersRunOutInOrder` and, of its steps,
`NewDataWithinWindow` and `RetransmitsWhatIsMissing`. The invariant `IInv` is
`SenderSound` and its type. It says that the outbound stream holds the bytes from
`totRead` on (`StreamSound`), that the counters agree with it (`CountersSound`),
that what is outstanding lies side by side from the acknowledged position to the
next (`SegmentsSound`), and that the timers are in the order of the segments
(`TimersSound`). The segments need a place of their own: the code finds a segment's
position by unwrapping its number at the position acknowledged by now, so the
invariant speaks of `At`, the position that it was sent at, and `Unwraps` shows that
the two agree as long as no acknowledgment is half a round old. The loop of
`fill_window` is the function `fill[n]` of its turns; a set that has 0 and the
successor of each of its numbers has every number (`EveryNumber`, from the
well-foundedness of `<`), so that what a turn keeps (`TurnSound`) every number of
them keeps. The order of the timers also rests on that: a segment sent in a turn
starts with the full timeout, which none that is outstanding exceeds. The
assumptions are `SenderAssumption` and `SenderSpecAssumption`: positive sizes, a
stream shorter than half a round, and a timeout that does not overflow within
the bound the run has too.

`TCPPairProofs` proves of two endpoints that what an application reads is a prefix of
what the other has written (`StreamsIntactHolds`), for any streams, window, payload
size, initial sequence numbers, timeouts and any network. The invariant says of every
segment in flight that it is a piece of its sender's stream (`Piece`: at the position
its number was made from is what the stream holds there, and that much has been read
into segments) and that what it acknowledges is a position after the other's SYN; it
says the same of what either sender has outstanding or queued (`Sending`). It says
of a receiver (`Receiving`) that its reassembler is like one that is `Sound` for what
the other has sent so far. Only like it, for where the end is to come may be
anything: an ACK that overtakes the SYN leaves a checkpoint and an announced end that
mean nothing. Why such a receiver still never places a byte wrongly: whatever the
checkpoint, a number unwraps to its position or to one at least a round above it
(`UnwrapAbove`, `SamePlace`), and what is a round above is outside the window and
dropped. Each handler, from the sender's loop (by its turns, as above) to
`segment_received` and `tick`, keeps an endpoint good and takes nothing back of what
it has read into segments (`Grown`); the other end's window then only grows
(`GoodMore`). `NetworkStep` covers losing, repeating and overtaking, of any
segment and any number of times. The hypothesis `WithinRound` is that stream and
window together, and the stream with its SYN and FIN, fit into one round and
that a wide number holds whole rounds. Past a round the statement is not one to
expect: an old duplicate could be taken for what lies a round later, as in any TCP
without timestamps.

On that invariant rests that an end whose FIN is acknowledged, or that stops without an
error, has had its stream delivered (`DoneMeansDeliveredHolds`). `DInv` adds to `IInv`,
of a sender, that its FIN has the number behind its last byte and stays outstanding
until that number is acknowledged, and that this is not before the other end has had
the whole stream (`Finishing`); of every segment, that it acknowledges the position
behind the FIN only if the stream has ended at the end it comes from (`Tells`); of a
receiver (`Delivers`), either that its checkpoint lies within the stream and a FIN it
has counted has left the index where the stream ends, or that an ACK that overtook the
SYN has put the checkpoint off, and then nothing is ever taken in and the ackno stays
short of the end of a stream that is not empty. The lemmas `EarlyPlace`, `NearPlace`
and `TopPlace` say where `unwrap` puts a number from either kind of checkpoint. The
hypothesis `Modest` is `WithinRound`, with no stream empty or longer than about a
quarter of a round (2^30 bytes), so that no number of the stream is taken for one a
round below. For an empty stream the statement is false, as TLC shows under
`MCTCPPairEmpty.cfg`.

`DInv` says what an acknowledged FIN is worth; that an end stops only with its FIN
acknowledged needs one layer more. The code closes on "everything read and nothing in
flight" (`OutboundDone`), which does not mention the FIN: `fill_window` can empty the
stream and have no room for it. `EInv` therefore says of each end (`Stops`) that the
segment with the last position sent stays outstanding until all is acknowledged and
that the window is open once the SYN is sent (`Ready`), that `fill_window` leaves a FIN
unsent only when the window is full (`Filled`), and that the end is active, has an
error, or has had everything up to its FIN acknowledged (`Settled`). With nothing in
flight the window is open and nothing fills it, so the FIN has gone (`DoneSettled`).
Within a handler `Filled` fails between an acknowledgment that opens the window and the
`fill_window` that answers it, so the lemmas of the handlers' steps carry `Ready` and
`Runs` only, and those of whole handlers (`SegmentStops`, `TickStops`, `WriteStops`,
`EndStops`) restore the rest. That the inbound stream is complete as well
(`CleanClose`) is not so in general: the run `pair_lost_data` refutes it.

The rest of `TCPSpongeSocketProofs` proves the four safety properties of the run
`socket`, for every owner, peer and network and any sizes of pipe, buffers, payload
and window, timeouts and numbers of retries: `BetweenOwnerAndConnectionHolds`,
`EofExplainedHolds`, `DiesOnlyByResetHolds` and, of its steps, `OfficialStepsHolds`.
The invariant `IInv` is built the way the program is. `Sending` says of the sender
that its counters agree and that it has sent FIN only at the end of its stream;
`Receiving` says of the receiver that its reassembler is `Sound` for what the peer has
sent so far; `Conn` adds that a connection that is no longer active has been reset or
has had its FIN acknowledged, that nothing happens before its SYN, and that outside a
method `fill_window` has sent all it may. `Tied` and `Carried` put the socket around
it: the outbound stream has ended only if the socket has noted it, the bytes in the
pair toward the thread are those the owner has written and the connection has not
taken, those toward the owner and the owner's own are what has been read from the
inbound stream, and the pair has been shut toward the owner only at the end of the
stream, after an error, or with the thread. `Looping` says of the event loop that what
waits to be served was sensible when poll returned and is still: no two results are
of one rule, rule 2 was asked for only while its stream was open, and so on. That is
what rules out a busy wait and a write beyond what the connection advertises: only an
error, which a callback before it in the same turn can cause, makes a result stale.
`Hearing` says of the peer that what is on its way is a piece of its stream, or a
reset before that began, and acknowledges nothing before the socket's SYN.

`OfficialSteps` is a property of steps and needs more than an invariant. `Onward` says
what a step may not take back of a connection: the next number, the number
acknowledged, FIN and the ends of the streams, errors, `active` and `linger`; every
operator of `TCPSender`, `TCPReceiver` and `TCPConnection` is shown to keep to it and
it is transitive, so that a handler, which makes several such changes, does. It
orders the summaries of `tcp_state.cc` (`OnwardPrecedes`), and among the official
states that order allows exactly what one, two or three steps of RFC 793 allow
(`OfficialOrder`). The hypothesis `SocketBounds` is that either stream with its SYN
and FIN is shorter than half a round, so that no position is taken for one a round
away, and that the peer's with the window stays below the largest size_t.
Fairness is part of `Spec` and is not used.

`NetworkInterfaceProofs` proves, for every set of addresses, every cache and
cooldown time and any number of datagrams, the five properties of
`NetworkInterfaceSpec`: `TypeCorrect`, `NoneEverWaitsForKnown`,
`AlwaysSentOnFreshWord`, `LeaveInOrderAndOnce` and, of its steps,
`RequestsAreSpaced`. The third is not inductive: a frame is right because
the cache entry it was addressed by is, and a flushed frame because what waits
under a hop is for that hop. `IInv` adds both: a cached entry holds the address
last heard, and the time it has left and the age of that word add up to the
cache time, so that the entry goes when the word is too old; and every datagram
in the queue of a hop names that hop. For order and repetition `OrderInv` adds
that the numbers of a queue increase and exceed every number that has left for
the hop: a datagram that leaves at once does so because nothing waits for a
known address. For the spacing of the requests `SpacedInv`
adds that an address asked for less than the cooldown time ago is cooling down for
at least the rest of it, and one of which fresh word has come is cached. Each operator of `NetworkInterface` has a
lemma (`AskFields`, `LearnFields`, `FlushFields`, ...) that says what becomes of
the fields; the steps follow from those. The assumptions are
`InterfaceAssumption` (positive times, a broadcast address of its own) and
`InterfaceSpecAssumption`.

`RouterProofs` proves `LongestFoundHolds`, for every address width, every table and
every order in which routes are added while datagrams come and go. There are two
halves. The code compares addresses with their low bits shifted out, the property
compares bits: `SamePrefixMatches` shows that these agree, by going from bit to
bit in either direction (a shift by one more bit halves, `ShiftHalves`; past the
highest bit both addresses are 0). With it a route is taken iff it matches and no
longer one has been found (`TakesIs`), the default route included. `BestUpTo` says
what the first k turns of the scan have found, and `ScanTurn` that one more turn
keeps it so: a route found later is as long as any before it unless a direct one
has ended the scan, which is the exception the property states. `IInv` says that
the router has its interfaces and a table of routes to them; the loops of `route()`
are functions of the number of turns and touch no table (`RouteAllIs`).

It also proves `ForwardedOnceHolds`, for any number of ports, datagrams and
neighbours. A datagram is somewhere in a line of a port: handed up, waiting for a
hop, or sent; `Forwards` says that no two places hold the same one and that those
past the first line have been routed. It is not inductive over the turns of
`route()`: between two of them the datagrams dealt with are still in the queue and
already sent, so the invariant of the loop leaves out the places dealt with
(`Done`), until the queue is emptied. Each call is shown to add one place
(`OutGrows`, `WaitGrows`, `InGrows`), to take some away (`Fewer`) or, when an
answer comes, to move what waited to the end of what is sent, no two to the same
place (`FlushForwards`). `FInv` adds to `IInv` that the interfaces are sound and that
no number is above those that have arrived. The assumptions of both theorems are
`RouterAssumption` and `RouterSpecAssumption`.

Model-checked only: everything else, which is the clean close of `pair_prompt` (it
depends on the environment: `pair_lost_data` is one where it fails), that calls return
(`CallsReturn` of `socket`) and all that `adapters` and `network_simulator` check.
Liveness and anything with ENABLED is outside TLAPS here. The
induction theorems of the library take an operator as a parameter and are out of
reach too; where a recursive function had to be proved about, the induction is made
from a least element (`EveryNumber`, `UpTo`). The models use no RECURSIVE operators.

## Not modelled, and why

- The wrappers of system calls (`file_descriptor.cc`, `socket.cc`, `address.cc`,
  `tun.cc`) but for what the socket and the adapters use of them, in `SocketPair`
  and `Adapters`: pure I/O, without a state of their own.
- `BufferList` and `BufferViewList` save copies; a string is a sequence here.
- The destructor of `TCPConnection` (its RST is never sent) and the time since the
  last segment received, which only tests read.
- `name()` of the states, summaries and everything else that only prints; the
  comparison and offset operators of `WrappingInt32`, which only those and the
  tests use.
- The programs `tcp_ipv4`, `tcp_udp`, `tcp_ip_ethernet`, `tcp_native`,
  `tcp_benchmark`, `tun`, `udp_tcpdump` and `webget`: they read arguments and call the parts modelled here.
- `lab7`: its composition, an adapter like the TAP one behind a router of two
  interfaces, is `AdapterSpec` after `RouterSpec`; it has no model of its own.
- `src/Labs`: copies of the sources after each lab, those of labs 0, 2 and 4 to 6 the
  same byte for byte. The reassembler of lab 1 computes in int, which `Reassembly`
  abstracts; the sender of lab 3 takes its window for closed after the SYN and
  does not reset its count of retransmissions for an empty segment.

## What is left

In the order of their worth: the pair with slow applications and two faults, for what
the findings leave of a clean close; the composition of `lab7`. The adapters'
`GotWhatWasSent` is not a theorem to look for: two damaged bytes can cancel out in the
checksum, so it holds of single faults, which is what the run has.
