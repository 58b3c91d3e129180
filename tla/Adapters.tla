------------------------------ MODULE Adapters ------------------------------
(***************************************************************************)
(* The datagram adapters of TCPSpongeSocket: over UDP (fd_adapter.cc),     *)
(* over IPv4 on a TUN device and over Ethernet on a TAP device             *)
(* (tcp_over_ip.cc, tuntap_adapter), and LossyFdAdapter around any of      *)
(* them.  What read returns is the set of the segment, if there is one;    *)
(* what is written to the device or socket is queued in out.               *)
(***************************************************************************)
EXTENDS Formats, NetworkInterface

\* An address is [ip, port]; "0" is the one that stands for any.
AnyIp == <<0, 0>>

\* FdAdapterBase, with the interface of a TAP adapter and its next hop.
NewAdapter(kind, source, destination, listening, nic, nextHop) ==
  [kind |-> kind, source |-> source, destination |-> destination,
   listening |-> listening, nic |-> nic, nextHop |-> nextHop, out |-> <<>>]

Outcome(a, segs) == [a |-> a, segs |-> segs]
Refused(a) == Outcome(a, {})

Opens(header) == header.syn /\ ~ header.rst

Segment(parsed) == [header |-> parsed.header, payload |-> parsed.payload]
-----------------------------------------------------------------------------
\* TCPOverIPv4Adapter::unwrap_tcp_in_ip
Related(a, h) == a.listening \/ (h.dst = a.source.ip /\ h.src = a.destination.ip)

AdoptsSource(a, h, sport) ==  \* faulty variant
  [a EXCEPT !.destination = [ip |-> h.src, port |-> sport], !.listening = FALSE]

Adopts(a, h, sport) ==
  [a EXCEPT !.source.ip = h.dst, !.destination = [ip |-> h.src, port |-> sport],
            !.listening = FALSE]

Unwrap(a, dgram) ==
  LET h   == dgram.header
      seg == ParseSegment(dgram.payload, PseudoChecksum(h))
      ours == /\ Related(a, h) /\ h.proto = ProtoTCP /\ seg.result = NoError
              /\ seg.header.dport = a.source.port
              /\ IF a.listening THEN Opens(seg.header)
                 ELSE seg.header.sport = a.destination.port
  IN  IF ~ ours THEN Refused(a)
      ELSE Outcome(IF a.listening THEN Adopts(a, h, seg.header.sport) ELSE a,
                   {Segment(seg)})

AddressedFirst(a, seg) ==  \* faulty variant
  IF seg.header.sport = 0 THEN [seg EXCEPT !.header.sport = a.source.port] ELSE seg

\* The port numbers are set on the way out.
Addressed(a, seg) ==
  [seg EXCEPT !.header.sport = a.source.port, !.header.dport = a.destination.port]

\* TCPOverIPv4Adapter::wrap_tcp_in_ip
Wrap(a, segment) ==
  LET seg == Addressed(a, segment)
      h   == [NewIPv4Header EXCEPT
                !.src = a.source.ip, !.dst = a.destination.ip,
                !.len = 20 + 4 * seg.header.doff + Len(seg.payload)]
  IN  [header |-> h, payload |-> SegmentBytes(seg, PseudoChecksum(h))]
-----------------------------------------------------------------------------
\* TCPOverUDPSocketAdapter: a UDP datagram comes with the address it is from.

ReadUDP(a, from, bytes) ==
  LET seg == ParseSegment(bytes, 0)
      ours == /\ a.listening \/ from = a.destination
              /\ seg.result = NoError
              /\ a.listening => Opens(seg.header)
  IN  IF ~ ours THEN Refused(a)
      ELSE Outcome(IF a.listening
                   THEN [a EXCEPT !.destination = from, !.listening = FALSE] ELSE a,
                   {Segment(seg)})

WriteUDP(a, seg) ==
  [a EXCEPT !.out = Append(@, [to |-> a.destination,
                               bytes |-> SegmentBytes(Addressed(a, seg), 0)])]

\* A device takes bytes only.
ToDevice(bytes) == [bytes |-> bytes]

\* TCPOverIPv4OverTunFdAdapter
ReadTun(a, bytes) ==
  LET d == ParseDatagram(bytes) IN
  IF d.result # NoError THEN Refused(a)
  ELSE Unwrap(a, [header |-> d.header, payload |-> d.payload])

WriteTun(a, seg) ==
  [a EXCEPT !.out = Append(@, ToDevice(DatagramBytes(Wrap(a, seg))))]
-----------------------------------------------------------------------------
(* TCPOverIPv4OverEthernetAdapter *)

\* A frame of the interface as it is on the wire, and back; recv_frame parses the
\* payload by its type and ignores what it cannot parse.
FrameBytes(f) ==
  IF CarriesARP(f)
  THEN EthernetFrameBytes([dst |-> f.dst, src |-> f.src, type |-> TypeARP],
         ARPBytes([opcode |-> IF f.arp.opcode = Requests THEN OpcodeRequest ELSE OpcodeReply,
                   senderEth |-> f.arp.senderEth, senderIp |-> f.arp.senderIp,
                   targetEth |-> IF f.arp.opcode = Requests THEN Zeros(6) ELSE f.dst,
                   targetIp |-> f.arp.targetIp]))
  ELSE EthernetFrameBytes([dst |-> f.dst, src |-> f.src, type |-> TypeIPv4],
         DatagramBytes(f.dgram))

FramesIn(bytes) ==
  LET e   == ParseFrame(bytes)
      arp == ARPFields(e.payload)
      d   == ParseDatagram(e.payload)
  IN  IF e.header.type = TypeARP /\ ARPResult(e.payload) = NoError
      THEN {ARPFrame(e.header.src, e.header.dst,
              [opcode |-> IF arp.opcode = OpcodeRequest THEN Requests ELSE Replies,
               senderEth |-> arp.senderEth, senderIp |-> arp.senderIp,
               targetIp |-> arp.targetIp])}
      ELSE IF e.header.type = TypeIPv4 /\ d.result = NoError
      THEN {IPv4Frame(e.header.src, e.header.dst,
              [header |-> d.header, payload |-> d.payload])}
      ELSE {}

\* send_pending
SendPending(a) ==
  [a EXCEPT !.nic.framesOut = <<>>,
            !.out = @ \o [i \in DOMAIN a.nic.framesOut |->
                            ToDevice(FrameBytes(a.nic.framesOut[i]))]]

ReadTap(a, bytes) ==
  IF FramesIn(bytes) = {} THEN Refused(a)
  ELSE LET f    == CHOOSE g \in FramesIn(bytes) : TRUE
           next == SendPending([a EXCEPT !.nic = RecvFrame(@, f)])
       IN  IF HandsUp(a.nic, f) THEN Unwrap(next, f.dgram) ELSE Refused(next)

WriteTap(a, seg) ==
  SendPending([a EXCEPT !.nic = SendDatagram(@, Wrap(a, seg), a.nextHop)])

TickTap(a, ms) == SendPending([a EXCEPT !.nic = TickInterface(@, ms)])
-----------------------------------------------------------------------------
\* LossyFdAdapter: what is dropped has been read; what is dropped is not written.
AfterLossyRead(outcome, drop) ==
  IF drop THEN Refused(outcome.a) ELSE outcome

AfterLossyWrite(a, written, drop) == IF drop THEN a ELSE written
=============================================================================
