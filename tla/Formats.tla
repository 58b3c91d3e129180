------------------------------ MODULE Formats ------------------------------
(***************************************************************************)
(* The packet formats: ipv4_header, ipv4_datagram, tcp_header,             *)
(* tcp_segment, ethernet_header, ethernet_frame and arp_message.  A header *)
(* is a record of its fields, a parsed packet one with the result, the     *)
(* header and the payload.                                                 *)
(***************************************************************************)
EXTENDS Parser

Parsed(result, header, payload) ==
  [result |-> result, header |-> header, payload |-> payload]
-----------------------------------------------------------------------------
(* IPv4 *)

ProtoTCP == 6

NewIPv4Header ==
  [ver |-> 4, hlen |-> 5, tos |-> 0, len |-> 0, id |-> 0, df |-> TRUE, mf |-> FALSE,
   offset |-> 0, ttl |-> 128, proto |-> ProtoTCP, cksum |-> 0,
   src |-> <<0, 0>>, dst |-> <<0, 0>>]

IPv4Fields(b) ==
  LET fo == Read16(b, 6) IN
  [ver |-> Read8(b, 0) \div 16, hlen |-> Read8(b, 0) % 16, tos |-> Read8(b, 1),
   len |-> Read16(b, 2), id |-> Read16(b, 4),
   df |-> Bit(fo, 16384), mf |-> Bit(fo, 8192), offset |-> fo % 8192,
   ttl |-> Read8(b, 8), proto |-> Read8(b, 9), cksum |-> Read16(b, 10),
   src |-> Read32(b, 12), dst |-> Read32(b, 16)]

IPv4HeaderBytes(h) ==
  U8(16 * h.ver + h.hlen) \o U8(h.tos) \o U16(h.len) \o U16(h.id)
    \o U16(Flag(h.df, 16384) + Flag(h.mf, 8192) + h.offset)
    \o U8(h.ttl) \o U8(h.proto) \o U16(h.cksum) \o U32(h.src) \o U32(h.dst)
    \o Zeros(4 * h.hlen - 20)

\* The result of IPv4Header::parse.
IPv4HeaderResult(b) ==
  LET h == IPv4Fields(b) IN
  IF Len(b) < 20 \/ Len(b) < 4 * h.hlen THEN PacketTooShort
  ELSE IF h.ver # 4 THEN WrongIPVersion
  ELSE IF h.hlen < 5 THEN HeaderTooShort
  ELSE IF Len(b) # h.len THEN TruncatedPacket
  ELSE IF Checksum(0, SubSeq(b, 1, 4 * h.hlen)) # 0 THEN BadChecksum
  ELSE NoError

\* How far it has come when it returns.
IPv4HeaderRead(b) ==
  IF Len(b) < 20 THEN 0
  ELSE IF IPv4HeaderResult(b) \in {NoError, BadChecksum} THEN 4 * IPv4Fields(b).hlen
  ELSE 20

PayloadLength(h) == (h.len - 4 * h.hlen) % 65536

PseudoChecksum(h) == h.src[1] + h.src[2] + h.dst[1] + h.dst[2] + h.proto + PayloadLength(h)

\* IPv4Datagram::parse does not look at what IPv4Header::parse returns.
ParseDatagram(b) ==
  LET header  == IF Len(b) < 20 THEN NewIPv4Header ELSE IPv4Fields(b)
      payload == Dropped(b, IPv4HeaderRead(b))
  IN  Parsed(IF Len(payload) # PayloadLength(header) THEN PacketTooShort ELSE NoError,
             header, payload)

\* IPv4Datagram::serialize
DatagramBytes(dgram) ==
  LET zero == [dgram.header EXCEPT !.cksum = 0]
  IN  IPv4HeaderBytes([zero EXCEPT !.cksum = Checksum(0, IPv4HeaderBytes(zero))])
        \o dgram.payload
-----------------------------------------------------------------------------
(* TCP *)

NewTCPHeader ==
  [sport |-> 0, dport |-> 0, seqno |-> <<0, 0>>, ackno |-> <<0, 0>>, doff |-> 5,
   urg |-> FALSE, ack |-> FALSE, psh |-> FALSE, rst |-> FALSE, syn |-> FALSE,
   fin |-> FALSE, win |-> 0, cksum |-> 0, uptr |-> 0]

TCPFields(b) ==
  LET flags == Read8(b, 13) IN
  [sport |-> Read16(b, 0), dport |-> Read16(b, 2),
   seqno |-> Read32(b, 4), ackno |-> Read32(b, 8), doff |-> Read8(b, 12) \div 16,
   urg |-> Bit(flags, 32), ack |-> Bit(flags, 16), psh |-> Bit(flags, 8),
   rst |-> Bit(flags, 4), syn |-> Bit(flags, 2), fin |-> Bit(flags, 1),
   win |-> Read16(b, 14), cksum |-> Read16(b, 16), uptr |-> Read16(b, 18)]

TCPHeaderBytes(h) ==
  U16(h.sport) \o U16(h.dport) \o U32(h.seqno) \o U32(h.ackno) \o U8(16 * h.doff)
    \o U8(Flag(h.urg, 32) + Flag(h.ack, 16) + Flag(h.psh, 8)
            + Flag(h.rst, 4) + Flag(h.syn, 2) + Flag(h.fin, 1))
    \o U16(h.win) \o U16(h.cksum) \o U16(h.uptr) \o Zeros(4 * h.doff - 20)

\* TCPHeader::operator==
SameHeader(g, h) ==
  \A f \in (DOMAIN NewTCPHeader) \ {"sport", "dport", "cksum"} : g[f] = h[f]

ParseSegmentUnchecked(b, pseudo) ==  \* faulty variant
  Parsed(IF Len(b) < 20 THEN PacketTooShort ELSE NoError, TCPFields(b), Dropped(b, 20))

\* TCPSegment::parse, which does not look at what TCPHeader::parse returns either,
\* but at the error of the parser: a header with a doff that is too small counts as
\* one of 20 bytes.
ParseSegment(b, pseudo) ==
  LET h   == TCPFields(b)
      end == IF h.doff < 5 THEN 20 ELSE 4 * h.doff
  IN  Parsed(IF Checksum(pseudo, b) # 0 THEN BadChecksum
             ELSE IF end > Len(b) THEN PacketTooShort ELSE NoError,
             h, Dropped(b, end))

\* TCPSegment::serialize
SegmentBytes(seg, pseudo) ==
  LET zero == TCPHeaderBytes([seg.header EXCEPT !.cksum = 0]) \o seg.payload
  IN  TCPHeaderBytes([seg.header EXCEPT !.cksum = Checksum(pseudo, zero)]) \o seg.payload
-----------------------------------------------------------------------------
(* Ethernet and ARP *)

TypeIPv4 == 2048
TypeARP == 2054

EthernetFields(b) ==
  IF Len(b) < 14 THEN [dst |-> Zeros(6), src |-> Zeros(6), type |-> 0]
  ELSE [dst |-> SubSeq(b, 1, 6), src |-> SubSeq(b, 7, 12), type |-> Read16(b, 12)]

EthernetHeaderBytes(h) == h.dst \o h.src \o U16(h.type)

\* EthernetFrame::parse: a frame that is too short is taken to have no header.
ParseFrame(b) ==
  Parsed(NoError, EthernetFields(b), IF Len(b) < 14 THEN b ELSE Dropped(b, 14))

\* EthernetFrame::serialize
EthernetFrameBytes(header, payload) == EthernetHeaderBytes(header) \o payload

OpcodeRequest == 1
OpcodeReply == 2

\* ARPMessage::supported, of the first eight bytes: Ethernet, IPv4, their sizes.
SupportedARP(b) ==
  /\ Read16(b, 0) = 1 /\ Read16(b, 2) = TypeIPv4
  /\ Read8(b, 4) = 6 /\ Read8(b, 5) = 4
  /\ Read16(b, 6) \in {OpcodeRequest, OpcodeReply}

ARPFields(b) ==
  [opcode |-> Read16(b, 6),
   senderEth |-> SubSeq(b, 9, 14), senderIp |-> Read32(b, 14),
   targetEth |-> SubSeq(b, 19, 24), targetIp |-> Read32(b, 24)]

\* ARPMessage::parse
ARPResult(b) ==
  IF Len(b) < 28 THEN PacketTooShort
  ELSE IF ~ SupportedARP(b) THEN Unsupported ELSE NoError

\* ARPMessage::serialize
ARPBytes(arp) ==
  U16(1) \o U16(TypeIPv4) \o U8(6) \o U8(4) \o U16(arp.opcode)
    \o arp.senderEth \o U32(arp.senderIp) \o arp.targetEth \o U32(arp.targetIp)
=============================================================================
