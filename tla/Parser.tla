------------------------------- MODULE Parser -------------------------------
(***************************************************************************)
(* parser.cc, buffer.hh and the InternetChecksum of util.cc.  A Buffer is  *)
(* a sequence of bytes.  A uint32_t is held as the pair of its halves,     *)
(* since it exceeds the integers of TLC.                                   *)
(***************************************************************************)
EXTENDS Integers, Sequences

NoError == "NoError"
BadChecksum == "BadChecksum"
PacketTooShort == "PacketTooShort"
WrongIPVersion == "WrongIPVersion"
HeaderTooShort == "HeaderTooShort"
TruncatedPacket == "TruncatedPacket"
Unsupported == "Unsupported"

\* Buffer::remove_prefix, SubSeq from the start, and n zero bytes.
Dropped(b, n) == SubSeq(b, n + 1, Len(b))
Zeros(n) == [i \in 1 .. n |-> 0]
-----------------------------------------------------------------------------
\* NetUnparser
U8(n) == <<n % 256>>
U16(n) == <<(n \div 256) % 256, n % 256>>
U32(n) == U16(n[1]) \o U16(n[2])

\* NetParser.  The number whose first byte has i bytes before it in the buffer;
\* beyond its end a parser reads zeros from then on, and its error is set.
Read8(b, i) == IF i + 1 > Len(b) THEN 0 ELSE b[i + 1]
Read16(b, i) == IF i + 2 > Len(b) THEN 0 ELSE 256 * b[i + 1] + b[i + 2]
Read32(b, i) == IF i + 4 > Len(b) THEN <<0, 0>> ELSE <<Read16(b, i), Read16(b, i + 2)>>

\* The bits of a number.
Bit(n, power) == (n \div power) % 2 = 1
Flag(set, power) == IF set THEN power ELSE 0
-----------------------------------------------------------------------------
\* InternetChecksum::add: even bytes, counted from 0, are the high ones.
Sum(initial, data) ==
  LET sum[n \in 0 .. Len(data)] ==
        IF n = 0 THEN initial
        ELSE sum[n - 1] + (data[n] * IF n % 2 = 1 THEN 256 ELSE 1)
  IN  sum[Len(data)]

\* InternetChecksum::value: carries are added back in until none is left.
Checksum(initial, data) ==
  LET sum == Sum(initial, data)
  IN  65535 - (IF sum = 0 THEN 0 ELSE 1 + ((sum - 1) % 65535))
=============================================================================
