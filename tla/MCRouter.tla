------------------------------ MODULE MCRouter ------------------------------
(* RouterSpec with addresses of two bits.                                    *)
EXTENDS RouterSpec

Via(prefix, len, hop, interface) ==
  [prefix |-> prefix, len |-> len, hop |-> hop, interface |-> interface]

\* A default route by a gateway, prefixes of one and two bits, attached and by the
\* gateway, and one whose low bits are not zero.
MCOffered ==
  {Via(0, 0, 1, 1), Via(2, 1, Direct, 2), Via(3, 1, 2, 2),
   Via(3, 2, Direct, 1), Via(3, 2, 2, 2)}

MCIPs == 0 .. 3
MCDatagrams ==
  [number : 1 .. MaxDatagrams, dst : IPs, ttl : 0 .. MaxTtl, came : 0 .. MaxTtl]
=============================================================================
