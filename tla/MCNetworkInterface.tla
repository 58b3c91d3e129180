------------------------- MODULE MCNetworkInterface -------------------------
(* NetworkInterfaceSpec with a few neighbours and short times.  The other    *)
(* addresses of each kind are interchangeable.                               *)
EXTENDS NetworkInterfaceSpec, TLC

MCDatagrams == [number : 1 .. MaxDatagrams, hop : IPs]

Neighbours == Permutations(Eths \ {MyEth}) \cup Permutations(IPs \ {MyIp})
=============================================================================
