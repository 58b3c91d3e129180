----------------------------- MODULE MCTCPPair -----------------------------
(* TCPPair with initial sequence numbers just before and well before the     *)
(* wrap, and streams of one segment, of a few or of none.                    *)
EXTENDS TCPPair

MCIsn == [e \in Ends |-> IF e = Client THEN 14 ELSE 3]
HighIsn == [e \in Ends |-> IF e = Client THEN 14 ELSE 12]
NoStreams == [e \in Ends |-> 0]
ShortStreams == [e \in Ends |-> 1]
LongStreams == [e \in Ends |-> IF e = Client THEN 5 ELSE 3]
=============================================================================
