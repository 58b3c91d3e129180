------------------------------ MODULE TCPState ------------------------------
(***************************************************************************)
(* tcp_state.hh / tcp_state.cc: what a sender, a receiver and the two      *)
(* flags of a connection amount to, and which combinations are the states  *)
(* of RFC 793.  The four summaries compare equal exactly when the code's   *)
(* strings do.                                                             *)
(***************************************************************************)
EXTENDS TCPConnection

\* state_summary(receiver)
ReceiverSummary(rcv) ==
  CASE StreamIn(rcv).error -> "ERROR"
    [] ~ StreamIn(rcv).error /\ ~ HasAckno(rcv) -> "LISTEN"
    [] ~ StreamIn(rcv).error /\ HasAckno(rcv) ->
         IF InputEnded(StreamIn(rcv)) THEN "FIN_RECV" ELSE "SYN_RECV"

\* The SYN, the stream and the FIN have all been sent.
FinSent(s) == Eof(s.stream) /\ s.nextSeqno >= s.stream.totWrite + 2

\* state_summary(sender)
SenderSummary(s) ==
  CASE s.stream.error -> "ERROR"
    [] ~ s.stream.error /\ s.nextSeqno = 0 -> "CLOSED"
    [] ~ s.stream.error /\ s.nextSeqno > 0 ->
         IF s.nextSeqno = BytesInFlight(s) THEN "SYN_SENT"
         ELSE IF ~ FinSent(s) THEN "SYN_ACKED"
         ELSE IF BytesInFlight(s) > 0 THEN "FIN_SENT" ELSE "FIN_ACKED"

\* TCPConnection::state(): a connection that is not active does not linger.
StateOf(c) ==
  [sender |-> SenderSummary(c.sender), receiver |-> ReceiverSummary(c.receiver),
   active |-> Active(c), linger |-> Active(c) /\ c.linger]
-----------------------------------------------------------------------------
Running(sender, receiver, linger) ==
  [sender |-> sender, receiver |-> receiver, active |-> TRUE, linger |-> linger]
Stopped(sender, receiver) ==
  [sender |-> sender, receiver |-> receiver, active |-> FALSE, linger |-> FALSE]

\* TCPState(State): the official states.
Official ==
  [LISTEN      |-> Running("CLOSED", "LISTEN", TRUE),
   SYN_RCVD    |-> Running("SYN_SENT", "SYN_RECV", TRUE),
   SYN_SENT    |-> Running("SYN_SENT", "LISTEN", TRUE),
   ESTABLISHED |-> Running("SYN_ACKED", "SYN_RECV", TRUE),
   CLOSE_WAIT  |-> Running("SYN_ACKED", "FIN_RECV", FALSE),
   LAST_ACK    |-> Running("FIN_SENT", "FIN_RECV", FALSE),
   CLOSING     |-> Running("FIN_SENT", "FIN_RECV", TRUE),
   FIN_WAIT_1  |-> Running("FIN_SENT", "SYN_RECV", TRUE),
   FIN_WAIT_2  |-> Running("FIN_ACKED", "SYN_RECV", TRUE),
   TIME_WAIT   |-> Running("FIN_ACKED", "FIN_RECV", TRUE),
   RESET       |-> Stopped("ERROR", "ERROR"),
   CLOSED      |-> Stopped("FIN_ACKED", "FIN_RECV")]

Is(c, name) == StateOf(c) = Official[name]
=============================================================================
