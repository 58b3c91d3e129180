----------------------------- MODULE EventLoop -----------------------------
(***************************************************************************)
(* eventloop.hh / eventloop.cc.  A rule is a name; what it watches and     *)
(* what its three callbacks do to the program (any value w) is given by    *)
(* operators:                                                              *)
(*   Defunct(w, r)     its file descriptor is closed, or read to the end   *)
(*   Interested(w, r)  its interest callback                               *)
(*   Callback(w, r), Cancel(w, r)   the program after these callbacks      *)
(*   Served(w, r)      whether Callback reads or writes the descriptor     *)
(* wait_next_event is SetUp, then poll, then Serve of one rule after the   *)
(* other; other threads may act in between.  An EINTR from poll, which     *)
(* needs a signal handler no program here installs, is left out.           *)
(***************************************************************************)
EXTENDS Integers, Sequences

\* The first pass: what is defunct is cancelled and erased, and the others are
\* asked whether they are interested, in order.
SetUp(w, rules, Defunct(_, _), Interested(_, _), Cancel(_, _)) ==
  LET pass[n \in 0 .. Len(rules)] ==
        IF n = 0 THEN [w |-> w, rules |-> <<>>, polled |-> {}]
        ELSE LET acc == pass[n - 1]
                 r   == rules[n]
             IN  IF Defunct(acc.w, r) THEN [acc EXCEPT !.w = Cancel(@, r)]
                 ELSE [acc EXCEPT !.rules = Append(@, r),
                         !.polled = IF Interested(acc.w, r) THEN @ \cup {r} ELSE @]
  IN  pass[Len(rules)]

NothingToPoll(polled) == polled = {}

\* poll returns before its timeout: something polled is ready, or a hangup is
\* reported, which poll does for every descriptor it is given.
PollReturns(rules, polled, ready, hungUp) ==
  polled \cap ready # {} \/ \E i \in DOMAIN rules : rules[i] \in hungUp

\* Polled, and nothing but a hangup to report.
IsDefunct(r, polled, ready, hungUp) ==
  r \in polled /\ r \in hungUp /\ r \notin ready

IsReady(r, polled, ready) == r \in polled /\ r \in ready

\* The callback neither used the descriptor nor lost its interest.
BusyWait(w, r, Served(_, _), Callback(_, _), Interested(_, _)) ==
  ~ Served(w, r) /\ Interested(Callback(w, r), r)

\* Those of the rules that are in the given set, in their order.
Those(rules, chosen) ==
  LET kept[n \in 0 .. Len(rules)] ==
        IF n = 0 THEN <<>>
        ELSE IF rules[n] \in chosen THEN Append(kept[n - 1], rules[n]) ELSE kept[n - 1]
  IN  kept[Len(rules)]

Erased(rules, r) == Those(rules, {rules[i] : i \in DOMAIN rules} \ {r})
=============================================================================
