------------------------- MODULE WithdrawalLifecycle -------------------------
(***************************************************************************)
(* What an archived pool promises of withdrawal requests, told by the      *)
(* events of each user: there is at most one open request, every request   *)
(* has a nonce of its own, and an open one is finalized or cancelled, once. *)
(***************************************************************************)
EXTENDS Integers, Sequences

CONSTANT Users

VARIABLE log

Logged(user, what, nonce) ==
  \E i \in 1 .. Len(log[user]) : log[user][i] = [event |-> what, nonce |-> nonce]

Settled(user, nonce) == Logged(user, "finalized", nonce) \/ Logged(user, "cancelled", nonce)

Init == log = [user \in Users |-> << >>]

Request(user, nonce) ==
  /\ ~Logged(user, "requested", nonce)
  /\ \A i \in 1 .. Len(log[user]) :
       log[user][i].event = "requested" => Settled(user, log[user][i].nonce)
  /\ log' = [log EXCEPT ![user] = Append(@, [event |-> "requested", nonce |-> nonce])]

Settle(user, nonce, what) ==
  /\ Logged(user, "requested", nonce) /\ ~Settled(user, nonce)
  /\ log' = [log EXCEPT ![user] = Append(@, [event |-> what, nonce |-> nonce])]

\* The nonce of the event that a step adds to a user's log.
Added(user) == log'[user][Len(log'[user])].nonce

Next ==
  \E user \in Users :
    /\ Len(log'[user]) = Len(log[user]) + 1
    /\ \/ Request(user, Added(user))
       \/ \E what \in {"finalized", "cancelled"} : Settle(user, Added(user), what)

Spec == Init /\ [][Next]_log
==============================================================================
