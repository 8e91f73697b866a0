----------------------------- MODULE ChainPrefix -----------------------------
(***************************************************************************)
(* What the indexer promises of what it makes durable: it is the tally of  *)
(* a prefix of the chain's events, and the prefix only ever grows.         *)
(***************************************************************************)
EXTENDS EventLog

VARIABLES
  events,    \* the chain's event log
  upTo,      \* length of the prefix that was indexed
  tally      \* the durable counters

vars == <<events, upTo, tally>>

Init == events = << >> /\ upTo = 0 /\ tally = Tally(<< >>, 0)

Emit ==
  /\ Len(events') = Len(events) + 1
  /\ SubSeq(events', 1, Len(events)) = events
  /\ UNCHANGED <<upTo, tally>>

Publish ==
  /\ upTo' \in upTo .. Len(events)
  /\ tally' = Tally(events, upTo')
  /\ UNCHANGED events

Next == Emit \/ Publish

Spec == Init /\ [][Next]_vars
=============================================================================
