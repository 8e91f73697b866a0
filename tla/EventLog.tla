------------------------------ MODULE EventLog ------------------------------
(***************************************************************************)
(* The pool's event log as backend/src/indexer/store.ts reads it: which    *)
(* events it keeps, under which key it recognises one it has seen, and     *)
(* which counter an event adds to.                                         *)
(***************************************************************************)
EXTENDS Integers, Sequences, FiniteSets

CONSTANTS
  Users,   \* sources of deposits, withdrawals and reserve fundings
  Pool     \* the source of draws, and the owner of counters that are not per user

\* The events processLog stores; the others it only logs.
Recorded == {"Deposited", "Withdrawn", "PrizeReserveFunded", "DrawExecuted"}

EventNames == Recorded \cup {"DrawSkipped"}

Sources(name) == IF name \in {"DrawExecuted", "DrawSkipped"} THEN {Pool} ELSE Users

Logs == [name : EventNames, source : Users \cup {Pool}, number : Nat, transactionHash : Nat]

\* The key of addDeposit, addConfidentialWithdrawal, addPrizeReserveFunding and
\* addDraw.  number is the user's nonce or the draw's id; a reserve funding has
\* neither, and a nonce is one user's: the key does not say whose.
Key(log) ==
  [transactionHash |-> log.transactionHash,
   kind            |-> log.name,
   number          |-> IF log.name = "PrizeReserveFunded" THEN 0 ELSE log.number]

\* Deposits are counted per user, everything else in total.
Counter(log) ==
  [name |-> log.name, of |-> IF log.name = "Deposited" THEN log.source ELSE Pool]

Counters == [name : Recorded, of : Users \cup {Pool}]

-----------------------------------------------------------------------------
(* What an index of a prefix of the log should say. *)

\* The positions up to n of events to keep, each key at its first occurrence.
Firsts(log, n) ==
  {j \in 1 .. n : /\ log[j].name \in Recorded
                  /\ \A k \in 1 .. j - 1 : Key(log[k]) # Key(log[j])}

\* The number of events of each counter among the first n.
Tally(log, n) ==
  [c \in Counters |-> Cardinality({j \in Firsts(log, n) : Counter(log[j]) = c})]
=============================================================================
