---------------------------- MODULE PrizeSavings ----------------------------
(***************************************************************************)
(* What the pool promises a saver, without handles, requests, nonces or    *)
(* time: savings go in only while no draw is open, come out at any moment, *)
(* and change otherwise only by a prize that the pot pays to one entrant.  *)
(* The arithmetic is that of the integers: nothing ever wraps.             *)
(***************************************************************************)
EXTENDS Integers

CONSTANTS Savers, Prize, Grant

VARIABLES purse, saved, pot,
          entry      \* the weight of each entrant of the open draw, or NoEntry

vars == <<purse, saved, pot, entry>>

NoEntry == [s \in {} |-> 0]
DrawOpen == entry # NoEntry

Init ==
  /\ purse = [s \in Savers |-> Grant]
  /\ saved = [s \in Savers |-> 0]
  /\ pot = 0
  /\ entry = NoEntry

Save(s, amount) ==
  /\ ~DrawOpen
  /\ amount <= purse[s]
  /\ purse' = [purse EXCEPT ![s] = @ - amount]
  /\ saved' = [saved EXCEPT ![s] = @ + amount]
  /\ UNCHANGED <<pot, entry>>

Sponsor(s, amount) ==
  /\ ~DrawOpen
  /\ amount <= purse[s]
  /\ purse' = [purse EXCEPT ![s] = @ - amount]
  /\ pot' = pot + amount
  /\ UNCHANGED <<saved, entry>>

TakeOut(s, amount) ==
  /\ amount <= saved[s]
  /\ saved' = [saved EXCEPT ![s] = @ - amount]
  /\ purse' = [purse EXCEPT ![s] = @ + amount]
  /\ UNCHANGED <<pot, entry>>

\* The entrants hold every saver of positive savings that was admitted; which
\* ones were is not visible at this level.
OpenDraw(entrants) ==
  /\ ~DrawOpen
  /\ entrants # {}
  /\ entry' = [s \in entrants |-> saved[s]]
  /\ UNCHANGED <<purse, saved, pot>>

Award(winner) ==
  /\ winner \in DOMAIN entry
  /\ entry[winner] > 0
  /\ pot >= Prize
  /\ saved' = [saved EXCEPT ![winner] = @ + Prize]
  /\ pot' = pot - Prize
  /\ entry' = NoEntry
  /\ UNCHANGED purse

Release ==
  /\ DrawOpen
  /\ entry' = NoEntry
  /\ UNCHANGED <<purse, saved, pot>>

Moves ==
  \/ \E s \in Savers : \E amount \in 1 .. (purse[s] + saved[s]) :
       Save(s, amount) \/ Sponsor(s, amount) \/ TakeOut(s, amount)
  \/ \E entrants \in SUBSET Savers : OpenDraw(entrants)
  \/ \E winner \in Savers : Award(winner)
  \/ Release

\* Every step of the promise moves something; the rest of the program stutters.
Next == vars' # vars /\ Moves

Spec == Init /\ [][Next]_vars
=============================================================================
