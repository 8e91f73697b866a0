----------------------------- MODULE WinnerLoop -----------------------------
(***************************************************************************)
(* The loop of finalizeDraw, one iteration per step, over the snapshot of  *)
(* weights a draw request took.  ConfidentialPool takes the loop as one    *)
(* set of winners; this module shows that the iterations compute that set, *)
(* and how evenly the tickets, and so the prizes, are distributed.         *)
(***************************************************************************)
EXTENDS WeightedTicket, FiniteSets, SequencesExt

CONSTANTS
  MaxParticipants,   \* bound: length of the participant array
  MaxWeight          \* bound: weight of one participant

ASSUME LoopAssumption ==
  /\ MaxParticipants \in Nat /\ MaxWeight \in Nat
  /\ MaxParticipants * MaxWeight < Modulus   \* the eligible total fits a euint64

VARIABLES
  weights,         \* _drawWeights of the participants, in array order
  total,           \* request.totalHandle
  winningTicket,
  i,               \* iterations done
  cumulativeEnd,
  awarded          \* the array positions credited with the prize

vars == <<weights, total, winningTicket, i, cumulativeEnd, awarded>>

TotalOf(ws) == FoldSeq(LAMBDA w, acc : w + acc, 0, ws)

\* A request is ready only with a positive total.
Init ==
  /\ weights \in BoundedSeq(0 .. MaxWeight, MaxParticipants)
  /\ total = TotalOf(weights)
  /\ total > 0
  /\ \E random \in Euint64s : winningTicket = SampleWeightedTicket(random, total)
  /\ i = 0 /\ cumulativeEnd = 0 /\ awarded = {}

\* FAULT: cumulativeStart is not advanced, every interval starts at zero.
IterateFromZero ==
  /\ i < Len(weights)
  /\ i' = i + 1
  /\ cumulativeEnd' = Add(cumulativeEnd, weights[i + 1])
  /\ awarded' = IF winningTicket < cumulativeEnd' THEN awarded \cup {i + 1} ELSE awarded
  /\ UNCHANGED <<weights, total, winningTicket>>

Iterate ==
  /\ i < Len(weights)
  /\ i' = i + 1
  /\ cumulativeEnd' = Add(cumulativeEnd, weights[i + 1])
  /\ awarded' = IF cumulativeEnd <= winningTicket /\ winningTicket < cumulativeEnd'
                THEN awarded \cup {i + 1} ELSE awarded
  /\ UNCHANGED <<weights, total, winningTicket>>

Done == i = Len(weights) /\ UNCHANGED vars

Next == Iterate \/ Done

Spec == Init /\ [][Next]_vars

\* For every list of weights and every random value the finished loop has
\* credited one participant and no other, the one ConfidentialPool computes in
\* a single step, and it has weight.
OneIntervalWins ==
  i = Len(weights) =>
    \E w \in 1 .. Len(weights) :
      /\ awarded = {w}
      /\ weights[w] > 0
      /\ {j \in 1 .. Len(weights) : IsWinner(weights, winningTicket, j)} = {w}

\* The comment on _sampleWeightedTicket: each ticket below the total is hit by
\* the floor or the ceiling of Modulus / total random values, and no other.
TicketsEven ==
  \A t \in Euint64s :
    LET hits == Cardinality({r \in Euint64s : SampleWeightedTicket(r, total) = t})
    IN  IF t < total
        THEN hits \in {Modulus \div total, (Modulus + total - 1) \div total}
        ELSE hits = 0
=============================================================================
