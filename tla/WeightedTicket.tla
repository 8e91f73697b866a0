--------------------------- MODULE WeightedTicket ---------------------------
(***************************************************************************)
(* How a draw picks its winner: a full-width random value is scaled to a   *)
(* ticket below the encrypted total, and the participant whose cumulative  *)
(* interval holds the ticket wins.                                         *)
(***************************************************************************)
EXTENDS Euint64, Sequences

\* FAULT: the scale is one short, and the top random value maps to upperBound.
SampleWeightedTicketTop(random, upperBound) == (random * upperBound) \div (Modulus - 1)

\* FHE.mul then FHE.div by 2^64, in 128 bits, so the product cannot wrap.
SampleWeightedTicket(random, upperBound) == (random * upperBound) \div Modulus

\* The value of cumulativeEnd after the first i participants of the loop.
CumulativeEnd(weights) ==
  LET end[i \in 0 .. Len(weights)] ==
        IF i = 0 THEN 0 ELSE Add(end[i - 1], weights[i])
  IN  end

\* FAULT: both ends of the interval are inclusive.
IsWinnerInclusive(weights, ticket, i) ==
  /\ CumulativeEnd(weights)[i - 1] <= ticket
  /\ ticket <= CumulativeEnd(weights)[i]

\* FAULT: the lower end of the interval is not tested.
IsWinnerBelow(weights, ticket, i) == ticket < CumulativeEnd(weights)[i]

IsWinner(weights, ticket, i) ==
  /\ CumulativeEnd(weights)[i - 1] <= ticket
  /\ ticket < CumulativeEnd(weights)[i]
=============================================================================
