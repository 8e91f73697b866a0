---------------------------- MODULE WinnerProofs ----------------------------
(***************************************************************************)
(* Theorems about the winner loop and the scaling of the random value, for *)
(* every list of weights whose total fits the width, and every width.      *)
(***************************************************************************)
EXTENDS WinnerLoop, ArithmeticProofs

-----------------------------------------------------------------------------
(* Totals and ends *)

\* n summands of at most c sum to n * c at the most.
LEMMA SumAtMost ==
  ASSUME NEW S, IsFiniteSet(S), NEW f, NEW c \in Nat, \A x \in S : f[x] \in 0 .. c
  PROVE  SumFunctionOnSet(f, S) <= Cardinality(S) * c
<1> DEFINE Bad == {T \in SUBSET S : ~(SumFunctionOnSet(f, T) <= Cardinality(T) * c)}
<1>1. ASSUME Bad # {} PROVE FALSE
  <2>1. Bad \in SUBSET SUBSET S
    OBVIOUS
  <2>2. PICK T \in Bad : \A x \in T : T \ {x} \in SUBSET S /\ T \ {x} \notin Bad
    <3> HIDE DEF Bad
    <3>1. QED
      BY <1>1, <2>1, LeastSubset
  <2>3. T \in SUBSET S /\ IsFiniteSet(T) /\ T # {}
    BY <2>2, FS_Subset, SumEmpty, FS_EmptySet
  <2>4. PICK x : x \in T
    BY <2>3
  <2> DEFINE n == Cardinality(T \ {x})
             rest == SumFunctionOnSet(f, T \ {x})
  <2>5. IsFiniteSet(T \ {x}) /\ n \in Nat /\ Cardinality(T) = n + 1
    <3>1. IsFiniteSet(T \ {x}) /\ n = Cardinality(T) - 1
      BY <2>3, <2>4, FS_RemoveElement
    <3>2. n \in Nat /\ Cardinality(T) \in Nat
      BY <2>3, <3>1, FS_CardinalityType
    <3>3. QED
      BY <3>1, <3>2
  <2>6. rest <= n * c
    BY <2>2, <2>4
  <2>7. \A y \in T : f[y] \in Nat
    BY <2>3
  <2>8. SumFunctionOnSet(f, T) = f[x] + rest
    BY <2>3, <2>4, <2>7, SumRemove
  <2>9. rest \in Nat
    <3>1. \A y \in T \ {x} : f[y] \in Nat
      BY <2>7
    <3>2. QED
      BY <2>5, <3>1, SumType
  <2>10. f[x] \in 0 .. c
    BY <2>3, <2>4
  <2>11. ~(SumFunctionOnSet(f, T) <= Cardinality(T) * c)
    BY <2>2
  <2> HIDE DEF n, rest
  <2>12. (n + 1) * c = n * c + c /\ n * c \in Nat
    BY <2>5
  <2>13. QED
    BY <2>5, <2>6, <2>8, <2>9, <2>10, <2>11, <2>12
<1>2. S \notin Bad
  BY <1>1
<1>3. QED
  BY <1>2

\* While the total fits the width, no addition of the loop wraps: the end after
\* i participants is the sum of their weights.
LEMMA EndsAreSums ==
  ASSUME NEW ws, Len(ws) \in Nat, \A j \in 1 .. Len(ws) : ws[j] \in Nat,
         SumFunctionOnSet(ws, 1 .. Len(ws)) < Modulus
  PROVE  /\ \A j \in 0 .. Len(ws) : CumulativeEnd(ws)[j] \in Nat
         /\ \A j \in 1 .. Len(ws) : CumulativeEnd(ws)[j] = CumulativeEnd(ws)[j - 1] + ws[j]
         /\ CumulativeEnd(ws)[Len(ws)] = SumFunctionOnSet(ws, 1 .. Len(ws))
<1> DEFINE n == Len(ws)
           e == CumulativeEnd(ws)
           Sum(j) == SumFunctionOnSet(ws, 1 .. j)
<1>1. n \in Nat /\ \A j \in 1 .. n : ws[j] \in Nat
  OBVIOUS
<1>2. \A j \in 0 .. n : e[j] = IF j = 0 THEN 0 ELSE Add(e[j - 1], ws[j])
  BY EndsUnfold
<1>3. \A j \in 0 .. n : Sum(j) \in Nat /\ Sum(j) < Modulus
  <2> TAKE j \in 0 .. n
  <2> HIDE DEF n
  <2>1. IsFiniteSet(1 .. n) /\ IsFiniteSet(1 .. j) /\ 1 .. j \in SUBSET (1 .. n)
    BY <1>1, FS_Interval
  <2>2. Sum(j) \in Nat /\ Sum(n) \in Nat /\ Sum(j) <= Sum(n)
    BY <1>1, <2>1, SumType, SumPart
  <2>3. Sum(n) < Modulus
    BY DEF n
  <2> HIDE DEF Sum
  <2>4. QED
    BY <2>2, <2>3, ModulusAssumption
<1>4. \A j \in 1 .. n : Sum(j) = Sum(j - 1) + ws[j]
  <2> TAKE j \in 1 .. n
  <2> HIDE DEF n
  <2> DEFINE before == 1 .. j - 1
  <2>1. /\ before \cup {j} = 1 .. j /\ j \notin before /\ IsFiniteSet(before)
        /\ \A x \in before : ws[x] \in Nat
    <3>1. j \in Nat /\ j - 1 \in Int /\ before \cup {j} = 1 .. j /\ j \notin before
      BY <1>1
    <3>2. IsFiniteSet(before)
      BY <3>1, FS_Interval
    <3>3. \A x \in before : x \in 1 .. n
      BY <1>1
    <3>4. QED
      BY <1>1, <3>1, <3>2, <3>3
  <2>2. ws[j] \in Nat
    BY <1>1
  <2> HIDE DEF before
  <2>3. SumFunctionOnSet(ws, before \cup {j}) = SumFunctionOnSet(ws, before) + ws[j]
    BY <2>1, <2>2, SumAdd
  <2>4. QED
    BY <2>1, <2>3 DEF before
<1>5. Sum(0) = 0
  <2>1. 1 .. 0 = {}
    OBVIOUS
  <2>2. QED
    BY <2>1, SumEmpty
<1>6. Sum(n) = SumFunctionOnSet(ws, 1 .. n)
  OBVIOUS
<1> HIDE DEF n, e, Sum
<1>7. \A j \in 0 .. n : e[j] = Sum(j)
  <2> DEFINE Bad == {j \in 0 .. n : e[j] # Sum(j)}
  <2>1. ASSUME Bad # {} PROVE FALSE
    <3>1. Bad \in SUBSET Nat
      BY <1>1
    <3>2. PICK j \in Bad : \A k \in Bad : j <= k
      <4> HIDE DEF Bad
      <4>1. QED
        BY <2>1, <3>1, LeastNatural
    <3>3. j \in 1 .. n
      BY <1>1, <1>2, <1>5, <3>2
    <3>4. j - 1 \in 0 .. n /\ e[j - 1] = Sum(j - 1)
      BY <1>1, <3>2, <3>3
    <3>5. j \in 0 .. n /\ Sum(j) = Sum(j - 1) + ws[j]
      BY <1>1, <1>4, <3>3
    <3>6. /\ Sum(j - 1) \in Nat /\ Sum(j) < Modulus /\ ws[j] \in Nat
      BY <1>1, <1>3, <3>3, <3>4, <3>5
    <3>7. e[j] = Add(e[j - 1], ws[j])
      BY <1>2, <3>3, <3>5
    <3>8. e[j] = Sum(j)
      <4>1. e[j - 1] + ws[j] \in 0 .. Modulus - 1
        BY <3>4, <3>5, <3>6, ModulusAssumption
      <4>2. \A s \in 0 .. Modulus - 1 : s % Modulus = s
        BY ModulusAssumption
      <4>3. Add(e[j - 1], ws[j]) = e[j - 1] + ws[j]
        BY <4>1, <4>2 DEF Add
      <4>4. QED
        BY <3>4, <3>5, <3>7, <4>3
    <3>9. QED
      BY <3>2, <3>8
  <2>2. QED
    BY <2>1
<1>8. \A j \in 1 .. n : e[j] = e[j - 1] + ws[j]
  <2> TAKE j \in 1 .. n
  <2>1. j \in 0 .. n /\ j - 1 \in 0 .. n
    BY <1>1
  <2>2. QED
    BY <1>4, <1>7, <2>1
<1>9. n \in 0 .. n
  BY <1>1
<1>10. QED
  BY <1>3, <1>6, <1>7, <1>8, <1>9 DEF n, e

-----------------------------------------------------------------------------
(* The loop *)

\* What the loop reads: a snapshot whose total is positive and fits the width,
\* and a ticket below it.
Snapshot ==
  /\ Len(weights) \in Nat /\ \A j \in 1 .. Len(weights) : weights[j] \in Nat
  /\ total = SumFunctionOnSet(weights, 1 .. Len(weights))
  /\ total \in Euint64s \ {0}
  /\ winningTicket \in 0 .. (total - 1)

\* After i iterations the end is that of the first i participants, and those of
\* them whose interval holds the ticket have the prize.
LoopInv ==
  /\ Snapshot
  /\ i \in 0 .. Len(weights)
  /\ cumulativeEnd = CumulativeEnd(weights)[i]
  /\ awarded = {j \in 1 .. i : IsWinner(weights, winningTicket, j)}

LEMMA SnapshotInit == Init => Snapshot
<1> SUFFICES ASSUME Init PROVE Snapshot
  OBVIOUS
<1>1. PICK n \in 0 .. MaxParticipants : weights \in [1 .. n -> 0 .. MaxWeight]
  BY DEF Init, BoundedSeq, SeqOf
<1>2. /\ n \in Nat /\ n <= MaxParticipants /\ Len(weights) = n /\ DOMAIN weights = 1 .. n
      /\ \A j \in 1 .. n : weights[j] \in 0 .. MaxWeight
  BY <1>1, LoopAssumption
<1>3. total = SumFunctionOnSet(weights, 1 .. n)
  BY <1>2 DEF Init, TotalOf, FoldSeq, FoldFunction, FoldFunctionOnSet, SumFunctionOnSet, MapThenFoldSet
<1>4. total \in Nat /\ total <= n * MaxWeight
  <2>1. IsFiniteSet(1 .. n) /\ Cardinality(1 .. n) = n
    BY <1>2, FS_Interval
  <2>2. \A j \in 1 .. n : weights[j] \in Nat
    BY <1>2, LoopAssumption
  <2>3. QED
    BY <1>2, <1>3, <2>1, <2>2, SumType, SumAtMost, LoopAssumption
<1>5. total < Modulus
  <2>1. n * MaxWeight <= MaxParticipants * MaxWeight
    BY <1>2, LoopAssumption
  <2>2. n * MaxWeight \in Nat /\ MaxParticipants * MaxWeight \in Nat
    BY <1>2, LoopAssumption
  <2>3. QED
    BY <1>4, <2>1, <2>2, LoopAssumption, ModulusAssumption
<1>6. total \in Euint64s \ {0}
  BY <1>4, <1>5, ModulusAssumption DEF Init, Euint64s
<1>7. winningTicket \in 0 .. (total - 1)
  BY <1>6, TicketBelowTotal DEF Init
<1>8. QED
  BY <1>2, <1>3, <1>6, <1>7, LoopAssumption DEF Snapshot

LEMMA LoopInit == Init => LoopInv
<1> SUFFICES ASSUME Init PROVE LoopInv
  OBVIOUS
<1>1. Snapshot
  BY SnapshotInit
<1>2. CumulativeEnd(weights)[0] = 0
  <2>1. Len(weights) \in Nat
    BY <1>1 DEF Snapshot
  <2>2. 0 \in 0 .. Len(weights)
    BY <2>1
  <2>3. QED
    BY <2>1, <2>2, EndsUnfold
<1>3. 1 .. 0 = {}
  OBVIOUS
<1>4. i = 0 /\ cumulativeEnd = 0 /\ awarded = {} /\ 0 \in 0 .. Len(weights)
  BY <1>1 DEF Init, Snapshot
<1>5. QED
  BY <1>1, <1>2, <1>3, <1>4 DEF LoopInv

LEMMA LoopStep == LoopInv /\ [Next]_vars => LoopInv'
<1> SUFFICES ASSUME LoopInv, [Next]_vars PROVE LoopInv'
  OBVIOUS
<1>1. CASE UNCHANGED vars
  BY <1>1 DEF vars, LoopInv, Snapshot
<1>2. CASE Iterate
  <2>1. /\ i < Len(weights) /\ i' = i + 1 /\ UNCHANGED <<weights, total, winningTicket>>
        /\ cumulativeEnd' = Add(cumulativeEnd, weights[i + 1])
        /\ awarded' = IF cumulativeEnd <= winningTicket /\ winningTicket < cumulativeEnd'
                      THEN awarded \cup {i + 1} ELSE awarded
    BY <1>2 DEF Iterate
  <2>2. Len(weights) \in Nat /\ i \in Nat /\ i + 1 \in 1 .. Len(weights) /\ i + 1 \in 0 .. Len(weights)
    BY <2>1 DEF LoopInv, Snapshot
  <2> DEFINE e == CumulativeEnd(weights)
  <2>3. e[i + 1] = Add(e[i], weights[i + 1])
    <3>1. \A j \in 0 .. Len(weights) : e[j] = IF j = 0 THEN 0 ELSE Add(e[j - 1], weights[j])
      BY <2>2, EndsUnfold
    <3> HIDE DEF e
    <3>2. (i + 1) - 1 = i /\ i + 1 # 0
      BY <2>2
    <3>3. QED
      BY <2>2, <3>1, <3>2
  <2>4. cumulativeEnd = e[i] /\ cumulativeEnd' = e[i + 1]
    BY <2>1, <2>3 DEF LoopInv
  <2>5. IsWinner(weights, winningTicket, i + 1)
          <=> cumulativeEnd <= winningTicket /\ winningTicket < cumulativeEnd'
    <3>1. (i + 1) - 1 = i
      BY <2>2
    <3>2. QED
      BY <2>4, <3>1 DEF IsWinner
  <2>6. 1 .. i + 1 = (1 .. i) \cup {i + 1}
    BY <2>2
  <2>7. awarded' = {j \in 1 .. i + 1 : IsWinner(weights, winningTicket, j)}
    <3>1. awarded = {j \in 1 .. i : IsWinner(weights, winningTicket, j)}
      BY DEF LoopInv
    <3>2. CASE IsWinner(weights, winningTicket, i + 1)
      BY <2>1, <2>5, <2>6, <3>1, <3>2
    <3>3. CASE ~IsWinner(weights, winningTicket, i + 1)
      BY <2>1, <2>5, <2>6, <3>1, <3>3
    <3>4. QED
      BY <3>2, <3>3
  <2>8. Snapshot'
    BY <2>1 DEF LoopInv, Snapshot
  <2>9. QED
    BY <2>1, <2>2, <2>4, <2>7, <2>8 DEF LoopInv
<1>3. QED
  BY <1>1, <1>2 DEF Next, Done

\* Whatever the weights and the random value, the finished loop has credited
\* one participant, the one whose interval holds the ticket, and it has weight.
THEOREM OneIntervalAlwaysWins == Spec => []OneIntervalWins
<1>1. LoopInv => OneIntervalWins
  <2> SUFFICES ASSUME LoopInv, i = Len(weights)
               PROVE  \E w \in 1 .. Len(weights) :
                        /\ awarded = {w}
                        /\ weights[w] > 0
                        /\ {j \in 1 .. Len(weights) : IsWinner(weights, winningTicket, j)} = {w}
    BY DEF OneIntervalWins
  <2>1. /\ Len(weights) \in Nat /\ \A j \in 1 .. Len(weights) : weights[j] \in Nat
        /\ SumFunctionOnSet(weights, 1 .. Len(weights)) < Modulus
        /\ winningTicket \in Nat
        /\ winningTicket < SumFunctionOnSet(weights, 1 .. Len(weights))
    BY ModulusAssumption DEF LoopInv, Snapshot, Euint64s
  <2>2. /\ \A j \in 0 .. Len(weights) : CumulativeEnd(weights)[j] \in Nat
        /\ \A j \in 1 .. Len(weights) :
             CumulativeEnd(weights)[j] = CumulativeEnd(weights)[j - 1] + weights[j]
        /\ CumulativeEnd(weights)[Len(weights)] = SumFunctionOnSet(weights, 1 .. Len(weights))
    BY <2>1, EndsAreSums
  <2>3. PICK w \in 1 .. Len(weights) :
          /\ weights[w] > 0
          /\ {j \in 1 .. Len(weights) : IsWinner(weights, winningTicket, j)} = {w}
    <3>1. PICK ws, ticket : ws = weights /\ ticket = winningTicket
      OBVIOUS
    <3>2. \E w \in 1 .. Len(ws) :
            ws[w] > 0 /\ {j \in 1 .. Len(ws) : IsWinner(ws, ticket, j)} = {w}
      BY <2>1, <2>2, <3>1, OneInterval
    <3>3. QED
      BY <3>1, <3>2
  <2>4. awarded = {j \in 1 .. Len(weights) : IsWinner(weights, winningTicket, j)}
    BY DEF LoopInv
  <2>5. QED
    BY <2>3, <2>4
<1>2. QED
  BY <1>1, LoopInit, LoopStep, PTL DEF Spec

-----------------------------------------------------------------------------
(* How even the tickets are *)

\* The least number of steps of b that reaches a.
LEMMA Ceiling ==
  ASSUME NEW a \in Nat, NEW b \in Nat \ {0}
  PROVE  \E c \in Nat : a <= c * b /\ c * b < a + b
<1> DEFINE c == (a + b - 1) \div b
           rest == (a + b - 1) % b
<1>1. c \in Nat /\ rest \in 0 .. b - 1 /\ a + b - 1 = b * c + rest
  OBVIOUS
<1> HIDE DEF c, rest
<1>2. b * c = c * b /\ b * c \in Nat
  BY <1>1
<1>3. a <= c * b /\ c * b < a + b
  BY <1>1, <1>2
<1>4. QED
  BY <1>1, <1>3

\* The random values that hit ticket t are those from the ceiling of
\* t * Modulus / upper to below that of (t + 1) * Modulus / upper.
LEMMA HitsInterval ==
  ASSUME NEW upper \in Euint64s \ {0}, NEW t \in 0 .. (upper - 1),
         NEW first \in Nat, t * Modulus <= first * upper, first * upper < t * Modulus + upper,
         NEW next \in Nat, (t + 1) * Modulus <= next * upper,
         next * upper < (t + 1) * Modulus + upper
  PROVE  /\ {r \in Euint64s : SampleWeightedTicket(r, upper) = t} = first .. next - 1
         /\ first <= next
<1>1. /\ upper \in Nat /\ upper > 0 /\ Modulus \in Nat /\ Modulus > 0 /\ t \in Nat /\ t + 1 <= upper
  BY ModulusAssumption DEF Euint64s
<1>2. next <= Modulus
  <2>1. ASSUME next >= Modulus + 1 PROVE FALSE
    <3>1. next * upper >= (Modulus + 1) * upper
      BY <1>1, <2>1
    <3>2. (Modulus + 1) * upper = Modulus * upper + upper
      BY <1>1
    <3>3. (t + 1) * Modulus <= upper * Modulus /\ upper * Modulus = Modulus * upper
      BY <1>1
    <3>4. /\ next * upper \in Nat /\ (t + 1) * Modulus \in Nat
          /\ Modulus * upper \in Nat /\ upper * Modulus \in Nat
      BY <1>1
    <3>5. QED
      BY <1>1, <3>1, <3>2, <3>3, <3>4
  <2>2. QED
    BY <1>1, <2>1
<1>3. first <= next
  <2>1. ASSUME first >= next + 1 PROVE FALSE
    <3>1. first * upper >= (next + 1) * upper /\ (next + 1) * upper = next * upper + upper
      BY <1>1, <2>1
    <3>2. (t + 1) * Modulus = t * Modulus + Modulus
      BY <1>1
    <3>3. first * upper \in Nat /\ next * upper \in Nat /\ t * Modulus \in Nat
      BY <1>1
    <3>4. QED
      BY <1>1, <3>1, <3>2, <3>3
  <2>2. QED
    BY <2>1
<1>4. ASSUME NEW r \in Nat
      PROVE  /\ SampleWeightedTicket(r, upper) = t <=> first <= r /\ r < next
  <2> DEFINE product == r * upper
             ticket == product \div Modulus
             rest == product % Modulus
  <2>1. product \in Nat
    BY <1>1
  <2>2. /\ ticket \in Nat /\ rest \in 0 .. Modulus - 1 /\ product = Modulus * ticket + rest
    <3> HIDE DEF product
    <3>1. QED
      BY <1>1, <2>1
  <2>3. SampleWeightedTicket(r, upper) = ticket
    BY DEF SampleWeightedTicket
  <2>4. first <= r <=> t * Modulus <= product
    <3>1. first <= r => first * upper <= product
      BY <1>1
    <3>2. r < first => product + upper <= first * upper
      <4>1. r + 1 <= first => (r + 1) * upper <= first * upper
        BY <1>1
      <4>2. (r + 1) * upper = r * upper + upper
        BY <1>1
      <4>3. QED
        BY <4>1, <4>2
    <3>3. first * upper \in Nat /\ t * Modulus \in Nat
      BY <1>1
    <3> HIDE DEF product
    <3>4. QED
      BY <1>1, <2>1, <3>1, <3>2, <3>3
  <2>5. r < next <=> product < (t + 1) * Modulus
    <3>1. next <= r => next * upper <= product
      BY <1>1
    <3>2. r < next => product + upper <= next * upper
      <4>1. r + 1 <= next => (r + 1) * upper <= next * upper
        BY <1>1
      <4>2. (r + 1) * upper = r * upper + upper
        BY <1>1
      <4>3. QED
        BY <4>1, <4>2
    <3>3. next * upper \in Nat /\ (t + 1) * Modulus \in Nat
      BY <1>1
    <3> HIDE DEF product
    <3>4. QED
      BY <1>1, <2>1, <3>1, <3>2, <3>3
  <2>6. ticket = t <=> t * Modulus <= product /\ product < (t + 1) * Modulus
    <3> HIDE DEF product, ticket, rest
    <3>1. /\ Modulus * ticket = ticket * Modulus /\ ticket * Modulus \in Nat
          /\ (t + 1) * Modulus = t * Modulus + Modulus /\ t * Modulus \in Nat
      BY <1>1, <2>2
    <3>2. ticket >= t + 1 => ticket * Modulus >= (t + 1) * Modulus
      BY <1>1, <2>2
    <3>3. ticket + 1 <= t => ticket * Modulus + Modulus <= t * Modulus
      <4>1. ticket + 1 <= t => (ticket + 1) * Modulus <= t * Modulus
        BY <1>1, <2>2
      <4>2. (ticket + 1) * Modulus = ticket * Modulus + Modulus
        BY <1>1, <2>2
      <4>3. QED
        BY <4>1, <4>2
    <3>4. QED
      BY <1>1, <2>1, <2>2, <3>1, <3>2, <3>3
  <2>7. QED
    BY <2>3, <2>4, <2>5, <2>6
<1>5. {r \in Euint64s : SampleWeightedTicket(r, upper) = t} = first .. next - 1
  <2>1. \A r : r \in Euint64s <=> r \in Nat /\ r < Modulus
    BY <1>1 DEF Euint64s
  <2>2. \A r : r \in first .. next - 1 <=> r \in Nat /\ first <= r /\ r < next
    OBVIOUS
  <2>3. QED
    BY <1>1, <1>2, <1>4, <2>1, <2>2
<1>6. QED
  BY <1>3, <1>5

\* Of the 2^64 random values, the floor or the ceiling of 2^64 / upper hit any
\* one ticket below upper, as the comment on _sampleWeightedTicket says, for
\* every upper bound and every width.
THEOREM TicketsAreEven ==
  ASSUME NEW upper \in Euint64s \ {0}, NEW t \in 0 .. (upper - 1)
  PROVE  Cardinality({r \in Euint64s : SampleWeightedTicket(r, upper) = t})
           \in {Modulus \div upper, (Modulus + upper - 1) \div upper}
<1>1. /\ upper \in Nat /\ upper > 0 /\ Modulus \in Nat /\ Modulus > 0 /\ t \in Nat
  BY ModulusAssumption DEF Euint64s
<1>2. t * Modulus \in Nat /\ (t + 1) * Modulus \in Nat /\ (t + 1) * Modulus = t * Modulus + Modulus
  BY <1>1
<1>3. PICK first \in Nat : t * Modulus <= first * upper /\ first * upper < t * Modulus + upper
  BY <1>1, <1>2, Ceiling
<1>4. PICK next \in Nat : /\ (t + 1) * Modulus <= next * upper
                          /\ next * upper < (t + 1) * Modulus + upper
  BY <1>1, <1>2, Ceiling
<1> DEFINE hits == next - first
<1>5. /\ {r \in Euint64s : SampleWeightedTicket(r, upper) = t} = first .. next - 1
      /\ hits \in Nat
  BY <1>3, <1>4, HitsInterval
<1>6. Cardinality(first .. next - 1) = hits
  <2>1. first \in Int /\ next - 1 \in Int
    OBVIOUS
  <2>2. Cardinality(first .. next - 1) = IF first > next - 1 THEN 0 ELSE (next - 1) - first + 1
    BY <2>1, FS_Interval
  <2>3. QED
    BY <1>5, <2>2
<1>7. hits * upper = next * upper - first * upper
  BY <1>1
<1>8. /\ hits * upper < Modulus + upper
      /\ Modulus < hits * upper + upper
  <2>1. first * upper \in Nat /\ next * upper \in Nat
    BY <1>1
  <2>2. QED
    BY <1>1, <1>2, <1>3, <1>4, <1>7, <2>1
<1> HIDE DEF hits
<1> DEFINE least == Modulus \div upper
           most == (Modulus + upper - 1) \div upper
<1>9. /\ least \in Nat /\ least * upper <= Modulus /\ Modulus < least * upper + upper
  <2> DEFINE rest == Modulus % upper
  <2>1. least \in Nat /\ rest \in 0 .. upper - 1 /\ Modulus = upper * least + rest
    BY <1>1
  <2> HIDE DEF least, rest
  <2>2. upper * least = least * upper /\ upper * least \in Nat
    BY <1>1, <2>1
  <2>3. QED
    BY <1>1, <2>1, <2>2
<1>10. /\ most \in Nat /\ Modulus <= most * upper /\ most * upper < Modulus + upper
  <2> DEFINE rest == (Modulus + upper - 1) % upper
  <2>1. most \in Nat /\ rest \in 0 .. upper - 1 /\ Modulus + upper - 1 = upper * most + rest
    BY <1>1
  <2> HIDE DEF most, rest
  <2>2. upper * most = most * upper /\ upper * most \in Nat
    BY <1>1, <2>1
  <2>3. QED
    BY <1>1, <2>1, <2>2
<1> HIDE DEF least, most
<1>11. hits \in {least, most}
  <2>1. /\ hits * upper \in Nat /\ least * upper \in Nat /\ most * upper \in Nat
    BY <1>1, <1>5, <1>9, <1>10
  <2>2. /\ least <= hits
        /\ hits <= most
    <3>1. hits + 1 <= least => hits * upper + upper <= least * upper
      <4>1. hits + 1 <= least => (hits + 1) * upper <= least * upper
        BY <1>1, <1>5, <1>9
      <4>2. (hits + 1) * upper = hits * upper + upper
        BY <1>1, <1>5
      <4>3. QED
        BY <4>1, <4>2
    <3>2. most + 1 <= hits => most * upper + upper <= hits * upper
      <4>1. most + 1 <= hits => (most + 1) * upper <= hits * upper
        BY <1>1, <1>5, <1>10
      <4>2. (most + 1) * upper = most * upper + upper
        BY <1>1, <1>10
      <4>3. QED
        BY <4>1, <4>2
    <3>3. QED
      BY <1>1, <1>5, <1>8, <1>9, <1>10, <2>1, <3>1, <3>2
  <2>3. most <= least + 1
    <3>1. least + 2 <= most => least * upper + 2 * upper <= most * upper
      <4>1. least + 2 <= most => (least + 2) * upper <= most * upper
        BY <1>1, <1>9, <1>10
      <4>2. (least + 2) * upper = least * upper + 2 * upper
        BY <1>1, <1>9
      <4>3. QED
        BY <4>1, <4>2
    <3>2. QED
      BY <1>1, <1>9, <1>10, <2>1, <3>1
  <2>4. QED
    BY <1>5, <1>9, <1>10, <2>2, <2>3
<1>12. QED
  BY <1>5, <1>6, <1>11 DEF least, most

\* No random value picks a ticket that nobody holds, and the others are even.
THEOREM TicketsAlwaysEven == Spec => []TicketsEven
<1>1. LoopInv => TicketsEven
  <2> SUFFICES ASSUME LoopInv, NEW t \in Euint64s
               PROVE  LET hits == Cardinality({r \in Euint64s : SampleWeightedTicket(r, total) = t})
                      IN  IF t < total
                          THEN hits \in {Modulus \div total, (Modulus + total - 1) \div total}
                          ELSE hits = 0
    BY DEF TicketsEven
  <2>1. PICK upper : upper = total
    OBVIOUS
  <2>2. upper \in Euint64s \ {0}
    BY <2>1 DEF LoopInv, Snapshot
  <2>3. CASE t < upper
    <3>1. t \in 0 .. (upper - 1)
      BY <2>2, <2>3, ModulusAssumption DEF Euint64s
    <3>2. QED
      BY <2>1, <2>2, <2>3, <3>1, TicketsAreEven
  <2>4. CASE ~(t < upper)
    <3>1. \A r \in Euint64s : SampleWeightedTicket(r, upper) \in 0 .. (upper - 1)
      BY <2>2, TicketBelowTotal
    <3>2. {r \in Euint64s : SampleWeightedTicket(r, upper) = t} = {}
      BY <2>2, <2>4, <3>1, ModulusAssumption DEF Euint64s
    <3>3. QED
      BY <2>1, <2>4, <3>2, FS_EmptySet
  <2>5. QED
    BY <2>3, <2>4
<1>2. QED
  BY <1>1, LoopInit, LoopStep, PTL DEF Spec
=============================================================================
