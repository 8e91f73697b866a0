-------------------------- MODULE ArithmeticProofs --------------------------
(***************************************************************************)
(* Facts about the operators the pool is built from: the encrypted         *)
(* arithmetic for every width, sums over every finite set, and the         *)
(* intervals of a draw for every number of participants.                   *)
(*                                                                         *)
(* What needs induction is proved from a counterexample of least size:     *)
(* that is a fact about sets of numbers, and no rule over formulas.        *)
(***************************************************************************)
EXTENDS WeightedTicket, FiniteSetTheorems, TLAPS

-----------------------------------------------------------------------------
(* Encrypted integers *)

\* Whatever the operands, FHE.add and FHE.sub return a value of their width.
THEOREM ArithmeticClosed ==
  ASSUME NEW a \in Int, NEW b \in Int
  PROVE  Add(a, b) \in Euint64s /\ Sub(a, b) \in Euint64s
BY ModulusAssumption DEF Add, Sub, Euint64s

\* Where the true result fits the width, it is the result: nothing wraps.
THEOREM ArithmeticExact ==
  ASSUME NEW a \in Euint64s, NEW b \in Euint64s
  PROVE  /\ a + b < Modulus => Add(a, b) = a + b
         /\ b <= a => Sub(a, b) = a - b
BY ModulusAssumption DEF Add, Sub, Euint64s

\* Every ticket lies below the encrypted total that scales it, so that no
\* random value picks a ticket nobody holds.
THEOREM TicketBelowTotal ==
  ASSUME NEW random \in Euint64s, NEW total \in Euint64s \ {0}
  PROVE  SampleWeightedTicket(random, total) \in 0 .. (total - 1)
<1> DEFINE product == random * total
           ticket  == product \div Modulus
<1>1. /\ random \in Nat /\ random < Modulus
      /\ total \in Nat /\ total > 0
      /\ Modulus \in Nat /\ Modulus > 0
  BY ModulusAssumption DEF Euint64s
<1>2. product \in Nat /\ product < Modulus * total
  BY <1>1
<1>3. ticket \in Nat /\ ticket * Modulus <= product
  BY <1>1, <1>2
<1>4. ticket < total
  <2>1. ASSUME ticket >= total PROVE FALSE
    <3> HIDE DEF ticket, product
    <3>1. ticket * Modulus >= total * Modulus
      BY <1>1, <1>3, <2>1
    <3>2. QED
      BY <1>1, <1>2, <1>3, <3>1
  <2>2. QED
    BY <1>1, <1>3, <2>1
<1>5. QED
  BY <1>1, <1>3, <1>4 DEF SampleWeightedTicket

-----------------------------------------------------------------------------
(* Least counterexamples *)

LEMMA LeastNatural ==
  ASSUME NEW S \in SUBSET Nat, S # {}
  PROVE  \E m \in S : \A n \in S : m <= n
<1>1. PICK m \in S : \A n \in S : ~ (<<n, m>> \in OpToRel(<, Nat))
  BY NatLessThanWellFounded, WFMin
<1>2. \A n \in S : ~ (n < m)
  BY <1>1 DEF OpToRel
<1>3. QED
  BY <1>2

\* Among the subsets that fail, one is smallest; taking an element out of it
\* leaves one that does not fail.
LEMMA LeastSubset ==
  ASSUME NEW S, IsFiniteSet(S), NEW Bad \in SUBSET SUBSET S, Bad # {}
  PROVE  \E T \in Bad : \A x \in T : T \ {x} \in SUBSET S /\ T \ {x} \notin Bad
<1> DEFINE Sizes == {Cardinality(T) : T \in Bad}
<1>1. \A T \in Bad : IsFiniteSet(T) /\ Cardinality(T) \in Nat
  BY FS_Subset, FS_CardinalityType
<1>2. Sizes \in SUBSET Nat /\ Sizes # {}
  BY <1>1
<1> HIDE DEF Sizes
<1>3. PICK m \in Sizes : \A n \in Sizes : m <= n
  BY <1>2, LeastNatural
<1>4. PICK T \in Bad : m = Cardinality(T)
  BY <1>3 DEF Sizes
<1>5. ASSUME NEW x \in T, T \ {x} \in Bad PROVE FALSE
  <2>1. Cardinality(T \ {x}) = Cardinality(T) - 1
    BY <1>1, FS_RemoveElement
  <2>2. Cardinality(T \ {x}) \in Sizes
    BY <1>5 DEF Sizes
  <2>3. QED
    BY <1>1, <1>3, <1>4, <2>1, <2>2
<1>6. QED
  BY <1>5

-----------------------------------------------------------------------------
(* The recursive function behind the sum *)

First(T) == CHOOSE x \in T : TRUE

\* g holds the sum of f over every set of the family F.
Sums(g, f, F) ==
  g = [T \in F |-> IF T = {} THEN 0 ELSE f[First(T)] + g[T \ {First(T)}]]

LEMMA SumIsChosen ==
  ASSUME NEW f, NEW S
  PROVE  SumFunctionOnSet(f, S) = (CHOOSE g : Sums(g, f, SUBSET S))[S]
BY DEF SumFunctionOnSet, FoldFunctionOnSet, MapThenFoldSet, Sums, First

LEMMA FirstIn == \A T : T # {} => First(T) \in T
BY DEF First

\* The recursion has a solution: built for ever larger sets.
LEMMA SumsExist ==
  ASSUME NEW f, NEW S, IsFiniteSet(S)
  PROVE  \E g : Sums(g, f, SUBSET S)
<1> DEFINE Upto(n) == {T \in SUBSET S : Cardinality(T) <= n}
           Bad == {n \in Nat : ~ \E g : Sums(g, f, Upto(n))}
<1>1. \A T \in SUBSET S : /\ IsFiniteSet(T) /\ Cardinality(T) \in Nat
                          /\ Cardinality(T) <= Cardinality(S)
                          /\ T # {} => Cardinality(T) > 0
  BY FS_Subset, FS_CardinalityType, FS_EmptySet
<1>2. Cardinality(S) \in Nat
  BY FS_CardinalityType
<1>3. 0 \notin Bad
  <2>1. Upto(0) = {{}}
    BY <1>1, FS_EmptySet
  <2>2. Sums([T \in {{}} |-> 0], f, {{}})
    BY DEF Sums
  <2>3. QED
    BY <2>1, <2>2
<1>4. ASSUME Bad # {} PROVE FALSE
  <2>1. PICK m \in Bad : \A n \in Bad : m <= n
    BY <1>4, LeastNatural
  <2>2. m \in Nat /\ m - 1 \in Nat /\ m - 1 \notin Bad
    <3>1. Bad \subseteq Nat
      OBVIOUS
    <3> HIDE DEF Bad
    <3>2. QED
      BY <1>3, <2>1, <3>1
  <2>3. PICK g : Sums(g, f, Upto(m - 1))
    BY <2>2
  <2> DEFINE h == [T \in Upto(m) |->
                     IF T \in Upto(m - 1) THEN g[T]
                     ELSE f[First(T)] + g[T \ {First(T)}]]
  <2> HIDE DEF Bad
  <2>4. ASSUME NEW T \in Upto(m), T # {}
        PROVE  T \ {First(T)} \in Upto(m - 1) /\ T \ {First(T)} \in Upto(m)
    <3>1. First(T) \in T
      BY <2>4, FirstIn
    <3>2. Cardinality(T \ {First(T)}) = Cardinality(T) - 1
      BY <1>1, <3>1, FS_RemoveElement
    <3>3. QED
      BY <1>1, <2>2, <3>2
  <2>5. {} \in Upto(m - 1) /\ {} \in Upto(m)
    BY <2>2, FS_EmptySet
  <2> HIDE DEF Upto
  <2>6. \A T \in Upto(m - 1) :
          g[T] = IF T = {} THEN 0 ELSE f[First(T)] + g[T \ {First(T)}]
    BY <2>3 DEF Sums
  <2>7. \A T \in Upto(m) :
          h[T] = IF T = {} THEN 0 ELSE f[First(T)] + h[T \ {First(T)}]
    BY <2>4, <2>5, <2>6
  <2>8. Sums(h, f, Upto(m))
    BY <2>7 DEF Sums
  <2>9. QED
    BY <2>1, <2>8 DEF Bad
<1>5. Cardinality(S) \notin Bad
  BY <1>4
<1>6. Upto(Cardinality(S)) = SUBSET S
  BY <1>1
<1>7. QED
  BY <1>2, <1>5, <1>6

\* Two solutions agree wherever both are defined.
LEMMA SumsAgree ==
  ASSUME NEW f, NEW R, NEW S \in SUBSET R, IsFiniteSet(R), NEW g, NEW h,
         Sums(g, f, SUBSET R), Sums(h, f, SUBSET S)
  PROVE  \A T \in SUBSET S : g[T] = h[T]
<1> DEFINE Bad == {T \in SUBSET S : g[T] # h[T]}
<1>1. ASSUME Bad # {} PROVE FALSE
  <2>1. IsFiniteSet(S) /\ Bad \in SUBSET SUBSET S
    BY FS_Subset
  <2>2. PICK T \in Bad : \A x \in T : T \ {x} \in SUBSET S /\ T \ {x} \notin Bad
    <3> HIDE DEF Bad
    <3>1. QED
      BY <1>1, <2>1, LeastSubset
  <2>3. /\ g[T] = IF T = {} THEN 0 ELSE f[First(T)] + g[T \ {First(T)}]
        /\ h[T] = IF T = {} THEN 0 ELSE f[First(T)] + h[T \ {First(T)}]
    BY DEF Sums
  <2>4. QED
    BY <2>2, <2>3, FirstIn
<1>2. QED
  BY <1>1

\* The equation that defines the sum.
LEMMA SumUnfolds ==
  ASSUME NEW f, NEW S, IsFiniteSet(S)
  PROVE  SumFunctionOnSet(f, S) =
           IF S = {} THEN 0 ELSE f[First(S)] + SumFunctionOnSet(f, S \ {First(S)})
<1> DEFINE g == CHOOSE g : Sums(g, f, SUBSET S)
           R == S \ {First(S)}
           h == CHOOSE h : Sums(h, f, SUBSET R)
<1>1. Sums(g, f, SUBSET S)
  BY SumsExist
<1>2. R \in SUBSET S /\ IsFiniteSet(R)
  BY FS_Subset
<1> HIDE DEF R
<1>3. Sums(h, f, SUBSET R)
  BY <1>2, SumsExist
<1>4. SumFunctionOnSet(f, S) = g[S] /\ SumFunctionOnSet(f, R) = h[R]
  BY SumIsChosen
<1> HIDE DEF g, h
<1>5. g[S] = IF S = {} THEN 0 ELSE f[First(S)] + g[R]
  BY <1>1 DEF Sums, R
<1>6. g[R] = h[R]
  BY <1>1, <1>2, <1>3, SumsAgree
<1>7. QED
  BY <1>4, <1>5, <1>6 DEF R

-----------------------------------------------------------------------------
(* The sum of natural numbers *)

LEMMA SumEmpty == \A f : SumFunctionOnSet(f, {}) = 0
BY SumUnfolds, FS_EmptySet

LEMMA SumType ==
  ASSUME NEW S, IsFiniteSet(S), NEW f, \A x \in S : f[x] \in Nat
  PROVE  SumFunctionOnSet(f, S) \in Nat
<1> DEFINE Bad == {T \in SUBSET S : SumFunctionOnSet(f, T) \notin Nat}
<1>1. ASSUME Bad # {} PROVE FALSE
  <2>1. Bad \in SUBSET SUBSET S
    OBVIOUS
  <2>2. PICK T \in Bad : \A x \in T : T \ {x} \in SUBSET S /\ T \ {x} \notin Bad
    <3> HIDE DEF Bad
    <3>1. QED
      BY <1>1, <2>1, LeastSubset
  <2>3. T \in SUBSET S /\ IsFiniteSet(T) /\ SumFunctionOnSet(f, T) \notin Nat
    BY <2>2, FS_Subset
  <2>4. T # {}
    BY <2>3, SumEmpty
  <2>5. First(T) \in T
    BY <2>4, FirstIn
  <2>6. SumFunctionOnSet(f, T \ {First(T)}) \in Nat
    BY <2>2, <2>5
  <2>7. SumFunctionOnSet(f, T) = f[First(T)] + SumFunctionOnSet(f, T \ {First(T)})
    BY <2>3, <2>4, SumUnfolds
  <2>8. QED
    BY <2>3, <2>5, <2>6, <2>7
<1>2. QED
  BY <1>1

\* Any element may be taken out first.
LEMMA SumRemove ==
  ASSUME NEW S, IsFiniteSet(S), NEW f, \A x \in S : f[x] \in Nat, NEW a \in S
  PROVE  SumFunctionOnSet(f, S) = f[a] + SumFunctionOnSet(f, S \ {a})
<1> DEFINE Sum(T) == SumFunctionOnSet(f, T)
           Bad == {T \in SUBSET S : \E b \in T : Sum(T) # f[b] + Sum(T \ {b})}
<1>1. ASSUME Bad # {} PROVE FALSE
  <2>1. Bad \in SUBSET SUBSET S
    OBVIOUS
  <2>2. PICK T \in Bad : \A x \in T : T \ {x} \in SUBSET S /\ T \ {x} \notin Bad
    <3> HIDE DEF Bad
    <3>1. QED
      BY <1>1, <2>1, LeastSubset
  <2>3. T \in SUBSET S /\ IsFiniteSet(T)
    BY FS_Subset
  <2>4. PICK b \in T : Sum(T) # f[b] + Sum(T \ {b})
    BY <2>2
  <2> DEFINE c == First(T)
  <2>5. c \in T
    BY <2>4, FirstIn
  <2>6. Sum(T) = f[c] + Sum(T \ {c})
    BY <2>3, <2>4, SumUnfolds
  <2>7. b # c
    BY <2>4, <2>6
  <2>8. Sum(T \ {c}) = f[b] + Sum((T \ {c}) \ {b})
    BY <2>2, <2>4, <2>5, <2>7
  <2>9. Sum(T \ {b}) = f[c] + Sum((T \ {b}) \ {c})
    BY <2>2, <2>4, <2>5, <2>7
  <2>10. (T \ {c}) \ {b} = (T \ {b}) \ {c}
    OBVIOUS
  <2>11. /\ f[b] \in Nat /\ f[c] \in Nat
         /\ Sum((T \ {b}) \ {c}) \in Nat
    <3>1. IsFiniteSet((T \ {b}) \ {c})
      BY <2>3, FS_RemoveElement
    <3>2. \A x \in (T \ {b}) \ {c} : f[x] \in Nat
      BY <2>3
    <3>3. QED
      BY <2>3, <2>4, <2>5, <3>1, <3>2, SumType
  <2>12. Sum((T \ {c}) \ {b}) = Sum((T \ {b}) \ {c})
    BY <2>10
  <2> DEFINE rest == Sum((T \ {b}) \ {c})
             less == Sum(T \ {c})
             fewer == Sum(T \ {b})
  <2>13. /\ Sum(T) = f[c] + less /\ less = f[b] + rest /\ fewer = f[c] + rest
         /\ Sum(T) # f[b] + fewer
         /\ f[b] \in Nat /\ f[c] \in Nat /\ rest \in Nat
    BY <2>4, <2>6, <2>8, <2>9, <2>11, <2>12
  <2> HIDE DEF Sum, c, rest, less, fewer
  <2>14. QED
    BY <2>13
<1>2. S \notin Bad
  BY <1>1
<1>3. QED
  BY <1>2

LEMMA SumAdd ==
  ASSUME NEW S, IsFiniteSet(S), NEW f, \A x \in S : f[x] \in Nat,
         NEW a, a \notin S, f[a] \in Nat
  PROVE  SumFunctionOnSet(f, S \cup {a}) = SumFunctionOnSet(f, S) + f[a]
<1>1. IsFiniteSet(S \cup {a}) /\ (S \cup {a}) \ {a} = S
  BY FS_AddElement
<1>2. SumFunctionOnSet(f, S) \in Nat
  BY SumType
<1> DEFINE whole == S \cup {a}
<1>3. a \in whole /\ \A x \in whole : f[x] \in Nat
  OBVIOUS
<1>4. IsFiniteSet(whole) /\ whole \ {a} = S
  BY <1>1
<1> HIDE DEF whole
<1>5. SumFunctionOnSet(f, whole) = f[a] + SumFunctionOnSet(f, whole \ {a})
  BY <1>3, <1>4, SumRemove
<1>6. SumFunctionOnSet(f, whole) = f[a] + SumFunctionOnSet(f, S)
  BY <1>4, <1>5
<1>7. QED
  BY <1>2, <1>6 DEF whole

\* The sum depends on the values of the summands only.
LEMMA SumSame ==
  ASSUME NEW S, IsFiniteSet(S), NEW f, NEW g, \A x \in S : f[x] = g[x]
  PROVE  SumFunctionOnSet(f, S) = SumFunctionOnSet(g, S)
<1> DEFINE Bad == {T \in SUBSET S : SumFunctionOnSet(f, T) # SumFunctionOnSet(g, T)}
<1>1. ASSUME Bad # {} PROVE FALSE
  <2>1. Bad \in SUBSET SUBSET S
    OBVIOUS
  <2>2. PICK T \in Bad : \A x \in T : T \ {x} \in SUBSET S /\ T \ {x} \notin Bad
    <3> HIDE DEF Bad
    <3>1. QED
      BY <1>1, <2>1, LeastSubset
  <2>3. T \in SUBSET S /\ IsFiniteSet(T)
    BY <2>2, FS_Subset
  <2>4. T # {}
    BY <2>2, SumEmpty
  <2>5. First(T) \in T
    BY <2>4, FirstIn
  <2>6. SumFunctionOnSet(f, T \ {First(T)}) = SumFunctionOnSet(g, T \ {First(T)})
    BY <2>2, <2>5
  <2>7. /\ SumFunctionOnSet(f, T) = f[First(T)] + SumFunctionOnSet(f, T \ {First(T)})
        /\ SumFunctionOnSet(g, T) = g[First(T)] + SumFunctionOnSet(g, T \ {First(T)})
    BY <2>3, <2>4, SumUnfolds
  <2>8. QED
    BY <2>2, <2>3, <2>5, <2>6, <2>7
<1>2. QED
  BY <1>1

\* One summand changes: the sum changes by the difference.
LEMMA SumUpdate ==
  ASSUME NEW S, IsFiniteSet(S), NEW f, NEW g, NEW a \in S,
         \A x \in S : f[x] \in Nat, g[a] \in Nat,
         \A x \in S : x # a => g[x] = f[x]
  PROVE  SumFunctionOnSet(g, S) = SumFunctionOnSet(f, S) - f[a] + g[a]
<1> DEFINE R == S \ {a}
<1>1. IsFiniteSet(R) /\ R \subseteq S /\ a \notin R
  BY FS_RemoveElement
<1>2. /\ SumFunctionOnSet(f, S) = f[a] + SumFunctionOnSet(f, R)
      /\ SumFunctionOnSet(g, S) = g[a] + SumFunctionOnSet(g, R)
  <2>1. \A x \in S : g[x] \in Nat
    OBVIOUS
  <2>2. QED
    BY <2>1, SumRemove
<1> HIDE DEF R
<1>3. SumFunctionOnSet(f, R) = SumFunctionOnSet(g, R)
  BY <1>1, SumSame DEF R
<1>4. SumFunctionOnSet(f, R) \in Nat
  BY <1>1, SumType
<1>5. QED
  BY <1>2, <1>3, <1>4

LEMMA SumZero ==
  ASSUME NEW S, IsFiniteSet(S), NEW f, \A x \in S : f[x] = 0
  PROVE  SumFunctionOnSet(f, S) = 0
<1> DEFINE Bad == {T \in SUBSET S : SumFunctionOnSet(f, T) # 0}
<1>1. ASSUME Bad # {} PROVE FALSE
  <2>1. Bad \in SUBSET SUBSET S
    OBVIOUS
  <2>2. PICK T \in Bad : \A x \in T : T \ {x} \in SUBSET S /\ T \ {x} \notin Bad
    <3> HIDE DEF Bad
    <3>1. QED
      BY <1>1, <2>1, LeastSubset
  <2>3. T \in SUBSET S /\ IsFiniteSet(T) /\ T # {}
    BY <2>2, FS_Subset, SumEmpty
  <2>4. First(T) \in T
    BY <2>3, FirstIn
  <2>5. SumFunctionOnSet(f, T) = f[First(T)] + SumFunctionOnSet(f, T \ {First(T)})
    BY <2>3, SumUnfolds
  <2>6. QED
    BY <2>2, <2>3, <2>4, <2>5
<1>2. QED
  BY <1>1

LEMMA SumConstant ==
  ASSUME NEW S, IsFiniteSet(S), NEW f, NEW c \in Nat, \A x \in S : f[x] = c
  PROVE  SumFunctionOnSet(f, S) = Cardinality(S) * c
<1> DEFINE Bad == {T \in SUBSET S : SumFunctionOnSet(f, T) # Cardinality(T) * c}
<1>1. ASSUME Bad # {} PROVE FALSE
  <2>1. Bad \in SUBSET SUBSET S
    OBVIOUS
  <2>2. PICK T \in Bad : \A x \in T : T \ {x} \in SUBSET S /\ T \ {x} \notin Bad
    <3> HIDE DEF Bad
    <3>1. QED
      BY <1>1, <2>1, LeastSubset
  <2>3. T \in SUBSET S /\ IsFiniteSet(T) /\ T # {}
    BY <2>2, FS_Subset, SumEmpty, FS_EmptySet
  <2>4. First(T) \in T
    BY <2>3, FirstIn
  <2> DEFINE n == Cardinality(T \ {First(T)})
  <2>5. n \in Nat /\ Cardinality(T) = n + 1
    <3>1. IsFiniteSet(T \ {First(T)}) /\ n = Cardinality(T) - 1
      BY <2>3, <2>4, FS_RemoveElement
    <3>2. n \in Nat /\ Cardinality(T) \in Nat
      BY <2>3, <3>1, FS_CardinalityType
    <3>3. QED
      BY <3>1, <3>2
  <2>6. SumFunctionOnSet(f, T \ {First(T)}) = n * c
    BY <2>2, <2>4
  <2>7. SumFunctionOnSet(f, T) = f[First(T)] + SumFunctionOnSet(f, T \ {First(T)})
    BY <2>3, SumUnfolds
  <2> HIDE DEF n
  <2>8. SumFunctionOnSet(f, T) = c + n * c
    BY <2>3, <2>4, <2>6, <2>7
  <2>9. (n + 1) * c = c + n * c
    BY <2>5
  <2>10. SumFunctionOnSet(f, T) # Cardinality(T) * c
    BY <2>2
  <2>11. QED
    BY <2>5, <2>8, <2>9, <2>10
<1>2. S \notin Bad
  BY <1>1
<1>3. QED
  BY <1>2

\* A part sums to no more than the whole.
LEMMA SumPart ==
  ASSUME NEW S, IsFiniteSet(S), NEW f, \A x \in S : f[x] \in Nat, NEW R \in SUBSET S
  PROVE  SumFunctionOnSet(f, R) <= SumFunctionOnSet(f, S)
<1> DEFINE Bad == {T \in SUBSET S : R \subseteq T /\ ~(SumFunctionOnSet(f, R) <= SumFunctionOnSet(f, T))}
<1>1. ASSUME Bad # {} PROVE FALSE
  <2>1. Bad \in SUBSET SUBSET S
    OBVIOUS
  <2>2. PICK T \in Bad : \A x \in T : T \ {x} \in SUBSET S /\ T \ {x} \notin Bad
    <3> HIDE DEF Bad
    <3>1. QED
      BY <1>1, <2>1, LeastSubset
  <2>3. /\ T \in SUBSET S /\ IsFiniteSet(T) /\ IsFiniteSet(R) /\ R \subseteq T
        /\ ~(SumFunctionOnSet(f, R) <= SumFunctionOnSet(f, T))
    BY <2>2, FS_Subset
  <2>4. SumFunctionOnSet(f, R) \in Nat /\ SumFunctionOnSet(f, T) \in Nat
    BY <2>3, SumType
  <2>5. R # T
    BY <2>3, <2>4
  <2>6. PICK x \in T : x \notin R
    BY <2>3, <2>5
  <2>7. SumFunctionOnSet(f, R) <= SumFunctionOnSet(f, T \ {x})
    BY <2>2, <2>3, <2>6
  <2>8. SumFunctionOnSet(f, T) = f[x] + SumFunctionOnSet(f, T \ {x})
    BY <2>3, SumRemove
  <2>9. SumFunctionOnSet(f, T \ {x}) \in Nat
    BY <2>3, FS_RemoveElement, SumType
  <2>10. QED
    BY <2>3, <2>4, <2>7, <2>8, <2>9
<1>2. S \notin Bad
  BY <1>1
<1>3. SumFunctionOnSet(f, R) <= SumFunctionOnSet(f, S)
  BY <1>2
<1>4. QED
  BY <1>3

LEMMA SummandBelow ==
  ASSUME NEW S, IsFiniteSet(S), NEW f, \A x \in S : f[x] \in Nat, NEW a \in S
  PROVE  f[a] <= SumFunctionOnSet(f, S)
<1>1. IsFiniteSet(S \ {a})
  BY FS_RemoveElement
<1>2. SumFunctionOnSet(f, S \ {a}) \in Nat
  BY <1>1, SumType
<1>3. QED
  BY <1>2, SumRemove

-----------------------------------------------------------------------------
(* The intervals of a draw *)

\* e holds the cumulative ends of the first n weights.
Ends(e, weights, n) ==
  e = [i \in 0 .. n |-> IF i = 0 THEN 0 ELSE Add(e[i - 1], weights[i])]

LEMMA EndsAreChosen ==
  ASSUME NEW weights
  PROVE  CumulativeEnd(weights) = CHOOSE e : Ends(e, weights, Len(weights))
BY DEF CumulativeEnd, Ends

LEMMA EndsExist ==
  ASSUME NEW weights, NEW n \in Nat
  PROVE  \E e : Ends(e, weights, n)
<1> DEFINE Bad == {k \in Nat : ~ \E e : Ends(e, weights, k)}
<1>1. Bad \in SUBSET Nat
  OBVIOUS
<1>2. 0 \notin Bad
  <2>1. Ends([i \in 0 .. 0 |-> 0], weights, 0)
    BY DEF Ends
  <2>2. QED
    BY <2>1
<1>3. ASSUME Bad # {} PROVE FALSE
  <2>1. PICK m \in Bad : m \in Nat /\ m - 1 \in Nat /\ m - 1 \notin Bad
    <3> HIDE DEF Bad
    <3>1. PICK m \in Bad : \A k \in Bad : m <= k
      BY <1>1, <1>3, LeastNatural
    <3>2. QED
      BY <1>1, <1>2, <3>1
  <2>2. PICK e : Ends(e, weights, m - 1)
    BY <2>1
  <2> DEFINE d == [i \in 0 .. m |->
                     IF i \in 0 .. m - 1 THEN e[i] ELSE Add(e[i - 1], weights[i])]
  <2>3. \A i \in 0 .. m - 1 : e[i] = IF i = 0 THEN 0 ELSE Add(e[i - 1], weights[i])
    BY <2>2 DEF Ends
  <2>4. \A i \in 0 .. m : d[i] = IF i = 0 THEN 0 ELSE Add(d[i - 1], weights[i])
    BY <2>1, <2>3
  <2>5. Ends(d, weights, m)
    BY <2>4 DEF Ends
  <2>6. QED
    BY <2>1, <2>5
<1>4. QED
  BY <1>3

\* The equation that defines the cumulative ends.
LEMMA EndsUnfold ==
  ASSUME NEW weights, Len(weights) \in Nat
  PROVE  \A i \in 0 .. Len(weights) :
           CumulativeEnd(weights)[i] =
             IF i = 0 THEN 0 ELSE Add(CumulativeEnd(weights)[i - 1], weights[i])
<1>1. Ends(CumulativeEnd(weights), weights, Len(weights))
  BY EndsExist, EndsAreChosen
<1> DEFINE e == CumulativeEnd(weights)
<1> HIDE DEF e
<1>2. e = [i \in 0 .. Len(weights) |-> IF i = 0 THEN 0 ELSE Add(e[i - 1], weights[i])]
  BY <1>1 DEF Ends, e
<1>3. \A i \in 0 .. Len(weights) : e[i] = IF i = 0 THEN 0 ELSE Add(e[i - 1], weights[i])
  BY <1>2
<1>4. QED
  BY <1>3 DEF e

\* Where no addition wraps, the intervals are consecutive: a ticket below the
\* last end lies in exactly one of them, and that one is not empty.
THEOREM OneInterval ==
  ASSUME NEW weights, Len(weights) \in Nat,
         \A i \in 1 .. Len(weights) : weights[i] \in Nat,
         \A i \in 0 .. Len(weights) : CumulativeEnd(weights)[i] \in Nat,
         \A i \in 1 .. Len(weights) :
           CumulativeEnd(weights)[i] = CumulativeEnd(weights)[i - 1] + weights[i],
         NEW ticket \in Nat, ticket < CumulativeEnd(weights)[Len(weights)]
  PROVE  \E w \in 1 .. Len(weights) :
           /\ weights[w] > 0
           /\ {j \in 1 .. Len(weights) : IsWinner(weights, ticket, j)} = {w}
<1> DEFINE e == CumulativeEnd(weights)
           n == Len(weights)
           Above == {i \in 0 .. n : ticket < e[i]}
<1>1. e[0] = 0
  BY EndsUnfold
<1>2. /\ n \in Nat /\ ticket < e[n]
      /\ \A i \in 0 .. n : e[i] \in Nat
      /\ \A i \in 1 .. n : weights[i] \in Nat /\ e[i] = e[i - 1] + weights[i]
  OBVIOUS
<1>3. \A j \in 1 .. n : IsWinner(weights, ticket, j) <=> e[j - 1] <= ticket /\ ticket < e[j]
  BY DEF IsWinner
<1> HIDE DEF e, n
<1>4. Above \in SUBSET Nat /\ n \in Above
  BY <1>2
<1>5. PICK w \in Above : \A i \in Above : w <= i
  <2> HIDE DEF Above
  <2>1. QED
    BY <1>4, LeastNatural
<1>6. w \in 1 .. n
  BY <1>1, <1>2, <1>5
<1>7. e[w - 1] <= ticket /\ ticket < e[w]
  <2>1. w - 1 \in 0 .. n /\ w - 1 \notin Above
    BY <1>2, <1>5, <1>6
  <2>2. QED
    BY <1>2, <1>5, <2>1
<1>8. \A j \in 1 .. n : j < w => ~(ticket < e[j])
  BY <1>2, <1>5
\* The ends from w on stay above the ticket.
<1>9. \A j \in 0 .. n : j >= w => ticket < e[j]
  <2> DEFINE Bad == {j \in 0 .. n : j >= w /\ ~(ticket < e[j])}
  <2>1. ASSUME Bad # {} PROVE FALSE
    <3>1. PICK j \in Bad : \A k \in Bad : j <= k
      <4>1. Bad \in SUBSET Nat
        BY <1>2
      <4> HIDE DEF Bad
      <4>2. QED
        BY <2>1, <4>1, LeastNatural
    <3>2. j # w /\ j > w /\ j \in 1 .. n
      BY <1>2, <1>6, <1>7, <3>1
    <3>3. j - 1 \in 0 .. n /\ j - 1 >= w /\ j - 1 \notin Bad
      BY <1>2, <1>6, <3>1, <3>2
    <3>4. ticket < e[j - 1]
      BY <3>3
    <3>5. e[j] = e[j - 1] + weights[j] /\ weights[j] \in Nat /\ e[j - 1] \in Nat
      BY <1>2, <3>2, <3>3
    <3>6. QED
      BY <3>1, <3>4, <3>5
  <2>2. QED
    BY <2>1
<1>10. \A j \in 1 .. n : IsWinner(weights, ticket, j) <=> j = w
  <2> TAKE j \in 1 .. n
  <2>1. CASE j < w
    BY <1>2, <1>3, <1>6, <1>8, <2>1
  <2>2. CASE j = w
    BY <1>3, <1>7, <2>2
  <2>3. CASE j > w
    <3>1. j - 1 \in 0 .. n /\ j - 1 >= w
      BY <1>2, <1>6, <2>3
    <3>2. ticket < e[j - 1] /\ e[j - 1] \in Nat
      BY <1>2, <1>9, <3>1
    <3>3. QED
      BY <1>3, <1>6, <2>3, <3>2
  <2>4. QED
    BY <1>2, <1>6, <2>1, <2>2, <2>3
<1>11. weights[w] > 0
  <2>1. w - 1 \in 0 .. n
    BY <1>2, <1>6
  <2>2. /\ e[w - 1] \in Nat /\ e[w] \in Nat
        /\ weights[w] \in Nat /\ e[w] = e[w - 1] + weights[w]
    BY <1>2, <1>5, <1>6, <2>1
  <2>3. QED
    BY <1>7, <2>2
<1>12. {j \in 1 .. n : IsWinner(weights, ticket, j)} = {w}
  BY <1>6, <1>10
<1>13. QED
  BY <1>6, <1>11, <1>12 DEF n
=============================================================================
