---------------------------- MODULE IndexerProofs ----------------------------
(***************************************************************************)
(* Theorems about the indexer for every number of processes, every batch   *)
(* size, every chain and any number of failures.                           *)
(***************************************************************************)
EXTENDS IndexerProperties, FiniteSetTheorems, SequenceTheorems, WellFoundedInduction, TLAPS

-----------------------------------------------------------------------------
(* An index of a log's prefix: appending to the log leaves it alone, and one *)
(* more event changes it as addDeposit and its siblings do.                  *)

LEMMA LeastNatural ==
  ASSUME NEW S \in SUBSET Nat, S # {}
  PROVE  \E m \in S : \A n \in S : m <= n
<1>1. PICK m \in S : \A n \in S : ~ (<<n, m>> \in OpToRel(<, Nat))
  BY NatLessThanWellFounded, WFMin
<1>2. \A n \in S : ~ (n < m)
  BY <1>1 DEF OpToRel
<1>3. QED
  BY <1>2

LEMMA FirstsFinite ==
  ASSUME NEW log, NEW n \in Nat
  PROVE  /\ IsFiniteSet(Firsts(log, n))
         /\ \A c : IsFiniteSet({j \in Firsts(log, n) : Counter(log[j]) = c})
<1>1. IsFiniteSet(1 .. n)
  BY FS_Interval
<1>2. Firsts(log, n) \subseteq 1 .. n
  BY DEF Firsts
<1>3. QED
  BY <1>1, <1>2, FS_Subset

LEMMA TallyType ==
  ASSUME NEW log, NEW n \in Nat
  PROVE  Tally(log, n) \in [Counters -> Nat]
BY FirstsFinite, FS_CardinalityType DEF Tally

\* An event that is appended does not change the index of what was there.
LEMMA IndexOfPrefix ==
  ASSUME NEW log \in Seq(Logs), NEW longer \in Seq(Logs),
         Len(log) <= Len(longer), \A j \in 1 .. Len(log) : longer[j] = log[j],
         NEW n \in 0 .. Len(log)
  PROVE  /\ Firsts(longer, n) = Firsts(log, n)
         /\ Tally(longer, n) = Tally(log, n)
         /\ \A s : Represents(longer, s, n) <=> Represents(log, s, n)
<1>1. \A j \in 1 .. n : longer[j] = log[j] /\ j \in 1 .. Len(log)
  OBVIOUS
<1>2. Firsts(longer, n) = Firsts(log, n)
  BY <1>1 DEF Firsts
<1>3. \A j \in Firsts(log, n) : longer[j] = log[j]
  BY <1>1 DEF Firsts
<1>4. Tally(longer, n) = Tally(log, n)
  <2>1. ASSUME NEW c
        PROVE {j \in Firsts(log, n) : Counter(longer[j]) = c}
                = {j \in Firsts(log, n) : Counter(log[j]) = c}
    BY <1>3
  <2>2. QED
    BY <1>2, <2>1 DEF Tally
<1>5. {Key(longer[j]) : j \in Firsts(log, n)} = {Key(log[j]) : j \in Firsts(log, n)}
  BY <1>3
<1>6. {j \in Firsts(log, n) : longer[j].name = "DrawExecuted"}
        = {j \in Firsts(log, n) : log[j].name = "DrawExecuted"}
  BY <1>3
<1>7. ASSUME NEW s PROVE Represents(longer, s, n) <=> Represents(log, s, n)
  <2> DEFINE Draws == {j \in Firsts(log, n) : log[j].name = "DrawExecuted"}
  <2>1. \A j \in Draws : longer[j] = log[j]
    BY <1>3
  <2>2. (\E j \in Draws : (\A k \in Draws : k <= j) /\ s.latestDraw = longer[j].number + 1)
          <=> (\E j \in Draws : (\A k \in Draws : k <= j) /\ s.latestDraw = log[j].number + 1)
    BY <2>1
  <2>3. QED
    BY <1>2, <1>4, <1>5, <1>6, <2>2 DEF Represents
<1>8. QED
  BY <1>2, <1>4, <1>7

\* A key that occurs in a prefix occurs there a first time.
LEMMA KeyHasFirst ==
  ASSUME NEW log \in Seq(Logs), NEW n \in 0 .. Len(log), NEW j \in 1 .. n,
         log[j].name \in Recorded
  PROVE  \E k \in Firsts(log, n) : Key(log[k]) = Key(log[j])
<1> DEFINE Same == {k \in 1 .. n : Key(log[k]) = Key(log[j])}
<1>1. Same \in SUBSET Nat /\ j \in Same
  OBVIOUS
<1>2. PICK k \in Same : \A i \in Same : k <= i
  BY <1>1, LeastNatural
<1>3. log[k].name = log[j].name
  BY <1>2 DEF Key
<1>4. \A i \in 1 .. k - 1 : Key(log[i]) # Key(log[k])
  <2>1. ASSUME NEW i \in 1 .. k - 1, Key(log[i]) = Key(log[k]) PROVE FALSE
    <3>1. i \in Same
      BY <2>1, <1>2
    <3>2. QED
      BY <3>1, <1>2, <2>1
  <2>2. QED
    BY <2>1
<1>5. QED
  BY <1>2, <1>3, <1>4 DEF Firsts

\* The index of one more event.
LEMMA FirstsStep ==
  ASSUME NEW log \in Seq(Logs), NEW n \in Nat, n + 1 <= Len(log)
  PROVE  Firsts(log, n + 1) =
           IF log[n + 1].name \notin Recorded
                \/ Key(log[n + 1]) \in {Key(log[j]) : j \in Firsts(log, n)}
           THEN Firsts(log, n)
           ELSE Firsts(log, n) \cup {n + 1}
<1>1. 1 .. n + 1 = (1 .. n) \cup {n + 1} /\ n + 1 \notin 1 .. n
  OBVIOUS
<1>2. \A j \in 1 .. n : j \in Firsts(log, n + 1) <=> j \in Firsts(log, n)
  BY <1>1 DEF Firsts
<1>3. Firsts(log, n) \subseteq 1 .. n /\ Firsts(log, n + 1) \subseteq 1 .. n + 1
  BY DEF Firsts
<1>4. n + 1 \in Firsts(log, n + 1)
        <=> /\ log[n + 1].name \in Recorded
            /\ \A k \in 1 .. n : Key(log[k]) # Key(log[n + 1])
  BY DEF Firsts
<1>5. ASSUME log[n + 1].name \in Recorded
      PROVE  (\E k \in 1 .. n : Key(log[k]) = Key(log[n + 1]))
               <=> Key(log[n + 1]) \in {Key(log[j]) : j \in Firsts(log, n)}
  <2>1. ASSUME NEW k \in 1 .. n, Key(log[k]) = Key(log[n + 1])
        PROVE  Key(log[n + 1]) \in {Key(log[j]) : j \in Firsts(log, n)}
    <3>1. log[k].name \in Recorded
      BY <2>1, <1>5 DEF Key
    <3>2. n \in 0 .. Len(log)
      OBVIOUS
    <3>3. PICK m \in Firsts(log, n) : Key(log[m]) = Key(log[k])
      BY <3>1, <3>2, KeyHasFirst
    <3>4. QED
      BY <3>3, <2>1
  <2>2. QED
    BY <2>1, <1>3
<1> DEFINE Known == \/ log[n + 1].name \notin Recorded
                    \/ Key(log[n + 1]) \in {Key(log[j]) : j \in Firsts(log, n)}
<1>6. n + 1 \in Firsts(log, n + 1) <=> ~Known
  BY <1>4, <1>5
<1> HIDE DEF Known
<1>7. Known => Firsts(log, n + 1) = Firsts(log, n)
  <2> SUFFICES ASSUME Known PROVE Firsts(log, n + 1) = Firsts(log, n)
    OBVIOUS
  <2>1. Firsts(log, n + 1) \subseteq 1 .. n
    BY <1>1, <1>3, <1>6
  <2>2. QED
    BY <1>2, <1>3, <2>1
<1>8. ~Known => Firsts(log, n + 1) = Firsts(log, n) \cup {n + 1}
  <2> SUFFICES ASSUME ~Known PROVE Firsts(log, n + 1) = Firsts(log, n) \cup {n + 1}
    OBVIOUS
  <2>1. n + 1 \in Firsts(log, n + 1)
    BY <1>6
  <2>2. \A j \in Firsts(log, n + 1) : j \in 1 .. n \/ j = n + 1
    BY <1>1, <1>3
  <2>3. QED
    BY <1>2, <1>3, <2>1, <2>2
<1>9. QED
  BY <1>7, <1>8 DEF Known

LEMMA LogTypes ==
  ASSUME NEW log \in Seq(Logs), NEW j \in 1 .. Len(log)
  PROVE  /\ log[j] \in Logs
         /\ log[j].number \in Nat
         /\ log[j].name \in Recorded => Counter(log[j]) \in Counters
<1>1. log[j] \in Logs
  BY ElementOfSeq
<1>2. QED
  BY <1>1 DEF Logs, Counter, Counters

\* An event that the store has seen leaves it as it is.
LEMMA AddKnownEvent ==
  ASSUME NEW log \in Seq(Logs), NEW n \in 0 .. Len(log), NEW j \in 1 .. n,
         NEW s, Represents(log, s, n)
  PROVE  AddEvent(s, log[j]) = s
<1>1. log[j].name \in Recorded => Key(log[j]) \in s.seenEventKeys
  BY KeyHasFirst DEF Represents
<1>2. QED
  BY <1>1 DEF AddEvent

\* The next event takes the store from the index of a prefix to that of the
\* prefix one event longer.
LEMMA AddNextEvent ==
  ASSUME NEW log \in Seq(Logs), NEW n \in Nat, n + 1 <= Len(log),
         NEW s \in Stores, Represents(log, s, n)
  PROVE  Represents(log, AddEvent(s, log[n + 1]), n + 1)
<1> DEFINE next == log[n + 1]
           Old == Firsts(log, n)
           t == AddEvent(s, next)
           Draws(F) == {j \in F : log[j].name = "DrawExecuted"}
<1>1. next \in Logs /\ next.number \in Nat
  BY LogTypes
<1>2. s.seenEventKeys = {Key(log[j]) : j \in Old}
  BY DEF Represents
<1>3. CASE next.name \notin Recorded \/ Key(next) \in s.seenEventKeys
  <2>1. t = s
    BY <1>3 DEF AddEvent
  <2>2. Firsts(log, n + 1) = Old
    BY <1>2, <1>3, FirstsStep
  <2>3. Tally(log, n + 1) = Tally(log, n)
    BY <2>2 DEF Tally
  <2>4. QED
    BY <2>1, <2>2, <2>3 DEF Represents
<1>4. CASE next.name \in Recorded /\ Key(next) \notin s.seenEventKeys
  <2>1. t = [seenEventKeys |-> s.seenEventKeys \cup {Key(next)},
             counts |-> [s.counts EXCEPT ![Counter(next)] = @ + 1],
             latestDraw |-> IF next.name = "DrawExecuted" THEN next.number + 1
                                                          ELSE s.latestDraw]
    BY <1>4 DEF AddEvent
  <2>2. Firsts(log, n + 1) = Old \cup {n + 1}
    BY <1>2, <1>4, FirstsStep
  <2>3. Old \subseteq 1 .. n
    BY DEF Firsts
  <2>4. t.seenEventKeys = {Key(log[j]) : j \in Firsts(log, n + 1)}
    BY <1>2, <2>1, <2>2
  <2>5. t.counts = Tally(log, n + 1)
    <3>1. Counter(next) \in Counters
      BY <1>4, LogTypes
    <3>2. s.counts = Tally(log, n)
      BY DEF Represents
    <3>3. ASSUME NEW c \in Counters
          PROVE  Tally(log, n + 1)[c] = IF c = Counter(next) THEN Tally(log, n)[c] + 1
                                                             ELSE Tally(log, n)[c]
      <4> DEFINE Of(F) == {j \in F : Counter(log[j]) = c}
      <4>1. Tally(log, n)[c] = Cardinality(Of(Old))
        BY DEF Tally
      <4>2. Tally(log, n + 1)[c] = Cardinality(Of(Old \cup {n + 1}))
        BY <2>2 DEF Tally
      <4>3. IsFiniteSet(Of(Old))
        BY FirstsFinite
      <4>4. n + 1 \notin Of(Old)
        BY <2>3
      <4>5. CASE c = Counter(next)
        <5>1. Of(Old \cup {n + 1}) = Of(Old) \cup {n + 1}
          BY <4>5
        <5> HIDE DEF Of
        <5>2. Cardinality(Of(Old) \cup {n + 1}) = Cardinality(Of(Old)) + 1
          BY <4>3, <4>4, FS_AddElement
        <5>3. QED
          BY <4>1, <4>2, <4>5, <5>1, <5>2
      <4>6. CASE c # Counter(next)
        <5>1. Of(Old \cup {n + 1}) = Of(Old)
          BY <4>6
        <5>2. QED
          BY <4>1, <4>2, <4>6, <5>1
      <4>7. QED
        BY <4>5, <4>6
    <3>4. Tally(log, n) \in [Counters -> Nat] /\ Tally(log, n + 1) \in [Counters -> Nat]
      BY TallyType
    <3>5. t.counts = [Tally(log, n) EXCEPT ![Counter(next)] = @ + 1]
      BY <2>1, <3>2
    <3> HIDE DEF t, next
    <3>6. t.counts \in [Counters -> Nat]
      BY <3>1, <3>4, <3>5
    <3>7. \A c \in Counters : t.counts[c] = Tally(log, n + 1)[c]
      BY <3>1, <3>3, <3>4, <3>5
    <3>8. QED
      BY <3>4, <3>6, <3>7
  <2>6. \/ Draws(Firsts(log, n + 1)) = {} /\ t.latestDraw = 0
        \/ \E j \in Draws(Firsts(log, n + 1)) :
             /\ \A k \in Draws(Firsts(log, n + 1)) : k <= j
             /\ t.latestDraw = log[j].number + 1
    <3>1. CASE next.name = "DrawExecuted"
      <4>1. n + 1 \in Draws(Firsts(log, n + 1))
        BY <2>2, <3>1
      <4>2. \A k \in Draws(Firsts(log, n + 1)) : k <= n + 1
        BY <2>2, <2>3
      <4>3. t.latestDraw = log[n + 1].number + 1
        BY <2>1, <3>1
      <4>4. QED
        BY <4>1, <4>2, <4>3
    <3>2. CASE next.name # "DrawExecuted"
      <4>1. Draws(Firsts(log, n + 1)) = Draws(Old) /\ t.latestDraw = s.latestDraw
        BY <2>1, <2>2, <3>2
      <4>2. QED
        BY <4>1 DEF Represents
    <3>3. QED
      BY <3>1, <3>2
  <2>7. QED
    BY <2>4, <2>5, <2>6 DEF Represents
<1>5. QED
  BY <1>3, <1>4

-----------------------------------------------------------------------------
(* The invariant *)

Writes == [nextBlockNumber : Nat \ {0}, snapshot : Stores, by : Instances \cup {Nobody}]

\* The blocks cut the log into consecutive pieces.
BlocksOK ==
  /\ \A b \in 0 .. currentBlock : End(b) \in 0 .. Len(chain)
  /\ \A a, b \in 0 .. currentBlock : a <= b => End(a) <= End(b)

\* A row, or a row to be, is the index of the blocks before its next block.
RowOK(row) ==
  /\ row.nextBlockNumber - 1 \in 0 .. currentBlock
  /\ Represents(chain, row.snapshot, End(row.nextBlockNumber - 1))

\* What a poll knows at each of its stages.  The store may be ahead of the
\* next block by what a failed poll recorded, but never past the last block
\* that the next poll reads.
ProcessOK(i) ==
  /\ phase[i] # "down" =>
       /\ lastPolledBlock[i] - 1 \in 0 .. currentBlock
       /\ lastPolledBlock[i] <= checkpoint.nextBlockNumber
  /\ phase[i] = "idle" =>
       \E n \in End(lastPolledBlock[i] - 1) .. End(QueryToBlock(i)) :
         Represents(chain, store[i], n)
  /\ phase[i] \in {"processing", "saving"} =>
       /\ lastPolledBlock[i] <= queryToBlock[i]
       /\ queryToBlock[i] <= QueryToBlock(i)
  /\ phase[i] = "processing" =>
       /\ cursor[i] - 1 \in End(lastPolledBlock[i] - 1) .. End(queryToBlock[i])
       /\ \E n \in cursor[i] - 1 .. End(queryToBlock[i]) : Represents(chain, store[i], n)
  /\ phase[i] = "saving" => Represents(chain, store[i], End(queryToBlock[i]))
  /\ \A w \in inflight : w.by = i =>
       /\ phase[i] = "saving"
       /\ w.nextBlockNumber = queryToBlock[i] + 1 /\ w.snapshot = store[i]

IInv ==
  /\ TypeOK
  /\ BlocksOK
  /\ RowOK(checkpoint)
  /\ \A w \in inflight : RowOK(w)
  /\ \A i \in Instances : ProcessOK(i)

-----------------------------------------------------------------------------
(* The chain only grows under the processes. *)

Grows ==
  /\ currentBlock \in Nat /\ currentBlock' \in Nat /\ currentBlock <= currentBlock'
  /\ \A b \in 0 .. currentBlock : End(b)' = End(b)
  /\ \A n \in 0 .. Len(chain) : \A s :
       Represents(chain, s, n) => Represents(chain', s, n)

LEMMA LedgerGrows ==
  ASSUME TypeOK, BlocksOK, TypeOK',
         \/ UNCHANGED ledger
         \/ (\E log \in Logs : chain' = Append(chain, log)) /\ UNCHANGED blockEnd
         \/ blockEnd' = Append(blockEnd, Len(chain)) /\ UNCHANGED chain
  PROVE  Grows /\ BlocksOK'
<1>1. chain \in Seq(Logs) /\ chain' \in Seq(Logs) /\ blockEnd \in Seq(Nat)
      /\ blockEnd' \in Seq(Nat)
  BY DEF TypeOK
<1>2. currentBlock \in Nat /\ currentBlock' \in Nat /\ Len(chain) \in Nat
  BY <1>1 DEF currentBlock
<1>3. CASE UNCHANGED ledger
  BY <1>2, <1>3 DEF ledger, Grows, BlocksOK, End, currentBlock
<1>4. CASE (\E log \in Logs : chain' = Append(chain, log)) /\ UNCHANGED blockEnd
  <2>1. /\ Len(chain') = Len(chain) + 1
        /\ \A j \in 1 .. Len(chain) : chain'[j] = chain[j]
    BY <1>1, <1>4
  <2>2. \A n \in 0 .. Len(chain) : \A s :
          Represents(chain, s, n) => Represents(chain', s, n)
    BY <1>1, <1>2, <2>1, IndexOfPrefix
  <2>3. currentBlock' = currentBlock /\ \A b : End(b)' = End(b)
    BY <1>4 DEF currentBlock, End
  <2>4. QED
    BY <1>2, <2>1, <2>2, <2>3 DEF Grows, BlocksOK
<1>5. CASE blockEnd' = Append(blockEnd, Len(chain)) /\ UNCHANGED chain
  <2>1. currentBlock' = currentBlock + 1
    BY <1>1, <1>5 DEF currentBlock
  <2>2. \A b \in 0 .. currentBlock : End(b)' = End(b)
    BY <1>1, <1>2, <1>5 DEF currentBlock, End
  <2>3. \A b : b = currentBlock + 1 => End(b)' = Len(chain)
    BY <1>1, <1>2, <1>5 DEF currentBlock, End
  <2>4. \A b \in 0 .. currentBlock + 1 : b \in 0 .. currentBlock \/ b = currentBlock + 1
    BY <1>2
  <2>5. BlocksOK'
    <3>1. \A b \in 0 .. currentBlock + 1 : End(b)' \in 0 .. Len(chain)
      BY <1>2, <2>2, <2>3, <2>4 DEF BlocksOK
    <3>2. ASSUME NEW a \in 0 .. currentBlock + 1, NEW b \in 0 .. currentBlock + 1, a <= b
          PROVE  End(a)' <= End(b)'
      <4>1. CASE b = currentBlock + 1
        BY <1>2, <2>3, <3>1, <4>1, LenProperties
      <4>2. CASE b # currentBlock + 1
        <5>1. a \in 0 .. currentBlock /\ b \in 0 .. currentBlock
          BY <1>2, <2>4, <3>2, <4>2
        <5>2. QED
          BY <2>2, <3>2, <5>1 DEF BlocksOK
      <4>3. QED
        BY <4>1, <4>2
    <3>3. QED
      BY <1>5, <2>1, <3>1, <3>2 DEF BlocksOK
  <2>6. QED
    BY <1>2, <1>5, <2>1, <2>2, <2>5 DEF Grows
<1>6. QED
  BY <1>3, <1>4, <1>5

LEMMA RowKept ==
  ASSUME Grows, BlocksOK, NEW row, RowOK(row)
  PROVE  /\ row.nextBlockNumber - 1 \in 0 .. currentBlock'
         /\ Represents(chain', row.snapshot, End(row.nextBlockNumber - 1)')
<1>1. End(row.nextBlockNumber - 1) \in 0 .. Len(chain)
  BY DEF RowOK, BlocksOK
<1>2. QED
  BY <1>1 DEF RowOK, Grows

LEMMA QueryRange ==
  ASSUME TypeOK, NEW i \in Instances, lastPolledBlock[i] - 1 \in 0 .. currentBlock
  PROVE  /\ QueryToBlock(i) \in lastPolledBlock[i] - 1 .. currentBlock
         /\ currentBlock >= lastPolledBlock[i] => lastPolledBlock[i] <= QueryToBlock(i)
BY IndexerAssumption DEF TypeOK, QueryToBlock, currentBlock

LEMMA QueryKept ==
  ASSUME TypeOK, TypeOK', Grows, NEW i \in Instances,
         lastPolledBlock'[i] = lastPolledBlock[i]
  PROVE  QueryToBlock(i) <= QueryToBlock(i)'
BY IndexerAssumption DEF TypeOK, Grows, QueryToBlock

\* A process that does not move keeps what it knows.
LEMMA ProcessKept ==
  ASSUME IInv, TypeOK', Grows, BlocksOK', NEW i \in Instances,
         phase'[i] = phase[i], store'[i] = store[i], cursor'[i] = cursor[i],
         lastPolledBlock'[i] = lastPolledBlock[i], queryToBlock'[i] = queryToBlock[i],
         checkpoint.nextBlockNumber <= checkpoint'.nextBlockNumber,
         \A w \in inflight' : w.by = i => w \in inflight
  PROVE  ProcessOK(i)'
<1>1. ProcessOK(i) /\ TypeOK /\ BlocksOK
  BY DEF IInv
<1>2. /\ lastPolledBlock[i] \in Nat \ {0} /\ queryToBlock[i] \in Nat
      /\ checkpoint.nextBlockNumber \in Nat /\ checkpoint'.nextBlockNumber \in Nat
      /\ QueryToBlock(i) <= QueryToBlock(i)'
  BY <1>1, QueryKept DEF TypeOK
<1>3. ASSUME phase[i] # "down"
      PROVE  /\ lastPolledBlock[i] - 1 \in 0 .. currentBlock'
             /\ End(lastPolledBlock[i] - 1)' = End(lastPolledBlock[i] - 1)
             /\ lastPolledBlock[i] <= checkpoint'.nextBlockNumber
             /\ QueryToBlock(i) \in 0 .. currentBlock
             /\ QueryToBlock(i)' \in 0 .. currentBlock'
  <2>1. lastPolledBlock[i] - 1 \in 0 .. currentBlock
        /\ lastPolledBlock[i] <= checkpoint.nextBlockNumber
    BY <1>1, <1>3 DEF ProcessOK
  <2>2. QueryToBlock(i) \in lastPolledBlock[i] - 1 .. currentBlock
    BY <1>1, <2>1, QueryRange
  <2>3. QueryToBlock(i)' <= currentBlock'
    BY <1>2, IndexerAssumption DEF Grows, QueryToBlock, TypeOK
  <2>4. QueryToBlock(i)' \in Int
    BY IndexerAssumption DEF Grows, QueryToBlock, TypeOK
  <2>5. End(lastPolledBlock[i] - 1)' = End(lastPolledBlock[i] - 1)
    <3>1. PICK b \in 0 .. currentBlock : b = lastPolledBlock[i] - 1
      BY <2>1
    <3>2. End(b)' = End(b)
      BY DEF Grows
    <3>3. QED
      BY <3>1, <3>2 DEF End
  <2>6. QED
    BY <1>2, <2>1, <2>2, <2>3, <2>4, <2>5 DEF Grows
<1>4. \A n \in 0 .. currentBlock : End(n) \in 0 .. Len(chain)
  BY <1>1 DEF BlocksOK
<1>5. ASSUME phase[i] = "idle"
      PROVE  \E n \in End(lastPolledBlock[i] - 1)' .. End(QueryToBlock(i))' :
               Represents(chain', store[i], n)
  <2>1. PICK n \in End(lastPolledBlock[i] - 1) .. End(QueryToBlock(i)) :
          Represents(chain, store[i], n)
    BY <1>1, <1>5 DEF ProcessOK
  <2>2. QueryToBlock(i) \in 0 .. currentBlock /\ QueryToBlock(i)' \in 0 .. currentBlock'
    BY <1>3, <1>5
  <2>3. n \in 0 .. Len(chain) /\ End(QueryToBlock(i)) \in Nat
    BY <2>2, <1>4, <1>3, <1>5, <2>1 DEF ProcessOK, BlocksOK, End, TypeOK
  <2>4. PICK q \in 0 .. currentBlock : q = QueryToBlock(i)
    BY <2>2
  <2>5. End(q)' = End(q) /\ q \in 0 .. currentBlock'
    BY <2>4 DEF Grows
  <2>6. End(q)' <= End(QueryToBlock(i))' /\ End(QueryToBlock(i))' \in Nat
    BY <2>2, <2>4, <2>5, <1>2 DEF BlocksOK
  <2>7. n \in End(lastPolledBlock[i] - 1)' .. End(QueryToBlock(i))'
    BY <1>3, <1>5, <2>1, <2>3, <2>4, <2>5, <2>6
  <2>8. QED
    BY <2>1, <2>3, <2>7 DEF Grows
<1>6. ASSUME phase[i] \in {"processing", "saving"}
      PROVE  /\ lastPolledBlock[i] <= queryToBlock[i] /\ queryToBlock[i] <= QueryToBlock(i)'
             /\ queryToBlock[i] \in 0 .. currentBlock
             /\ End(queryToBlock[i])' = End(queryToBlock[i])
             /\ End(queryToBlock[i]) \in 0 .. Len(chain)
  <2>1. queryToBlock[i] <= QueryToBlock(i) /\ lastPolledBlock[i] <= queryToBlock[i]
    BY <1>1, <1>6 DEF ProcessOK
  <2>2. queryToBlock[i] \in 0 .. currentBlock
    <3>1. QueryToBlock(i) \in 0 .. currentBlock /\ currentBlock \in Nat
      BY <1>3, <1>6 DEF Grows
    <3>2. QED
      BY <2>1, <3>1, <1>2
  <2>3. End(queryToBlock[i])' = End(queryToBlock[i])
    <3>1. PICK b \in 0 .. currentBlock : b = queryToBlock[i]
      BY <2>2
    <3>2. End(b)' = End(b)
      BY DEF Grows
    <3>3. QED
      BY <3>1, <3>2 DEF End
  <2>4. QueryToBlock(i) \in Int /\ QueryToBlock(i)' \in Int
    BY <1>3, <1>6
  <2>5. QED
    BY <1>2, <1>4, <2>1, <2>2, <2>3, <2>4
<1>7. ASSUME phase[i] = "processing"
      PROVE  /\ cursor[i] - 1 \in End(lastPolledBlock[i] - 1)' .. End(queryToBlock[i])'
             /\ \E n \in cursor[i] - 1 .. End(queryToBlock[i])' : Represents(chain', store[i], n)
  <2>1. /\ cursor[i] - 1 \in End(lastPolledBlock[i] - 1) .. End(queryToBlock[i])
        /\ \E n \in cursor[i] - 1 .. End(queryToBlock[i]) : Represents(chain, store[i], n)
    BY <1>1, <1>7 DEF ProcessOK
  <2>2. cursor[i] \in Nat \ {0}
    BY <1>1 DEF TypeOK
  <2>3. QED
    BY <1>3, <1>6, <1>7, <2>1, <2>2 DEF Grows
<1>8. ASSUME phase[i] = "saving"
      PROVE  Represents(chain', store[i], End(queryToBlock[i])')
  <2>1. Represents(chain, store[i], End(queryToBlock[i]))
    BY <1>1, <1>8 DEF ProcessOK
  <2>2. QED
    BY <1>6, <1>8, <2>1 DEF Grows
<1>9. \A w \in inflight' : w.by = i =>
        /\ phase[i] = "saving"
        /\ w.nextBlockNumber = queryToBlock[i] + 1 /\ w.snapshot = store[i]
  BY <1>1 DEF ProcessOK
<1>10. QED
  BY <1>3, <1>5, <1>6, <1>7, <1>8, <1>9 DEF ProcessOK

-----------------------------------------------------------------------------
(* Initial states and types. *)

LEMMA TallyOfNothing == Tally(<< >>, 0) = [c \in Counters |-> 0]
<1>1. Firsts(<< >>, 0) = {}
  BY DEF Firsts
<1>2. \A c : {j \in Firsts(<< >>, 0) : Counter(<< >>[j]) = c} = {}
  BY <1>1
<1>3. QED
  BY <1>2, FS_EmptySet DEF Tally

LEMMA EmptyStoreType == EmptyStore \in Stores
BY DEF EmptyStore, Stores

LEMMA EmptyStoreIndexesNothing == Represents(<< >>, EmptyStore, 0)
<1>1. Firsts(<< >>, 0) = {}
  BY DEF Firsts
<1>2. QED
  BY <1>1, TallyOfNothing DEF Represents, EmptyStore

LEMMA StoreType ==
  ASSUME NEW s \in Stores, NEW log \in Logs
  PROVE  AddEvent(s, log) \in Stores
<1>1. log.name \in Recorded => Counter(log) \in Counters
  BY DEF Logs, Counter, Counters
<1>2. log.name \in Recorded =>
        Key(log) \in [transactionHash : Nat, kind : Recorded, number : Nat]
  BY DEF Logs, Key
<1>3. CASE log.name \notin Recorded \/ Key(log) \in s.seenEventKeys
  BY <1>3 DEF AddEvent
<1>4. CASE log.name \in Recorded /\ Key(log) \notin s.seenEventKeys
  <2>1. AddEvent(s, log) =
          [seenEventKeys |-> s.seenEventKeys \cup {Key(log)},
           counts        |-> [s.counts EXCEPT ![Counter(log)] = @ + 1],
           latestDraw    |-> IF log.name = "DrawExecuted" THEN log.number + 1
                                                          ELSE s.latestDraw]
    BY <1>4 DEF AddEvent
  <2>2. [s.counts EXCEPT ![Counter(log)] = @ + 1] \in [Counters -> Nat]
    BY <1>1, <1>4 DEF Stores
  <2>3. (IF log.name = "DrawExecuted" THEN log.number + 1 ELSE s.latestDraw) \in Nat
    BY DEF Stores, Logs
  <2>4. s.seenEventKeys \cup {Key(log)}
          \in SUBSET [transactionHash : Nat, kind : Recorded, number : Nat]
    BY <1>2, <1>4 DEF Stores
  <2>5. QED
    BY <2>1, <2>2, <2>3, <2>4 DEF Stores
<1>5. QED
  BY <1>3, <1>4

LEMMA IndexerInit == Init => IInv
<1> SUFFICES ASSUME Init PROVE IInv
  OBVIOUS
<1>1. chain = << >> /\ blockEnd = << >> /\ inflight = {}
      /\ checkpoint = [nextBlockNumber |-> 1, snapshot |-> EmptyStore]
  BY DEF Init, NoCheckpoint
<1>2. currentBlock = 0 /\ End(0) = 0 /\ Len(chain) = 0
  BY <1>1 DEF currentBlock, End
<1>3. TypeOK
  BY <1>1, EmptyStoreType DEF Init, TypeOK, Phases
<1>4. BlocksOK
  BY <1>2 DEF BlocksOK
<1>5. RowOK(checkpoint)
  BY <1>1, <1>2, EmptyStoreIndexesNothing DEF RowOK
<1>6. \A i \in Instances : ProcessOK(i)
  BY <1>1 DEF Init, ProcessOK
<1>7. QED
  BY <1>1, <1>3, <1>4, <1>5, <1>6 DEF IInv

LEMMA AbandonShrinks ==
  ASSUME NEW i \in Instances, Abandon(i), inflight \subseteq Writes
  PROVE  /\ inflight' \subseteq Writes
         /\ \A w \in inflight' : w.by # i
         /\ \A w \in inflight' : w \in inflight \/ w.by = Nobody
         /\ \A w \in inflight' : \E v \in inflight :
              w.nextBlockNumber = v.nextBlockNumber /\ w.snapshot = v.snapshot
<1> DEFINE Sent == {w \in inflight : w.by = i}
           Orphan(w) == [w EXCEPT !.by = Nobody]
<1>1. i # Nobody
  BY IndexerAssumption
<1>2. inflight' = inflight \ Sent \/ inflight' = (inflight \ Sent) \cup {Orphan(w) : w \in Sent}
  BY DEF Abandon
<1>3. ASSUME NEW w \in inflight
      PROVE  /\ Orphan(w) \in Writes /\ Orphan(w).by = Nobody
             /\ Orphan(w).nextBlockNumber = w.nextBlockNumber
             /\ Orphan(w).snapshot = w.snapshot
  BY DEF Writes
<1> HIDE DEF Orphan
<1>4. ASSUME NEW w \in inflight'
      PROVE  (w \in inflight /\ w.by # i) \/ (\E v \in inflight : w = Orphan(v))
  BY <1>2
<1>5. QED
  BY <1>1, <1>3, <1>4

LEMMA TypeNext == IInv /\ [Next]_vars => TypeOK'
<1> SUFFICES ASSUME IInv, [Next]_vars PROVE TypeOK'
  OBVIOUS
<1> USE DEF TypeOK
<1>1. TypeOK /\ BlocksOK /\ \A i \in Instances : ProcessOK(i)
  BY DEF IInv
<1>2. inflight \subseteq Writes
  BY <1>1 DEF Writes
<1>3. ASSUME NEW name \in Emitted, NEW source \in Sources(name), NEW same \in BOOLEAN,
             Emit(name, source, same)
      PROVE  TypeOK'
  <2> DEFINE last  == IF chain = << >> THEN 0 ELSE chain[Len(chain)].transactionHash
             times == Cardinality({j \in 1 .. Len(chain) :
                                     chain[j].name = name /\ chain[j].source = source})
             log == [name |-> name, source |-> source, number |-> times,
                     transactionHash |-> IF same THEN last ELSE last + 1]
  <2>1. last \in Nat
    <3>1. chain # << >> => Len(chain) \in 1 .. Len(chain)
      BY <1>1, EmptySeq, LenProperties
    <3>2. chain # << >> => chain[Len(chain)] \in Logs
      BY <1>1, <3>1, LogTypes
    <3>3. QED
      BY <3>2 DEF Logs
  <2>2. times \in Nat
    <3>1. IsFiniteSet(1 .. Len(chain))
      BY <1>1, FS_Interval
    <3>2. IsFiniteSet({j \in 1 .. Len(chain) : chain[j].name = name /\ chain[j].source = source})
      BY <3>1, FS_Subset
    <3>3. QED
      BY <3>2, FS_CardinalityType
  <2>3. name \in EventNames /\ source \in Users \cup {Pool}
    BY IndexerAssumption DEF Sources
  <2> HIDE DEF last, times
  <2>4. log \in Logs
    BY <2>1, <2>2, <2>3 DEF Logs
  <2>5. chain' = Append(chain, log)
    BY <1>3 DEF Emit, last, times
  <2> HIDE DEF log
  <2>6. chain' \in Seq(Logs)
    BY <1>1, <2>4, <2>5, AppendProperties
  <2>7. UNCHANGED <<blockEnd, checkpoint, inflight, process, faults>>
    BY <1>3 DEF Emit
  <2>8. QED
    BY <1>1, <2>6, <2>7 DEF process
<1>4. CASE Mine
  <2>1. blockEnd' = Append(blockEnd, Len(chain))
        /\ UNCHANGED <<chain, checkpoint, inflight, process, faults>>
    BY <1>4 DEF Mine
  <2>2. blockEnd' \in Seq(Nat)
    BY <1>1, <2>1, LenProperties, AppendProperties
  <2>3. QED
    BY <1>1, <2>1, <2>2 DEF process
<1>5. ASSUME NEW i \in Instances, Start(i) PROVE TypeOK'
  BY <1>1, <1>5 DEF Start, ledger, Phases
<1>6. ASSUME NEW i \in Instances, Poll(i) PROVE TypeOK'
  <2>1. lastPolledBlock[i] - 1 \in 0 .. currentBlock
    BY <1>1, <1>6 DEF Poll, ProcessOK
  <2>2. QueryToBlock(i) \in Nat
    BY <1>1, <2>1, QueryRange
  <2>3. End(lastPolledBlock[i] - 1) + 1 \in Nat \ {0}
    BY <1>1, <2>1 DEF BlocksOK
  <2>4. QED
    BY <1>1, <1>6, <2>2, <2>3 DEF Poll, ledger, Phases
<1>7. ASSUME NEW i \in Instances, ProcessLog(i) PROVE TypeOK'
  <2>1. /\ queryToBlock[i] \in 0 .. currentBlock
        /\ cursor[i] \in 1 .. Len(chain)
    <3>1. lastPolledBlock[i] - 1 \in 0 .. currentBlock /\ queryToBlock[i] <= QueryToBlock(i)
      BY <1>1, <1>7 DEF ProcessLog, ProcessOK
    <3>2. QueryToBlock(i) \in 0 .. currentBlock
      BY <1>1, <3>1, QueryRange
    <3>3. queryToBlock[i] \in 0 .. currentBlock
      <4>1. currentBlock \in Nat /\ queryToBlock[i] \in Nat
        BY <1>1, LenProperties DEF currentBlock
      <4>2. QED
        BY <3>1, <3>2, <4>1
    <3>4. End(queryToBlock[i]) \in 0 .. Len(chain)
      BY <1>1, <3>3 DEF BlocksOK
    <3>5. cursor[i] <= End(queryToBlock[i]) /\ cursor[i] \in Nat \ {0}
      BY <1>1, <1>7 DEF ProcessLog
    <3>6. QED
      BY <3>3, <3>4, <3>5
  <2>2. chain[cursor[i]] \in Logs
    BY <1>1, <2>1, ElementOfSeq
  <2>3. AddEvent(store[i], chain[cursor[i]]) \in Stores
    BY <1>1, <2>2, StoreType
  <2>4. QED
    BY <1>1, <1>7, <2>3 DEF ProcessLog, ledger
<1>8. ASSUME NEW i \in Instances, Save(i) PROVE TypeOK'
  BY <1>1, <1>8 DEF Save, ledger, Phases
<1>9. ASSUME NEW i \in Instances, NEW write \in inflight, Saved(i, write) PROVE TypeOK'
  BY <1>1, <1>9 DEF Saved, Upsert, ledger, Phases
<1>10. ASSUME NEW write \in inflight, SavedLate(write) PROVE TypeOK'
  BY <1>1, <1>10 DEF SavedLate, Upsert, ledger, process
<1>11. ASSUME NEW i \in Instances, Exit(i) PROVE TypeOK'
  BY <1>1, <1>11 DEF Exit, ledger, Phases
<1>12. ASSUME NEW i \in Instances, PollFails(i) PROVE TypeOK'
  <2>1. inflight' \subseteq Writes
    BY <1>2, <1>12, AbandonShrinks DEF PollFails
  <2>2. QED
    BY <1>1, <1>12, <2>1 DEF PollFails, Fault, ledger, Phases, Writes
<1>13. ASSUME NEW i \in Instances, Crash(i) PROVE TypeOK'
  <2>1. inflight' \subseteq Writes
    BY <1>2, <1>13, AbandonShrinks DEF Crash
  <2>2. QED
    BY <1>1, <1>13, <2>1 DEF Crash, Fault, ledger, Phases, Writes
<1>14. ASSUME NEW i \in Instances, Shutdown(i) PROVE TypeOK'
  BY <1>1, <1>14 DEF Shutdown, Fault, ledger
<1>15. CASE UNCHANGED vars
  BY <1>1, <1>15 DEF vars, ledger, process
<1>16. ASSUME NEW i \in Instances, PollNothing(i) PROVE TypeOK'
  BY <1>15, <1>16 DEF PollNothing
<1>17. QED
  BY <1>3, <1>4, <1>5, <1>6, <1>7, <1>8, <1>9, <1>10, <1>11, <1>12, <1>13, <1>14, <1>15, <1>16
     DEF Next, ChainStep, Progress

-----------------------------------------------------------------------------
(* The inductive invariant. *)

\* The fields of process j.
StateOf(j) == <<phase[j], store[j], cursor[j], lastPolledBlock[j], queryToBlock[j]>>

\* What every step of one process has in common.
LEMMA OneProcessMoves ==
  ASSUME IInv, TypeOK', UNCHANGED ledger, NEW i \in Instances,
         ProcessOK(i)',
         RowOK(checkpoint)', \A w \in inflight' : RowOK(w)',
         checkpoint.nextBlockNumber <= checkpoint'.nextBlockNumber,
         \A j \in Instances \ {i} : StateOf(j)' = StateOf(j),
         \A w \in inflight' : w \in inflight \/ w.by = i \/ w.by = Nobody
  PROVE  IInv'
<1>1. Grows /\ BlocksOK'
  BY LedgerGrows DEF IInv
<1>2. ASSUME NEW j \in Instances, j # i PROVE ProcessOK(j)'
  <2>1. \A w \in inflight' : w.by = j => w \in inflight
    BY <1>2, IndexerAssumption
  <2>2. StateOf(j)' = StateOf(j)
    BY <1>2
  <2>3. QED
    BY <1>1, <2>1, <2>2, ProcessKept DEF StateOf
<1>3. \A j \in Instances : ProcessOK(j)'
  BY <1>2
<1>4. QED
  BY <1>1, <1>3 DEF IInv

LEMMA RowsUnmoved ==
  ASSUME IInv, UNCHANGED <<ledger, checkpoint>>,
         \A w \in inflight' : \E v \in inflight :
           w.nextBlockNumber = v.nextBlockNumber /\ w.snapshot = v.snapshot
  PROVE  /\ RowOK(checkpoint)' /\ \A w \in inflight' : RowOK(w)'
         /\ checkpoint.nextBlockNumber <= checkpoint'.nextBlockNumber
<1>1. RowOK(checkpoint) /\ \A w \in inflight : RowOK(w)
  BY DEF IInv
<1>2. checkpoint.nextBlockNumber \in Nat
  BY DEF IInv, TypeOK
<1>3. ASSUME NEW w \in inflight' PROVE RowOK(w)'
  <2>1. PICK v \in inflight : w.nextBlockNumber = v.nextBlockNumber /\ w.snapshot = v.snapshot
    BY <1>3
  <2>2. QED
    BY <1>1, <2>1 DEF RowOK, ledger, End, currentBlock
<1>4. QED
  BY <1>1, <1>2, <1>3 DEF RowOK, ledger, End, currentBlock

LEMMA UpsertKeepsRows ==
  ASSUME IInv, UNCHANGED ledger, NEW write \in inflight, Upsert(write)
  PROVE  /\ RowOK(checkpoint)' /\ \A w \in inflight' : RowOK(w)'
         /\ checkpoint.nextBlockNumber <= checkpoint'.nextBlockNumber
         /\ write.nextBlockNumber <= checkpoint'.nextBlockNumber
         /\ inflight' = inflight \ {write}
<1>1. RowOK(checkpoint) /\ \A w \in inflight : RowOK(w)
  BY DEF IInv
<1>2. checkpoint.nextBlockNumber \in Nat /\ write.nextBlockNumber \in Nat
  BY DEF IInv, TypeOK
<1>3. inflight' = inflight \ {write}
  BY DEF Upsert
<1>4. ASSUME NEW row, RowOK(row) PROVE /\ row.nextBlockNumber - 1 \in 0 .. currentBlock'
                                       /\ Represents(chain', row.snapshot,
                                                     End(row.nextBlockNumber - 1)')
  BY <1>4 DEF RowOK, ledger, End, currentBlock
<1>5. CASE checkpoint.nextBlockNumber <= write.nextBlockNumber
  <2>1. checkpoint'.nextBlockNumber = write.nextBlockNumber
        /\ checkpoint'.snapshot = write.snapshot
    BY <1>5 DEF Upsert
  <2>2. RowOK(write)
    BY <1>1
  <2>3. RowOK(checkpoint)'
    BY <2>1, <2>2 DEF RowOK, ledger, End, currentBlock
  <2>4. \A w \in inflight' : RowOK(w)'
    BY <1>1, <1>3, <1>4 DEF RowOK, End
  <2>5. QED
    BY <1>2, <1>3, <1>5, <2>1, <2>3, <2>4
<1>6. CASE ~ (checkpoint.nextBlockNumber <= write.nextBlockNumber)
  <2>1. checkpoint' = checkpoint
    BY <1>6 DEF Upsert
  <2>2. QED
    BY <1>1, <1>2, <1>3, <1>4, <1>6, <2>1 DEF RowOK, End
<1>7. QED
  BY <1>5, <1>6

LEMMA ChainStepKeeps == IInv /\ ChainStep => IInv'
<1> SUFFICES ASSUME IInv, ChainStep PROVE IInv'
  OBVIOUS
<1>1. TypeOK'
  BY TypeNext DEF Next
<1>2. UNCHANGED <<checkpoint, inflight, process>>
  BY DEF ChainStep, Emit, Mine
<1>3. \/ (\E log \in Logs : chain' = Append(chain, log)) /\ UNCHANGED blockEnd
      \/ blockEnd' = Append(blockEnd, Len(chain)) /\ UNCHANGED chain
  <2>1. CASE Mine
    BY <2>1 DEF Mine
  <2>2. ASSUME NEW name \in Emitted, NEW source \in Sources(name), NEW same \in BOOLEAN,
               Emit(name, source, same)
        PROVE  (\E log \in Logs : chain' = Append(chain, log)) /\ UNCHANGED blockEnd
    <3>1. PICK log : chain' = Append(chain, log)
      BY <2>2 DEF Emit
    <3>2. chain \in Seq(Logs) /\ chain' \in Seq(Logs) /\ UNCHANGED blockEnd
      BY <1>1, <2>2 DEF Emit, IInv, TypeOK
    <3>3. Len(chain) \in Nat /\ Len(chain') = Len(chain) + 1 /\ chain'[Len(chain) + 1] = log
      BY <3>1, <3>2
    <3>4. log \in Logs
      BY <3>2, <3>3, ElementOfSeq
    <3>5. QED
      BY <3>1, <3>2, <3>4
  <2>3. QED
    BY <2>1, <2>2 DEF ChainStep
<1>4. Grows /\ BlocksOK'
  BY <1>1, <1>3, LedgerGrows DEF IInv
<1>5. \A row : RowOK(row) => /\ row.nextBlockNumber - 1 \in 0 .. currentBlock'
                             /\ Represents(chain', row.snapshot, End(row.nextBlockNumber - 1)')
  BY <1>4, RowKept DEF IInv
<1>6. RowOK(checkpoint)' /\ \A w \in inflight' : RowOK(w)'
  BY <1>2, <1>5 DEF IInv, RowOK, End
<1>7. ASSUME NEW i \in Instances PROVE ProcessOK(i)'
  <2>1. checkpoint.nextBlockNumber <= checkpoint'.nextBlockNumber
    BY <1>2 DEF IInv, TypeOK
  <2>2. QED
    BY <1>1, <1>2, <1>4, <2>1, ProcessKept DEF process
<1>8. QED
  BY <1>1, <1>4, <1>6, <1>7 DEF IInv

\* The types a single process's step needs.
LEMMA ProcessTypes ==
  ASSUME TypeOK, NEW i \in Instances
  PROVE  /\ phase[i] \in Phases /\ store[i] \in Stores
         /\ lastPolledBlock[i] \in Nat \ {0} /\ queryToBlock[i] \in Nat
         /\ cursor[i] \in Nat \ {0} /\ currentBlock \in Nat
         /\ checkpoint.nextBlockNumber \in Nat \ {0}
BY LenProperties DEF TypeOK, currentBlock

LEMMA StartKeeps == \A i \in Instances : IInv /\ Start(i) => IInv'
<1> SUFFICES ASSUME NEW i \in Instances, IInv, Start(i) PROVE IInv'
  OBVIOUS
<1>1. TypeOK' /\ TypeOK /\ BlocksOK /\ RowOK(checkpoint)
  BY TypeNext DEF Next, Progress, IInv
<1>2. UNCHANGED <<ledger, checkpoint, inflight>>
      /\ \A j \in Instances \ {i} : StateOf(j)' = StateOf(j)
  BY <1>1 DEF Start, StateOf, TypeOK
<1>3. /\ phase'[i] = "idle" /\ store'[i] = checkpoint.snapshot
      /\ lastPolledBlock'[i] = checkpoint.nextBlockNumber
  BY <1>1 DEF Start, TypeOK
<1>4. \A w \in inflight : w.by # i
  BY DEF Start, IInv, ProcessOK
<1>5. PICK b \in 0 .. currentBlock : b = checkpoint.nextBlockNumber - 1
  BY <1>1 DEF RowOK
<1>6. Represents(chain, checkpoint.snapshot, End(b)) /\ End(b) \in Nat
  <2>1. End(b) \in 0 .. Len(chain) /\ Len(chain) \in Nat
    BY <1>1, LenProperties DEF BlocksOK, TypeOK
  <2>2. End(checkpoint.nextBlockNumber - 1) = End(b)
    BY <1>5
  <2>3. QED
    BY <1>1, <2>1, <2>2 DEF RowOK
<1>7. QueryToBlock(i)' \in b .. currentBlock
  BY <1>1, <1>2, <1>3, <1>5, ProcessTypes, IndexerAssumption DEF QueryToBlock, ledger, currentBlock
<1>8. End(QueryToBlock(i))' \in Nat /\ End(b) <= End(QueryToBlock(i))'
  <2>1. PICK q \in b .. currentBlock : q = QueryToBlock(i)'
    BY <1>7
  <2>2. End(b) <= End(q) /\ End(q) \in Nat
    BY <1>1, <1>5, <2>1 DEF BlocksOK
  <2>3. QED
    BY <1>2, <2>1, <2>2 DEF End, ledger
<1>9. \E n \in End(lastPolledBlock[i] - 1)' .. End(QueryToBlock(i))' :
        Represents(chain', store'[i], n)
  <2>1. End(lastPolledBlock[i] - 1)' = End(b)
    BY <1>2, <1>3, <1>5 DEF End, ledger
  <2>2. QED
    BY <1>2, <1>3, <1>6, <1>8, <2>1 DEF ledger
<1>10. ProcessOK(i)'
  BY <1>1, <1>2, <1>3, <1>4, <1>5, <1>9, ProcessTypes DEF ProcessOK, ledger, currentBlock
<1>11. QED
  BY <1>1, <1>2, <1>10, OneProcessMoves, RowsUnmoved DEF IInv

LEMMA PollKeeps == \A i \in Instances : IInv /\ Poll(i) => IInv'
<1> SUFFICES ASSUME NEW i \in Instances, IInv, Poll(i) PROVE IInv'
  OBVIOUS
<1>1. TypeOK' /\ TypeOK /\ BlocksOK /\ ProcessOK(i)
  BY TypeNext DEF Next, Progress, IInv
<1>2. UNCHANGED <<ledger, checkpoint, inflight>>
      /\ \A j \in Instances \ {i} : StateOf(j)' = StateOf(j)
  BY <1>1 DEF Poll, StateOf, TypeOK
<1>3. /\ phase[i] = "idle" /\ phase'[i] = "processing" /\ store'[i] = store[i]
      /\ lastPolledBlock'[i] = lastPolledBlock[i]
      /\ queryToBlock'[i] = QueryToBlock(i)
      /\ cursor'[i] = End(lastPolledBlock[i] - 1) + 1
      /\ currentBlock >= lastPolledBlock[i]
  BY <1>1 DEF Poll, TypeOK
<1>4. /\ lastPolledBlock[i] - 1 \in 0 .. currentBlock
      /\ lastPolledBlock[i] <= checkpoint.nextBlockNumber
      /\ \A w \in inflight : w.by # i
  BY <1>1, <1>3 DEF ProcessOK
<1>5. PICK n \in End(lastPolledBlock[i] - 1) .. End(QueryToBlock(i)) :
        Represents(chain, store[i], n)
  BY <1>1, <1>3 DEF ProcessOK
<1>6. QueryToBlock(i) \in lastPolledBlock[i] .. currentBlock
  BY <1>1, <1>3, <1>4, QueryRange, ProcessTypes
<1>7. QueryToBlock(i)' = QueryToBlock(i) /\ End(queryToBlock[i])' = End(QueryToBlock(i))
      /\ End(lastPolledBlock[i] - 1)' = End(lastPolledBlock[i] - 1)
  BY <1>2, <1>3 DEF QueryToBlock, ledger, currentBlock, End
<1>8. End(lastPolledBlock[i] - 1) \in Nat /\ End(QueryToBlock(i)) \in Nat
      /\ End(lastPolledBlock[i] - 1) <= End(QueryToBlock(i))
  BY <1>1, <1>4, <1>6, ProcessTypes DEF BlocksOK
<1>9. /\ cursor'[i] - 1 \in End(lastPolledBlock[i] - 1)' .. End(queryToBlock[i])'
      /\ \E m \in cursor'[i] - 1 .. End(queryToBlock[i])' : Represents(chain', store'[i], m)
  BY <1>2, <1>3, <1>5, <1>7, <1>8 DEF ledger
<1>10. QueryToBlock(i) \in Int /\ lastPolledBlock[i] <= QueryToBlock(i)
  BY <1>6
<1>11. ProcessOK(i)'
  BY <1>2, <1>3, <1>4, <1>7, <1>9, <1>10 DEF ProcessOK, ledger, currentBlock
<1>12. QED
  BY <1>1, <1>2, <1>11, OneProcessMoves, RowsUnmoved

LEMMA ProcessLogKeeps == \A i \in Instances : IInv /\ ProcessLog(i) => IInv'
<1> SUFFICES ASSUME NEW i \in Instances, IInv, ProcessLog(i) PROVE IInv'
  OBVIOUS
<1>1. TypeOK' /\ TypeOK /\ BlocksOK /\ ProcessOK(i)
  BY TypeNext DEF Next, Progress, IInv
<1>2. UNCHANGED <<ledger, checkpoint, inflight>>
      /\ \A j \in Instances \ {i} : StateOf(j)' = StateOf(j)
  BY <1>1 DEF ProcessLog, StateOf, TypeOK
<1>3. /\ phase[i] = "processing" /\ phase'[i] = "processing"
      /\ store'[i] = AddEvent(store[i], chain[cursor[i]])
      /\ cursor'[i] = cursor[i] + 1 /\ cursor[i] <= End(queryToBlock[i])
      /\ lastPolledBlock'[i] = lastPolledBlock[i] /\ queryToBlock'[i] = queryToBlock[i]
  BY <1>1 DEF ProcessLog, TypeOK
<1>4. /\ lastPolledBlock[i] - 1 \in 0 .. currentBlock
      /\ lastPolledBlock[i] <= checkpoint.nextBlockNumber
      /\ lastPolledBlock[i] <= queryToBlock[i] /\ queryToBlock[i] <= QueryToBlock(i)
      /\ \A w \in inflight : w.by # i
      /\ cursor[i] - 1 \in End(lastPolledBlock[i] - 1) .. End(queryToBlock[i])
  BY <1>1, <1>3 DEF ProcessOK
<1>5. PICK n \in cursor[i] - 1 .. End(queryToBlock[i]) : Represents(chain, store[i], n)
  BY <1>1, <1>3 DEF ProcessOK
<1>6. queryToBlock[i] \in 0 .. currentBlock
  BY <1>1, <1>4, QueryRange, ProcessTypes
<1>7. /\ End(queryToBlock[i]) \in 0 .. Len(chain) /\ End(lastPolledBlock[i] - 1) \in Nat
      /\ Len(chain) \in Nat /\ chain \in Seq(Logs)
  BY <1>1, <1>4, <1>6, LenProperties DEF BlocksOK, TypeOK
<1>8. cursor[i] \in 1 .. Len(chain) /\ n \in 0 .. Len(chain)
  BY <1>1, <1>3, <1>5, <1>7, ProcessTypes
<1>9. \E m \in cursor[i] .. End(queryToBlock[i]) :
        Represents(chain, AddEvent(store[i], chain[cursor[i]]), m)
  <2>1. CASE n = cursor[i] - 1
    <3>1. n + 1 = cursor[i] /\ n \in Nat /\ n + 1 <= Len(chain)
      BY <1>8, <2>1
    <3>2. Represents(chain, AddEvent(store[i], chain[n + 1]), n + 1)
      BY <1>1, <1>5, <1>7, <3>1, AddNextEvent, ProcessTypes
    <3>3. QED
      BY <1>3, <1>7, <3>1, <3>2
  <2>2. CASE n # cursor[i] - 1
    <3>1. cursor[i] \in 1 .. n /\ n \in cursor[i] .. End(queryToBlock[i])
      BY <1>5, <1>7, <1>8, <2>2
    <3>2. AddEvent(store[i], chain[cursor[i]]) = store[i]
      BY <1>5, <1>7, <1>8, <3>1, AddKnownEvent
    <3>3. QED
      BY <1>5, <3>1, <3>2
  <2>3. QED
    BY <2>1, <2>2
<1>10. QueryToBlock(i)' = QueryToBlock(i) /\ End(queryToBlock[i])' = End(queryToBlock[i])
       /\ End(lastPolledBlock[i] - 1)' = End(lastPolledBlock[i] - 1)
  BY <1>2, <1>3 DEF QueryToBlock, ledger, currentBlock, End
<1>11. cursor'[i] - 1 = cursor[i]
       /\ cursor[i] \in End(lastPolledBlock[i] - 1) .. End(queryToBlock[i])
  BY <1>3, <1>4, <1>7, <1>8
<1>12. ProcessOK(i)'
  BY <1>2, <1>3, <1>4, <1>9, <1>10, <1>11 DEF ProcessOK, ledger, currentBlock
<1>13. QED
  BY <1>1, <1>2, <1>12, OneProcessMoves, RowsUnmoved

LEMMA SaveKeeps == \A i \in Instances : IInv /\ Save(i) => IInv'
<1> SUFFICES ASSUME NEW i \in Instances, IInv, Save(i) PROVE IInv'
  OBVIOUS
<1> DEFINE new == [nextBlockNumber |-> queryToBlock[i] + 1, snapshot |-> store[i], by |-> i]
<1>1. TypeOK' /\ TypeOK /\ BlocksOK /\ ProcessOK(i)
  BY TypeNext DEF Next, Progress, IInv
<1>2. UNCHANGED <<ledger, checkpoint>> /\ inflight' = inflight \cup {new}
      /\ \A j \in Instances \ {i} : StateOf(j)' = StateOf(j)
  BY <1>1 DEF Save, StateOf, TypeOK
<1>3. /\ phase[i] = "processing" /\ phase'[i] = "saving" /\ store'[i] = store[i]
      /\ cursor[i] > End(queryToBlock[i])
      /\ lastPolledBlock'[i] = lastPolledBlock[i] /\ queryToBlock'[i] = queryToBlock[i]
  BY <1>1 DEF Save, TypeOK
<1>4. /\ lastPolledBlock[i] - 1 \in 0 .. currentBlock
      /\ lastPolledBlock[i] <= checkpoint.nextBlockNumber
      /\ lastPolledBlock[i] <= queryToBlock[i] /\ queryToBlock[i] <= QueryToBlock(i)
      /\ \A w \in inflight : w.by # i
  BY <1>1, <1>3 DEF ProcessOK
<1>5. queryToBlock[i] \in 0 .. currentBlock
  BY <1>1, <1>4, QueryRange, ProcessTypes
<1>6. End(queryToBlock[i]) \in Nat
  BY <1>1, <1>5, LenProperties DEF BlocksOK, TypeOK
<1>7. Represents(chain, store[i], End(queryToBlock[i]))
  <2>1. PICK n \in cursor[i] - 1 .. End(queryToBlock[i]) : Represents(chain, store[i], n)
    BY <1>1, <1>3 DEF ProcessOK
  <2>2. n = End(queryToBlock[i])
    BY <1>1, <1>3, <1>6, <2>1, ProcessTypes
  <2>3. QED
    BY <2>1, <2>2
<1>8. new.nextBlockNumber - 1 = queryToBlock[i] /\ new.by = i /\ new.snapshot = store[i]
      /\ new.nextBlockNumber = queryToBlock[i] + 1
  BY <1>1, ProcessTypes
<1>9. RowOK(new)
  BY <1>5, <1>7, <1>8 DEF RowOK
<1> HIDE DEF new
<1>10. RowOK(checkpoint)' /\ \A w \in inflight' : RowOK(w)'
       /\ checkpoint.nextBlockNumber <= checkpoint'.nextBlockNumber
  <2>1. \A w \in inflight' : RowOK(w)
    BY <1>2, <1>9 DEF IInv
  <2>2. \A w \in inflight' : RowOK(w)'
    BY <1>2, <2>1 DEF RowOK, ledger, End, currentBlock
  <2>3. QED
    BY <1>1, <1>2, <2>2, ProcessTypes DEF IInv, RowOK, ledger, End, currentBlock
<1>11. QueryToBlock(i)' = QueryToBlock(i) /\ End(queryToBlock[i])' = End(queryToBlock[i])
  BY <1>2, <1>3 DEF QueryToBlock, ledger, currentBlock, End
<1>12. \A w \in inflight' : w.by = i => w = new
  BY <1>2, <1>4
<1>13. ProcessOK(i)'
  BY <1>2, <1>3, <1>4, <1>7, <1>8, <1>11, <1>12 DEF ProcessOK, ledger, currentBlock
<1>14. \A w \in inflight' : w \in inflight \/ w.by = i \/ w.by = Nobody
  BY <1>2, <1>8
<1>15. QED
  BY <1>1, <1>2, <1>10, <1>13, <1>14, OneProcessMoves DEF ledger

LEMMA SavedKeeps ==
  \A i \in Instances : \A write \in inflight : IInv /\ Saved(i, write) => IInv'
<1> SUFFICES ASSUME NEW i \in Instances, NEW write \in inflight, IInv, Saved(i, write)
             PROVE  IInv'
  OBVIOUS
<1>1. TypeOK' /\ TypeOK /\ BlocksOK /\ ProcessOK(i)
  BY TypeNext DEF Next, Progress, IInv
<1>2. UNCHANGED ledger /\ write.by = i /\ Upsert(write)
      /\ \A j \in Instances \ {i} : StateOf(j)' = StateOf(j)
  BY <1>1 DEF Saved, StateOf, TypeOK
<1>3. /\ phase[i] = "saving" /\ phase'[i] = "idle" /\ store'[i] = store[i]
      /\ lastPolledBlock'[i] = write.nextBlockNumber
  BY <1>1 DEF Saved, TypeOK
<1>4. /\ RowOK(checkpoint)' /\ \A w \in inflight' : RowOK(w)'
      /\ checkpoint.nextBlockNumber <= checkpoint'.nextBlockNumber
      /\ write.nextBlockNumber <= checkpoint'.nextBlockNumber
      /\ inflight' = inflight \ {write}
  BY <1>2, UpsertKeepsRows
<1>5. /\ write.nextBlockNumber = queryToBlock[i] + 1
      /\ lastPolledBlock[i] - 1 \in 0 .. currentBlock
      /\ lastPolledBlock[i] <= queryToBlock[i] /\ queryToBlock[i] <= QueryToBlock(i)
      /\ Represents(chain, store[i], End(queryToBlock[i]))
      /\ \A w \in inflight : w.by = i => /\ w.nextBlockNumber = queryToBlock[i] + 1
                                         /\ w.snapshot = store[i]
  BY <1>1, <1>2, <1>3 DEF ProcessOK
<1>6. \A w \in inflight' : w.by # i
  <2>1. ASSUME NEW w \in inflight', w.by = i PROVE FALSE
    <3>1. w \in Writes /\ write \in Writes
      BY <1>1, <1>4, <2>1 DEF TypeOK, Writes
    <3>2. w = write
      BY <1>2, <1>4, <1>5, <2>1, <3>1 DEF Writes
    <3>3. QED
      BY <1>4, <2>1, <3>2
  <2>2. QED
    BY <2>1
<1>7. PICK b \in 0 .. currentBlock : b = queryToBlock[i]
  BY <1>1, <1>5, QueryRange, ProcessTypes
<1>8. End(b) \in Nat /\ Represents(chain, store[i], End(b))
  BY <1>1, <1>5, <1>7, LenProperties DEF BlocksOK, TypeOK
<1>9. lastPolledBlock'[i] - 1 = b /\ lastPolledBlock'[i] \in Nat
  BY <1>1, <1>3, <1>5, <1>7, ProcessTypes
<1>10. QueryToBlock(i)' \in b .. currentBlock
  BY <1>1, <1>2, <1>7, <1>9, ProcessTypes, IndexerAssumption DEF QueryToBlock, ledger, currentBlock
<1>11. End(QueryToBlock(i))' \in Nat /\ End(b) <= End(QueryToBlock(i))'
  <2>1. PICK q \in b .. currentBlock : q = QueryToBlock(i)'
    BY <1>10
  <2>2. End(b) <= End(q) /\ End(q) \in Nat
    BY <1>1, <1>7, <2>1 DEF BlocksOK
  <2>3. QED
    BY <1>2, <2>1, <2>2 DEF End, ledger
<1>12. End(lastPolledBlock[i] - 1)' = End(b)
  BY <1>2, <1>9 DEF End, ledger
<1>13. ProcessOK(i)'
  BY <1>2, <1>3, <1>4, <1>6, <1>7, <1>8, <1>9, <1>11, <1>12 DEF ProcessOK, ledger, currentBlock
<1>14. QED
  BY <1>1, <1>2, <1>4, <1>13, OneProcessMoves

LEMMA SavedLateKeeps == \A write \in inflight : IInv /\ SavedLate(write) => IInv'
<1> SUFFICES ASSUME NEW write \in inflight, IInv, SavedLate(write) PROVE IInv'
  OBVIOUS
<1>1. TypeOK' /\ Grows /\ BlocksOK'
  BY TypeNext, LedgerGrows DEF Next, IInv, SavedLate
<1>2. UNCHANGED <<ledger, process>> /\ Upsert(write)
  BY DEF SavedLate
<1>3. /\ RowOK(checkpoint)' /\ \A w \in inflight' : RowOK(w)'
      /\ checkpoint.nextBlockNumber <= checkpoint'.nextBlockNumber
      /\ inflight' = inflight \ {write}
  BY <1>2, UpsertKeepsRows
<1>4. ASSUME NEW i \in Instances PROVE ProcessOK(i)'
  BY <1>1, <1>2, <1>3, ProcessKept DEF process
<1>5. QED
  BY <1>1, <1>3, <1>4 DEF IInv

LEMMA PollFailsKeeps == \A i \in Instances : IInv /\ PollFails(i) => IInv'
<1> SUFFICES ASSUME NEW i \in Instances, IInv, PollFails(i) PROVE IInv'
  OBVIOUS
<1>1. TypeOK' /\ TypeOK /\ BlocksOK /\ ProcessOK(i) /\ inflight \subseteq Writes
  BY TypeNext DEF Next, IInv, TypeOK, Writes
<1>2. UNCHANGED <<ledger, checkpoint>> /\ Abandon(i)
      /\ \A j \in Instances \ {i} : StateOf(j)' = StateOf(j)
  BY <1>1 DEF PollFails, StateOf, TypeOK
<1>3. /\ phase[i] \in {"processing", "saving"} /\ phase'[i] = "idle" /\ store'[i] = store[i]
      /\ lastPolledBlock'[i] = lastPolledBlock[i]
  BY <1>1 DEF PollFails, TypeOK
<1>4. /\ \A w \in inflight' : w.by # i
      /\ \A w \in inflight' : w \in inflight \/ w.by = Nobody
      /\ \A w \in inflight' : \E v \in inflight :
           w.nextBlockNumber = v.nextBlockNumber /\ w.snapshot = v.snapshot
  BY <1>1, <1>2, AbandonShrinks
<1>5. /\ lastPolledBlock[i] - 1 \in 0 .. currentBlock
      /\ lastPolledBlock[i] <= checkpoint.nextBlockNumber
      /\ lastPolledBlock[i] <= queryToBlock[i] /\ queryToBlock[i] <= QueryToBlock(i)
  BY <1>1, <1>3 DEF ProcessOK
<1>6. QueryToBlock(i) \in 0 .. currentBlock /\ queryToBlock[i] \in 0 .. currentBlock
  BY <1>1, <1>5, QueryRange, ProcessTypes
<1>7. /\ End(lastPolledBlock[i] - 1) \in Nat /\ End(queryToBlock[i]) \in Nat
      /\ End(QueryToBlock(i)) \in Nat
      /\ End(lastPolledBlock[i] - 1) <= End(queryToBlock[i])
      /\ End(queryToBlock[i]) <= End(QueryToBlock(i))
  <2>1. lastPolledBlock[i] - 1 <= queryToBlock[i]
    BY <1>1, <1>5, ProcessTypes
  <2>2. QED
    BY <1>1, <1>5, <1>6, <2>1 DEF BlocksOK
<1>8. \E n \in End(lastPolledBlock[i] - 1) .. End(QueryToBlock(i)) :
        Represents(chain, store[i], n)
  <2>1. CASE phase[i] = "processing"
    <3>1. PICK n \in cursor[i] - 1 .. End(queryToBlock[i]) : Represents(chain, store[i], n)
      BY <1>1, <2>1 DEF ProcessOK
    <3>2. cursor[i] - 1 \in End(lastPolledBlock[i] - 1) .. End(queryToBlock[i])
      BY <1>1, <2>1 DEF ProcessOK
    <3>3. n \in End(lastPolledBlock[i] - 1) .. End(QueryToBlock(i))
      BY <1>7, <3>1, <3>2
    <3>4. QED
      BY <3>1, <3>3
  <2>2. CASE phase[i] = "saving"
    <3>1. Represents(chain, store[i], End(queryToBlock[i]))
      BY <1>1, <2>2 DEF ProcessOK
    <3>2. QED
      BY <1>7, <3>1
  <2>3. QED
    BY <1>3, <2>1, <2>2
<1>9. QueryToBlock(i)' = QueryToBlock(i)
      /\ End(QueryToBlock(i))' = End(QueryToBlock(i))
      /\ End(lastPolledBlock[i] - 1)' = End(lastPolledBlock[i] - 1)
  BY <1>2, <1>3 DEF QueryToBlock, ledger, currentBlock, End
<1>10. ProcessOK(i)'
  BY <1>2, <1>3, <1>4, <1>5, <1>8, <1>9 DEF ProcessOK, ledger, currentBlock
<1>11. QED
  BY <1>1, <1>2, <1>4, <1>10, OneProcessMoves, RowsUnmoved DEF ledger

LEMMA CrashKeeps == \A i \in Instances : IInv /\ Crash(i) => IInv'
<1> SUFFICES ASSUME NEW i \in Instances, IInv, Crash(i) PROVE IInv'
  OBVIOUS
<1>1. TypeOK' /\ TypeOK /\ inflight \subseteq Writes
  BY TypeNext DEF Next, IInv, TypeOK, Writes
<1>2. UNCHANGED <<ledger, checkpoint>> /\ Abandon(i)
      /\ \A j \in Instances \ {i} : StateOf(j)' = StateOf(j)
  BY <1>1 DEF Crash, StateOf, TypeOK
<1>3. phase'[i] = "down"
  BY <1>1 DEF Crash, TypeOK
<1>4. /\ \A w \in inflight' : w.by # i
      /\ \A w \in inflight' : w \in inflight \/ w.by = Nobody
      /\ \A w \in inflight' : \E v \in inflight :
           w.nextBlockNumber = v.nextBlockNumber /\ w.snapshot = v.snapshot
  BY <1>1, <1>2, AbandonShrinks
<1>5. ProcessOK(i)'
  BY <1>3, <1>4 DEF ProcessOK
<1>6. QED
  BY <1>1, <1>2, <1>4, <1>5, OneProcessMoves, RowsUnmoved DEF ledger

LEMMA ExitKeeps == \A i \in Instances : IInv /\ Exit(i) => IInv'
<1> SUFFICES ASSUME NEW i \in Instances, IInv, Exit(i) PROVE IInv'
  OBVIOUS
<1>1. TypeOK' /\ TypeOK /\ ProcessOK(i)
  BY TypeNext DEF Next, Progress, IInv
<1>2. UNCHANGED <<ledger, checkpoint, inflight>>
      /\ \A j \in Instances \ {i} : StateOf(j)' = StateOf(j)
  BY <1>1 DEF Exit, StateOf, TypeOK
<1>3. phase[i] = "idle" /\ phase'[i] = "down"
  BY <1>1 DEF Exit, TypeOK
<1>4. ProcessOK(i)'
  BY <1>1, <1>2, <1>3 DEF ProcessOK
<1>5. QED
  BY <1>1, <1>2, <1>4, OneProcessMoves, RowsUnmoved

LEMMA ShutdownKeeps == \A i \in Instances : IInv /\ Shutdown(i) => IInv'
<1> SUFFICES ASSUME NEW i \in Instances, IInv, Shutdown(i) PROVE IInv'
  OBVIOUS
<1>1. TypeOK' /\ TypeOK /\ BlocksOK
  BY TypeNext DEF Next, IInv
<1>2. UNCHANGED <<ledger, checkpoint, inflight, phase, store, lastPolledBlock,
                  queryToBlock, cursor>>
  BY DEF Shutdown
<1>3. Grows /\ BlocksOK'
  BY <1>1, <1>2, LedgerGrows
<1>4. checkpoint.nextBlockNumber <= checkpoint'.nextBlockNumber
  BY <1>2, RowsUnmoved
<1>5. ProcessOK(i)'
  BY <1>1, <1>2, <1>3, <1>4, ProcessKept
<1>6. QED
  BY <1>1, <1>2, <1>5, OneProcessMoves, RowsUnmoved DEF StateOf

LEMMA IndexerStep == IInv /\ [Next]_vars => IInv'
<1> SUFFICES ASSUME IInv, [Next]_vars PROVE IInv'
  OBVIOUS
<1>1. CASE UNCHANGED vars
  <2>1. TypeOK' /\ UNCHANGED <<ledger, checkpoint, inflight, process>>
    BY <1>1, TypeNext DEF vars
  <2>2. Grows /\ BlocksOK'
    BY <2>1, LedgerGrows DEF IInv
  <2>3. /\ RowOK(checkpoint)' /\ \A w \in inflight' : RowOK(w)'
        /\ checkpoint.nextBlockNumber <= checkpoint'.nextBlockNumber
    BY <2>1, RowsUnmoved
  <2>4. \A i \in Instances : ProcessOK(i)'
    BY <2>1, <2>2, <2>3, ProcessKept DEF process
  <2>5. QED
    BY <2>1, <2>2, <2>3, <2>4 DEF IInv
<1>2. CASE ChainStep
  BY <1>2, ChainStepKeeps
<1>3. ASSUME NEW i \in Instances,
             Progress(i) \/ PollNothing(i) \/ PollFails(i) \/ Crash(i) \/ Shutdown(i)
      PROVE  IInv'
  <2>1. CASE Progress(i)
    BY <2>1, StartKeeps, PollKeeps, ProcessLogKeeps, SaveKeeps, ExitKeeps, SavedKeeps
       DEF Progress
  <2>2. CASE PollNothing(i)
    BY <1>1, <2>2 DEF PollNothing
  <2>3. QED
    BY <1>3, <2>1, <2>2, PollFailsKeeps, CrashKeeps, ShutdownKeeps
<1>4. ASSUME NEW write \in inflight, SavedLate(write) PROVE IInv'
  BY <1>4, SavedLateKeeps
<1>5. QED
  BY <1>1, <1>2, <1>3, <1>4 DEF Next

-----------------------------------------------------------------------------
(* The theorems. *)

\* In every reachable state the row, every write that may still reach the
\* database and every process agree on which events were counted.
THEOREM IndexerInvariant == Spec => []IInv
<1>1. QED
  BY IndexerInit, IndexerStep, PTL DEF Spec

\* The state of the chain, the row, the writes and the processes has the types
\* the code gives it: in particular a next block is never block zero.
THEOREM IndexerTypeCorrect == Spec => []TypeOK
<1>1. IInv => TypeOK
  BY DEF IInv
<1>2. QED
  BY <1>1, IndexerInvariant, PTL

\* A process never reads on behind blocks that only its memory has: whatever
\* fails, the block it reads next is covered by the row it would restart from.
THEOREM IndexerNeverAhead == Spec => []NeverAheadOfCheckpoint
<1>1. IInv => NeverAheadOfCheckpoint
  BY DEF IInv, ProcessOK, NeverAheadOfCheckpoint
<1>2. QED
  BY <1>1, IndexerInvariant, PTL

\* The counters the API answers from are at any moment those of a prefix of
\* the chain, also in the middle of a poll and after one that failed.
THEOREM IndexerLiveStoreIsPrefix == Spec => []LiveStoreIsPrefix
<1>1. IInv => LiveStoreIsPrefix
  <2> SUFFICES ASSUME IInv, NEW i \in Instances, phase[i] # "down"
               PROVE  \E n \in End(lastPolledBlock[i] - 1) .. End(currentBlock) :
                        Represents(chain, store[i], n)
    BY DEF LiveStoreIsPrefix
  <2>1. TypeOK /\ BlocksOK /\ ProcessOK(i)
    BY DEF IInv
  <2>2. lastPolledBlock[i] - 1 \in 0 .. currentBlock /\ currentBlock \in Nat
    BY <2>1, ProcessTypes DEF ProcessOK
  <2>3. QueryToBlock(i) \in lastPolledBlock[i] - 1 .. currentBlock
    BY <2>1, <2>2, QueryRange
  <2>4. /\ End(lastPolledBlock[i] - 1) \in Nat /\ End(currentBlock) \in Nat
        /\ End(QueryToBlock(i)) \in Nat /\ End(QueryToBlock(i)) <= End(currentBlock)
    BY <2>1, <2>2, <2>3, ProcessTypes DEF BlocksOK
  <2>5. CASE phase[i] = "idle"
    <3>1. PICK n \in End(lastPolledBlock[i] - 1) .. End(QueryToBlock(i)) :
            Represents(chain, store[i], n)
      BY <2>1, <2>5 DEF ProcessOK
    <3>2. n \in End(lastPolledBlock[i] - 1) .. End(currentBlock)
      BY <2>4, <3>1
    <3>3. QED
      BY <3>1, <3>2
  <2>6. CASE phase[i] \in {"processing", "saving"}
    <3>1. lastPolledBlock[i] <= queryToBlock[i] /\ queryToBlock[i] <= QueryToBlock(i)
      BY <2>1, <2>6 DEF ProcessOK
    <3>2. queryToBlock[i] \in lastPolledBlock[i] - 1 .. currentBlock
      BY <2>1, <2>2, <2>3, <3>1, ProcessTypes
    <3>3. /\ End(queryToBlock[i]) \in Nat /\ End(queryToBlock[i]) <= End(currentBlock)
          /\ End(lastPolledBlock[i] - 1) <= End(queryToBlock[i])
      <4>1. queryToBlock[i] \in 0 .. currentBlock
        BY <2>2, <3>2
      <4>2. QED
        BY <2>1, <2>2, <3>2, <4>1, ProcessTypes DEF BlocksOK
    <3>4. PICK n \in End(lastPolledBlock[i] - 1) .. End(queryToBlock[i]) :
            Represents(chain, store[i], n)
      <4>1. CASE phase[i] = "processing"
        <5>1. PICK n \in cursor[i] - 1 .. End(queryToBlock[i]) : Represents(chain, store[i], n)
          BY <2>1, <4>1 DEF ProcessOK
        <5>2. cursor[i] - 1 \in End(lastPolledBlock[i] - 1) .. End(queryToBlock[i])
          BY <2>1, <4>1 DEF ProcessOK
        <5>3. QED
          BY <2>4, <3>3, <5>1, <5>2
      <4>2. CASE phase[i] = "saving"
        BY <2>1, <2>4, <3>3, <4>2 DEF ProcessOK
      <4>3. QED
        BY <2>6, <4>1, <4>2
    <3>5. n \in End(lastPolledBlock[i] - 1) .. End(currentBlock)
      BY <2>4, <3>3, <3>4
    <3>6. QED
      BY <3>4, <3>5
  <2>7. QED
    BY <2>1, <2>5, <2>6, ProcessTypes DEF Phases
<1>2. QED
  BY <1>1, IndexerInvariant, PTL

\* The row implements ChainPrefix: it only ever moves to the tally of a longer
\* prefix of the chain, whichever process or forgotten write moves it.
THEOREM IndexerImplementsPrefix == Spec => DurablePrefix
<1> DEFINE upTo == End(checkpoint.nextBlockNumber - 1)
<1>1. \A log, n : Prefix!Tally(log, n) = Tally(log, n)
  <2>1. /\ Prefix!Recorded = Recorded /\ Prefix!Counters = Counters
        /\ \A e : Prefix!Key(e) = Key(e) /\ Prefix!Counter(e) = Counter(e)
    BY DEF Prefix!Recorded, Recorded, Prefix!Counters, Counters, Prefix!Key, Key,
           Prefix!Counter, Counter
  <2>2. \A log, n : Prefix!Firsts(log, n) = Firsts(log, n)
    BY <2>1 DEF Prefix!Firsts, Firsts
  <2>3. ASSUME NEW log, NEW n PROVE Prefix!Tally(log, n) = Tally(log, n)
    <3> DEFINE Theirs(c) == {j \in Prefix!Firsts(log, n) : Prefix!Counter(log[j]) = c}
               Ours(c)   == {j \in Firsts(log, n) : Counter(log[j]) = c}
    <3>1. \A S : Prefix!Cardinality(S) = Cardinality(S)
      BY Zenon DEF Prefix!Cardinality, Cardinality
    <3>2. ASSUME NEW c PROVE Theirs(c) = Ours(c)
      BY <2>1, <2>2
    <3>3. /\ Prefix!Tally(log, n) = [c \in Prefix!Counters |-> Prefix!Cardinality(Theirs(c))]
          /\ Tally(log, n) = [c \in Counters |-> Cardinality(Ours(c))]
      BY DEF Prefix!Tally, Tally
    <3> HIDE DEF Theirs, Ours
    <3>4. QED
      BY <2>1, <3>1, <3>2, <3>3
  <2>4. QED
    BY <2>3
<1>2. Init => Prefix!Init
  <2> SUFFICES ASSUME Init PROVE Prefix!Init
    OBVIOUS
  <2>1. chain = << >> /\ upTo = 0 /\ checkpoint.snapshot.counts = [c \in Counters |-> 0]
    BY DEF Init, NoCheckpoint, EmptyStore, End
  <2>2. QED
    BY <1>1, <2>1, TallyOfNothing DEF Prefix!Init
<1>3. IInv /\ IInv' /\ [Next]_vars => [Prefix!Next]_(Prefix!vars)
  <2> SUFFICES ASSUME IInv, IInv', [Next]_vars
               PROVE  Prefix!Next \/ UNCHANGED Prefix!vars
    OBVIOUS
  <2>1. /\ chain \in Seq(Logs) /\ chain' \in Seq(Logs) /\ Len(chain) \in Nat
        /\ checkpoint.nextBlockNumber \in Nat /\ checkpoint'.nextBlockNumber \in Nat
        /\ BlocksOK /\ RowOK(checkpoint) /\ RowOK(checkpoint)'
    BY LenProperties DEF IInv, TypeOK
  <2>2. ASSUME NEW name \in Emitted, NEW source \in Sources(name), NEW same \in BOOLEAN,
               Emit(name, source, same)
        PROVE  Prefix!Next
    <3>1. PICK log : chain' = Append(chain, log)
      BY <2>2 DEF Emit
    <3>2. UNCHANGED <<blockEnd, checkpoint>>
      BY <2>2 DEF Emit
    <3>3. log \in Logs
      <4>1. Len(chain') = Len(chain) + 1 /\ chain'[Len(chain) + 1] = log
        BY <2>1, <3>1
      <4>2. QED
        BY <2>1, <4>1, ElementOfSeq
    <3>4. Len(chain') = Len(chain) + 1 /\ SubSeq(chain', 1, Len(chain)) = chain
      BY <2>1, <3>1, <3>3
    <3>5. upTo' = upTo
      BY <3>2 DEF End
    <3>6. QED
      BY <3>2, <3>4, <3>5 DEF Prefix!Next, Prefix!Emit
  <2>3. CASE UNCHANGED <<chain, checkpoint>> /\ \A b \in 0 .. currentBlock : End(b)' = End(b)
    <3>1. PICK b \in 0 .. currentBlock : b = checkpoint.nextBlockNumber - 1
      BY <2>1 DEF RowOK
    <3>2. upTo' = upTo
      BY <2>3, <3>1 DEF End
    <3>3. QED
      BY <2>3, <3>2 DEF Prefix!vars
  <2>4. CASE Mine
    <3>1. Grows /\ UNCHANGED <<chain, checkpoint>>
      BY <2>4, LedgerGrows DEF IInv, Mine
    <3>2. QED
      BY <2>3, <3>1 DEF Grows
  <2>5. ASSUME UNCHANGED ledger, NEW write \in inflight, Upsert(write)
        PROVE  Prefix!Next
    <3>1. checkpoint.nextBlockNumber <= checkpoint'.nextBlockNumber
      BY <2>5, UpsertKeepsRows
    <3>2. PICK b \in 0 .. currentBlock : b = checkpoint.nextBlockNumber - 1
      BY <2>1 DEF RowOK
    <3>3. PICK c \in 0 .. currentBlock : c = checkpoint'.nextBlockNumber - 1
      BY <2>1, <2>5 DEF RowOK, ledger, currentBlock
    <3>4. b <= c
      BY <2>1, <3>1, <3>2, <3>3
    <3>5. End(b) <= End(c) /\ End(c) \in 0 .. Len(chain) /\ End(b) \in Nat
      BY <2>1, <3>4 DEF BlocksOK
    <3>6. upTo = End(b) /\ upTo' = End(c)
      BY <2>5, <3>2, <3>3 DEF ledger, End
    <3>7. checkpoint'.snapshot.counts = Tally(chain, upTo')
      BY <2>1, <2>5 DEF RowOK, Represents, ledger
    <3>8. QED
      BY <1>1, <2>5, <3>5, <3>6, <3>7 DEF Prefix!Next, Prefix!Publish, ledger
  <2>6. CASE UNCHANGED <<ledger, checkpoint>>
    BY <2>3, <2>6 DEF ledger, End
  <2>7. ASSUME NEW i \in Instances, Progress(i)
        PROVE  Prefix!Next \/ UNCHANGED Prefix!vars
    <3>1. CASE \E write \in inflight : Saved(i, write)
      BY <2>5, <3>1 DEF Saved
    <3>2. CASE ~ \E write \in inflight : Saved(i, write)
      <4>1. UNCHANGED <<ledger, checkpoint>>
        BY <2>7, <3>2 DEF Progress, Start, Poll, ProcessLog, Save, Exit
      <4>2. QED
        BY <2>6, <4>1
    <3>3. QED
      BY <3>1, <3>2
  <2>8. ASSUME NEW i \in Instances, PollNothing(i) \/ PollFails(i) \/ Crash(i) \/ Shutdown(i)
        PROVE  UNCHANGED <<ledger, checkpoint>>
    BY <2>8 DEF PollNothing, PollFails, Crash, Shutdown, vars
  <2>9. ASSUME NEW write \in inflight, SavedLate(write)
        PROVE  Prefix!Next
    BY <2>5, <2>9 DEF SavedLate
  <2>10. CASE UNCHANGED vars
    BY <2>6, <2>10 DEF vars
  <2>11. QED
    BY <2>2, <2>4, <2>6, <2>7, <2>8, <2>9, <2>10 DEF Next, ChainStep
<1>4. QED
  BY <1>2, <1>3, IndexerInvariant, PTL DEF Spec, DurablePrefix, Prefix!Spec
=============================================================================
