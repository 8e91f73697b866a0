-------------------------- MODULE LifecycleProofs --------------------------
(***************************************************************************)
(* Theorems about the lifecycle script, for every actor and every pool.    *)
(***************************************************************************)
EXTENDS LifecycleProperties, PoolProofs

-----------------------------------------------------------------------------
(* What is left of a run once the guard has passed.                         *)

DepositLeft == <<"decrypt", "send", "receipt", "read", "kms", "send", "receipt">>
SendRequest == <<"send", "receipt", "read", "kms", "send", "receipt">>
AwaitRequest == <<"receipt", "read", "kms", "send", "receipt">>
Requested == <<"read", "kms", "send", "receipt">>
Asking == <<"kms", "send", "receipt">>
TransferLeft == <<"decrypt", "send", "receipt">>
SendLast == <<"send", "receipt">>
AwaitLast == <<"receipt">>
RevealLeft == <<"decrypt">>

Fields == {"paused", "drawId", "count", "next", "pending", "participants", "wallet",
           "position", "prize"}
Steps == Fields \cup {"guard", "decrypt", "send", "receipt", "read", "kms"}

Openers == {"deposit", "draw"}
Provers == {"deposit", "activate", "deactivate", "draw"}
Transfers == {"withdraw", "claim-prize"}

ProofLeft == {SendRequest, AwaitRequest, Requested, Asking, SendLast, AwaitLast}

LeftOf(action) ==
  CASE action \in {"none", "preflight"}        -> {<<>>}
    [] action = "deposit"                      -> {DepositLeft} \cup ProofLeft
    [] action = "draw"                         -> ProofLeft
    [] action \in {"activate", "deactivate"}   -> ProofLeft \ {SendRequest, AwaitRequest}
    [] action \in Transfers                    -> {TransferLeft, SendLast, AwaitLast}
    [] action = "reveal-prize"                 -> {RevealLeft, <<>>}

AllLeft == {DepositLeft, TransferLeft, RevealLeft, <<>>} \cup ProofLeft

LEMMA LeftTypes == AllLeft \subseteq Seq(Steps)
BY DEF AllLeft, ProofLeft, Steps, DepositLeft, SendRequest, AwaitRequest, Requested, Asking,
       TransferLeft, SendLast, AwaitLast, RevealLeft

LEMMA Stages ==
  /\ Stage(DepositLeft, "decrypt", SendRequest)
  /\ Stage(SendRequest, "send", AwaitRequest)
  /\ Stage(AwaitRequest, "receipt", Requested)
  /\ Stage(Requested, "read", Asking)
  /\ Stage(Asking, "kms", SendLast)
  /\ Stage(TransferLeft, "decrypt", SendLast)
  /\ Stage(SendLast, "send", AwaitLast)
  /\ Stage(AwaitLast, "receipt", <<>>)
  /\ Stage(RevealLeft, "decrypt", <<>>)
BY DEF Stage, DepositLeft, SendRequest, AwaitRequest, Requested, Asking, TransferLeft,
       SendLast, AwaitLast, RevealLeft

LEMMA Contents == Contains(SendRequest, "read") /\ ~Contains(SendLast, "read")
BY DEF Contains, SendRequest, SendLast

LEMMA Apart ==
  /\ \A todo \in {DepositLeft, SendRequest, AwaitRequest, Requested, TransferLeft, RevealLeft,
                  <<>>} : todo \notin {Asking, SendLast, AwaitLast}
  /\ AwaitRequest # AwaitLast /\ SendRequest # SendLast
  /\ Asking \notin {SendLast, AwaitLast}
  /\ \A todo \in {SendRequest, AwaitRequest} : todo \notin {Requested, TransferLeft}
  /\ DepositLeft \notin {TransferLeft, RevealLeft} /\ TransferLeft # RevealLeft
BY DEF DepositLeft, SendRequest, AwaitRequest, Requested, Asking, TransferLeft, SendLast,
       AwaitLast, RevealLeft

\* The phase of a deposit is one transaction more than that of an activation.
LEMMA DepositPhaseIs == DepositPhase = DepositLeft
<1> DEFINE s == <<"decrypt", "send", "receipt">>
           t == <<"read", "kms", "send", "receipt">>
           u == <<"decrypt", "send", "receipt", "read", "kms", "send", "receipt">>
<1>1. s \in Seq(Steps) /\ t \in Seq(Steps) /\ u \in Seq(Steps)
  BY DEF Steps
<1>2. Len(s) = 3 /\ Len(t) = 4 /\ Len(u) = 7
  OBVIOUS
<1>3. (\A i \in 1 .. 3 : u[i] = s[i]) /\ (\A i \in 1 .. 4 : u[3 + i] = t[i])
  OBVIOUS
<1> HIDE DEF s, t, u
<1>4. /\ Len(u) = Len(s) + Len(t)
      /\ \A i \in 1 .. Len(s) : u[i] = s[i]
      /\ \A i \in 1 .. Len(t) : u[Len(s) + i] = t[i]
  BY <1>2, <1>3
<1>5. s \o t = u
  BY <1>1, <1>4, Joined
<1>6. QED
  BY <1>5 DEF s, t, u, DepositPhase, ActivatePhase, DepositLeft

LEMMA Phases ==
  ASSUME NEW action \in Actions
  PROVE  Phase(action) \in LeftOf(action) /\ Phase(action) \in AllLeft
                       /\ Phase(action) \notin {Asking, SendLast, AwaitLast}
<1>1. /\ Phase("deposit") = DepositLeft /\ Phase("draw") = SendRequest
      /\ \A a \in {"activate", "deactivate"} : Phase(a) = Requested
      /\ \A a \in Transfers : Phase(a) = TransferLeft
      /\ Phase("reveal-prize") = RevealLeft /\ Phase("preflight") = <<>>
  BY DepositPhaseIs
     DEF Phase, ActivatePhase, DeactivatePhase, DrawPhase, WithdrawPhase, SendRequest,
         Requested, TransferLeft, RevealLeft, Transfers
<1>2. CASE action \in {"deposit", "draw", "reveal-prize", "preflight"}
  BY <1>1, <1>2, Apart DEF LeftOf, AllLeft, ProofLeft, Transfers
<1>3. CASE action \in {"activate", "deactivate"}
  BY <1>1, <1>3, Apart DEF LeftOf, AllLeft, ProofLeft, Transfers
<1>4. CASE action \in Transfers
  BY <1>1, <1>4, Apart DEF LeftOf, AllLeft, ProofLeft, Transfers
<1>5. QED
  BY <1>2, <1>3, <1>4 DEF Actions, Transfers

\* The head and the tail of what is read before the guard.
LEMMA ReadsFirst ==
  ASSUME NEW reads \in Seq(Fields), NEW rest \in Seq(Steps)
  PROVE  /\ reads \o rest \in Seq(Steps)
         /\ reads = <<>> => reads \o rest = rest
         /\ reads # <<>> => /\ Head(reads) \in Fields /\ Tail(reads) \in Seq(Fields)
                            /\ Stage(reads \o rest, Head(reads), Tail(reads) \o rest)
<1>1. reads \in Seq(Steps)
  BY SeqMonotonic DEF Steps
<1>2. reads \o rest \in Seq(Steps)
  BY <1>1, ConcatProperties
<1>3. reads = <<>> => reads \o rest = rest
  BY ConcatEmptySeq
<1>4. ASSUME reads # <<>>
      PROVE  /\ Head(reads) \in Fields /\ Tail(reads) \in Seq(Fields)
             /\ Stage(reads \o rest, Head(reads), Tail(reads) \o rest)
  <2> DEFINE s == reads \o rest
             t == Tail(reads) \o rest
  <2>1. /\ Head(reads) \in Fields /\ Tail(reads) \in Seq(Fields)
        /\ Len(Tail(reads)) = Len(reads) - 1
        /\ \A i \in 1 .. Len(Tail(reads)) : Tail(reads)[i] = reads[i + 1]
    BY <1>4, HeadTailProperties
  <2>2. Tail(reads) \in Seq(Steps)
    BY <2>1, SeqMonotonic DEF Steps
  <2>3. /\ Len(s) = Len(reads) + Len(rest)
        /\ \A i \in 1 .. Len(s) : s[i] = IF i <= Len(reads) THEN reads[i]
                                         ELSE rest[i - Len(reads)]
    BY <1>1, ConcatProperties
  <2>4. /\ t \in Seq(Steps) /\ Len(t) = Len(Tail(reads)) + Len(rest)
        /\ \A i \in 1 .. Len(t) : t[i] = IF i <= Len(Tail(reads)) THEN Tail(reads)[i]
                                         ELSE rest[i - Len(Tail(reads))]
    BY <2>2, ConcatProperties
  <2>5. Len(reads) \in Nat /\ Len(rest) \in Nat /\ Len(reads) >= 1
    BY <1>4, EmptySeq, LenProperties
  <2>6. s # <<>> /\ s[1] = reads[1] /\ Len(s) >= 1
    BY <2>3, <2>5, <1>2
  <2> HIDE DEF s, t
  <2>7. Head(s) = Head(reads)
    BY <2>6
  <2>8. s \in Seq(Steps)
    BY <1>2 DEF s
  <2>9. /\ Tail(s) \in Seq(Steps) /\ Len(Tail(s)) = Len(s) - 1
        /\ \A i \in 1 .. Len(Tail(s)) : Tail(s)[i] = s[i + 1]
    BY <2>6, <2>8, HeadTailProperties
  <2>10. ASSUME NEW i \in 1 .. Len(t) PROVE Tail(s)[i] = t[i]
    <3>1. /\ i \in Nat /\ i + 1 \in 1 .. Len(s) /\ i \in 1 .. Len(Tail(s))
          /\ Len(Tail(reads)) = Len(reads) - 1
      BY <2>1, <2>3, <2>4, <2>5, <2>9
    <3>2. CASE i + 1 <= Len(reads)
      <4>1. i \in 1 .. Len(Tail(reads)) /\ i <= Len(Tail(reads))
        BY <2>5, <3>1, <3>2
      <4>2. QED
        BY <2>1, <2>3, <2>4, <2>9, <3>1, <3>2, <4>1
    <3>3. CASE i + 1 > Len(reads)
      <4>1. ~(i <= Len(Tail(reads))) /\ i - Len(Tail(reads)) = (i + 1) - Len(reads)
        <5>1. PICK n \in Nat : n = Len(reads) /\ Len(Tail(reads)) = n - 1
          BY <2>5, <3>1
        <5>2. ~(i <= n - 1) /\ i - (n - 1) = (i + 1) - n
          BY <3>1, <3>3, <5>1
        <5>3. QED
          BY <5>1, <5>2
      <4>2. s[i + 1] = rest[(i + 1) - Len(reads)]
        BY <2>3, <2>5, <3>1, <3>3
      <4>3. t[i] = rest[(i + 1) - Len(reads)]
        BY <2>4, <4>1
      <4>4. QED
        BY <2>9, <3>1, <4>2, <4>3
    <3>4. QED
      BY <2>5, <3>1, <3>2, <3>3
  <2>11. Len(Tail(s)) = Len(t)
    BY <2>1, <2>3, <2>4, <2>5, <2>9
  <2>12. Tail(s) = t
    BY <2>4, <2>9, <2>10, <2>11, SeqEqual
  <2>13. QED
    BY <2>1, <2>6, <2>7, <2>12 DEF Stage, s, t
<1>5. QED
  BY <1>2, <1>3, <1>4

GuardFirst(action) == <<"guard">> \o Phase(action)

LEMMA GuardNext ==
  ASSUME NEW action \in Actions
  PROVE  /\ GuardFirst(action) \in Seq(Steps)
         /\ Stage(GuardFirst(action), "guard", Phase(action))
<1>1. Phase(action) \in Seq(Steps)
  BY Phases, LeftTypes
<1>2. <<"guard">> \in Seq(Steps)
  BY DEF Steps
<1>3. GuardFirst(action) \in Seq(Steps)
  BY <1>1, <1>2, ConcatProperties DEF GuardFirst
<1> DEFINE t == Phase(action)
           s == <<"guard">>
<1>4. s \o t # <<>> /\ Head(s \o t) = "guard" /\ Tail(s \o t) = t
  <2> HIDE DEF t
  <2>1. t \in Seq(Steps)
    BY <1>1 DEF t
  <2>2. QED
    BY <2>1
<1>5. QED
  BY <1>3, <1>4 DEF Stage, GuardFirst

-----------------------------------------------------------------------------
(* The invariant *)

Views == [paused : BOOLEAN, drawId : Nat, count : Nat, next : Nat, pending : BOOLEAN,
          participants : Seq(Users), wallet : Nat, position : Euint64s, prize : Euint64s]

Evidences == {"nothing", "deposit-confirmed", "draw-request-confirmed",
              "participant-activation-finalized", "participant-deactivation-finalized",
              "draw-finalized", "draw-skipped", "prize-claim-confirmed",
              "withdrawal-confirmed"}

Runs == [action : Actions \cup {"none"}, todo : Seq(Steps), seen : Views, amount : Euint64s,
         nonce : Requests, bit : BOOLEAN, own : Requests,
         printed : Evidences]

\* Before the guard: reads that are left, the guard, and the phase.
Reading ==
  /\ run.action \in Actions
  /\ \E reads \in Seq(Fields) : run.todo = reads \o GuardFirst(run.action)

\* After it.
Working == run.todo \in LeftOf(run.action)

\* The statement of the KMS that a run, or a transaction, presents.
ProofAbout(action, nonce, bit) == [handle |-> Handle(action, nonce), bit |-> bit]

\* What a run knows grows with its steps: the request that is pending, which a
\* draw has opened itself, and the bit that the KMS has signed about it.
RunOK ==
  /\ run \in Runs
  /\ Reading \/ Working
  /\ run.action \in {"deposit", "withdraw"} => run.amount \in Amounts
  /\ run.todo \in {Asking, SendLast, AwaitLast} /\ run.action \in Provers => run.nonce \in Nat
  /\ run.todo \in {Asking, SendLast, AwaitLast} /\ run.action = "draw" => run.nonce = run.own
  /\ run.todo \in {SendLast, AwaitLast} /\ run.action \in Provers =>
       ProofAbout(run.action, run.nonce, run.bit) \in decryptable

Transactions == [action : Provers \cup Transfers, amount : Euint64s, nonce : Requests,
                 bit : BOOLEAN, opens : BOOLEAN, awaited : BOOLEAN]

\* A broadcast transaction, whoever awaits it: one that finalizes a request
\* presents what the KMS has signed.
TransactionOK(tx) ==
  /\ tx \in Transactions
  /\ tx.opens => tx.action \in Openers
  /\ tx.action \in {"deposit", "withdraw"} => tx.amount \in Amounts
  /\ ~tx.opens /\ tx.action \in Provers =>
       ProofAbout(tx.action, tx.nonce, tx.bit) \in decryptable

\* The process awaits no transaction but the one it sent last.
OwnTransaction(tx) ==
  /\ tx.action = run.action /\ tx.amount = run.amount
  /\ tx.nonce = run.nonce /\ tx.bit = run.bit
  /\ run.todo = IF tx.opens THEN AwaitRequest ELSE AwaitLast

MempoolOK == \A tx \in mempool : TransactionOK(tx) /\ (tx.awaited => OwnTransaction(tx))

EnvOK == env \in [drawId : Nat, participants : SUBSET Users]

ScriptInv == Structure /\ EnvOK /\ RunOK /\ MempoolOK

-----------------------------------------------------------------------------
(* What is left to do tells where a run is *)

LEMMA LeftIsLeft == \A action \in Actions \cup {"none"} : LeftOf(action) \subseteq AllLeft
BY DEF LeftOf, AllLeft, ProofLeft, Actions, Transfers

LEMMA BeforeGuard ==
  ASSUME RunOK, Reading
  PROVE  /\ run.todo # <<>> /\ Head(run.todo) \in Fields \cup {"guard"}
         /\ Head(run.todo) = "guard" => Tail(run.todo) = Phase(run.action)
         /\ Head(run.todo) \in Fields =>
              \E reads \in Seq(Fields) : Tail(run.todo) = reads \o GuardFirst(run.action)
<1>1. run.action \in Actions /\ "guard" \notin Fields
  BY DEF Reading, Fields
<1>2. PICK reads \in Seq(Fields) : run.todo = reads \o GuardFirst(run.action)
  BY DEF Reading
<1>3. CASE reads = <<>>
  <2>1. run.todo = GuardFirst(run.action)
    BY <1>1, <1>2, <1>3, GuardNext, ReadsFirst
  <2>2. QED
    BY <1>1, <2>1, GuardNext DEF Stage
<1>4. CASE reads # <<>>
  <2>1. /\ Head(reads) \in Fields /\ Tail(reads) \in Seq(Fields)
        /\ Stage(run.todo, Head(reads), Tail(reads) \o GuardFirst(run.action))
    BY <1>1, <1>2, <1>4, GuardNext, ReadsFirst
  <2>2. QED
    BY <1>1, <2>1 DEF Stage
<1>5. QED
  BY <1>3, <1>4

LEMMA WhereItIs ==
  ASSUME RunOK
  PROVE  /\ At("guard") => Reading
         /\ \A field \in Fields : At(field) => Reading
         /\ At("decrypt") => Working /\ run.todo \in {DepositLeft, TransferLeft, RevealLeft}
         /\ At("send") => Working /\ run.todo \in {SendRequest, SendLast}
         /\ At("receipt") => Working /\ run.todo \in {AwaitRequest, AwaitLast}
         /\ At("read") => Working /\ run.todo = Requested
         /\ At("kms") => Working /\ run.todo = Asking
<1>1. Reading => /\ run.todo # <<>> /\ Head(run.todo) \in Fields \cup {"guard"}
  BY BeforeGuard
<1>2. Working => run.todo \in AllLeft
  <2>1. run.action \in Actions \cup {"none"}
    BY DEF RunOK, Runs
  <2>2. QED
    BY <2>1, LeftIsLeft DEF Working
<1>3. Reading \/ Working
  BY DEF RunOK
<1>4. \A step \in {"decrypt", "send", "receipt", "read", "kms"} :
        step \notin Fields \cup {"guard"}
  BY DEF Fields
<1>5. \A todo \in AllLeft :
        todo # <<>> => Head(todo) \in {"decrypt", "send", "receipt", "read", "kms"}
  BY Stages DEF Stage, AllLeft, ProofLeft
<1>6. \A step : At(step) => run.todo # <<>> /\ Head(run.todo) = step
  BY DEF At, Idle
<1>7. \A step \in {"decrypt", "send", "receipt", "read", "kms"} : At(step) => Working
  BY <1>1, <1>3, <1>4, <1>6
<1>8. \A field \in Fields \cup {"guard"} : At(field) => Reading
  BY <1>2, <1>3, <1>4, <1>5, <1>6
<1>9. /\ At("decrypt") => run.todo \in {DepositLeft, TransferLeft, RevealLeft}
      /\ At("send") => run.todo \in {SendRequest, SendLast}
      /\ At("receipt") => run.todo \in {AwaitRequest, AwaitLast}
      /\ At("read") => run.todo = Requested
      /\ At("kms") => run.todo = Asking
  BY <1>2, <1>6, <1>7, Stages DEF Stage, AllLeft, ProofLeft
<1>10. QED
  BY <1>7, <1>8, <1>9

\* What it is about can be told from what is left of it, too.
LEMMA WhatItIs ==
  ASSUME RunOK, Working, run.todo # <<>>
  PROVE  /\ run.todo = DepositLeft => run.action = "deposit"
         /\ run.todo \in {SendRequest, AwaitRequest} => run.action \in Openers
         /\ run.todo \in {Requested, Asking} => run.action \in Provers
         /\ run.todo \in {SendLast, AwaitLast} => run.action \in Provers \cup Transfers
         /\ run.todo = TransferLeft => run.action \in Transfers
         /\ run.todo = RevealLeft => run.action = "reveal-prize"
<1>1. run.action \in Actions \cup {"none"}
  BY DEF RunOK, Runs
<1>2. \/ run.action = "deposit" /\ run.todo \in {DepositLeft} \cup ProofLeft
      \/ run.action = "draw" /\ run.todo \in ProofLeft
      \/ run.action \in {"activate", "deactivate"}
           /\ run.todo \in ProofLeft \ {SendRequest, AwaitRequest}
      \/ run.action \in Transfers /\ run.todo \in {TransferLeft, SendLast, AwaitLast}
      \/ run.action = "reveal-prize" /\ run.todo = RevealLeft
  BY <1>1 DEF Working, LeftOf, Actions, Transfers
<1>3. /\ DepositLeft \notin ProofLeft \cup {TransferLeft, SendLast, AwaitLast, RevealLeft}
      /\ TransferLeft \notin ProofLeft \cup {RevealLeft}
      /\ RevealLeft \notin ProofLeft \cup {TransferLeft, SendLast, AwaitLast}
      /\ \A todo \in {SendRequest, AwaitRequest, Requested, Asking} :
           todo \notin {SendLast, AwaitLast}
      /\ \A todo \in {SendRequest, AwaitRequest} : todo \notin {Requested, Asking}
  BY DEF ProofLeft, DepositLeft, SendRequest, AwaitRequest, Requested, Asking, TransferLeft,
         SendLast, AwaitLast, RevealLeft
<1>4. /\ {"deposit", "draw"} = Openers /\ Openers \subseteq Provers
      /\ {"activate", "deactivate"} \subseteq Provers
  BY DEF Openers, Provers
<1>5. run.todo = DepositLeft => run.action = "deposit"
  BY <1>2, <1>3
<1>6. run.todo \in {SendRequest, AwaitRequest} => run.action \in Openers
  BY <1>2, <1>3, <1>4 DEF ProofLeft
<1>7. run.todo \in {Requested, Asking} => run.action \in Provers
  BY <1>2, <1>3, <1>4 DEF ProofLeft
<1>8. run.todo \in {SendLast, AwaitLast} => run.action \in Provers \cup Transfers
  BY <1>2, <1>3, <1>4 DEF ProofLeft
<1>9. run.todo = TransferLeft => run.action \in Transfers
  BY <1>2, <1>3, <1>4
<1>10. run.todo = RevealLeft => run.action = "reveal-prize"
  BY <1>2, <1>3, <1>4
<1>11. QED
  BY <1>5, <1>6, <1>7, <1>8, <1>9, <1>10

-----------------------------------------------------------------------------
(* The pool under the script *)

\* A transaction of the script does what any client of the pool could do: in
\* particular it presents no proof that the KMS has not signed.
LEMMA EffectTransacts ==
  ASSUME NEW tx, TransactionOK(tx), Effect(tx)
  PROVE  [Transacts]_vars
<1> DEFINE proof == ProofAbout(tx.action, tx.nonce, tx.bit)
<1>1. /\ Actor \in Users /\ tx.amount \in Euint64s /\ tx.bit \in BOOLEAN /\ tx.opens \in BOOLEAN
      /\ tx.action \in {"deposit", "activate", "deactivate", "draw", "withdraw", "claim-prize"}
      /\ tx.opens => tx.action \in {"deposit", "draw"}
  BY ActorAssumption DEF TransactionOK, Transactions, Provers, Transfers, Openers
<1>2. CASE tx.action \in {"withdraw", "claim-prize"}
  <2>1. Withdraw(Actor, tx.amount)
    BY <1>2 DEF Effect
  <2>2. QED
    BY <1>1, <2>1 DEF Transacts
<1>3. CASE tx.opens /\ tx.action = "deposit"
  <2>1. \/ ConfidentialTransferAndCall(Actor, tx.amount, "deposit")
        \/ RefundedTransfer(Actor, "deposit")
    BY <1>3 DEF Effect
  <2>2. tx.amount \in Amounts
    BY <1>3 DEF TransactionOK
  <2>3. UserStep(Actor)
    BY <2>1, <2>2 DEF UserStep
  <2>4. QED
    BY <1>1, <2>3 DEF Transacts, Next
<1>4. CASE tx.opens /\ tx.action = "draw"
  <2>1. RequestDraw
    BY <1>4 DEF Effect
  <2>2. QED
    BY <2>1 DEF Transacts, Next
<1>5. CASE ~tx.opens /\ tx.action \in {"deposit", "activate", "deactivate", "draw"}
  <2>1. proof \in decryptable
    BY <1>5 DEF TransactionOK, Provers
  <2>2. \/ FinalizeParticipantActivation(Actor, tx.bit, proof)
        \/ FinalizeParticipantDeactivation(Actor, tx.bit, proof)
        \/ SkipDraw(proof)
        \/ \E random \in Euint64s : ExecuteDraw(proof, random)
    BY <1>5 DEF Effect, ProofAbout
  <2> HIDE DEF proof
  <2>3. KeeperStep(proof)
    BY <1>1, <2>2 DEF KeeperStep
  <2>4. QED
    BY <2>1, <2>3 DEF Transacts, Next
<1>6. QED
  BY <1>1, <1>2, <1>3, <1>4, <1>5

\* No step of the process or of the network does more to the pool.
LEMMA ScriptTransacts ==
  ASSUME MempoolOK, [LifecycleNext]_lifecycleVars
  PROVE  [Transacts]_vars
<1>1. CASE Elsewhere \/ Meanwhile
  BY <1>1 DEF Elsewhere, Meanwhile, Transacts, Next
<1>2. ASSUME NEW tx \in mempool, Mined(tx) PROVE [Transacts]_vars
  <2>1. TransactionOK(tx) /\ Effect(tx)
    BY <1>2 DEF MempoolOK, Mined
  <2>2. QED
    BY <2>1, EffectTransacts
<1>3. ASSUME NEW tx \in mempool, Reverted(tx) PROVE UNCHANGED vars
  BY <1>3 DEF Reverted
<1>4. CASE \/ ReadPublic \/ ReadParticipants \/ Guard \/ DecryptPrivateValues \/ ReadRequest
           \/ PublicDecrypt \/ Send \/ Fails \/ Killed
  BY <1>4 DEF ReadPublic, ReadParticipants, Guard, DecryptPrivateValues, ReadRequest,
              PublicDecrypt, Send, Fails, Killed, OnlyRun
<1>5. CASE StartCounted \/ StartPreflight \/ StartActivate
  BY <1>5 DEF StartCounted, StartPreflight, StartActivate, Start, OnlyRun
<1>6. CASE UNCHANGED lifecycleVars
  BY <1>6 DEF lifecycleVars
<1>7. QED
  BY <1>1, <1>2, <1>3, <1>4, <1>5, <1>6 DEF LifecycleNext, Continue

-----------------------------------------------------------------------------
(* Steps of a run *)

Signing == decryptable \subseteq decryptable'

LEMMA UnreadType == Unread \in Views /\ NoRun \in Runs
<1>1. <<>> \in Seq(Users) /\ <<>> \in Seq(Steps)
  OBVIOUS
<1>2. Unread \in Views
  BY <1>1, EuintTypes DEF Unread, Views
<1>3. QED
  BY <1>1, <1>2, EuintTypes DEF NoRun, Runs, Evidences, Requests

LEMMA RunStays == RunOK /\ Signing /\ run' = run => RunOK'
BY DEF RunOK, Reading, Working, Signing, ProofAbout, Handle, EligibilityHandle,
       ZeroBalanceHandle, ReadinessHandle

\* No run, whatever was printed last.
LEMMA RunOver ==
  ASSUME run' \in Runs, run'.action \in {"none", "preflight", "reveal-prize"}, run'.todo = <<>>
  PROVE  RunOK'
<1>1. Working'
  BY DEF Working, LeftOf, Transfers
<1>2. run'.todo \notin {Asking, SendLast, AwaitLast}
  BY Apart
<1>3. QED
  BY <1>1, <1>2 DEF RunOK

LEMMA NoRunOK == run' = NoRun => RunOK'
BY UnreadType, RunOver DEF NoRun

\* A read before the guard.
LEMMA StillReading ==
  ASSUME RunOK, Reading, run' \in Runs, run'.action = run.action, run'.amount = run.amount,
         NEW reads \in Seq(Fields), run'.todo = reads \o GuardFirst(run.action)
  PROVE  RunOK'
<1>1. Reading'
  BY DEF Reading
<1>2. /\ run'.todo # <<>> /\ Head(run'.todo) \in Fields \cup {"guard"}
  <2>1. run.action \in Actions
    BY DEF Reading
  <2>2. CASE reads = <<>>
    BY <2>1, <2>2, GuardNext, ReadsFirst DEF Stage
  <2>3. CASE reads # <<>>
    BY <2>1, <2>3, GuardNext, ReadsFirst DEF Stage
  <2>4. QED
    BY <2>2, <2>3
<1>3. run'.todo \notin {Asking, SendLast, AwaitLast}
  BY <1>2, Stages DEF Stage, Fields
<1>4. QED
  BY <1>1, <1>3 DEF RunOK

\* A step after the guard.
LEMMA StillWorking ==
  ASSUME RunOK, run' \in Runs, run'.action = run.action,
         run.action \in {"deposit", "withdraw"} => run'.amount = run.amount,
         run'.todo \in LeftOf(run.action),
         run'.todo \in {Asking, SendLast, AwaitLast} /\ run.action \in Provers =>
           /\ run'.nonce \in Nat
           /\ run.action = "draw" => run'.nonce = run'.own,
         run'.todo \in {SendLast, AwaitLast} /\ run.action \in Provers =>
           ProofAbout(run'.action, run'.nonce, run'.bit) \in decryptable'
  PROVE  RunOK'
<1>1. Working'
  BY DEF Working
<1>2. run.action \in {"deposit", "withdraw"} => run.amount \in Amounts
  BY DEF RunOK
<1>3. "draw" \in Provers
  BY DEF Provers
<1>4. QED
  BY <1>1, <1>2, <1>3 DEF RunOK

\* What a read returns has the type of what it is about.
LEMMA ValueTypes ==
  ASSUME TypeOK, NEW view \in Views, NEW field \in DOMAIN Unread \ {"participants"}
  PROVE  [view EXCEPT ![field] = ValueOf(field)] \in Views
<1>1. Actor \in Users
  BY ActorAssumption
<1>2. Len(participants) \in Nat
  BY DEF TypeOK
<1>3. /\ paused \in BOOLEAN /\ currentDrawId \in Nat /\ nextDrawRequestTimestamp \in Nat
      /\ pendingDraw.active \in BOOLEAN
      /\ wallet[Actor] \in Nat /\ balances[Actor] \in Euint64s /\ prizes[Actor] \in Euint64s
  BY <1>1 DEF TypeOK, Draws
<1>4. field \in {"paused", "drawId", "count", "next", "pending", "wallet", "position", "prize"}
  BY DEF Unread
<1>5. CASE field = "paused"
  BY <1>3, <1>5 DEF ValueOf, Views
<1>6. CASE field = "drawId"
  BY <1>3, <1>6 DEF ValueOf, Views
<1>7. CASE field = "count"
  BY <1>2, <1>7 DEF ValueOf, Views
<1>8. CASE field = "next"
  BY <1>3, <1>8 DEF ValueOf, Views
<1>9. CASE field = "pending"
  BY <1>3, <1>9 DEF ValueOf, Views
<1>10. CASE field = "wallet"
  BY <1>3, <1>10 DEF ValueOf, Views
<1>11. CASE field = "position"
  BY <1>3, <1>11 DEF ValueOf, Views
<1>12. CASE field = "prize"
  BY <1>3, <1>12 DEF ValueOf, Views
<1>13. QED
  BY <1>4, <1>5, <1>6, <1>7, <1>8, <1>9, <1>10, <1>11, <1>12

LEMMA ReadPublicKeeps == ScriptInv /\ ReadPublic => RunOK'
<1> SUFFICES ASSUME ScriptInv, ReadPublic PROVE RunOK'
  OBVIOUS
<1>1. RunOK /\ TypeOK /\ run \in Runs
  BY DEF ScriptInv, Structure, RunOK
<1>2. PICK field \in DOMAIN Unread \ {"participants"} :
        At(field) /\ run' = [Advance EXCEPT !.seen[field] = ValueOf(field)]
  BY DEF ReadPublic
<1>3. field \in Fields
  BY DEF Unread, Fields
<1>4. Reading /\ run.action \in Actions
  BY <1>1, <1>2, <1>3, WhereItIs DEF Reading
<1>5. PICK reads \in Seq(Fields) : Tail(run.todo) = reads \o GuardFirst(run.action)
  BY <1>1, <1>2, <1>3, <1>4, BeforeGuard DEF At
<1>6. Tail(run.todo) \in Seq(Steps)
  BY <1>4, <1>5, GuardNext, ReadsFirst
<1>7. PICK view \in Views : view = [run.seen EXCEPT ![field] = ValueOf(field)]
  BY <1>1, ValueTypes DEF Runs
<1>8. run' = [run EXCEPT !.todo = Tail(run.todo), !.seen = view]
  BY <1>1, <1>2, <1>7 DEF Advance, Runs
<1>9. /\ run' \in Runs /\ run'.action = run.action /\ run'.amount = run.amount
      /\ run'.todo = Tail(run.todo)
  BY <1>1, <1>6, <1>8 DEF Runs
<1>10. QED
  BY <1>1, <1>4, <1>5, <1>9, StillReading

LEMMA ReadParticipantsKeeps == ScriptInv /\ ReadParticipants => RunOK'
<1> SUFFICES ASSUME ScriptInv, ReadParticipants PROVE RunOK'
  OBVIOUS
<1>1. RunOK /\ TypeOK /\ run \in Runs /\ At("participants")
  BY DEF ScriptInv, Structure, RunOK, ReadParticipants
<1>2. "participants" \in Fields
  BY DEF Fields
<1>3. Reading /\ run.action \in Actions
  BY <1>1, <1>2, WhereItIs DEF Reading
<1>4. CASE run' = NoRun
  BY <1>4, NoRunOK
<1>5. CASE run' = Advance
  <2>1. PICK reads \in Seq(Fields) : Tail(run.todo) = reads \o GuardFirst(run.action)
    BY <1>1, <1>2, <1>3, BeforeGuard DEF At
  <2>2. Tail(run.todo) \in Seq(Steps)
    BY <1>3, <2>1, GuardNext, ReadsFirst
  <2>3. /\ run' \in Runs /\ run'.action = run.action /\ run'.amount = run.amount
        /\ run'.todo = Tail(run.todo)
    BY <1>1, <1>5, <2>2 DEF Advance, Runs
  <2>4. QED
    BY <1>1, <1>3, <2>1, <2>3, StillReading
<1>6. ASSUME NEW index \in 1 .. Len(participants),
             run' = [run EXCEPT !.seen.participants = Append(@, participants[index])]
      PROVE  RunOK'
  <2>1. participants[index] \in Users /\ run.seen.participants \in Seq(Users)
    BY <1>1, <1>6 DEF TypeOK, Runs, Views
  <2>2. Append(run.seen.participants, participants[index]) \in Seq(Users)
    BY <2>1
  <2>3. /\ run' \in Runs /\ run'.action = run.action /\ run'.amount = run.amount
        /\ run'.todo = run.todo
    BY <1>1, <1>6, <2>2 DEF Runs, Views
  <2>4. PICK reads \in Seq(Fields) : run.todo = reads \o GuardFirst(run.action)
    BY <1>3 DEF Reading
  <2>5. QED
    BY <1>1, <1>3, <2>3, <2>4, StillReading
<1>7. Len(run.seen.participants) + 1 \in Nat \ {0} /\ Len(participants) \in Nat
  BY <1>1 DEF Runs, Views, TypeOK
<1>8. QED
  BY <1>4, <1>5, <1>6, <1>7 DEF ReadParticipants, Throw

LEMMA GuardKeeps == ScriptInv /\ Guard => RunOK' /\ EnvOK'
<1> SUFFICES ASSUME ScriptInv, Guard PROVE RunOK' /\ EnvOK'
  OBVIOUS
<1>1. RunOK /\ EnvOK /\ run \in Runs /\ At("guard")
  BY DEF ScriptInv, RunOK, Guard
<1>2. Reading /\ run.action \in Actions
  BY <1>1, WhereItIs DEF Reading
<1>3. Tail(run.todo) = Phase(run.action)
  BY <1>1, <1>2, BeforeGuard DEF At
<1>4. /\ Phase(run.action) \in LeftOf(run.action) /\ Phase(run.action) \in Seq(Steps)
      /\ Phase(run.action) \notin {Asking, SendLast, AwaitLast}
  BY <1>2, Phases, LeftTypes
<1>5. EnvOK'
  <2>1. run.seen.drawId \in Nat /\ run.seen.participants \in Seq(Users)
    BY <1>1 DEF Runs, Views
  <2>2. Range(run.seen.participants) \subseteq Users
    BY <2>1 DEF Range
  <2>3. QED
    BY <1>1, <2>1, <2>2 DEF Guard, EnvOK
<1>6. CASE run' = NoRun
  BY <1>5, <1>6, NoRunOK
<1>7. CASE run' = Guarded
  <2> DEFINE view == [Unread EXCEPT !.wallet = run.seen.wallet, !.position = run.seen.position,
                                    !.prize = run.seen.prize]
  <2>1. view \in Views
    BY <1>1, UnreadType DEF Runs, Views
  <2>2. run' = [run EXCEPT !.todo = Phase(run.action), !.seen = view]
    BY <1>1, <1>3, <1>7 DEF Guarded, Advance, Runs
  <2> HIDE DEF view
  <2>3. /\ run' \in Runs /\ run'.action = run.action /\ run'.amount = run.amount
        /\ run'.todo = Phase(run.action)
    BY <1>1, <1>4, <2>1, <2>2 DEF Runs
  <2>4. RunOK'
    BY <1>1, <1>4, <2>3, StillWorking
  <2>5. QED
    BY <1>5, <2>4
<1>8. QED
  BY <1>6, <1>7 DEF Guard

\* One await after the guard is done: of the phase, and of what it leaves.
LEMMA Advanced ==
  ASSUME run \in Runs, NEW next, NEW rest \in AllLeft, Stage(run.todo, next, rest)
  PROVE  Advance = [run EXCEPT !.todo = rest] /\ Advance \in Runs
<1>1. rest \in Seq(Steps) /\ Tail(run.todo) = rest
  BY LeftTypes DEF Stage
<1>2. QED
  BY <1>1 DEF Advance, Runs

LEMMA DecryptKeeps == ScriptInv /\ DecryptPrivateValues => RunOK'
<1> SUFFICES ASSUME ScriptInv, DecryptPrivateValues PROVE RunOK'
  OBVIOUS
<1> DEFINE amount == IF run.action = "claim-prize" THEN run.seen.prize ELSE run.amount
<1>1. RunOK /\ run \in Runs /\ At("decrypt")
  BY DEF ScriptInv, RunOK, DecryptPrivateValues
<1>2. /\ run.todo # <<>> /\ Working
      /\ run.todo \in {DepositLeft, TransferLeft, RevealLeft}
  BY <1>1, WhereItIs DEF At, Idle
<1>3. PICK rest \in {SendRequest, SendLast, <<>>} :
        /\ Stage(run.todo, "decrypt", rest)
        /\ rest \in LeftOf(run.action)
        /\ rest \in {Asking, SendLast, AwaitLast} => run.action \notin Provers
  <2>1. CASE run.todo = DepositLeft
    <3>1. run.action = "deposit"
      BY <1>1, <1>2, <2>1, WhatItIs
    <3>2. SendRequest \in LeftOf(run.action)
      BY <3>1 DEF LeftOf, ProofLeft, Transfers
    <3>3. QED
      BY <2>1, <3>2, Stages, Apart
  <2>2. CASE run.todo = TransferLeft
    <3>1. run.action \in Transfers
      BY <1>1, <1>2, <2>2, WhatItIs
    <3>2. SendLast \in LeftOf(run.action) /\ run.action \notin Provers
      BY <3>1 DEF LeftOf, Transfers, Provers
    <3>3. QED
      BY <2>2, <3>2, Stages
  <2>3. CASE run.todo = RevealLeft
    <3>1. run.action = "reveal-prize"
      BY <1>1, <1>2, <2>3, WhatItIs
    <3>2. <<>> \in LeftOf(run.action)
      BY <3>1 DEF LeftOf, Transfers
    <3>3. QED
      BY <2>3, <3>2, Stages, Apart
  <2>4. QED
    BY <1>2, <2>1, <2>2, <2>3
<1>4. amount \in Euint64s /\ (run.action \in {"deposit", "withdraw"} => amount = run.amount)
  BY <1>1 DEF Runs, Views
<1> HIDE DEF amount
<1>5. CASE run' = NoRun
  BY <1>5, NoRunOK
<1>6. CASE run' = [Advance EXCEPT !.amount = amount, !.seen = Unread]
  <2>1. rest \in AllLeft
    BY DEF AllLeft, ProofLeft
  <2>2. /\ run' \in Runs /\ run'.action = run.action /\ run'.amount = amount
        /\ run'.todo = rest
    BY <1>1, <1>3, <1>4, <1>6, <2>1, Advanced, UnreadType DEF Runs
  <2>3. QED
    BY <1>1, <1>3, <1>4, <2>2, StillWorking
<1>7. QED
  BY <1>5, <1>6 DEF DecryptPrivateValues, amount

LEMMA ReadRequestKeeps == ScriptInv /\ ReadRequest => RunOK'
<1> SUFFICES ASSUME ScriptInv, ReadRequest PROVE RunOK'
  OBVIOUS
<1>1. RunOK /\ TypeOK /\ run \in Runs /\ At("read")
  BY DEF ScriptInv, Structure, RunOK, ReadRequest
<1>2. run.todo # <<>> /\ Working /\ run.todo = Requested
  BY <1>1, WhereItIs DEF At, Idle
<1>3. run.action \in Provers /\ Actor \in Users
  BY <1>1, <1>2, WhatItIs, ActorAssumption
<1>4. CASE run' = NoRun
  BY <1>4, NoRunOK
<1>5. ASSUME NEW nonce \in Requests, nonce # None, run.action = "draw" => nonce = run.own,
             run' = [Advance EXCEPT !.nonce = nonce]
      PROVE  RunOK'
  <2>1. Stage(run.todo, "read", Asking) /\ Asking \in AllLeft
    BY <1>2, Stages DEF AllLeft, ProofLeft
  <2>2. nonce \in Nat
    BY <1>5 DEF Requests
  <2>3. /\ run' \in Runs /\ run'.action = run.action /\ run'.amount = run.amount
        /\ run'.todo = Asking /\ run'.nonce = nonce /\ run'.own = run.own
    BY <1>1, <1>5, <2>1, Advanced DEF Runs
  <2>4. Asking \in LeftOf(run.action)
    BY <1>3, Apart DEF LeftOf, ProofLeft, Provers, Transfers
  <2>5. QED
    BY <1>1, <1>5, <2>2, <2>3, <2>4, Apart, StillWorking
<1> DEFINE request == CASE run.action \in {"deposit", "activate"} -> pendingActivations[Actor]
                        [] run.action = "deactivate" -> pendingDeactivations[Actor]
                        [] run.action = "draw" -> IF DrawMatches THEN pendingDraw.nonce ELSE None
<1>6. run' = IF request = None THEN NoRun ELSE [Advance EXCEPT !.nonce = request]
  BY DEF ReadRequest
<1>7. request \in Requests /\ (run.action = "draw" /\ request # None => request = run.own)
  <2>1. pendingDraw.nonce \in Nat
    BY <1>1 DEF TypeOK, Draws, Nonces
  <2>2. QED
    BY <1>1, <1>3, <2>1 DEF TypeOK, Requests, DrawMatches, Provers
<1> HIDE DEF request
<1>8. QED
  BY <1>4, <1>5, <1>6, <1>7

LEMMA PublicDecryptKeeps == ScriptInv /\ PublicDecrypt => RunOK'
<1> SUFFICES ASSUME ScriptInv, PublicDecrypt PROVE RunOK'
  OBVIOUS
<1>1. RunOK /\ TypeOK /\ run \in Runs /\ At("kms") /\ UNCHANGED decryptable
  BY DEF ScriptInv, Structure, RunOK, PublicDecrypt, OnlyRun, vars
<1>2. run.todo # <<>> /\ Working /\ run.todo = Asking
  BY <1>1, WhereItIs DEF At, Idle
<1>3. /\ run.action \in Provers /\ run.nonce \in Nat
      /\ run.action = "draw" => run.nonce = run.own
  <2>1. run.action \in Provers
    BY <1>1, <1>2, WhatItIs
  <2>2. QED
    BY <1>1, <1>2, <2>1 DEF RunOK
<1>4. PICK proof \in decryptable :
        /\ proof.handle = Handle(run.action, run.nonce)
        /\ run' = [Advance EXCEPT !.bit = proof.bit]
  BY DEF PublicDecrypt, Finalizes
<1>5. proof.bit \in BOOLEAN /\ proof = [handle |-> proof.handle, bit |-> proof.bit]
  BY <1>1 DEF TypeOK
<1>6. Stage(run.todo, "kms", SendLast) /\ SendLast \in AllLeft
  BY <1>2, Stages DEF AllLeft, ProofLeft
<1>7. /\ run' \in Runs /\ run'.action = run.action /\ run'.amount = run.amount
      /\ run'.todo = SendLast /\ run'.nonce = run.nonce /\ run'.own = run.own
      /\ run'.bit = proof.bit
  BY <1>1, <1>4, <1>5, <1>6, Advanced DEF Runs
<1>8. SendLast \in LeftOf(run.action)
  BY <1>3, Apart DEF LeftOf, ProofLeft, Provers, Transfers
<1>9. ProofAbout(run'.action, run'.nonce, run'.bit) \in decryptable'
  BY <1>1, <1>4, <1>5, <1>7 DEF ProofAbout
<1>10. QED
  BY <1>1, <1>3, <1>7, <1>8, <1>9, StillWorking

\* A run that starts knows nothing yet but its action and its amount.
LEMMA StartKeeps ==
  ASSUME NEW action \in Actions, Start(action)
  PROVE  RunOK'
<1>1. PICK amount \in AmountsOf(action) :
        run' = [NoRun EXCEPT !.action = action, !.amount = amount,
                 !.todo = PublicReads(action) \o PrivateReads(action)
                            \o <<"guard">> \o Phase(action)]
  BY DEF Start
<1>2. /\ amount \in Euint64s
      /\ action \in {"deposit", "withdraw"} => amount \in Amounts
  BY EuintTypes, PoolAssumption DEF AmountsOf
<1>3. PublicReads(action) \in Seq(Fields)
  <2> DEFINE first == <<"paused", "drawId", "count">>
             cadence == IF action = "draw" THEN <<"next">> ELSE <<>>
             last == <<"pending", "participants">>
  <2>1. first \in Seq(Fields) /\ cadence \in Seq(Fields) /\ last \in Seq(Fields)
    <3>1. first \in Seq(Fields) /\ last \in Seq(Fields)
      BY DEF Fields
    <3>2. <<"next">> \in Seq(Fields) /\ <<>> \in Seq(Fields)
      BY DEF Fields
    <3>3. QED
      BY <3>1, <3>2
  <2> HIDE DEF first, cadence, last
  <2>2. (first \o cadence) \o last \in Seq(Fields) /\ first \o (cadence \o last) \in Seq(Fields)
    BY <2>1, ConcatProperties
  <2>3. QED
    BY <2>2 DEF first, cadence, last, PublicReads
<1>4. PrivateReads(action) \in Seq(Fields)
  <2>1. /\ <<"wallet">> \in Seq(Fields) /\ <<"position">> \in Seq(Fields)
        /\ <<"prize">> \in Seq(Fields) /\ <<"position", "prize">> \in Seq(Fields)
        /\ <<>> \in Seq(Fields)
    BY DEF Fields
  <2>2. PrivateReads(action) \in
          {<<"wallet">>, <<"position">>, <<"prize">>, <<"position", "prize">>, <<>>}
    BY Zenon DEF PrivateReads
  <2>3. QED
    BY <2>1, <2>2
<1>5. PICK reads \in Seq(Fields) : reads = PublicReads(action) \o PrivateReads(action)
  BY <1>3, <1>4, ConcatProperties
<1>6. reads \in Seq(Steps) /\ <<"guard">> \in Seq(Steps) /\ Phase(action) \in Seq(Steps)
  BY Phases, LeftTypes, SeqMonotonic DEF Steps
<1>7. PublicReads(action) \o PrivateReads(action) \o <<"guard">> \o Phase(action)
        = reads \o GuardFirst(action)
  BY <1>5, <1>6, ConcatAssociative DEF GuardFirst
<1>8. reads \o GuardFirst(action) \in Seq(Steps)
  BY GuardNext, ReadsFirst
<1>9. /\ run' \in Runs /\ run'.action = action /\ run'.amount = amount
      /\ run'.todo = reads \o GuardFirst(action)
  BY <1>1, <1>2, <1>7, <1>8, UnreadType DEF Runs
<1>10. Reading'
  BY <1>9 DEF Reading
<1>11. run'.todo \notin {Asking, SendLast, AwaitLast}
  <2>1. run'.todo # <<>> /\ Head(run'.todo) \in Fields \cup {"guard"}
    <3>1. CASE reads = <<>>
      BY <1>9, <3>1, GuardNext, ReadsFirst DEF Stage
    <3>2. CASE reads # <<>>
      BY <1>9, <3>2, GuardNext, ReadsFirst DEF Stage
    <3>3. QED
      BY <3>1, <3>2
  <2>2. QED
    BY <2>1, Stages DEF Stage, Fields
<1>12. QED
  BY <1>2, <1>9, <1>10, <1>11 DEF RunOK

-----------------------------------------------------------------------------
(* Transactions in flight *)

LEMMA TransactionStays == ASSUME NEW tx, TransactionOK(tx), Signing PROVE TransactionOK(tx)'
BY DEF TransactionOK, Signing, ProofAbout, Handle, EligibilityHandle, ZeroBalanceHandle,
       ReadinessHandle

\* While the process does not wait for a receipt, no transaction is awaited.
LEMMA NobodyListens ==
  ASSUME MempoolOK, ~At("receipt")
  PROVE  \A tx \in mempool : ~tx.awaited
BY Stages DEF MempoolOK, OwnTransaction, At, Idle, Stage

LEMMA MempoolStays ==
  MempoolOK /\ Signing /\ UNCHANGED <<run, mempool>> => MempoolOK'
BY TransactionStays DEF MempoolOK, OwnTransaction

LEMMA MempoolUnheard ==
  ASSUME MempoolOK, Signing, mempool' \subseteq mempool, \A tx \in mempool' : ~tx.awaited
  PROVE  MempoolOK'
BY TransactionStays DEF MempoolOK

\* An action that starts, continues or ends a run without a transaction.
LEMMA MempoolQuiet ==
  MempoolOK /\ Signing /\ ~At("receipt") /\ UNCHANGED mempool => MempoolOK'
BY NobodyListens, MempoolUnheard

\* There is one transaction at most whose receipt the process waits for.
LEMMA OneListened ==
  ASSUME MempoolOK, NEW tx \in mempool, NEW other \in mempool, tx.awaited, other.awaited
  PROVE  tx = other
<1>1. /\ tx \in Transactions /\ other \in Transactions
      /\ OwnTransaction(tx) /\ OwnTransaction(other)
  BY DEF MempoolOK, TransactionOK
<1>2. tx.opens = other.opens
  BY <1>1, Apart DEF OwnTransaction, Transactions
<1>3. /\ tx.action = other.action /\ tx.amount = other.amount
      /\ tx.nonce = other.nonce /\ tx.bit = other.bit
  BY <1>1 DEF OwnTransaction
<1>4. tx.awaited = other.awaited
  BY <1>1 DEF Transactions
<1>5. QED
  BY <1>1, <1>2, <1>3, <1>4 DEF Transactions

\* The receipt that the process hears of.
LEMMA ListenedIsOwn ==
  ASSUME MempoolOK, NEW tx \in mempool, tx.awaited
  PROVE  /\ At("receipt") /\ OwnTransaction(tx) /\ TransactionOK(tx)
         /\ \A other \in mempool \ {tx} : ~other.awaited
<1>1. At("receipt")
  BY NobodyListens
<1>2. QED
  BY <1>1, OneListened DEF MempoolOK

LEMMA SendKeeps == ScriptInv /\ Send => RunOK' /\ MempoolOK'
<1> SUFFICES ASSUME ScriptInv, Send PROVE RunOK' /\ MempoolOK'
  OBVIOUS
<1> PICK tx : tx = [action |-> run.action, amount |-> run.amount, nonce |-> run.nonce,
                    bit |-> run.bit, opens |-> Contains(run.todo, "read"), awaited |-> TRUE]
  OBVIOUS
<1>1. /\ RunOK /\ MempoolOK /\ Signing /\ run \in Runs
      /\ At("send") /\ run' = Advance /\ mempool' = mempool \cup {tx}
  BY DEF ScriptInv, RunOK, Send, Signing, vars
<1>2. run.todo # <<>> /\ Working /\ run.todo \in {SendRequest, SendLast}
  BY <1>1, WhereItIs DEF At, Idle
<1>3. /\ run.action \in Provers \cup Transfers
      /\ run.todo = SendRequest => run.action \in Openers
  BY <1>1, <1>2, WhatItIs DEF Openers, Provers
<1>4. /\ tx.action = run.action /\ tx.amount = run.amount
      /\ tx.nonce = run.nonce /\ tx.bit = run.bit
      /\ tx.opens = Contains(run.todo, "read") /\ tx.awaited
  OBVIOUS
<1>5. tx \in Transactions
  <2>1. Contains(run.todo, "read") \in BOOLEAN
    BY DEF Contains
  <2>2. QED
    BY <1>1, <1>3, <2>1 DEF Runs, Transactions
<1>6. PICK rest \in {AwaitRequest, AwaitLast} :
        /\ Stage(run.todo, "send", rest) /\ rest \in LeftOf(run.action)
        /\ tx.opens <=> rest = AwaitRequest
        /\ tx.opens => run.action \in Openers
        /\ rest = AwaitLast <=> run.todo = SendLast
  <2>1. CASE run.todo = SendRequest
    <3>1. AwaitRequest \in LeftOf(run.action) /\ run.action \in Openers
      BY <1>3, <2>1 DEF LeftOf, ProofLeft, Openers, Transfers
    <3>2. QED
      BY <1>4, <2>1, <3>1, Stages, Contents, Apart
  <2>2. CASE run.todo = SendLast
    <3>1. AwaitLast \in LeftOf(run.action)
      BY <1>3, Apart DEF LeftOf, ProofLeft, Provers, Transfers
    <3>2. QED
      BY <1>4, <2>2, <3>1, Stages, Contents, Apart
  <2>3. QED
    BY <1>2, <2>1, <2>2
<1>7. /\ run' \in Runs /\ run'.action = run.action /\ run'.amount = run.amount
      /\ run'.todo = rest /\ run'.nonce = run.nonce /\ run'.own = run.own
      /\ run'.bit = run.bit
  <2>1. rest \in AllLeft
    BY DEF AllLeft, ProofLeft
  <2>2. QED
    BY <1>1, <1>6, <2>1, Advanced DEF Runs
<1>8. rest = AwaitLast /\ run.action \in Provers =>
        /\ run.nonce \in Nat /\ (run.action = "draw" => run.nonce = run.own)
        /\ ProofAbout(run.action, run.nonce, run.bit) \in decryptable
  BY <1>1, <1>6 DEF RunOK
<1>9. RunOK'
  <2>1. AwaitRequest \notin {Asking, SendLast, AwaitLast}
    BY Apart
  <2>2. rest = AwaitLast /\ run.action \in Provers =>
          ProofAbout(run'.action, run'.nonce, run'.bit) \in decryptable'
    BY <1>1, <1>7, <1>8 DEF Signing
  <2>3. QED
    BY <1>1, <1>6, <1>7, <1>8, <2>1, <2>2, StillWorking
<1>10. TransactionOK(tx)
  <2>1. run.action \in {"deposit", "withdraw"} => run.amount \in Amounts
    BY <1>1 DEF RunOK
  <2>2. ~tx.opens => rest = AwaitLast
    BY <1>6
  <2>3. QED
    BY <1>4, <1>5, <1>6, <1>8, <2>1, <2>2 DEF TransactionOK
<1>11. OwnTransaction(tx)'
  BY <1>4, <1>6, <1>7 DEF OwnTransaction
<1>12. TransactionOK(tx)'
  BY <1>1, <1>10, TransactionStays
<1>13. ~At("receipt")
  BY <1>1 DEF At
<1>14. \A other \in mempool : ~other.awaited /\ TransactionOK(other)'
  BY <1>1, <1>13, NobodyListens, TransactionStays DEF MempoolOK
<1>15. QED
  BY <1>1, <1>9, <1>11, <1>12, <1>14 DEF MempoolOK

LEMMA EvidenceType == ASSUME NEW tx, TransactionOK(tx) PROVE Evidence(tx) \in Evidences
<1>1. /\ tx.action \in {"deposit", "activate", "deactivate", "draw", "withdraw", "claim-prize"}
      /\ tx.opens \in BOOLEAN /\ (tx.opens => tx.action \in {"deposit", "draw"})
  BY DEF TransactionOK, Transactions, Provers, Transfers, Openers
<1>2. QED
  BY <1>1 DEF Evidence, Evidences

\* What a run becomes when it hears of its receipt.
LEMMA ConfirmedKeeps ==
  ASSUME ScriptInv, NEW tx \in mempool, tx.awaited, run' = Confirmed(tx)
  PROVE  RunOK'
<1>1. RunOK /\ MempoolOK /\ TypeOK /\ run \in Runs
  BY DEF ScriptInv, Structure, RunOK
<1>2. At("receipt") /\ OwnTransaction(tx) /\ TransactionOK(tx) /\ tx.opens \in BOOLEAN
  BY <1>1, ListenedIsOwn DEF TransactionOK, Transactions
<1>3. run.todo # <<>> /\ Working
  BY <1>1, <1>2, WhereItIs DEF At, Idle
<1>4. Evidence(tx) \in Evidences /\ drawRequestNonce \in Requests
  BY <1>1, <1>2, EvidenceType DEF TypeOK, Nonces, Requests
<1>5. CASE ~ExpectedEvent(tx)
  BY <1>5, NoRunOK DEF Confirmed
<1>6. CASE ExpectedEvent(tx) /\ tx.opens
  <2>1. run.todo = AwaitRequest /\ Stage(run.todo, "receipt", Requested)
    BY <1>2, <1>6, Stages DEF OwnTransaction
  <2>2. Tail(run.todo) = Requested /\ Requested # <<>>
    BY <2>1, Stages DEF Stage
  <2>3. PICK own \in Requests : run' = [Advance EXCEPT !.printed = Evidence(tx), !.own = own]
    <3>1. run' = [Advance EXCEPT !.printed = Evidence(tx),
                                 !.own = IF tx.action = "draw" /\ tx.opens
                                         THEN drawRequestNonce ELSE Advance.own]
      BY <1>6, <2>2 DEF Confirmed
    <3>2. Advance.own \in Requests
      BY <1>1 DEF Advance, Runs
    <3>3. QED
      BY <1>4, <3>1, <3>2
  <2>4. Requested \in AllLeft
    BY DEF AllLeft, ProofLeft
  <2>5. /\ run' \in Runs /\ run'.action = run.action /\ run'.amount = run.amount
        /\ run'.todo = Requested
    BY <1>1, <1>4, <2>1, <2>3, <2>4, Advanced DEF Runs
  <2>6. run.action \in Openers
    BY <1>1, <1>3, <2>1, WhatItIs
  <2>7. Requested \in LeftOf(run.action)
    BY <2>6 DEF LeftOf, ProofLeft, Openers, Transfers
  <2>8. QED
    BY <1>1, <2>5, <2>7, Apart, StillWorking
<1>7. CASE ExpectedEvent(tx) /\ ~tx.opens
  <2>1. run.todo = AwaitLast /\ Tail(run.todo) = <<>>
    BY <1>2, <1>7, Stages DEF OwnTransaction, Stage
  <2>2. run' = [NoRun EXCEPT !.printed = Evidence(tx), !.own = NoRun.own]
    BY <1>7, <2>1 DEF Confirmed
  <2>3. run' \in Runs /\ run'.action = "none" /\ run'.todo = <<>>
    BY <1>4, <2>2, UnreadType DEF Runs, NoRun
  <2>4. QED
    BY <2>3, RunOver
<1>8. QED
  BY <1>5, <1>6, <1>7

\* A transaction leaves the mempool, and the process hears of it or it does not.
LEMMA LeavesMempool ==
  ASSUME ScriptInv, Signing, NEW tx \in mempool, mempool' = mempool \ {tx},
         IF tx.awaited THEN RunOK' ELSE UNCHANGED run
  PROVE  RunOK' /\ MempoolOK'
<1>1. RunOK /\ MempoolOK
  BY DEF ScriptInv
<1>2. CASE tx.awaited
  BY <1>1, <1>2, ListenedIsOwn, MempoolUnheard
<1>3. CASE ~tx.awaited
  <2>1. RunOK'
    BY <1>1, <1>3, RunStays
  <2>2. MempoolOK'
    BY <1>1, <1>3, TransactionStays DEF MempoolOK, OwnTransaction
  <2>3. QED
    BY <2>1, <2>2
<1>4. QED
  BY <1>2, <1>3

\* After a kill nothing is awaited.
LEMMA KilledKeeps == ScriptInv /\ Signing /\ Killed => RunOK' /\ MempoolOK'
<1> SUFFICES ASSUME ScriptInv, Signing, Killed PROVE RunOK' /\ MempoolOK'
  OBVIOUS
<1>1. /\ MempoolOK /\ run' = NoRun
      /\ mempool' = {[tx EXCEPT !.awaited = FALSE] : tx \in mempool}
  BY DEF ScriptInv, Killed, Throw
<1>2. ASSUME NEW tx \in mempool PROVE LET left == [tx EXCEPT !.awaited = FALSE]
                                      IN  TransactionOK(left) /\ ~left.awaited
  BY <1>1, <1>2 DEF MempoolOK, TransactionOK, Transactions
<1>3. \A tx \in mempool' : TransactionOK(tx) /\ ~tx.awaited
  BY <1>1, <1>2
<1>4. MempoolOK'
  BY <1>3, TransactionStays DEF MempoolOK
<1>5. QED
  BY <1>1, <1>4, NoRunOK

-----------------------------------------------------------------------------
(* The invariant is inductive *)

LEMMA ScriptInitInv == Init /\ LifecycleInit => ScriptInv
<1> SUFFICES ASSUME Init, LifecycleInit PROVE ScriptInv
  OBVIOUS
<1>1. Structure
  BY InitStructure
<1>2. currentDrawId \in Nat /\ Members \subseteq Users
  BY <1>1 DEF Structure, TypeOK, Members, Range
<1>3. EnvOK
  BY <1>2 DEF LifecycleInit, EnvOK
<1>4. run = NoRun /\ NoRun.action = "none" /\ NoRun.todo = <<>>
  BY DEF LifecycleInit, NoRun
<1>5. RunOK
  <2>1. Working
    BY <1>4 DEF Working, LeftOf, Transfers
  <2>2. QED
    BY <1>4, <2>1, UnreadType, Apart DEF RunOK
<1>6. MempoolOK
  BY DEF LifecycleInit, MempoolOK
<1>7. QED
  BY <1>1, <1>3, <1>5, <1>6 DEF ScriptInv

LEMMA ScriptStep == ScriptInv /\ [LifecycleNext]_lifecycleVars => ScriptInv'
<1> SUFFICES ASSUME ScriptInv, [LifecycleNext]_lifecycleVars PROVE ScriptInv'
  OBVIOUS
<1>1. Structure /\ EnvOK /\ RunOK /\ MempoolOK
  BY DEF ScriptInv
<1>2. [Transacts]_vars
  BY <1>1, ScriptTransacts
<1>3. Structure' /\ Signing
  BY <1>1, <1>2, TransactsStructure, SignedForGood DEF Signing
<1>4. UNCHANGED env => EnvOK'
  BY <1>1 DEF EnvOK
<1>5. ASSUME \/ ReadPublic \/ ReadParticipants \/ Guard \/ DecryptPrivateValues
             \/ ReadRequest \/ PublicDecrypt
      PROVE  ScriptInv'
  <2>1. UNCHANGED mempool
    BY <1>5 DEF ReadPublic, ReadParticipants, Guard, DecryptPrivateValues, ReadRequest,
                PublicDecrypt, OnlyRun
  <2>2. ~At("receipt")
    BY <1>5 DEF ReadPublic, ReadParticipants, Guard, DecryptPrivateValues, ReadRequest,
                PublicDecrypt, At, Unread
  <2>3. MempoolOK'
    BY <1>1, <1>3, <2>1, <2>2, MempoolQuiet
  <2>4. EnvOK'
    BY <1>4, <1>5, GuardKeeps DEF ReadPublic, ReadParticipants, DecryptPrivateValues,
                                  ReadRequest, PublicDecrypt, OnlyRun
  <2>5. RunOK'
    BY <1>5, ReadPublicKeeps, ReadParticipantsKeeps, GuardKeeps, DecryptKeeps,
       ReadRequestKeeps, PublicDecryptKeeps
  <2>6. QED
    BY <1>3, <2>3, <2>4, <2>5 DEF ScriptInv
<1>6. ASSUME Send PROVE ScriptInv'
  BY <1>3, <1>4, <1>6, SendKeeps DEF ScriptInv, Send
<1>7. ASSUME NEW tx \in mempool, Mined(tx) PROVE ScriptInv'
  <2>1. /\ mempool' = mempool \ {tx} /\ UNCHANGED env
        /\ run' = IF tx.awaited THEN Confirmed(tx) ELSE run
    BY <1>7 DEF Mined
  <2>2. tx.awaited => RunOK'
    BY <2>1, ConfirmedKeeps
  <2>3. QED
    BY <1>3, <1>4, <2>1, <2>2, LeavesMempool DEF ScriptInv
<1>8. ASSUME NEW tx \in mempool, Reverted(tx) PROVE ScriptInv'
  <2>1. /\ mempool' = mempool \ {tx} /\ UNCHANGED env
        /\ IF tx.awaited THEN run' = NoRun ELSE UNCHANGED run
    BY <1>8 DEF Reverted, Throw
  <2>2. QED
    BY <1>3, <1>4, <2>1, NoRunOK, LeavesMempool DEF ScriptInv
<1>9. ASSUME StartCounted \/ StartPreflight \/ StartActivate PROVE ScriptInv'
  <2>1. PICK action \in Actions : Start(action)
    BY <1>9 DEF StartCounted, StartPreflight, StartActivate, Actions
  <2>2. ~At("receipt") /\ UNCHANGED <<env, mempool>>
    BY <2>1 DEF Start, At, OnlyRun
  <2>3. QED
    BY <1>1, <1>3, <1>4, <2>1, <2>2, StartKeeps, MempoolQuiet DEF ScriptInv
<1>10. ASSUME Fails PROVE ScriptInv'
  <2>1. ~At("receipt") /\ run' = NoRun /\ UNCHANGED <<env, mempool>>
    BY <1>10 DEF Fails, Throw, OnlyRun
  <2>2. QED
    BY <1>1, <1>3, <1>4, <2>1, NoRunOK, MempoolQuiet DEF ScriptInv
<1>11. ASSUME Killed PROVE ScriptInv'
  BY <1>3, <1>4, <1>11, KilledKeeps DEF ScriptInv, Killed
<1>12. ASSUME Elsewhere \/ Meanwhile \/ UNCHANGED lifecycleVars PROVE ScriptInv'
  <2>1. UNCHANGED <<env, run, mempool>>
    BY <1>12 DEF Elsewhere, Meanwhile, lifecycleVars, script
  <2>2. QED
    BY <1>1, <1>3, <1>4, <2>1, RunStays, MempoolStays DEF ScriptInv
<1>13. QED
  BY <1>5, <1>6, <1>7, <1>8, <1>9, <1>10, <1>11, <1>12 DEF LifecycleNext, Continue

LEMMA AlwaysScriptInv == LifecycleSpec => []ScriptInv
BY ScriptInitInv, ScriptStep, PTL DEF LifecycleSpec

-----------------------------------------------------------------------------
(* What the invariant guarantees *)

\* For any actor, any pool and any order of phases, failures and kills: what the
\* process keeps has its types, and a proof is asked for only with the nonce of
\* a request.
THEOREM LifecycleTypeCorrect == LifecycleSpec => []LifecycleTypeOK
<1>1. ScriptInv => LifecycleTypeOK
  <2> SUFFICES ASSUME ScriptInv PROVE LifecycleTypeOK
    OBVIOUS
  <2>1. EnvOK /\ RunOK /\ MempoolOK /\ run \in Runs
    BY DEF ScriptInv, RunOK
  <2>2. At("kms") => run.nonce \in Nat
    <3> SUFFICES ASSUME At("kms") PROVE run.nonce \in Nat
      OBVIOUS
    <3>1. run.todo = Asking /\ Working /\ run.todo # <<>>
      BY <2>1, WhereItIs DEF At, Idle
    <3>2. run.action \in Provers
      BY <2>1, <3>1, WhatItIs
    <3>3. QED
      BY <2>1, <3>1, <3>2 DEF RunOK
  <2>3. \A tx \in mempool : tx.action \in Writes /\ tx.amount \in Euint64s
    BY <2>1 DEF MempoolOK, TransactionOK, Transactions, Provers, Transfers, Writes, Actions
  <2>4. QED
    BY <2>1, <2>2, <2>3 DEF LifecycleTypeOK, EnvOK, Runs
<1>2. QED
  BY <1>1, AlwaysScriptInv, PTL

\* The one step that prints evidence is the receipt of the run's transaction.
LEMMA PrintIsReceipt ==
  ASSUME ScriptInv, [LifecycleNext]_lifecycleVars,
         run'.printed # "nothing", run'.printed # run.printed
  PROVE  \E tx \in mempool :
           /\ Mined(tx) /\ tx.awaited /\ TransactionOK(tx) /\ OwnTransaction(tx)
           /\ ExpectedEvent(tx) /\ run'.printed = Evidence(tx)
<1>1. RunOK /\ MempoolOK /\ run \in Runs
  BY DEF ScriptInv, RunOK
<1>2. run' # NoRun /\ ~UNCHANGED run
  BY DEF NoRun
<1>3. ~ReadPublic /\ ~ReadParticipants
  BY <1>1, <1>2 DEF ReadPublic, ReadParticipants, Throw, Advance, Runs
<1>4. ~Guard /\ ~DecryptPrivateValues /\ ~ReadRequest /\ ~PublicDecrypt /\ ~Send
  <2>1. Advance = [run EXCEPT !.todo = Tail(run.todo)]
    BY <1>1 DEF Advance, Runs
  <2>2. \A seen : [Advance EXCEPT !.seen = seen].printed = run.printed
    BY <1>1, <2>1 DEF Runs
  <2>3. ~Guard
    BY <1>2, <2>2 DEF Guard, Guarded
  <2>4. \A amount : [Advance EXCEPT !.amount = amount, !.seen = Unread].printed = run.printed
    BY <1>1, <2>1 DEF Runs
  <2>5. ~DecryptPrivateValues
    BY <1>2, <2>4 DEF DecryptPrivateValues
  <2>6. /\ \A nonce : [Advance EXCEPT !.nonce = nonce].printed = run.printed
        /\ \A bit : [Advance EXCEPT !.bit = bit].printed = run.printed
        /\ Advance.printed = run.printed
    BY <1>1, <2>1 DEF Runs
  <2>7. ~ReadRequest /\ ~PublicDecrypt /\ ~Send
    BY <1>2, <2>6 DEF ReadRequest, PublicDecrypt, Send
  <2>8. QED
    BY <2>3, <2>5, <2>7
<1>5. ~StartCounted /\ ~StartPreflight /\ ~StartActivate
  <2>1. \A action : ~Start(action)
    BY DEF Start, NoRun
  <2>2. QED
    BY <2>1 DEF StartCounted, StartPreflight, StartActivate
<1>6. ~Fails /\ ~Killed /\ ~Elsewhere /\ ~Meanwhile /\ ~UNCHANGED lifecycleVars
      /\ \A tx \in mempool : ~Reverted(tx)
  BY <1>2 DEF Fails, Killed, Throw, Elsewhere, Meanwhile, lifecycleVars, script, Reverted
<1>7. PICK tx \in mempool : Mined(tx)
  BY <1>3, <1>4, <1>5, <1>6 DEF LifecycleNext, Continue
<1>8. tx.awaited /\ run' = Confirmed(tx)
  BY <1>2, <1>7 DEF Mined
<1>9. TransactionOK(tx) /\ OwnTransaction(tx)
  BY <1>1, <1>8, ListenedIsOwn
<1>10. ExpectedEvent(tx)
  BY <1>2, <1>8 DEF Confirmed
<1>11. run'.printed = Evidence(tx)
  <2>1. PICK next \in Runs :
         \E own : run' = [next EXCEPT !.printed = Evidence(tx), !.own = own]
    <3>1. Advance \in Runs
      <4>1. At("receipt") /\ run.todo # <<>> /\ run.todo \in {AwaitRequest, AwaitLast}
        BY <1>1, <1>8, ListenedIsOwn, WhereItIs DEF At, Idle
      <4>2. QED
        BY <1>1, <4>1, Stages, Advanced DEF AllLeft, ProofLeft
    <3>2. QED
      BY <1>8, <1>10, <3>1, UnreadType DEF Confirmed
  <2>2. QED
    BY <2>1 DEF Runs
<1>12. QED
  BY <1>7, <1>8, <1>9, <1>10, <1>11

\* Which transaction the evidence is of.
LEMMA EvidenceTells ==
  ASSUME NEW tx, TransactionOK(tx)
  PROVE  /\ Evidence(tx) # "nothing"
         /\ Evidence(tx) = "deposit-confirmed" => tx.opens /\ tx.action = "deposit"
         /\ Evidence(tx) = "participant-activation-finalized" =>
              ~tx.opens /\ tx.action \in {"deposit", "activate"}
         /\ Evidence(tx) = "participant-deactivation-finalized" => tx.action = "deactivate"
         /\ Evidence(tx) \in {"draw-finalized", "draw-skipped"} =>
              /\ ~tx.opens /\ tx.action = "draw"
              /\ Evidence(tx) = "draw-finalized" <=> tx.bit
<1>1. /\ tx.action \in {"deposit", "activate", "deactivate", "draw", "withdraw", "claim-prize"}
      /\ tx.opens \in BOOLEAN /\ (tx.opens => tx.action \in {"deposit", "draw"})
      /\ tx.bit \in BOOLEAN
  BY DEF TransactionOK, Transactions, Provers, Transfers, Openers
<1>2. QED
  BY <1>1 DEF Evidence

\* For any actor and any pool: what is printed of a deposit, an activation or a
\* deactivation is what happened to the pool in that very block.
THEOREM EvidenceAlwaysTrue == LifecycleSpec => EvidenceIsTrue
<1> DEFINE True ==
      /\ Prints({"deposit-confirmed"}) =>
           userDepositNonces'[Actor] = userDepositNonces[Actor] + 1
      /\ Prints({"participant-activation-finalized"}) =>
           /\ pendingActivations[Actor] = run.nonce /\ pendingActivations'[Actor] = None
           /\ isParticipant'[Actor] = run.bit
      /\ Prints({"participant-deactivation-finalized"}) =>
           /\ pendingDeactivations[Actor] = run.nonce /\ pendingDeactivations'[Actor] = None
           /\ isParticipant'[Actor] = ~run.bit
<1>1. ASSUME ScriptInv, [LifecycleNext]_lifecycleVars PROVE True
  <2>1. Actor \in Users /\ TypeOK
    BY <1>1, ActorAssumption DEF ScriptInv, Structure
  <2>2. ASSUME Prints({"deposit-confirmed"})
        PROVE  userDepositNonces'[Actor] = userDepositNonces[Actor] + 1
    <3>1. PICK tx \in mempool :
            /\ Mined(tx) /\ TransactionOK(tx) /\ ExpectedEvent(tx)
            /\ tx.opens /\ tx.action = "deposit"
      BY <1>1, <2>2, PrintIsReceipt, EvidenceTells DEF Prints
    <3>2. Deposited
      BY <3>1 DEF ExpectedEvent
    <3>3. \/ ConfidentialTransferAndCall(Actor, tx.amount, "deposit")
          \/ RefundedTransfer(Actor, "deposit")
      BY <3>1 DEF Mined, Effect
    <3>4. ~RefundedTransfer(Actor, "deposit")
      BY <3>2 DEF RefundedTransfer, Deposited, vars, eventNonces
    <3>5. userDepositNonces' = [userDepositNonces EXCEPT ![Actor] = @ + 1]
      BY <3>3, <3>4
         DEF ConfidentialTransferAndCall, OnConfidentialTransferReceived, CreditDeposit
    <3>6. QED
      BY <2>1, <3>5 DEF TypeOK
  <2>3. ASSUME Prints({"participant-activation-finalized"})
        PROVE  /\ pendingActivations[Actor] = run.nonce /\ pendingActivations'[Actor] = None
               /\ isParticipant'[Actor] = run.bit
    <3>1. PICK tx \in mempool :
            /\ Mined(tx) /\ TransactionOK(tx) /\ OwnTransaction(tx) /\ ExpectedEvent(tx)
            /\ ~tx.opens /\ tx.action \in {"deposit", "activate"}
      BY <1>1, <2>3, PrintIsReceipt, EvidenceTells DEF Prints
    <3>2. PICK proof : FinalizeParticipantActivation(Actor, run.bit, proof)
      BY <3>1 DEF Mined, Effect, OwnTransaction
    <3>3. pendingActivations[Actor] = run.nonce
      BY <3>1 DEF ExpectedEvent
    <3>4. /\ isParticipant \in [Users -> BOOLEAN] /\ run.bit \in BOOLEAN /\ ~isParticipant[Actor]
          /\ pendingActivations \in [Users -> Requests]
          /\ pendingActivations' = [pendingActivations EXCEPT ![Actor] = None]
      BY <1>1, <2>1, <3>2
         DEF ScriptInv, RunOK, Runs, TypeOK, FinalizeParticipantActivation
    <3>5. \/ run.bit /\ isParticipant' = [isParticipant EXCEPT ![Actor] = TRUE]
          \/ ~run.bit /\ isParticipant' = isParticipant
      BY <3>2 DEF FinalizeParticipantActivation, membership
    <3>6. QED
      BY <2>1, <3>3, <3>4, <3>5
  <2>4. ASSUME Prints({"participant-deactivation-finalized"})
        PROVE  /\ pendingDeactivations[Actor] = run.nonce /\ pendingDeactivations'[Actor] = None
               /\ isParticipant'[Actor] = ~run.bit
    <3>1. PICK tx \in mempool :
            /\ Mined(tx) /\ TransactionOK(tx) /\ OwnTransaction(tx) /\ ExpectedEvent(tx)
            /\ ~tx.opens /\ tx.action = "deactivate"
      <4>1. PICK tx \in mempool :
              /\ Mined(tx) /\ TransactionOK(tx) /\ OwnTransaction(tx) /\ ExpectedEvent(tx)
              /\ tx.action = "deactivate"
        BY <1>1, <2>4, PrintIsReceipt, EvidenceTells DEF Prints
      <4>2. ~tx.opens
        BY <4>1 DEF TransactionOK, Openers
      <4>3. QED
        BY <4>1, <4>2
    <3>2. PICK proof : FinalizeParticipantDeactivation(Actor, run.bit, proof)
      BY <3>1 DEF Mined, Effect, OwnTransaction
    <3>3. pendingDeactivations[Actor] = run.nonce
      BY <3>1 DEF ExpectedEvent
    <3>4. /\ isParticipant \in [Users -> BOOLEAN] /\ run.bit \in BOOLEAN /\ isParticipant[Actor]
          /\ pendingDeactivations \in [Users -> Requests]
          /\ pendingDeactivations' = [pendingDeactivations EXCEPT ![Actor] = None]
      BY <1>1, <2>1, <3>2
         DEF ScriptInv, RunOK, Runs, TypeOK, FinalizeParticipantDeactivation
    <3>5. \/ run.bit /\ isParticipant' = [isParticipant EXCEPT ![Actor] = FALSE]
          \/ ~run.bit /\ isParticipant' = isParticipant
      BY <3>2 DEF FinalizeParticipantDeactivation, RemoveParticipant, membership
    <3>6. QED
      BY <2>1, <3>3, <3>4, <3>5
  <2>5. QED
    BY <2>2, <2>3, <2>4
<1>2. ScriptInv /\ [LifecycleNext]_lifecycleVars => [True]_lifecycleVars
  BY <1>1
<1>3. QED
  BY <1>2, AlwaysScriptInv, PTL DEF LifecycleSpec, EvidenceIsTrue

\* For any actor and any pool: the draw that is printed as settled is the one
\* that this run requested, and a prize was drawn exactly when it says so.
THEOREM PrintedDrawAlwaysOwn == LifecycleSpec => PrintedDrawIsOwn
<1> DEFINE Own == Prints({"draw-finalized", "draw-skipped"}) =>
             /\ pendingDraw.active /\ pendingDraw.nonce = run.own
             /\ ~pendingDraw'.active
             /\ (run'.printed = "draw-finalized") = (currentDrawId' = currentDrawId + 1)
<1>1. ASSUME ScriptInv, [LifecycleNext]_lifecycleVars PROVE Own
  <2> SUFFICES ASSUME Prints({"draw-finalized", "draw-skipped"})
               PROVE  /\ pendingDraw.active /\ pendingDraw.nonce = run.own
                      /\ ~pendingDraw'.active
                      /\ (run'.printed = "draw-finalized") = (currentDrawId' = currentDrawId + 1)
    OBVIOUS
  <2>1. PICK tx \in mempool :
          /\ Mined(tx) /\ TransactionOK(tx) /\ OwnTransaction(tx) /\ ExpectedEvent(tx)
          /\ ~tx.opens /\ tx.action = "draw"
          /\ run'.printed = "draw-finalized" <=> tx.bit
    <3>1. PICK tx \in mempool :
            /\ Mined(tx) /\ TransactionOK(tx) /\ OwnTransaction(tx) /\ ExpectedEvent(tx)
            /\ run'.printed = Evidence(tx) /\ Evidence(tx) \in {"draw-finalized", "draw-skipped"}
      BY <1>1, PrintIsReceipt DEF Prints
    <3>2. QED
      BY <3>1, EvidenceTells
  <2>2. PICK proof : \/ ~tx.bit /\ SkipDraw(proof)
                     \/ tx.bit /\ \E random \in Euint64s : ExecuteDraw(proof, random)
    BY <2>1 DEF Mined, Effect
  <2>3. pendingDraw.active /\ pendingDraw' = NoDraw
    BY <2>2 DEF SkipDraw, ExecuteDraw, SettleRequest
  <2>4. pendingDraw.nonce = run.nonce
    BY <2>1 DEF ExpectedEvent
  <2>5. run.nonce = run.own
    <3>1. run.todo = AwaitLast /\ run.action = "draw"
      BY <2>1 DEF OwnTransaction
    <3>2. QED
      BY <1>1, <3>1 DEF ScriptInv, RunOK
  <2>6. IF tx.bit THEN currentDrawId' = currentDrawId + 1 ELSE currentDrawId' = currentDrawId
    BY <2>2 DEF SkipDraw, ExecuteDraw
  <2>7. currentDrawId \in Nat
    BY <1>1 DEF ScriptInv, Structure, TypeOK
  <2>8. QED
    BY <2>1, <2>3, <2>4, <2>5, <2>6, <2>7 DEF NoDraw
<1>2. ScriptInv /\ [LifecycleNext]_lifecycleVars => [Own]_lifecycleVars
  BY <1>1
<1>3. QED
  BY <1>2, AlwaysScriptInv, PTL DEF LifecycleSpec, PrintedDrawIsOwn

\* When every euint64 is an input, as it is of the deployed contract, the script
\* does nothing to the pool that the pool's own specification does not allow:
\* every theorem about the pool holds under the script too.
THEOREM ScriptAddsNothing ==
  ASSUME Amounts = Euint64s
  PROVE  LifecycleSpec => Spec
<1>1. ScriptInv /\ [LifecycleNext]_lifecycleVars => [Next]_vars
  BY ScriptTransacts, TransactsIsNext DEF ScriptInv
<1>2. QED
  BY <1>1, AlwaysScriptInv, PTL DEF LifecycleSpec, Spec
=============================================================================
