---------------------------- MODULE ClientProofs -----------------------------
(***************************************************************************)
(* Theorems about the web application as a client of the pool, for every   *)
(* set of accounts in the browser and every pool.                          *)
(***************************************************************************)
EXTENDS ClientProperties, PoolProofs

-----------------------------------------------------------------------------
(* The steps that are left of an operation, from its start to its end.      *)

\* Of an operation that ends with a proof: deposit, activation, slot check, draw.
BeforeRequest == <<"prepare", "prompt", "mining", "read", "kms", "prompt", "mining", "finally">>
ApproveRequest == <<"prompt", "mining", "read", "kms", "prompt", "mining", "finally">>
RequestSent == <<"mining", "read", "kms", "prompt", "mining", "finally">>
Requested == <<"read", "kms", "prompt", "mining", "finally">>
Asking == <<"kms", "prompt", "mining", "finally">>
ApproveProof == <<"prompt", "mining", "finally">>
ProofSent == <<"mining", "finally">>
LastRead == <<"finally">>

\* Of a withdrawal, a claim and a contribution to the reserve.
BeforeTransfer == <<"prepare", "prompt", "mining", "refresh">>
ApproveTransfer == <<"prompt", "mining", "refresh">>
TransferSent == <<"mining", "refresh">>
TransferRead == <<"refresh">>

\* Of a reveal.
BeforeReveal == <<"prepare", "kms">>
Revealing == <<"kms">>

LEMMA Stages ==
  /\ Stage(BeforeRequest, "prepare", ApproveRequest)
  /\ Stage(ApproveRequest, "prompt", RequestSent)
  /\ Stage(RequestSent, "mining", Requested)
  /\ Stage(Requested, "read", Asking)
  /\ Stage(Asking, "kms", ApproveProof)
  /\ Stage(ApproveProof, "prompt", ProofSent)
  /\ Stage(ProofSent, "mining", LastRead)
  /\ Stage(LastRead, "finally", <<>>)
  /\ Stage(BeforeTransfer, "prepare", ApproveTransfer)
  /\ Stage(ApproveTransfer, "prompt", TransferSent)
  /\ Stage(TransferSent, "mining", TransferRead)
  /\ Stage(TransferRead, "refresh", <<>>)
  /\ Stage(BeforeReveal, "prepare", Revealing)
  /\ Stage(Revealing, "kms", <<>>)
BY DEF Stage, BeforeRequest, ApproveRequest, RequestSent, Requested, Asking, ApproveProof,
       ProofSent, LastRead, BeforeTransfer, ApproveTransfer, TransferSent, TransferRead,
       BeforeReveal, Revealing

LEMMA Contents ==
  /\ Contains(ApproveRequest, "kms") /\ ~Contains(ApproveProof, "kms")
  /\ ~Contains(ApproveTransfer, "kms")
  /\ \A todo \in {BeforeTransfer, ApproveTransfer, TransferSent, TransferRead, BeforeReveal,
                     Revealing} : ~Contains(todo, "finally")
BY DEF Contains, ApproveRequest, ApproveProof, ApproveTransfer, BeforeTransfer, TransferSent,
       TransferRead, BeforeReveal, Revealing

Steps == {"prepare", "prompt", "mining", "read", "kms", "refresh", "finally"}

LEMMA ProofStarts ==
  <<"kms">> \o <<"prompt", "mining">>
    = <<"kms", "prompt", "mining">>
<1> DEFINE s == <<"kms">>
           t == <<"prompt", "mining">>
           u == <<"kms", "prompt", "mining">>
<1>1. s \in Seq(Steps) /\ t \in Seq(Steps) /\ u \in Seq(Steps)
  BY DEF Steps
<1>2. Len(s) = 1 /\ Len(t) = 2 /\ Len(u) = 3
  OBVIOUS
<1>3. (\A i \in 1 .. 1 : u[i] = s[i]) /\ (\A i \in 1 .. 2 : u[1 + i] = t[i])
  OBVIOUS
<1> HIDE DEF s, t, u
<1>4. /\ Len(u) = Len(s) + Len(t)
      /\ \A i \in 1 .. Len(s) : u[i] = s[i]
      /\ \A i \in 1 .. Len(t) : u[Len(s) + i] = t[i]
  BY <1>2, <1>3
<1>5. s \o t = u
  BY <1>1, <1>4, Joined
<1>6. QED
  BY <1>5 DEF s, t, u

LEMMA ProofEnds ==
  <<"kms", "prompt", "mining">> \o <<"finally">>
    = <<"kms", "prompt", "mining", "finally">>
<1> DEFINE s == <<"kms", "prompt", "mining">>
           t == <<"finally">>
           u == <<"kms", "prompt", "mining", "finally">>
<1>1. s \in Seq(Steps) /\ t \in Seq(Steps) /\ u \in Seq(Steps)
  BY DEF Steps
<1>2. Len(s) = 3 /\ Len(t) = 1 /\ Len(u) = 4
  OBVIOUS
<1>3. (\A i \in 1 .. 3 : u[i] = s[i]) /\ (\A i \in 1 .. 1 : u[3 + i] = t[i])
  OBVIOUS
<1> HIDE DEF s, t, u
<1>4. /\ Len(u) = Len(s) + Len(t)
      /\ \A i \in 1 .. Len(s) : u[i] = s[i]
      /\ \A i \in 1 .. Len(t) : u[Len(s) + i] = t[i]
  BY <1>2, <1>3
<1>5. s \o t = u
  BY <1>1, <1>4, Joined
<1>6. QED
  BY <1>5 DEF s, t, u

LEMMA ActivationSteps ==
  <<"read">> \o <<"kms", "prompt", "mining", "finally">>
    = <<"read", "kms", "prompt", "mining", "finally">>
<1> DEFINE s == <<"read">>
           t == <<"kms", "prompt", "mining", "finally">>
           u == <<"read", "kms", "prompt", "mining", "finally">>
<1>1. s \in Seq(Steps) /\ t \in Seq(Steps) /\ u \in Seq(Steps)
  BY DEF Steps
<1>2. Len(s) = 1 /\ Len(t) = 4 /\ Len(u) = 5
  OBVIOUS
<1>3. (\A i \in 1 .. 1 : u[i] = s[i]) /\ (\A i \in 1 .. 4 : u[1 + i] = t[i])
  OBVIOUS
<1> HIDE DEF s, t, u
<1>4. /\ Len(u) = Len(s) + Len(t)
      /\ \A i \in 1 .. Len(s) : u[i] = s[i]
      /\ \A i \in 1 .. Len(t) : u[Len(s) + i] = t[i]
  BY <1>2, <1>3
<1>5. s \o t = u
  BY <1>1, <1>4, Joined
<1>6. QED
  BY <1>5 DEF s, t, u

LEMMA TransferStarts ==
  <<"prepare">> \o <<"prompt", "mining">>
    = <<"prepare", "prompt", "mining">>
<1> DEFINE s == <<"prepare">>
           t == <<"prompt", "mining">>
           u == <<"prepare", "prompt", "mining">>
<1>1. s \in Seq(Steps) /\ t \in Seq(Steps) /\ u \in Seq(Steps)
  BY DEF Steps
<1>2. Len(s) = 1 /\ Len(t) = 2 /\ Len(u) = 3
  OBVIOUS
<1>3. (\A i \in 1 .. 1 : u[i] = s[i]) /\ (\A i \in 1 .. 2 : u[1 + i] = t[i])
  OBVIOUS
<1> HIDE DEF s, t, u
<1>4. /\ Len(u) = Len(s) + Len(t)
      /\ \A i \in 1 .. Len(s) : u[i] = s[i]
      /\ \A i \in 1 .. Len(t) : u[Len(s) + i] = t[i]
  BY <1>2, <1>3
<1>5. s \o t = u
  BY <1>1, <1>4, Joined
<1>6. QED
  BY <1>5 DEF s, t, u

LEMMA TransferEnds ==
  <<"prepare", "prompt", "mining">> \o <<"refresh">>
    = <<"prepare", "prompt", "mining", "refresh">>
<1> DEFINE s == <<"prepare", "prompt", "mining">>
           t == <<"refresh">>
           u == <<"prepare", "prompt", "mining", "refresh">>
<1>1. s \in Seq(Steps) /\ t \in Seq(Steps) /\ u \in Seq(Steps)
  BY DEF Steps
<1>2. Len(s) = 3 /\ Len(t) = 1 /\ Len(u) = 4
  OBVIOUS
<1>3. (\A i \in 1 .. 3 : u[i] = s[i]) /\ (\A i \in 1 .. 1 : u[3 + i] = t[i])
  OBVIOUS
<1> HIDE DEF s, t, u
<1>4. /\ Len(u) = Len(s) + Len(t)
      /\ \A i \in 1 .. Len(s) : u[i] = s[i]
      /\ \A i \in 1 .. Len(t) : u[Len(s) + i] = t[i]
  BY <1>2, <1>3
<1>5. s \o t = u
  BY <1>1, <1>4, Joined
<1>6. QED
  BY <1>5 DEF s, t, u

LEMMA DepositSteps ==
  <<"prepare", "prompt", "mining">> \o <<"read", "kms", "prompt", "mining", "finally">>
    = <<"prepare", "prompt", "mining", "read", "kms", "prompt", "mining", "finally">>
<1> DEFINE s == <<"prepare", "prompt", "mining">>
           t == <<"read", "kms", "prompt", "mining", "finally">>
           u == <<"prepare", "prompt", "mining", "read", "kms", "prompt", "mining", "finally">>
<1>1. s \in Seq(Steps) /\ t \in Seq(Steps) /\ u \in Seq(Steps)
  BY DEF Steps
<1>2. Len(s) = 3 /\ Len(t) = 5 /\ Len(u) = 8
  OBVIOUS
<1>3. (\A i \in 1 .. 3 : u[i] = s[i]) /\ (\A i \in 1 .. 5 : u[3 + i] = t[i])
  OBVIOUS
<1> HIDE DEF s, t, u
<1>4. /\ Len(u) = Len(s) + Len(t)
      /\ \A i \in 1 .. Len(s) : u[i] = s[i]
      /\ \A i \in 1 .. Len(t) : u[Len(s) + i] = t[i]
  BY <1>2, <1>3
<1>5. s \o t = u
  BY <1>1, <1>4, Joined
<1>6. QED
  BY <1>5 DEF s, t, u

LEMMA RequestStarts ==
  <<"prepare", "prompt", "mining">> \o <<"read">>
    = <<"prepare", "prompt", "mining", "read">>
<1> DEFINE s == <<"prepare", "prompt", "mining">>
           t == <<"read">>
           u == <<"prepare", "prompt", "mining", "read">>
<1>1. s \in Seq(Steps) /\ t \in Seq(Steps) /\ u \in Seq(Steps)
  BY DEF Steps
<1>2. Len(s) = 3 /\ Len(t) = 1 /\ Len(u) = 4
  OBVIOUS
<1>3. (\A i \in 1 .. 3 : u[i] = s[i]) /\ (\A i \in 1 .. 1 : u[3 + i] = t[i])
  OBVIOUS
<1> HIDE DEF s, t, u
<1>4. /\ Len(u) = Len(s) + Len(t)
      /\ \A i \in 1 .. Len(s) : u[i] = s[i]
      /\ \A i \in 1 .. Len(t) : u[Len(s) + i] = t[i]
  BY <1>2, <1>3
<1>5. s \o t = u
  BY <1>1, <1>4, Joined
<1>6. QED
  BY <1>5 DEF s, t, u

LEMMA RequestEnds ==
  <<"prepare", "prompt", "mining", "read">> \o <<"kms", "prompt", "mining", "finally">>
    = <<"prepare", "prompt", "mining", "read", "kms", "prompt", "mining", "finally">>
<1> DEFINE s == <<"prepare", "prompt", "mining", "read">>
           t == <<"kms", "prompt", "mining", "finally">>
           u == <<"prepare", "prompt", "mining", "read", "kms", "prompt", "mining", "finally">>
<1>1. s \in Seq(Steps) /\ t \in Seq(Steps) /\ u \in Seq(Steps)
  BY DEF Steps
<1>2. Len(s) = 4 /\ Len(t) = 4 /\ Len(u) = 8
  OBVIOUS
<1>3. (\A i \in 1 .. 4 : u[i] = s[i]) /\ (\A i \in 1 .. 4 : u[4 + i] = t[i])
  OBVIOUS
<1> HIDE DEF s, t, u
<1>4. /\ Len(u) = Len(s) + Len(t)
      /\ \A i \in 1 .. Len(s) : u[i] = s[i]
      /\ \A i \in 1 .. Len(t) : u[Len(s) + i] = t[i]
  BY <1>2, <1>3
<1>5. s \o t = u
  BY <1>1, <1>4, Joined
<1>6. QED
  BY <1>5 DEF s, t, u

\* The operations' plans are these sequences.
LEMMA Plans ==
  /\ Proven = Asking
  /\ Activation = Requested
  /\ Withdrawal = BeforeTransfer
  /\ <<"prepare">> \o Transaction \o <<"refresh">> = BeforeTransfer
  /\ <<"prepare">> \o Transaction \o Activation = BeforeRequest
  /\ <<"prepare">> \o Transaction \o <<"read">> \o Proven = BeforeRequest
  /\ <<"prepare", "kms">> = BeforeReveal
<1>1. Proven = Asking
  BY ProofStarts, ProofEnds DEF Proven, Transaction, Asking
<1>2. Activation = Requested
  BY <1>1, ActivationSteps DEF Activation, Asking, Requested
<1>3. <<"prepare">> \o Transaction \o <<"refresh">> = BeforeTransfer
  BY TransferStarts, TransferEnds DEF Transaction, BeforeTransfer
<1>4. <<"prepare">> \o Transaction \o Activation = BeforeRequest
  BY <1>2, TransferStarts, DepositSteps DEF Transaction, Requested, BeforeRequest
<1>5. <<"prepare">> \o Transaction \o <<"read">> \o Proven = BeforeRequest
  BY <1>1, TransferStarts, RequestStarts, RequestEnds DEF Transaction, Asking, BeforeRequest
<1>6. QED
  BY <1>1, <1>2, <1>3, <1>4, <1>5 DEF Withdrawal, BeforeReveal

-----------------------------------------------------------------------------
(* The invariant *)

Transfers == {"withdraw", "fund", "claim"}

Begun == {Requested, Asking, ApproveProof, ProofSent, LastRead, <<>>}
RequestTodos == {BeforeRequest, ApproveRequest, RequestSent} \cup Begun
TransferTodos == {BeforeTransfer, ApproveTransfer, TransferSent, TransferRead, <<>>}
RevealTodos == {BeforeReveal, Revealing, <<>>}

TodosOf(kind) ==
  CASE kind = "none"                               -> {<<>>}
    [] kind \in {"deposit", "deactivate", "draw"}  -> RequestTodos
    [] kind = "activate"                           -> Begun
    [] kind \in Transfers                          -> TransferTodos
    [] kind \in Reveals                            -> RevealTodos

Signers == {ApproveRequest, RequestSent, ApproveProof, ProofSent, ApproveTransfer, TransferSent}

Outcomes == {"none", "confirmed", "failed"}

Operations == [kind : Kinds \cup {"none"}, todo : Seq(Steps), account : Accounts \cup {Nobody},
               signer : Accounts \cup {Nobody}, nonce : Requests, bit : BOOLEAN,
               amount : Euint64s, outcome : Outcomes]

\* The statement of the KMS that an operation, or a transaction, presents.
ProofAbout(kind, user, nonce, bit) ==
  [handle |-> HandleOf([kind |-> kind, account |-> user, nonce |-> nonce]), bit |-> bit]

\* What an operation knows grows with its steps: the account that signs, the
\* request that is pending, the bit that the KMS has signed about it.
OperationOK ==
  /\ action \in Operations
  /\ action.todo \in TodosOf(action.kind)
  /\ action.kind \in Kinds => action.account \in Accounts
  /\ action.kind \in {"deposit", "withdraw", "fund"} => action.amount \in Amounts
  /\ action.todo \in Signers => action.signer \in Accounts
  /\ action.kind \in {"deactivate", "draw"} /\ action.todo \in {Requested, Asking} =>
       action.signer \in Accounts
  /\ action.todo \in {Asking, ApproveProof, ProofSent} => action.nonce \in Nat
  /\ action.todo \in {ApproveProof, ProofSent} =>
       ProofAbout(action.kind, action.account, action.nonce, action.bit) \in decryptable

Transactions == [kind : Kinds \ Reveals, half : {"request", "finalize"}, from : Accounts,
                 for : Accounts, nonce : Requests, bit : BOOLEAN, amount : Euint64s,
                 page : BOOLEAN]

\* A broadcast transaction, whoever listens to it: one that finalizes a request
\* presents what the KMS has signed.
TransactionOK(tx) ==
  /\ tx \in Transactions
  /\ tx.half = "request" => tx.kind \in {"deposit", "deactivate", "draw"}
  /\ tx.kind \in {"deposit", "withdraw", "fund"} => tx.amount \in Amounts
  /\ tx.half = "finalize" /\ tx.kind \notin Transfers =>
       ProofAbout(tx.kind, tx.for, tx.nonce, tx.bit) \in decryptable

\* The page waits for no transaction but the one of the operation on screen.
OwnTransaction(tx) ==
  /\ tx.kind = action.kind /\ tx.from = action.signer /\ tx.for = action.account
  /\ tx.nonce = action.nonce /\ tx.bit = action.bit /\ tx.amount = action.amount
  /\ action.todo = IF tx.half = "request" THEN RequestSent
                   ELSE IF tx.kind \in Transfers THEN TransferSent ELSE ProofSent

MempoolOK == \A tx \in mempool : TransactionOK(tx) /\ (tx.page => OwnTransaction(tx))

Revealed == [of : Accounts \cup {Nobody}, value : Euint64s]

PageOK ==
  /\ selected \in Accounts \cup {Nobody} /\ account \in Accounts \cup {Nobody}
  /\ shown \in [balance : Revealed, prize : Revealed]
  /\ tab \in {"pool", "draw"} /\ amountTyped \in BOOLEAN

ClientInv == Structure /\ PageOK /\ OperationOK /\ MempoolOK

-----------------------------------------------------------------------------
(* What is left to do tells where an operation is *)

AllTodos == RequestTodos \cup TransferTodos \cup RevealTodos

LEMMA TodoTypes == AllTodos \subseteq Seq(Steps)
BY DEF AllTodos, RequestTodos, Begun, TransferTodos, RevealTodos, Steps, BeforeRequest,
       ApproveRequest, RequestSent, Requested, Asking, ApproveProof, ProofSent, LastRead,
       BeforeTransfer, ApproveTransfer, TransferSent, TransferRead, BeforeReveal, Revealing

LEMMA Unsigned ==
  \A todo \in {BeforeRequest, BeforeTransfer, BeforeReveal, Requested, Asking, LastRead,
               TransferRead, Revealing, <<>>} : todo \notin Signers
BY DEF Signers, BeforeRequest, ApproveRequest, RequestSent, Requested, Asking, ApproveProof,
       ProofSent, LastRead, BeforeTransfer, ApproveTransfer, TransferSent, TransferRead,
       BeforeReveal, Revealing

LEMMA Unasked ==
  \A todo \in {BeforeRequest, ApproveRequest, RequestSent, Requested, LastRead, <<>>}
                \cup TransferTodos \cup RevealTodos :
    todo \notin {Asking, ApproveProof, ProofSent}
BY DEF BeforeRequest, ApproveRequest, RequestSent, Requested, Asking, ApproveProof,
       ProofSent, LastRead, TransferTodos, BeforeTransfer, ApproveTransfer, TransferSent,
       TransferRead, RevealTodos, BeforeReveal, Revealing

LEMMA Apart ==
  /\ Asking \notin {ApproveProof, ProofSent}
  /\ ApproveTransfer \notin RequestTodos /\ TransferSent \notin RequestTodos
  /\ RequestSent # ProofSent
  /\ \A todo \in {LastRead, <<>>} : todo \notin {Requested, Asking}
BY DEF RequestTodos, Begun, BeforeRequest, ApproveRequest, RequestSent, Requested, Asking,
       ApproveProof, ProofSent, LastRead, ApproveTransfer, TransferSent

LEMMA WhereItIs ==
  ASSUME OperationOK
  PROVE  /\ At("prepare") => action.todo \in {BeforeRequest, BeforeTransfer, BeforeReveal}
         /\ At("prompt") => action.todo \in {ApproveRequest, ApproveProof, ApproveTransfer}
         /\ At("mining") => action.todo \in {RequestSent, ProofSent, TransferSent}
         /\ At("read") => action.todo = Requested
         /\ At("kms") => action.todo \in {Asking, Revealing}
         /\ At("refresh") => action.todo = TransferRead
         /\ At("finally") => action.todo = LastRead
BY Stages
   DEF OperationOK, TodosOf, At, Stage, RequestTodos, Begun, TransferTodos, RevealTodos,
       Kinds, Transfers, Reveals, Operations

LEMMA PlansApart ==
  /\ RequestTodos \cap TransferTodos = {<<>>}
  /\ RequestTodos \cap RevealTodos = {<<>>}
  /\ TransferTodos \cap RevealTodos = {<<>>}
  /\ {BeforeRequest, ApproveRequest, RequestSent} \cap Begun = {}
BY DEF RequestTodos, Begun, BeforeRequest, ApproveRequest, RequestSent, Requested, Asking,
       ApproveProof, ProofSent, LastRead, TransferTodos, BeforeTransfer, ApproveTransfer,
       TransferSent, TransferRead, RevealTodos, BeforeReveal, Revealing

\* What it is about can be told from what is left of it, too.
LEMMA WhatItIs ==
  ASSUME OperationOK, action.todo # <<>>
  PROVE  /\ action.kind \in Kinds /\ action.account \in Accounts
         /\ action.todo \in {BeforeRequest, ApproveRequest, RequestSent} =>
              action.kind \in {"deposit", "deactivate", "draw"}
         /\ action.todo \in Begun =>
              action.kind \in {"deposit", "activate", "deactivate", "draw"}
         /\ action.todo \in TransferTodos => action.kind \in Transfers
         /\ action.todo \in RevealTodos <=> action.kind \in Reveals
<1>1. action.kind \in Kinds /\ action.account \in Accounts
  <2>1. action.kind \in Kinds \cup {"none"}
    BY DEF OperationOK, Operations
  <2>2. action.kind # "none"
    BY DEF OperationOK, TodosOf, Kinds, Transfers, Reveals
  <2>3. QED
    BY <2>1, <2>2 DEF OperationOK
<1>2. \/ action.kind \in {"deposit", "deactivate", "draw"} /\ action.todo \in RequestTodos
      \/ action.kind = "activate" /\ action.todo \in Begun
      \/ action.kind \in Transfers /\ action.todo \in TransferTodos
      \/ action.kind \in Reveals /\ action.todo \in RevealTodos
  BY <1>1 DEF OperationOK, TodosOf, Kinds, Transfers, Reveals
<1>3. "activate" \notin Reveals /\ "deposit" \notin Reveals /\ "deactivate" \notin Reveals
      /\ "draw" \notin Reveals /\ Transfers \cap Reveals = {}
  BY DEF Transfers, Reveals
<1>4. Begun \subseteq RequestTodos
  BY DEF RequestTodos
<1>5. QED
  BY <1>1, <1>2, <1>3, <1>4, PlansApart DEF RequestTodos

-----------------------------------------------------------------------------
(* The pool under its clients *)

\* A transaction of the page does what any client of the pool could do: in
\* particular it presents no proof that the KMS has not signed.
LEMMA EffectTransacts ==
  ASSUME NEW tx, TransactionOK(tx), Effect(tx)
  PROVE  [Transacts]_vars
<1> DEFINE proof == ProofAbout(tx.kind, tx.for, tx.nonce, tx.bit)
<1>1. /\ tx.from \in Users /\ tx.for \in Users /\ tx.amount \in Euint64s /\ tx.bit \in BOOLEAN
      /\ tx.half \in {"request", "finalize"}
      /\ tx.kind \in {"deposit", "activate", "withdraw", "deactivate", "fund", "draw", "claim"}
  BY ClientAssumption DEF TransactionOK, Transactions, Kinds, Reveals
<1>2. CASE tx.kind \in {"withdraw", "claim"}
  <2>1. Withdraw(tx.from, tx.amount)
    BY <1>2 DEF Effect
  <2>2. QED
    BY <1>1, <2>1 DEF Transacts
<1>3. ASSUME NEW data \in {"deposit", "prizeReserve"}, tx.amount \in Amounts,
             \/ ConfidentialTransferAndCall(tx.from, tx.amount, data)
             \/ RefundedTransfer(tx.from, data)
      PROVE  Transacts
  BY <1>1, <1>3 DEF Transacts, Next, UserStep
<1>4. CASE tx.kind = "fund"
  <2>1. \/ ConfidentialTransferAndCall(tx.from, tx.amount, "prizeReserve")
        \/ RefundedTransfer(tx.from, "prizeReserve")
    BY <1>4 DEF Effect
  <2>2. QED
    BY <1>3, <1>4, <2>1 DEF TransactionOK
<1>5. CASE tx.half = "request" /\ tx.kind = "deposit"
  <2>1. \/ ConfidentialTransferAndCall(tx.from, tx.amount, "deposit")
        \/ RefundedTransfer(tx.from, "deposit")
    BY <1>5 DEF Effect
  <2>2. QED
    BY <1>3, <1>5, <2>1 DEF TransactionOK
<1>6. CASE tx.half = "request" /\ tx.kind = "deactivate"
  <2>1. RequestDeactivation(tx.from)
    BY <1>6 DEF Effect
  <2>2. QED
    BY <1>1, <2>1 DEF Transacts, Next, UserStep
<1>7. CASE tx.half = "request" /\ tx.kind = "draw"
  <2>1. RequestDraw
    BY <1>7 DEF Effect
  <2>2. QED
    BY <2>1 DEF Transacts, Next
<1>8. CASE tx.half = "finalize" /\ tx.kind \in {"deposit", "activate", "deactivate", "draw"}
  <2>1. proof \in decryptable
    BY <1>8 DEF TransactionOK, Transfers
  <2>2. \/ FinalizeParticipantActivation(tx.for, tx.bit, proof)
        \/ FinalizeParticipantDeactivation(tx.for, tx.bit, proof)
        \/ SkipDraw(proof)
        \/ \E random \in Euint64s : ExecuteDraw(proof, random)
    BY <1>8 DEF Effect, ProofAbout
  <2> HIDE DEF proof
  <2>3. KeeperStep(proof)
    BY <1>1, <2>2 DEF KeeperStep
  <2>4. QED
    BY <2>1, <2>3 DEF Transacts, Next
<1>9. tx.half = "request" => tx.kind # "activate"
  BY DEF TransactionOK
<1>10. QED
  BY <1>1, <1>2, <1>4, <1>5, <1>6, <1>7, <1>8, <1>9

\* No step of the page, the wallet or the network does more to the pool.
LEMMA ClientTransacts ==
  ASSUME MempoolOK, [ClientNext]_clientVars
  PROVE  [Transacts]_vars
<1>1. CASE Elsewhere \/ Meanwhile
  BY <1>1 DEF Elsewhere, Meanwhile, Transacts, Next
<1>2. ASSUME NEW tx \in mempool, Mined(tx) PROVE [Transacts]_vars
  <2>1. TransactionOK(tx) /\ Effect(tx)
    BY <1>2 DEF MempoolOK, Mined
  <2>2. QED
    BY <2>1, EffectTransacts
<1>3. ASSUME NEW tx \in mempool, Reverted(tx) PROVE UNCHANGED vars
  BY <1>3 DEF Reverted
<1>4. CASE \/ Prepare \/ ReadRequest \/ KmsAnswers \/ Approve \/ Settle \/ ReadHandle
           \/ Decrypted \/ Dismiss
  BY <1>4 DEF Prepare, ReadRequest, KmsAnswers, Approve, Settle, ReadHandle, Decrypted,
              Dismiss, OnlyAction
<1>5. CASE \/ StartRefresh \/ ApplyRefresh \/ FailRefresh \/ TypeAmount \/ Hide
           \/ (\E to \in {"pool", "draw"} : SwitchTab(to))
           \/ Throws \/ PageFollows \/ Reload
           \/ \E user \in Accounts \cup {Nobody} : OwnerSelects(user)
  BY <1>5 DEF StartRefresh, ApplyRefresh, FailRefresh, TypeAmount, Hide, SwitchTab, Throws,
              OnlyAction, PageFollows, Reload, OwnerSelects
<1>6. CASE StartOne \/ Resume
  BY <1>6 DEF StartOne, Resume, Begin, ActivateParticipant, Deposit, WithdrawPrivately,
              DeactivateParticipant, FundPrizeReserve, ClaimPrize, DrawLottery,
              RevealBalance, RevealPrize
<1>7. CASE UNCHANGED clientVars
  BY <1>7 DEF clientVars
<1>8. QED
  BY <1>1, <1>2, <1>3, <1>4, <1>5, <1>6, <1>7 DEF ClientNext, Continue

-----------------------------------------------------------------------------
(* Steps of the operation on screen *)

Signing == decryptable \subseteq decryptable'

LEMMA OperationStays == OperationOK /\ Signing /\ action' = action => OperationOK'
BY DEF OperationOK, Signing, ProofAbout, HandleOf, EligibilityHandle, ZeroBalanceHandle,
       ReadinessHandle

LEMMA NoOperation ==
  /\ NoAction \in Operations
  /\ action' = NoAction => OperationOK'
<1>1. NoAction \in Operations
  BY EuintTypes, TodoTypes
     DEF NoAction, Operations, Outcomes, Requests, AllTodos, RequestTodos, Begun
<1>2. NoAction.todo = <<>> /\ NoAction.kind = "none"
  BY DEF NoAction
<1>3. ASSUME action' = NoAction PROVE OperationOK'
  BY <1>1, <1>2, <1>3, Unsigned, Unasked DEF OperationOK, TodosOf, Kinds, Transfers, Reveals
<1>4. QED
  BY <1>1, <1>3

\* A failure leaves at most the refresh in the finally block.
LEMMA FailKeeps == OperationOK /\ action.todo # <<>> /\ Fail => OperationOK'
<1> SUFFICES ASSUME OperationOK, action.todo # <<>>, Fail PROVE OperationOK'
  OBVIOUS
<1>1. action \in Operations /\ action.kind \in Kinds /\ action.account \in Accounts
  BY WhatItIs DEF OperationOK
<1>2. action' = [action EXCEPT !.outcome = "failed",
                               !.todo = IF InTry(action) THEN LastRead ELSE <<>>]
  BY DEF Fail, LastRead
<1>3. LastRead \in Seq(Steps) /\ <<>> \in Seq(Steps)
  BY TodoTypes DEF AllTodos, RequestTodos, Begun
<1>4. action' \in Operations /\ action'.todo \in {LastRead, <<>>}
  BY <1>1, <1>2, <1>3 DEF Operations, Outcomes
<1>5. /\ action'.kind = action.kind /\ action'.account = action.account
      /\ action'.amount = action.amount
  BY <1>1, <1>2 DEF Operations
<1>6. action'.todo \in TodosOf(action.kind)
  <2>1. <<>> \in TodosOf(action.kind)
    BY <1>1 DEF TodosOf, Kinds, Transfers, Reveals, RequestTodos, Begun, TransferTodos,
                RevealTodos
  <2>2. ASSUME InTry(action) PROVE LastRead \in TodosOf(action.kind)
    <3>1. Contains(action.todo, "finally")
      BY <2>2 DEF InTry
    <3>2. action.todo \notin TransferTodos \cup RevealTodos
      BY <3>1, Contents DEF TransferTodos, RevealTodos
    <3>3. action.kind \in {"deposit", "deactivate", "draw", "activate"}
      BY <1>1, <3>2 DEF OperationOK, TodosOf, Kinds, Transfers, Reveals
    <3>4. QED
      BY <3>3 DEF TodosOf, RequestTodos, Begun, Transfers, Reveals
  <2>3. action'.todo = IF InTry(action) THEN LastRead ELSE <<>>
    BY <1>1, <1>2 DEF Operations
  <2>4. QED
    BY <2>1, <2>2, <2>3
<1>7. QED
  BY <1>1, <1>4, <1>5, <1>6, Unsigned, Unasked, Apart DEF OperationOK

\* One step is done.
LEMMA Advanced ==
  ASSUME OperationOK, NEW next, NEW rest \in AllTodos, Stage(action.todo, next, rest)
  PROVE  /\ Advance(action) \in Operations
         /\ Advance(action) = [action EXCEPT !.todo = rest, !.outcome = Advance(action).outcome]
         /\ rest # <<>> /\ Head(rest) \notin {"refresh", "finally"} =>
              Advance(action).outcome = "none"
<1>1. rest \in Seq(Steps) /\ Tail(action.todo) = rest
  BY TodoTypes DEF Stage
<1>2. action \in Operations
  BY DEF OperationOK
<1>3. QED
  BY <1>1, <1>2 DEF Advance, Operations, Outcomes

\* What an operation becomes when a step leaves its account and its amount.
LEMMA OperationNext ==
  ASSUME OperationOK, action' \in Operations, action'.kind = action.kind,
         action'.account = action.account, action'.amount = action.amount,
         action.kind \in Kinds, action'.todo \in TodosOf(action.kind),
         action'.todo \in Signers
           \/ (action.kind \in {"deactivate", "draw"} /\ action'.todo \in {Requested, Asking})
         => action'.signer \in Accounts,
         action'.todo \in {Asking, ApproveProof, ProofSent} => action'.nonce \in Nat,
         action'.todo \in {ApproveProof, ProofSent} =>
           ProofAbout(action'.kind, action'.account, action'.nonce, action'.bit) \in decryptable'
  PROVE  OperationOK'
<1>1. action.account \in Accounts /\ action'.kind # "none"
  BY DEF OperationOK, Kinds
<1>2. action.kind \in {"deposit", "withdraw", "fund"} => action.amount \in Amounts
  BY DEF OperationOK
<1>3. QED
  BY <1>1, <1>2 DEF OperationOK

LEMMA PrepareKeeps == ClientInv /\ Prepare => OperationOK'
<1> SUFFICES ASSUME ClientInv, Prepare PROVE OperationOK'
  OBVIOUS
<1>1. /\ OperationOK /\ PageOK /\ TypeOK /\ action \in Operations
      /\ At("prepare") /\ action.kind \notin Reveals
  BY DEF ClientInv, Structure, OperationOK, Prepare
<1>2. action.todo # <<>> /\ action.todo \in {BeforeRequest, BeforeTransfer, BeforeReveal}
  BY <1>1, WhereItIs DEF At
<1>3. action.kind \in Kinds /\ action.account \in Accounts /\ action.account \in Users
  BY <1>1, <1>2, WhatItIs, ClientAssumption
<1>4. \/ /\ action.todo = BeforeRequest /\ action.kind \in {"deposit", "deactivate", "draw"}
         /\ Stage(action.todo, "prepare", ApproveRequest)
      \/ /\ action.todo = BeforeTransfer /\ action.kind \in Transfers
         /\ Stage(action.todo, "prepare", ApproveTransfer)
  BY <1>1, <1>2, WhatItIs, Stages DEF TransferTodos, RevealTodos
<1>5. CASE Fail
  BY <1>1, <1>2, <1>5, FailKeeps
<1>6. CASE selected # Nobody /\ action' = [Advance(action) EXCEPT !.signer = selected]
  <2>1. selected \in Accounts
    BY <1>1, <1>6 DEF PageOK
  <2>2. PICK rest \in {ApproveRequest, ApproveTransfer} :
          /\ rest = ApproveRequest => action.kind \in {"deposit", "deactivate", "draw"}
          /\ rest = ApproveTransfer => action.kind \in Transfers
          /\ Stage(action.todo, "prepare", rest)
    BY <1>4, Apart DEF RequestTodos
  <2>3. rest \in AllTodos
    BY <2>2 DEF AllTodos, RequestTodos, TransferTodos
  <2>4. action' \in Operations /\ action'.todo = rest /\ action'.signer \in Accounts
        /\ action'.kind = action.kind /\ action'.account = action.account
        /\ action'.amount = action.amount
    BY <1>1, <1>6, <2>1, <2>2, <2>3, Advanced DEF Operations
  <2>5. rest \in TodosOf(action.kind)
    BY <1>3, <2>2 DEF TodosOf, RequestTodos, TransferTodos, Transfers, Reveals
  <2>6. rest \notin {Asking, ApproveProof, ProofSent}
    BY <2>2, Unasked DEF TransferTodos
  <2>7. QED
    BY <1>1, <1>3, <2>4, <2>5, <2>6, OperationNext
<1>7. CASE /\ selected # Nobody /\ action.kind = "deactivate"
           /\ pendingDeactivations[action.account] # None
           /\ action' = [action EXCEPT !.signer = selected, !.todo = Proven,
                                      !.nonce = pendingDeactivations[action.account]]
  <2>1. selected \in Accounts /\ pendingDeactivations[action.account] \in Nat
    BY <1>1, <1>3, <1>7 DEF PageOK, TypeOK, Requests
  <2>2. Proven = Asking /\ Asking \in Seq(Steps)
    BY Plans, TodoTypes DEF AllTodos, RequestTodos, Begun
  <2>3. action' \in Operations /\ action'.todo = Asking /\ action'.signer \in Accounts
        /\ action'.kind = action.kind /\ action'.account = action.account
        /\ action'.amount = action.amount /\ action'.nonce \in Nat
    BY <1>1, <1>7, <2>1, <2>2 DEF Operations, Requests
  <2>4. Asking \in TodosOf(action.kind)
    BY <1>7 DEF TodosOf, RequestTodos, Begun, Transfers, Reveals
  <2>5. QED
    BY <1>1, <1>3, <2>3, <2>4, Apart, OperationNext
<1>8. QED
  BY <1>5, <1>6, <1>7 DEF Prepare

LEMMA ReadRequestKeeps == ClientInv /\ ReadRequest => OperationOK'
<1> SUFFICES ASSUME ClientInv, ReadRequest PROVE OperationOK'
  OBVIOUS
<1> DEFINE nonce == RequestOf(action.kind, action.account)
<1>1. OperationOK /\ TypeOK /\ action \in Operations /\ At("read")
  BY DEF ClientInv, Structure, OperationOK, ReadRequest
<1>2. action.todo # <<>> /\ action.todo = Requested
  BY <1>1, WhereItIs DEF At
<1>3. /\ action.kind \in Kinds /\ action.account \in Users
      /\ action.kind \in {"deposit", "activate", "deactivate", "draw"}
  BY <1>1, <1>2, WhatItIs, ClientAssumption DEF Begun
<1>4. nonce \in Requests
  <2>1. pendingDraw.nonce \in Nat
    BY <1>1 DEF TypeOK, Draws, Nonces
  <2>2. QED
    BY <1>1, <1>3, <2>1 DEF TypeOK, RequestOf, Requests
<1>5. CASE Fail
  BY <1>1, <1>2, <1>5, FailKeeps
<1>6. CASE nonce # None /\ AskFor(nonce)
  <2>1. Stage(action.todo, "read", Asking) /\ Asking \in AllTodos
    BY <1>2, Stages DEF AllTodos, RequestTodos, Begun
  <2> HIDE DEF nonce
  <2>2. nonce \in Nat
    BY <1>4, <1>6 DEF Requests
  <2>3. action' \in Operations /\ action'.todo = Asking /\ action'.signer = action.signer
        /\ action'.kind = action.kind /\ action'.account = action.account
        /\ action'.amount = action.amount /\ action'.nonce \in Nat
    BY <1>1, <1>4, <1>6, <2>1, <2>2, Advanced DEF Operations, AskFor
  <2>4. Asking \in TodosOf(action.kind)
    BY <1>3 DEF TodosOf, RequestTodos, Begun, Transfers, Reveals
  <2>5. action.kind \in {"deactivate", "draw"} => action.signer \in Accounts
    BY <1>1, <1>2 DEF OperationOK
  <2>6. QED
    BY <1>1, <1>3, <2>3, <2>4, <2>5, Apart, Unsigned, OperationNext
<1>7. QED
  BY <1>5, <1>6 DEF ReadRequest

LEMMA ProofIsAbout ==
  ASSUME TypeOK, NEW proof \in decryptable, proof.handle = HandleOf(action)
  PROVE  ProofAbout(action.kind, action.account, action.nonce, proof.bit) = proof
<1>1. proof = [handle |-> proof.handle, bit |-> proof.bit]
  BY DEF TypeOK
<1>2. QED
  BY <1>1 DEF ProofAbout, HandleOf

LEMMA KmsAnswersKeeps == ClientInv /\ KmsAnswers => OperationOK'
<1> SUFFICES ASSUME ClientInv, KmsAnswers PROVE OperationOK'
  OBVIOUS
<1>1. /\ OperationOK /\ PageOK /\ TypeOK /\ action \in Operations
      /\ At("kms") /\ action.kind \notin Reveals /\ UNCHANGED decryptable
  BY DEF ClientInv, Structure, OperationOK, KmsAnswers, OnlyAction, vars
<1>2. action.todo # <<>> /\ action.todo = Asking
  BY <1>1, WhereItIs, WhatItIs DEF At, RevealTodos
<1>3. /\ action.kind \in Kinds
      /\ action.kind \in {"deposit", "activate", "deactivate", "draw"}
  BY <1>1, <1>2, WhatItIs DEF Begun
<1>4. CASE Fail
  BY <1>1, <1>2, <1>4, FailKeeps
<1>5. ASSUME NEW proof \in decryptable, proof.handle = HandleOf(action),
             action.kind \in {"deposit", "activate"} => selected # Nobody,
             action' = [Advance(action) EXCEPT !.bit = proof.bit,
                          !.signer = IF action.kind \in {"deposit", "activate"}
                                     THEN selected ELSE @]
      PROVE  OperationOK'
  <2>1. Stage(action.todo, "kms", ApproveProof) /\ ApproveProof \in AllTodos
    BY <1>2, Stages DEF AllTodos, RequestTodos, Begun
  <2>2. proof.bit \in BOOLEAN
    BY <1>1, <1>5 DEF TypeOK
  <2>3. IF action.kind \in {"deposit", "activate"}
        THEN selected \in Accounts ELSE action.signer \in Accounts
    BY <1>1, <1>2, <1>3, <1>5 DEF OperationOK, PageOK
  <2>4. action' \in Operations /\ action'.todo = ApproveProof /\ action'.signer \in Accounts
        /\ action'.kind = action.kind /\ action'.account = action.account
        /\ action'.amount = action.amount /\ action'.nonce = action.nonce
        /\ action'.bit = proof.bit
    BY <1>1, <1>5, <2>1, <2>2, <2>3, Advanced DEF Operations
  <2>5. ApproveProof \in TodosOf(action.kind)
    BY <1>3 DEF TodosOf, RequestTodos, Begun, Transfers, Reveals
  <2>6. action.nonce \in Nat
    BY <1>1, <1>2 DEF OperationOK
  <2>7. ProofAbout(action'.kind, action'.account, action'.nonce, action'.bit) \in decryptable'
    BY <1>1, <1>5, <2>4, ProofIsAbout
  <2>8. QED
    BY <1>1, <1>3, <2>4, <2>5, <2>6, <2>7, OperationNext
<1>6. QED
  BY <1>4, <1>5 DEF KmsAnswers

\* An await of a transfer or of a reveal.
LEMMA TransferAdvances ==
  ASSUME OperationOK, action.kind \in Transfers, NEW next, NEW rest \in TransferTodos,
         Stage(action.todo, next, rest), action' = Advance(action),
         rest \in Signers => action.signer \in Accounts
  PROVE  OperationOK'
<1>1. action \in Operations /\ action.kind \in Kinds /\ rest \in AllTodos
  BY DEF OperationOK, Transfers, Kinds, AllTodos
<1>2. /\ action' \in Operations /\ action'.todo = rest /\ action'.signer = action.signer
      /\ action'.kind = action.kind /\ action'.account = action.account
      /\ action'.amount = action.amount
  BY <1>1, Advanced DEF Operations
<1>3. rest \in TodosOf(action.kind)
  BY DEF TodosOf, Transfers, Reveals
<1>4. action.kind \notin {"deactivate", "draw"}
  BY DEF Transfers
<1>5. QED
  BY <1>1, <1>2, <1>3, <1>4, Unasked, OperationNext

\* An await that adds nothing to what an operation with a request knows.
LEMMA RequestAdvances ==
  ASSUME OperationOK, Signing, action.kind \in {"deposit", "activate", "deactivate", "draw"},
         NEW next, NEW rest \in TodosOf(action.kind),
         Stage(action.todo, next, rest), action' = Advance(action),
         \/ rest \in {RequestSent, Requested} /\ action.signer \in Accounts
         \/ rest = ProofSent /\ action.todo = ApproveProof
         \/ rest = LastRead
  PROVE  OperationOK'
<1>1. action \in Operations /\ action.kind \in Kinds
  BY DEF OperationOK, Kinds
<1>2. rest \in AllTodos
  BY DEF AllTodos, TodosOf, RequestTodos, Transfers, Reveals
<1>3. /\ action' \in Operations /\ action'.todo = rest /\ action'.signer = action.signer
      /\ action'.kind = action.kind /\ action'.account = action.account
      /\ action'.amount = action.amount /\ action'.nonce = action.nonce
      /\ action'.bit = action.bit
  BY <1>1, <1>2, Advanced DEF Operations
<1>4. CASE rest \in {RequestSent, Requested} /\ action.signer \in Accounts
  BY <1>1, <1>3, <1>4, Unasked, OperationNext
<1>5. CASE rest = ProofSent /\ action.todo = ApproveProof
  <2>1. /\ action.signer \in Accounts /\ action.nonce \in Nat
        /\ ProofAbout(action.kind, action.account, action.nonce, action.bit) \in decryptable
    BY <1>5 DEF OperationOK, Signers
  <2>2. ProofAbout(action'.kind, action'.account, action'.nonce, action'.bit) \in decryptable'
    BY <1>3, <2>1 DEF Signing
  <2>3. QED
    BY <1>1, <1>3, <1>5, <2>1, <2>2, OperationNext
<1>6. CASE rest = LastRead
  BY <1>1, <1>3, <1>6, Unasked, Unsigned, Apart, OperationNext
<1>7. QED
  BY <1>4, <1>5, <1>6

LEMMA ApproveKeepsOperation == ClientInv /\ Approve => OperationOK'
<1> SUFFICES ASSUME ClientInv, Approve PROVE OperationOK'
  OBVIOUS
<1>1. /\ OperationOK /\ action \in Operations /\ Signing
      /\ At("prompt") /\ action' = Advance(action)
  BY DEF ClientInv, OperationOK, Approve, Signing, vars
<1>2. action.todo # <<>> /\ action.todo \in {ApproveRequest, ApproveProof, ApproveTransfer}
  BY <1>1, WhereItIs DEF At
<1>3. action.signer \in Accounts
  BY <1>1, <1>2 DEF OperationOK, Signers
<1>4. CASE action.todo = ApproveTransfer
  <2>1. action.kind \in Transfers
    BY <1>1, <1>2, <1>4, WhatItIs DEF TransferTodos
  <2>2. QED
    BY <1>1, <1>3, <1>4, <2>1, Stages, TransferAdvances DEF TransferTodos
<1>5. CASE action.todo = ApproveRequest
  <2>1. action.kind \in {"deposit", "deactivate", "draw"}
    BY <1>1, <1>2, <1>5, WhatItIs
  <2>2. RequestSent \in TodosOf(action.kind)
    BY <2>1 DEF TodosOf, RequestTodos, Transfers, Reveals
  <2>3. QED
    BY <1>1, <1>3, <1>5, <2>1, <2>2, Stages, RequestAdvances
<1>6. CASE action.todo = ApproveProof
  <2>1. action.kind \in {"deposit", "activate", "deactivate", "draw"}
    BY <1>1, <1>2, <1>6, WhatItIs DEF Begun
  <2>2. ProofSent \in TodosOf(action.kind)
    BY <2>1 DEF TodosOf, RequestTodos, Begun, Transfers, Reveals
  <2>3. QED
    BY <1>1, <1>6, <2>1, <2>2, Stages, RequestAdvances
<1>7. QED
  BY <1>2, <1>4, <1>5, <1>6

\* A receipt of the transaction the page waits for.
LEMMA ReceiptKeeps ==
  ASSUME OperationOK, Signing, At("mining"), action' = Advance(action)
  PROVE  OperationOK'
<1>1. action.todo # <<>> /\ action.todo \in {RequestSent, ProofSent, TransferSent}
  BY WhereItIs DEF At
<1>2. action.signer \in Accounts
  BY <1>1 DEF OperationOK, Signers
<1>3. CASE action.todo = TransferSent
  <2>1. action.kind \in Transfers
    BY <1>1, <1>3, WhatItIs DEF TransferTodos
  <2>2. QED
    BY <1>2, <1>3, <2>1, Stages, TransferAdvances DEF TransferTodos
<1>4. CASE action.todo = RequestSent
  <2>1. action.kind \in {"deposit", "deactivate", "draw"}
    BY <1>1, <1>4, WhatItIs
  <2>2. Requested \in TodosOf(action.kind)
    BY <2>1 DEF TodosOf, RequestTodos, Begun, Transfers, Reveals
  <2>3. QED
    BY <1>2, <1>4, <2>1, <2>2, Stages, RequestAdvances
<1>5. CASE action.todo = ProofSent
  <2>1. action.kind \in {"deposit", "activate", "deactivate", "draw"}
    BY <1>1, <1>5, WhatItIs DEF Begun
  <2>2. LastRead \in TodosOf(action.kind)
    BY <2>1 DEF TodosOf, RequestTodos, Begun, Transfers, Reveals
  <2>3. QED
    BY <1>5, <2>1, <2>2, Stages, RequestAdvances
<1>6. QED
  BY <1>1, <1>3, <1>4, <1>5

\* The operation is over.
LEMMA OverKeeps ==
  ASSUME OperationOK, action.kind \in Kinds, action' \in Operations,
         action'.kind = action.kind, action'.account = action.account,
         action'.amount = action.amount \/ action.kind \in Reveals, action'.todo = <<>>
  PROVE  OperationOK'
<1>1. <<>> \in TodosOf(action.kind)
  BY DEF TodosOf, Kinds, Transfers, Reveals, RequestTodos, Begun, TransferTodos, RevealTodos
<1>2. action.kind \notin Reveals => action'.amount = action.amount
  OBVIOUS
<1>3. {"deposit", "withdraw", "fund"} \cap Reveals = {}
  BY DEF Reveals
<1>4. QED
  BY <1>1, <1>2, <1>3, Unsigned, Unasked, Apart DEF OperationOK

LEMMA SettleKeepsOperation == ClientInv /\ Settle => OperationOK'
<1> SUFFICES ASSUME ClientInv, Settle PROVE OperationOK'
  OBVIOUS
<1>1. OperationOK /\ action.todo # <<>> /\ action' = [action EXCEPT !.todo = <<>>]
  BY DEF ClientInv, Settle, At
<1>2. action.kind \in Kinds /\ action \in Operations
  BY <1>1, WhatItIs DEF OperationOK
<1>3. <<>> \in Seq(Steps)
  OBVIOUS
<1>4. QED
  BY <1>1, <1>2, <1>3, OverKeeps DEF Operations

LEMMA ReadHandleKeeps == ClientInv /\ ReadHandle => OperationOK' /\ PageOK'
<1> SUFFICES ASSUME ClientInv, ReadHandle PROVE OperationOK' /\ PageOK'
  OBVIOUS
<1> DEFINE user == action.account
           amount == IF action.kind = "revealBalance" THEN balances[user] ELSE prizes[user]
<1>1. /\ OperationOK /\ PageOK /\ TypeOK /\ action \in Operations
      /\ At("prepare") /\ action.kind \in Reveals
      /\ UNCHANGED <<selected, account, tab, amountTyped>>
  BY DEF ClientInv, Structure, OperationOK, ReadHandle, session
<1>2. action.todo # <<>> /\ action.todo \in {BeforeRequest, BeforeTransfer, BeforeReveal}
  BY <1>1, WhereItIs DEF At
<1>3. action.kind \in Kinds /\ user \in Accounts /\ user \in Users
  BY <1>1, <1>2, WhatItIs, ClientAssumption
<1>4. action.todo = BeforeReveal /\ Stage(action.todo, "prepare", Revealing)
  BY <1>1, <1>2, Stages, PlansApart DEF OperationOK, TodosOf, Reveals, Transfers, RevealTodos,
     RequestTodos, TransferTodos, Stage
<1>5. amount \in Euint64s
  BY <1>1, <1>3 DEF TypeOK
<1>6. CASE Fail /\ UNCHANGED shown
  BY <1>1, <1>2, <1>6, FailKeeps DEF PageOK
<1>7. CASE Show(0) /\ action' = [action EXCEPT !.outcome = "confirmed", !.todo = <<>>]
  <2>1. OperationOK'
    <3>1. <<>> \in Seq(Steps)
      OBVIOUS
    <3>2. QED
      BY <1>1, <1>3, <1>7, <3>1, OverKeeps DEF Operations, Outcomes
  <2>2. shown' \in [balance : Revealed, prize : Revealed]
    BY <1>1, <1>3, <1>7, EuintTypes DEF Show, PageOK, Revealed
  <2>3. QED
    BY <1>1, <2>1, <2>2 DEF PageOK
<1>8. CASE /\ selected # Nobody /\ UNCHANGED shown
           /\ action' = [Advance(action) EXCEPT !.signer = selected, !.amount = amount]
  <2>1. selected \in Accounts
    BY <1>1, <1>8 DEF PageOK
  <2>2. Revealing \in AllTodos
    BY DEF AllTodos, RevealTodos
  <2> HIDE DEF amount
  <2>3. action' \in Operations /\ action'.todo = Revealing
        /\ action'.kind = action.kind /\ action'.account = action.account
    BY <1>1, <1>4, <1>5, <1>8, <2>1, <2>2, Advanced DEF Operations
  <2>4. Revealing \in TodosOf(action.kind)
    BY <1>1 DEF TodosOf, Reveals, Transfers, RevealTodos
  <2>5. action.kind \notin {"deposit", "withdraw", "fund", "deactivate", "draw"}
    BY <1>1 DEF Reveals
  <2>6. OperationOK'
    BY <1>3, <2>3, <2>4, <2>5, Unsigned, Unasked DEF OperationOK, RevealTodos
  <2>7. QED
    BY <1>1, <1>8, <2>6 DEF PageOK
<1>9. QED
  BY <1>6, <1>7, <1>8 DEF ReadHandle

LEMMA DecryptedKeeps == ClientInv /\ Decrypted => OperationOK' /\ PageOK'
<1> SUFFICES ASSUME ClientInv, Decrypted PROVE OperationOK' /\ PageOK'
  OBVIOUS
<1>1. /\ OperationOK /\ PageOK /\ action \in Operations
      /\ At("kms") /\ action.kind \in Reveals
      /\ UNCHANGED <<selected, account, tab, amountTyped>>
  BY DEF ClientInv, OperationOK, Decrypted, session
<1>2. action.todo # <<>> /\ action.todo \in {Asking, Revealing}
  BY <1>1, WhereItIs DEF At
<1>3. action.kind \in Kinds /\ action.account \in Accounts
  BY <1>1, <1>2, WhatItIs
<1>4. action.todo = Revealing /\ Stage(action.todo, "kms", <<>>)
  BY <1>1, <1>2, WhatItIs, Stages, PlansApart DEF RevealTodos, RequestTodos, Begun
<1>5. CASE Fail /\ UNCHANGED shown
  BY <1>1, <1>2, <1>5, FailKeeps DEF PageOK
<1>6. CASE Show(action.amount) /\ action' = Advance(action)
  <2>1. <<>> \in AllTodos
    BY DEF AllTodos, RevealTodos
  <2>2. /\ action' \in Operations /\ action'.todo = <<>>
        /\ action'.kind = action.kind /\ action'.account = action.account
        /\ action'.amount = action.amount
    BY <1>1, <1>4, <1>6, <2>1, Advanced DEF Operations
  <2>3. OperationOK'
    BY <1>1, <1>3, <2>2, OverKeeps
  <2>4. shown' \in [balance : Revealed, prize : Revealed]
    BY <1>1, <1>3, <1>6 DEF Show, PageOK, Revealed, Operations
  <2>5. QED
    BY <1>1, <2>3, <2>4 DEF PageOK
<1>7. QED
  BY <1>5, <1>6 DEF Decrypted

Opening(kind, amount, required, todo) ==
  [NoAction EXCEPT !.kind = kind, !.account = account, !.amount = amount,
                   !.todo = IF required THEN todo ELSE <<>>,
                   !.outcome = IF required THEN "none" ELSE "failed"]

\* An operation that starts knows nothing yet but its account and its amount.
LEMMA BeginKeeps ==
  ASSUME NEW kind \in Kinds, NEW amount \in Euint64s, NEW required, NEW todo \in TodosOf(kind),
         account \in Accounts, action' = Opening(kind, amount, required, todo),
         todo \in {BeforeRequest, BeforeTransfer, BeforeReveal}
           \/ (todo = Requested /\ kind = "activate"),
         kind \in {"deposit", "withdraw", "fund"} => amount \in Amounts
  PROVE  OperationOK'
<1>1. todo \in Seq(Steps) /\ <<>> \in TodosOf(kind) /\ <<>> \in Seq(Steps)
  BY TodoTypes
     DEF AllTodos, TodosOf, Kinds, Transfers, Reveals, RequestTodos, Begun, TransferTodos,
         RevealTodos
<1>2. /\ action' \in Operations /\ action'.kind = kind /\ action'.account = account
      /\ action'.amount = amount /\ action'.todo \in {todo, <<>>}
  BY <1>1, NoOperation DEF Operations, Outcomes, Opening
<1>3. /\ action'.todo \in TodosOf(kind)
      /\ action'.todo \in {BeforeRequest, BeforeTransfer, BeforeReveal, <<>>}
           \/ (action'.todo = Requested /\ kind = "activate")
  BY <1>1, <1>2
<1>4. action'.todo \notin Signers /\ action'.todo \notin {Asking, ApproveProof, ProofSent}
  BY <1>3, Unsigned, Unasked DEF TransferTodos, RevealTodos
<1>5. ~(kind \in {"deactivate", "draw"} /\ action'.todo \in {Requested, Asking})
  <2>1. Requested \notin {BeforeRequest, BeforeTransfer, BeforeReveal, <<>>}
    BY Stages DEF Stage
  <2>2. QED
    BY <1>3, <1>4, <2>1
<1>6. QED
  BY <1>2, <1>3, <1>4, <1>5 DEF OperationOK

LEMMA OffersNeedAccount ==
  ASSUME PageOK
  PROVE  /\ ActivationOffered \/ DepositOffered \/ WithdrawalOffered \/ SlotCheckOffered
              \/ BalanceRevealOffered \/ FundingOffered \/ DrawOffered \/ ClaimOffered
              \/ PrizeRevealOffered
            => account \in Accounts
BY DEF PageOK, ActivationOffered, DepositOffered, WithdrawalOffered, SlotCheckOffered,
       BalanceRevealOffered, FundingOffered, DrawOffered, ClaimOffered, PrizeRevealOffered,
       PoolTab, DrawTab, WritesEnabled, WithdrawalsEnabled, WalletReady

LEMMA StartKeeps == ClientInv /\ (StartOne \/ Resume) => OperationOK'
<1> SUFFICES ASSUME ClientInv, StartOne \/ Resume PROVE OperationOK'
  OBVIOUS
<1>1. PageOK /\ shown.prize.value \in Euint64s
  BY DEF ClientInv, PageOK, Revealed
<1>2. {0} \subseteq Euint64s /\ Amounts \ {0} \subseteq Euint64s
  BY EuintTypes, PoolAssumption
<1>3. /\ \A kind \in {"deposit", "deactivate", "draw"} :
           kind \in Kinds /\ BeforeRequest \in TodosOf(kind)
      /\ \A kind \in Transfers : kind \in Kinds /\ BeforeTransfer \in TodosOf(kind)
      /\ \A kind \in Reveals : kind \in Kinds /\ BeforeReveal \in TodosOf(kind)
      /\ Requested \in TodosOf("activate") /\ "activate" \in Kinds
  BY DEF Kinds, TodosOf, RequestTodos, Begun, Transfers, TransferTodos, Reveals, RevealTodos
<1>4. ASSUME Deposit PROVE OperationOK'
  <2>1. PICK amount \in Amounts \ {0} :
          /\ DepositOffered
          /\ action' = Opening("deposit", amount, RequireVerifiedWrites(FALSE), BeforeRequest)
    BY <1>4, Plans DEF Deposit, Begin, Opening
  <2>2. account \in Accounts
    BY <1>1, <2>1, OffersNeedAccount
  <2>3. QED
    BY <1>1, <1>2, <1>3, <2>1, <2>2, BeginKeeps
<1>5. ASSUME DeactivateParticipant PROVE OperationOK'
  <2>1. PICK amount \in {0} :
          /\ SlotCheckOffered
          /\ action' = Opening("deactivate", amount, RequireVerifiedWrites(FALSE), BeforeRequest)
    BY <1>5, Plans DEF DeactivateParticipant, Begin, Opening
  <2>2. account \in Accounts
    BY <1>1, <2>1, OffersNeedAccount
  <2>3. QED
    BY <1>1, <1>2, <1>3, <2>1, <2>2, BeginKeeps
<1>6. ASSUME DrawLottery PROVE OperationOK'
  <2>1. PICK amount \in {0} :
          /\ DrawOffered
          /\ action' = Opening("draw", amount, RequireVerifiedWrites(FALSE), BeforeRequest)
    BY <1>6, Plans DEF DrawLottery, Begin, Opening
  <2>2. account \in Accounts
    BY <1>1, <2>1, OffersNeedAccount
  <2>3. QED
    BY <1>1, <1>2, <1>3, <2>1, <2>2, BeginKeeps
<1>7. ASSUME WithdrawPrivately PROVE OperationOK'
  <2>1. PICK amount \in Amounts \ {0} :
          /\ WithdrawalOffered
          /\ action' = Opening("withdraw", amount, RequireVerifiedWrites(TRUE), BeforeTransfer)
    BY <1>7, Plans DEF WithdrawPrivately, Begin, Opening
  <2>2. account \in Accounts
    BY <1>1, <2>1, OffersNeedAccount
  <2>3. QED
    BY <1>1, <1>2, <1>3, <2>1, <2>2, BeginKeeps DEF Transfers
<1>8. ASSUME FundPrizeReserve PROVE OperationOK'
  <2>1. PICK amount \in Amounts \ {0} :
          /\ FundingOffered
          /\ action' = Opening("fund", amount, RequireVerifiedWrites(FALSE), BeforeTransfer)
    BY <1>8, Plans DEF FundPrizeReserve, Begin, Opening
  <2>2. account \in Accounts
    BY <1>1, <2>1, OffersNeedAccount
  <2>3. QED
    BY <1>1, <1>2, <1>3, <2>1, <2>2, BeginKeeps DEF Transfers
<1>9. ASSUME ClaimPrize PROVE OperationOK'
  <2>1. PICK amount \in {shown.prize.value} :
          /\ ClaimOffered
          /\ action' = Opening("claim", amount, RequireVerifiedWrites(TRUE), BeforeTransfer)
    BY <1>9, Plans DEF ClaimPrize, Begin, Opening
  <2>2. account \in Accounts
    BY <1>1, <2>1, OffersNeedAccount
  <2>3. QED
    BY <1>1, <1>2, <1>3, <2>1, <2>2, BeginKeeps DEF Transfers
<1>10. ASSUME RevealBalance PROVE OperationOK'
  <2>1. PICK amount \in {0} :
          /\ BalanceRevealOffered
          /\ action' = Opening("revealBalance", amount, page.verified, BeforeReveal)
    BY <1>10, Plans DEF RevealBalance, Begin, Opening
  <2>2. account \in Accounts
    BY <1>1, <2>1, OffersNeedAccount
  <2>3. QED
    BY <1>1, <1>2, <1>3, <2>1, <2>2, BeginKeeps DEF Reveals
<1>11. ASSUME RevealPrize PROVE OperationOK'
  <2>1. PICK amount \in {0} :
          /\ PrizeRevealOffered
          /\ action' = Opening("revealPrize", amount, page.verified, BeforeReveal)
    BY <1>11, Plans DEF RevealPrize, Begin, Opening
  <2>2. account \in Accounts
    BY <1>1, <2>1, OffersNeedAccount
  <2>3. QED
    BY <1>1, <1>2, <1>3, <2>1, <2>2, BeginKeeps DEF Reveals
<1>12. ASSUME ActivateParticipant PROVE OperationOK'
  <2>1. PICK amount \in {0} :
          /\ ActivationOffered
          /\ action' = Opening("activate", amount, RequireVerifiedWrites(FALSE), Requested)
    BY <1>12, Plans DEF ActivateParticipant, Begin, Opening
  <2>2. account \in Accounts
    BY <1>1, <2>1, OffersNeedAccount
  <2>3. QED
    BY <1>1, <1>2, <1>3, <2>1, <2>2, BeginKeeps
<1>13. QED
  BY <1>4, <1>5, <1>6, <1>7, <1>8, <1>9, <1>10, <1>11, <1>12 DEF StartOne, Resume

-----------------------------------------------------------------------------
(* Transactions in flight *)

LEMMA TransactionStays == ASSUME NEW tx, TransactionOK(tx), Signing PROVE TransactionOK(tx)'
BY DEF TransactionOK, Signing, ProofAbout, HandleOf, EligibilityHandle, ZeroBalanceHandle,
       ReadinessHandle

\* While the operation does not wait for a receipt, no transaction is the page's.
LEMMA NobodyListens ==
  ASSUME OperationOK, MempoolOK, ~At("mining")
  PROVE  \A tx \in mempool : ~tx.page
BY Stages DEF MempoolOK, OwnTransaction, At, Stage

LEMMA MempoolStays ==
  MempoolOK /\ Signing /\ UNCHANGED <<action, mempool>> => MempoolOK'
BY TransactionStays DEF MempoolOK, OwnTransaction

LEMMA MempoolUnheard ==
  ASSUME MempoolOK, Signing, mempool' \subseteq mempool, \A tx \in mempool' : ~tx.page
  PROVE  MempoolOK'
BY TransactionStays DEF MempoolOK

\* An action that starts, continues or ends an operation without a transaction.
LEMMA MempoolQuiet ==
  OperationOK /\ MempoolOK /\ Signing /\ ~At("mining") /\ UNCHANGED mempool => MempoolOK'
BY NobodyListens, MempoolUnheard

\* There is one transaction at most whose receipt the page waits for.
LEMMA OneListened ==
  ASSUME MempoolOK, NEW tx \in mempool, NEW other \in mempool, tx.page, other.page
  PROVE  tx = other
<1>1. /\ tx \in Transactions /\ other \in Transactions
      /\ OwnTransaction(tx) /\ OwnTransaction(other)
  BY DEF MempoolOK, TransactionOK
<1>2. RequestSent # TransferSent
  BY Apart DEF RequestTodos
<1>3. tx.half = other.half
  BY <1>1, <1>2, Apart DEF OwnTransaction, Transactions
<1>4. /\ tx.kind = other.kind /\ tx.from = other.from /\ tx.for = other.for
      /\ tx.nonce = other.nonce /\ tx.bit = other.bit /\ tx.amount = other.amount
  BY <1>1 DEF OwnTransaction
<1>5. tx.page = other.page
  BY <1>1 DEF Transactions
<1>6. QED
  BY <1>1, <1>3, <1>4, <1>5 DEF Transactions

LEMMA ListenedIsOwn ==
  ASSUME OperationOK, MempoolOK, NEW tx \in mempool, tx.page
  PROVE  At("mining") /\ \A other \in mempool \ {tx} : ~other.page
<1>1. At("mining")
  BY NobodyListens
<1>2. QED
  BY <1>1, OneListened

LEMMA ApproveKeepsMempool == ClientInv /\ Approve => MempoolOK'
<1> SUFFICES ASSUME ClientInv, Approve PROVE MempoolOK'
  OBVIOUS
<1> PICK tx : tx = TransactionOf(action)
  OBVIOUS
<1>1. /\ OperationOK /\ MempoolOK /\ Signing /\ action \in Operations
      /\ At("prompt") /\ action' = Advance(action) /\ mempool' = mempool \cup {tx}
  BY DEF ClientInv, OperationOK, Approve, Signing, vars
<1>2. action.todo # <<>> /\ action.todo \in {ApproveRequest, ApproveProof, ApproveTransfer}
  BY <1>1, WhereItIs DEF At
<1>3. /\ action.kind \in Kinds \ Reveals /\ action.account \in Accounts
      /\ action.signer \in Accounts
  BY <1>1, <1>2, WhatItIs, PlansApart
     DEF OperationOK, Signers, RequestTodos, Begun, TransferTodos, Transfers, Reveals
<1>4. ~At("mining")
  BY <1>1 DEF At
<1>5. /\ tx.kind = action.kind /\ tx.from = action.signer /\ tx.for = action.account
      /\ tx.nonce = action.nonce /\ tx.bit = action.bit /\ tx.amount = action.amount
      /\ tx.half = IF Contains(action.todo, "kms") THEN "request" ELSE "finalize"
      /\ tx \in Transactions /\ tx.page
  BY <1>1, <1>3 DEF TransactionOf, Operations, Transactions
<1>6. \/ /\ action.todo = ApproveRequest /\ action.kind \in {"deposit", "deactivate", "draw"}
         /\ tx.half = "request" /\ Stage(action.todo, "prompt", RequestSent)
      \/ /\ action.todo = ApproveProof /\ action.kind \notin Transfers
         /\ tx.half = "finalize" /\ Stage(action.todo, "prompt", ProofSent)
      \/ /\ action.todo = ApproveTransfer /\ action.kind \in Transfers
         /\ tx.half = "finalize" /\ Stage(action.todo, "prompt", TransferSent)
  BY <1>1, <1>2, <1>5, WhatItIs, Stages, Contents DEF Begun, TransferTodos, Transfers
<1>7. TransactionOK(tx)
  <2>1. action.todo = ApproveProof =>
          ProofAbout(tx.kind, tx.for, tx.nonce, tx.bit) \in decryptable
    BY <1>1, <1>5 DEF OperationOK
  <2>2. tx.kind \in {"deposit", "withdraw", "fund"} => tx.amount \in Amounts
    BY <1>1, <1>5 DEF OperationOK
  <2>3. QED
    BY <1>5, <1>6, <2>1, <2>2 DEF TransactionOK
<1>8. OwnTransaction(tx)'
  <2>1. PICK rest \in {RequestSent, ProofSent, TransferSent} :
          /\ Stage(action.todo, "prompt", rest)
          /\ rest = IF tx.half = "request" THEN RequestSent
                    ELSE IF tx.kind \in Transfers THEN TransferSent ELSE ProofSent
    BY <1>5, <1>6
  <2>2. rest \in AllTodos
    BY DEF AllTodos, RequestTodos, Begun, TransferTodos
  <2>3. /\ action'.todo = rest /\ action'.kind = action.kind
        /\ action'.account = action.account /\ action'.signer = action.signer
        /\ action'.nonce = action.nonce /\ action'.bit = action.bit
        /\ action'.amount = action.amount
    BY <1>1, <2>1, <2>2, Advanced DEF Operations
  <2>4. QED
    BY <1>5, <2>1, <2>3 DEF OwnTransaction
<1>9. \A other \in mempool : ~other.page /\ TransactionOK(other)'
  BY <1>1, <1>4, NobodyListens, TransactionStays DEF MempoolOK
<1>10. TransactionOK(tx)'
  BY <1>1, <1>7, TransactionStays
<1>11. QED
  BY <1>1, <1>8, <1>9, <1>10 DEF MempoolOK

\* A transaction leaves the mempool, and the page hears of it or it does not.
LEMMA LeavesMempool ==
  ASSUME ClientInv, Signing, NEW tx \in mempool, mempool' = mempool \ {tx},
         IF tx.page THEN OperationOK' ELSE UNCHANGED action
  PROVE  OperationOK' /\ MempoolOK'
<1>1. OperationOK /\ MempoolOK
  BY DEF ClientInv
<1>2. CASE tx.page
  BY <1>1, <1>2, ListenedIsOwn, MempoolUnheard
<1>3. CASE ~tx.page
  <2>1. OperationOK'
    BY <1>1, <1>3, OperationStays
  <2>2. MempoolOK'
    BY <1>1, <1>3, TransactionStays DEF MempoolOK, OwnTransaction
  <2>3. QED
    BY <2>1, <2>2
<1>4. QED
  BY <1>2, <1>3

LEMMA MinedKeeps ==
  ASSUME ClientInv, Signing, NEW tx \in mempool, Mined(tx)
  PROVE  OperationOK' /\ MempoolOK'
<1>1. OperationOK /\ MempoolOK /\ mempool' = mempool \ {tx}
      /\ action' = IF tx.page THEN Advance(action) ELSE action
  BY DEF ClientInv, Mined
<1>2. tx.page => OperationOK'
  BY <1>1, ListenedIsOwn, ReceiptKeeps
<1>3. QED
  BY <1>1, <1>2, LeavesMempool

LEMMA RevertedKeeps ==
  ASSUME ClientInv, Signing, NEW tx \in mempool, Reverted(tx)
  PROVE  OperationOK' /\ MempoolOK'
<1>1. OperationOK /\ MempoolOK /\ mempool' = mempool \ {tx}
      /\ IF tx.page THEN Fail ELSE UNCHANGED action
  BY DEF ClientInv, Reverted, FailedReceipt
<1>2. tx.page => OperationOK'
  BY <1>1, ListenedIsOwn, FailKeeps DEF At
<1>3. QED
  BY <1>1, <1>2, LeavesMempool

\* After a reload the page waits for nothing.
LEMMA ReloadKeeps == ClientInv /\ Signing /\ Reload => OperationOK' /\ MempoolOK'
<1> SUFFICES ASSUME ClientInv, Signing, Reload PROVE OperationOK' /\ MempoolOK'
  OBVIOUS
<1>1. /\ MempoolOK /\ action' = NoAction
      /\ mempool' = {[tx EXCEPT !.page = FALSE] : tx \in mempool}
  BY DEF ClientInv, Reload
<1>2. ASSUME NEW tx \in mempool PROVE LET left == [tx EXCEPT !.page = FALSE]
                                      IN  TransactionOK(left) /\ ~left.page
  BY <1>1, <1>2 DEF MempoolOK, TransactionOK, Transactions
<1>3. \A tx \in mempool' : TransactionOK(tx) /\ ~tx.page
  BY <1>1, <1>2
<1>4. MempoolOK'
  BY <1>3, TransactionStays DEF MempoolOK
<1>5. QED
  BY <1>1, <1>4, NoOperation

-----------------------------------------------------------------------------
(* The page *)

NothingNew == UNCHANGED <<session, shown, tab, amountTyped>>

LEMMA PageStays == PageOK /\ NothingNew => PageOK'
BY DEF PageOK, NothingNew, session

LEMMA NothingShownType == NothingShown \in [balance : Revealed, prize : Revealed]
BY EuintTypes DEF NothingShown, Hidden, Revealed

LEMMA ShownAfterType ==
  ASSUME PageOK, NEW view PROVE ShownAfter(view) \in [balance : Revealed, prize : Revealed]
BY EuintTypes DEF PageOK, ShownAfter, Hidden, Revealed

LEMMA SettleKeepsPage == ClientInv /\ Settle => PageOK'
<1> SUFFICES ASSUME ClientInv, Settle PROVE PageOK'
  OBVIOUS
<1>1. PageOK /\ OperationOK /\ action.todo # <<>>
  BY DEF ClientInv, Settle, At
<1>2. action.account \in Accounts
  BY <1>1, WhatItIs
<1>3. PICK view :
        shown' = IF action.kind = "claim"
                 THEN [ShownAfter(view) EXCEPT !.prize = [of |-> action.account, value |-> 0]]
                 ELSE ShownAfter(view)
  BY DEF Settle
<1>4. shown' \in [balance : Revealed, prize : Revealed]
  BY <1>1, <1>2, <1>3, ShownAfterType, EuintTypes DEF Revealed
<1>5. QED
  BY <1>1, <1>4 DEF Settle, PageOK, session

\* What the user does on the page, and what the page does by itself.
LEMMA OthersKeepPage ==
  ASSUME PageOK,
         \/ ApplyRefresh \/ Hide \/ TypeAmount \/ PageFollows \/ Reload
         \/ \E to \in {"pool", "draw"} : SwitchTab(to)
         \/ \E user \in Accounts \cup {Nobody} : OwnerSelects(user)
  PROVE  PageOK'
<1>1. CASE ApplyRefresh
  BY <1>1, ShownAfterType DEF ApplyRefresh, PageOK, session
<1>2. CASE Hide
  BY <1>2, EuintTypes DEF Hide, PageOK, session, Hidden, Revealed
<1>3. CASE PageFollows \/ Reload
  BY <1>3, NothingShownType DEF PageFollows, Reload, PageOK
<1>4. CASE \/ TypeAmount
           \/ \E to \in {"pool", "draw"} : SwitchTab(to)
           \/ \E user \in Accounts \cup {Nobody} : OwnerSelects(user)
  BY <1>4 DEF TypeAmount, SwitchTab, OwnerSelects, PageOK, session, ui
<1>5. QED
  BY <1>1, <1>2, <1>3, <1>4

-----------------------------------------------------------------------------
(* The invariant is inductive *)

LEMMA ClientInitInv == ClientInit => ClientInv
<1> SUFFICES ASSUME ClientInit PROVE ClientInv
  OBVIOUS
<1>1. Structure
  BY InitStructure DEF ClientInit
<1>2. PageOK
  BY NothingShownType DEF ClientInit, PageInit, PageOK
<1>3. NoAction.todo = <<>> /\ NoAction.kind = "none" /\ action = NoAction
  BY DEF NoAction, ClientInit, PageInit
<1>4. OperationOK
  BY <1>3, NoOperation, Unsigned, Unasked DEF OperationOK, TodosOf, Kinds, Transfers, Reveals
<1>5. MempoolOK
  BY DEF ClientInit, PageInit, MempoolOK
<1>6. QED
  BY <1>1, <1>2, <1>4, <1>5 DEF ClientInv

\* The awaits of an operation.
LEMMA ContinueKeeps ==
  ASSUME ClientInv, Signing, Continue PROVE PageOK' /\ OperationOK' /\ MempoolOK'
<1>1. PageOK /\ OperationOK /\ MempoolOK
  BY DEF ClientInv
<1>2. CASE Prepare
  <2>1. ~At("mining") /\ UNCHANGED mempool /\ NothingNew
    BY <1>2 DEF Prepare, At, OnlyAction, NothingNew, ui
  <2>2. QED
    BY <1>1, <1>2, <2>1, PrepareKeeps, MempoolQuiet, PageStays
<1>3. CASE ReadRequest
  <2>1. ~At("mining") /\ UNCHANGED mempool /\ NothingNew
    BY <1>3 DEF ReadRequest, At, OnlyAction, NothingNew, ui
  <2>2. QED
    BY <1>1, <1>3, <2>1, ReadRequestKeeps, MempoolQuiet, PageStays
<1>4. CASE KmsAnswers
  <2>1. ~At("mining") /\ UNCHANGED mempool /\ NothingNew
    BY <1>4 DEF KmsAnswers, At, OnlyAction, NothingNew, ui
  <2>2. QED
    BY <1>1, <1>4, <2>1, KmsAnswersKeeps, MempoolQuiet, PageStays
<1>5. CASE Approve
  <2>1. NothingNew
    BY <1>5 DEF Approve, NothingNew, ui
  <2>2. QED
    BY <1>1, <1>5, <2>1, ApproveKeepsOperation, ApproveKeepsMempool, PageStays
<1>6. ASSUME NEW tx \in mempool, Mined(tx) \/ Reverted(tx)
      PROVE  PageOK' /\ OperationOK' /\ MempoolOK'
  <2>1. NothingNew
    BY <1>6 DEF Mined, Reverted, NothingNew, ui
  <2>2. QED
    BY <1>1, <1>6, <2>1, MinedKeeps, RevertedKeeps, PageStays
<1>7. CASE Settle
  <2>1. ~At("mining") /\ UNCHANGED mempool
    BY <1>7 DEF Settle, At
  <2>2. QED
    BY <1>1, <1>7, <2>1, SettleKeepsOperation, SettleKeepsPage, MempoolQuiet
<1>8. CASE ReadHandle
  <2>1. ~At("mining") /\ UNCHANGED mempool
    BY <1>8 DEF ReadHandle, At
  <2>2. QED
    BY <1>1, <1>8, <2>1, ReadHandleKeeps, MempoolQuiet
<1>9. CASE Decrypted
  <2>1. ~At("mining") /\ UNCHANGED mempool
    BY <1>9 DEF Decrypted, At
  <2>2. QED
    BY <1>1, <1>9, <2>1, DecryptedKeeps, MempoolQuiet
<1>10. CASE Dismiss
  <2>1. ~At("mining") /\ UNCHANGED mempool /\ NothingNew /\ action' = NoAction
    BY <1>10 DEF Dismiss, At, NothingNew, ui
  <2>2. QED
    BY <1>1, <2>1, NoOperation, MempoolQuiet, PageStays
<1>11. QED
  BY <1>2, <1>3, <1>4, <1>5, <1>6, <1>7, <1>8, <1>9, <1>10 DEF Continue

LEMMA ClientStep == ClientInv /\ [ClientNext]_clientVars => ClientInv'
<1> SUFFICES ASSUME ClientInv, [ClientNext]_clientVars PROVE ClientInv'
  OBVIOUS
<1>1. Structure /\ PageOK /\ OperationOK /\ MempoolOK
  BY DEF ClientInv
<1>2. [Transacts]_vars
  BY <1>1, ClientTransacts
<1>3. Structure' /\ Signing
  BY <1>1, <1>2, TransactsStructure, SignedForGood DEF Signing
<1>4. ASSUME Continue PROVE ClientInv'
  BY <1>3, <1>4, ContinueKeeps DEF ClientInv
<1>5. ASSUME StartOne \/ Resume PROVE ClientInv'
  <2>1. ~At("mining") /\ UNCHANGED mempool /\ NothingNew
    <3>1. action.kind = "none" /\ UNCHANGED mempool /\ NothingNew
      BY <1>5 DEF StartOne, Resume, Begin, Idle, NothingNew, ui, ActivateParticipant, Deposit,
                  WithdrawPrivately, DeactivateParticipant, FundPrizeReserve, ClaimPrize,
                  DrawLottery, RevealBalance, RevealPrize
    <3>2. action.todo = <<>>
      BY <1>1, <3>1 DEF OperationOK, TodosOf, Kinds, Transfers, Reveals
    <3>3. QED
      BY <3>1, <3>2 DEF At
  <2>2. QED
    BY <1>1, <1>3, <1>5, <2>1, StartKeeps, MempoolQuiet, PageStays DEF ClientInv
<1>6. ASSUME Throws PROVE ClientInv'
  <2>1. /\ ~At("mining") /\ action.todo # <<>> /\ Fail
        /\ UNCHANGED mempool /\ NothingNew
    BY <1>6 DEF Throws, At, OnlyAction, NothingNew, ui
  <2>2. QED
    BY <1>1, <1>3, <2>1, FailKeeps, MempoolQuiet, PageStays DEF ClientInv
<1>7. ASSUME Reload PROVE ClientInv'
  BY <1>1, <1>3, <1>7, ReloadKeeps, OthersKeepPage DEF ClientInv
<1>8. ASSUME \/ StartRefresh \/ FailRefresh \/ Elsewhere \/ Meanwhile
             \/ UNCHANGED clientVars
      PROVE  ClientInv'
  <2>1. NothingNew /\ UNCHANGED <<action, mempool>>
    BY <1>8 DEF StartRefresh, FailRefresh, Elsewhere, Meanwhile, clientVars, NothingNew, ui
  <2>2. QED
    BY <1>1, <1>3, <2>1, OperationStays, MempoolStays, PageStays DEF ClientInv
<1>9. ASSUME \/ ApplyRefresh \/ Hide \/ TypeAmount \/ PageFollows
             \/ \E to \in {"pool", "draw"} : SwitchTab(to)
             \/ \E user \in Accounts \cup {Nobody} : OwnerSelects(user)
      PROVE  ClientInv'
  <2>1. UNCHANGED <<action, mempool>>
    BY <1>9 DEF ApplyRefresh, Hide, TypeAmount, PageFollows, SwitchTab, OwnerSelects
  <2>2. PageOK'
    BY <1>1, <1>9, OthersKeepPage
  <2>3. QED
    BY <1>1, <1>3, <2>1, <2>2, OperationStays, MempoolStays DEF ClientInv
<1>10. QED
  BY <1>4, <1>5, <1>6, <1>7, <1>8, <1>9 DEF ClientNext

LEMMA AlwaysClientInv == ClientSpec => []ClientInv
BY ClientInitInv, ClientStep, PTL DEF ClientSpec

-----------------------------------------------------------------------------
(* What the invariant guarantees *)

\* For any accounts in the browser, any pool and any order of clicks, answers,
\* failures, reloads and switches: what the page keeps has its types, and a
\* proof is asked for only with the nonce of a request.
THEOREM ClientTypeCorrect == ClientSpec => []ClientTypeOK
<1>1. ClientInv => ClientTypeOK
  <2> SUFFICES ASSUME ClientInv PROVE ClientTypeOK
    OBVIOUS
  <2>1. PageOK /\ OperationOK /\ MempoolOK /\ action \in Operations
    BY DEF ClientInv, OperationOK
  <2>2. At("kms") /\ action.kind \notin Reveals => action.nonce \in Nat
    <3> SUFFICES ASSUME At("kms"), action.kind \notin Reveals PROVE action.nonce \in Nat
      OBVIOUS
    <3>1. action.todo # <<>> /\ action.todo \in {Asking, Revealing}
      BY <2>1, WhereItIs DEF At
    <3>2. action.todo = Asking
      BY <2>1, <3>1, WhatItIs DEF RevealTodos
    <3>3. QED
      BY <2>1, <3>2 DEF OperationOK
  <2>3. \A i \in DOMAIN action.todo : action.todo[i] \in Steps
    BY <2>1 DEF Operations
  <2>4. \A tx \in mempool : tx.from \in Accounts /\ tx.for \in Accounts
    BY <2>1 DEF MempoolOK, TransactionOK, Transactions
  <2>5. action.kind \in Kinds \cup {"none"} /\ action.outcome \in Outcomes
    BY <2>1 DEF Operations
  <2>6. shown.balance.of \in Accounts \cup {Nobody} /\ shown.prize.of \in Accounts \cup {Nobody}
    BY <2>1 DEF PageOK, Revealed
  <2>7. QED
    BY <2>1, <2>2, <2>3, <2>4, <2>5, <2>6 DEF ClientTypeOK, PageOK, Steps, Outcomes
<1>2. QED
  BY <1>1, AlwaysClientInv, PTL

\* A step of an operation whose outcome stays open.
LEMMA StillOpen ==
  ASSUME OperationOK, NEW next, NEW rest \in AllTodos, Stage(action.todo, next, rest),
         rest \in {ApproveRequest, RequestSent, Requested, Asking, ApproveProof, ProofSent}
  PROVE  Advance(action).outcome = "none"
<1>1. rest # <<>> /\ Head(rest) \notin {"refresh", "finally"}
  BY Stages DEF Stage
<1>2. QED
  BY <1>1, Advanced

\* The one step that reports a draw entry is the receipt of its proof.
LEMMA ReportIsReceipt ==
  ASSUME ClientInv, [ClientNext]_clientVars, action.outcome = "none",
         action'.outcome = "confirmed", action.kind \in {"deposit", "activate"}
  PROVE  \E tx \in mempool : Mined(tx) /\ tx.page /\ action.todo = ProofSent
<1>1. OperationOK /\ MempoolOK /\ action \in Operations /\ action.kind \notin Reveals
  BY DEF ClientInv, OperationOK, Reveals
<1>2. ~UNCHANGED action /\ ~Fail
  <2>1. Fail => action'.outcome = "failed"
    BY <1>1 DEF Fail, Operations
  <2>2. QED
    BY <2>1
<1>3. ~Prepare
  <2> SUFFICES ASSUME Prepare PROVE FALSE
    OBVIOUS
  <2>1. /\ action' = [Advance(action) EXCEPT !.signer = selected] /\ At("prepare")
    BY <1>2 DEF Prepare
  <2>2. action.todo # <<>> /\ action.todo \in {BeforeRequest, BeforeTransfer, BeforeReveal}
    BY <1>1, <2>1, WhereItIs DEF At
  <2>3. action.todo = BeforeRequest
    BY <1>1, <2>2, WhatItIs DEF TransferTodos, RevealTodos, Transfers
  <2>4. Advance(action).outcome = "none" /\ Advance(action) \in Operations
    BY <1>1, <2>3, Stages, StillOpen, Advanced DEF AllTodos, RequestTodos
  <2>5. QED
    BY <2>1, <2>4 DEF Operations
<1>4. ~ReadRequest
  <2> SUFFICES ASSUME ReadRequest PROVE FALSE
    OBVIOUS
  <2>1. PICK nonce : action' = [Advance(action) EXCEPT !.nonce = nonce]
    BY <1>2 DEF ReadRequest, AskFor
  <2>2. action.todo = Requested
    BY <1>1, WhereItIs DEF ReadRequest
  <2>3. Advance(action).outcome = "none" /\ Advance(action) \in Operations
    BY <1>1, <2>2, Stages, StillOpen, Advanced DEF AllTodos, RequestTodos, Begun
  <2>4. QED
    BY <2>1, <2>3 DEF Operations
<1>5. ~KmsAnswers
  <2> SUFFICES ASSUME KmsAnswers PROVE FALSE
    OBVIOUS
  <2>1. PICK bit, signer :
          action' = [Advance(action) EXCEPT !.bit = bit, !.signer = signer]
    BY <1>2 DEF KmsAnswers
  <2>2. At("kms") /\ action.todo # <<>> /\ action.todo \in {Asking, Revealing}
    BY <1>1, WhereItIs DEF KmsAnswers, At
  <2>3. action.todo = Asking
    BY <1>1, <2>2, WhatItIs DEF RevealTodos
  <2>4. Advance(action).outcome = "none" /\ Advance(action) \in Operations
    BY <1>1, <2>3, Stages, StillOpen, Advanced DEF AllTodos, RequestTodos, Begun
  <2>5. QED
    BY <2>1, <2>4 DEF Operations
<1>6. ~Approve
  <2> SUFFICES ASSUME Approve PROVE FALSE
    OBVIOUS
  <2>1. At("prompt") /\ action' = Advance(action)
    BY DEF Approve
  <2>2. action.todo # <<>> /\ action.todo \in {ApproveRequest, ApproveProof, ApproveTransfer}
    BY <1>1, <2>1, WhereItIs DEF At
  <2>3. action.todo \in {ApproveRequest, ApproveProof}
    BY <1>1, <2>2, WhatItIs DEF TransferTodos, Transfers
  <2>4. Advance(action).outcome = "none"
    BY <1>1, <2>3, Stages, StillOpen DEF AllTodos, RequestTodos, Begun
  <2>5. QED
    BY <2>1, <2>4
<1>7. ASSUME NEW tx \in mempool, Mined(tx)
      PROVE  tx.page /\ action.todo = ProofSent
  <2>1. tx.page /\ action' = Advance(action)
    BY <1>2, <1>7 DEF Mined
  <2>2. At("mining")
    BY <1>1, <2>1, ListenedIsOwn
  <2>3. action.todo # <<>> /\ action.todo \in {RequestSent, ProofSent, TransferSent}
    BY <1>1, <2>2, WhereItIs DEF At
  <2>4. action.todo \in {RequestSent, ProofSent}
    BY <1>1, <2>3, WhatItIs DEF TransferTodos, Transfers
  <2>5. action.todo # RequestSent
    <3> SUFFICES ASSUME action.todo = RequestSent PROVE FALSE
      OBVIOUS
    <3>1. Advance(action).outcome = "none"
      BY <1>1, Stages, StillOpen DEF AllTodos, RequestTodos, Begun
    <3>2. QED
      BY <2>1, <3>1
  <2>6. QED
    BY <2>1, <2>4, <2>5
<1>8. \A tx \in mempool : ~Reverted(tx)
  BY <1>2 DEF Reverted, FailedReceipt
<1>9. ~Settle /\ ~ReadHandle /\ ~Decrypted /\ ~Dismiss /\ ~Throws /\ ~Reload
  BY <1>1, <1>2 DEF Settle, ReadHandle, Decrypted, Dismiss, Throws, Reload, NoAction, Operations
<1>10. ~StartOne /\ ~Resume
  <2>1. ~Idle
    BY DEF Idle
  <2>2. QED
    BY <2>1 DEF StartOne, Resume, Begin, ActivateParticipant, Deposit, WithdrawPrivately,
                DeactivateParticipant, FundPrizeReserve, ClaimPrize, DrawLottery,
                RevealBalance, RevealPrize
<1>11. /\ ~StartRefresh /\ ~ApplyRefresh /\ ~FailRefresh /\ ~TypeAmount /\ ~Hide
       /\ ~PageFollows /\ ~Elsewhere /\ ~Meanwhile /\ ~UNCHANGED clientVars
       /\ \A to : ~SwitchTab(to)
       /\ \A user : ~OwnerSelects(user)
  BY <1>2 DEF StartRefresh, ApplyRefresh, FailRefresh, TypeAmount, Hide, PageFollows,
              Elsewhere, Meanwhile, clientVars, SwitchTab, OwnerSelects
<1>12. QED
  BY <1>3, <1>4, <1>5, <1>6, <1>7, <1>8, <1>9, <1>10, <1>11 DEF ClientNext, Continue

\* For any accounts, any pool and whatever the others do meanwhile: a draw entry
\* that the page reports as finalized consumed the request its proof is about.
THEOREM ReportedEntryAlwaysReal == ClientSpec => ReportedEntryIsReal
<1> DEFINE Report == /\ action.outcome = "none" /\ action'.outcome = "confirmed"
                     /\ action.kind \in {"deposit", "activate"}
           Real == /\ pendingActivations[action.account] = action.nonce
                   /\ pendingActivations'[action.account] = None
                   /\ isParticipant'[action.account] = action.bit
<1>1. ASSUME ClientInv, [ClientNext]_clientVars, Report PROVE Real
  <2>1. PICK tx \in mempool : Mined(tx) /\ tx.page /\ action.todo = ProofSent
    BY <1>1, ReportIsReceipt
  <2>2. TypeOK /\ action.account \in Users
    BY <1>1, <2>1, WhatItIs, Stages, ClientAssumption DEF ClientInv, Structure, Stage
  <2>3. /\ tx.kind = action.kind /\ tx.for = action.account
        /\ tx.nonce = action.nonce /\ tx.bit = action.bit /\ tx.half = "finalize"
    <3>1. OwnTransaction(tx) /\ TransactionOK(tx)
      BY <1>1, <2>1 DEF ClientInv, MempoolOK
    <3>2. tx.half \in {"request", "finalize"} /\ RequestSent # ProofSent
      BY <3>1, Apart DEF TransactionOK, Transactions
    <3>3. QED
      BY <2>1, <3>1, <3>2 DEF OwnTransaction
  <2>4. FinalizeParticipantActivation(action.account, action.bit,
          ProofAbout(action.kind, action.account, action.nonce, action.bit))
    BY <1>1, <2>1, <2>3 DEF Mined, Effect, ProofAbout
  <2>5. /\ pendingActivations' = [pendingActivations EXCEPT ![action.account] = None]
        /\ EligibilityHandle(action.account, pendingActivations[action.account])
             = EligibilityHandle(action.account, action.nonce)
    BY <1>1, <2>4 DEF FinalizeParticipantActivation, CheckSignatures, ProofAbout, HandleOf
  <2>6. isParticipant'[action.account] = action.bit
    <3>1. /\ isParticipant \in [Users -> BOOLEAN] /\ action.bit \in BOOLEAN
          /\ ~isParticipant[action.account]
      BY <1>1, <2>2, <2>4
         DEF ClientInv, OperationOK, Operations, TypeOK, FinalizeParticipantActivation
    <3>2. \/ action.bit /\ isParticipant' = [isParticipant EXCEPT ![action.account] = TRUE]
          \/ ~action.bit /\ isParticipant' = isParticipant
      BY <2>4 DEF FinalizeParticipantActivation, membership
    <3>3. QED
      BY <2>2, <3>1, <3>2
  <2>7. QED
    BY <2>2, <2>5, <2>6 DEF TypeOK, EligibilityHandle
<1>2. ClientInv /\ [ClientNext]_clientVars => [Report => Real]_clientVars
  BY <1>1
<1>3. QED
  BY <1>2, AlwaysClientInv, PTL DEF ClientSpec, ReportedEntryIsReal

\* A transaction moves the tokens of its own account only, because an encrypted
\* input is valid from nobody else.
LEMMA EffectMovesOwn ==
  ASSUME TypeOK, NEW tx, TransactionOK(tx), Effect(tx)
  PROVE  \A user \in Users : wallet'[user] # wallet[user] => user = tx.for
<1> DEFINE Mine == \A user \in Users : wallet'[user] # wallet[user] => user = tx.for
<1>1. /\ tx.from \in Users /\ tx.half \in {"request", "finalize"}
      /\ tx.kind \in {"deposit", "activate", "withdraw", "deactivate", "fund", "draw", "claim"}
      /\ tx.half = "request" => tx.kind # "activate"
      /\ wallet \in [Users -> Nat]
  BY ClientAssumption DEF TransactionOK, Transactions, Kinds, Reveals, TypeOK
<1>2. UNCHANGED wallet => Mine
  OBVIOUS
<1>3. ASSUME NEW data,
             \/ ConfidentialTransferAndCall(tx.from, tx.amount, data)
             \/ RefundedTransfer(tx.from, data)
      PROVE  InputBound(tx) => Mine
  BY <1>1, <1>2, <1>3 DEF ConfidentialTransferAndCall, RefundedTransfer, InputBound, vars, token
<1>4. CASE tx.kind \in {"withdraw", "claim"}
  BY <1>1, <1>4 DEF Effect, InputBound, Withdraw, ConfidentialTransfer
<1>5. CASE tx.kind = "fund" \/ (tx.half = "request" /\ tx.kind = "deposit")
  BY <1>3, <1>5 DEF Effect
<1>6. CASE tx.half = "request" /\ tx.kind \in {"deactivate", "draw"}
  BY <1>2, <1>6 DEF Effect, RequestDeactivation, RequestDraw, token
<1>7. CASE tx.half = "finalize" /\ tx.kind \in {"deposit", "activate", "deactivate", "draw"}
  BY <1>2, <1>7 DEF Effect, FinalizeParticipantActivation, FinalizeParticipantDeactivation,
                    SkipDraw, ExecuteDraw, SettleRequest, token
<1>8. QED
  BY <1>1, <1>4, <1>5, <1>6, <1>7

\* For any accounts: whenever the wallet changed account between the click and
\* the signature, no tokens but those of the account of the click moved.
THEOREM SwitchAlwaysHarmless == ClientSpec => SwitchHarmless
<1> DEFINE Mine(tx) == \A user \in Users : wallet'[user] # wallet[user] => user = tx.for
<1>1. ASSUME ClientInv, [ClientNext]_clientVars, NEW tx \in mempool \ mempool'
      PROVE  Mine(tx)
  <2>1. TypeOK /\ TransactionOK(tx)
    BY <1>1 DEF ClientInv, Structure, MempoolOK
  <2>2. ASSUME NEW one \in mempool, Mined(one) PROVE Mine(tx)
    BY <1>1, <2>1, <2>2, EffectMovesOwn DEF Mined
  <2>3. UNCHANGED wallet => Mine(tx)
    OBVIOUS
  <2>4. ASSUME NEW one \in mempool, Reverted(one) PROVE Mine(tx)
    BY <2>3, <2>4 DEF Reverted, vars, token
  <2>5. Reload => Mine(tx)
    BY <2>3 DEF Reload, vars, token
  <2>6. /\ ~Prepare /\ ~ReadRequest /\ ~KmsAnswers /\ ~Approve /\ ~Settle /\ ~ReadHandle
        /\ ~Decrypted /\ ~Dismiss
    BY <1>1 DEF Prepare, ReadRequest, KmsAnswers, Approve, Settle, ReadHandle, Decrypted,
                Dismiss, OnlyAction
  <2>7. ~StartOne /\ ~Resume
    BY <1>1 DEF StartOne, Resume, Begin, ActivateParticipant, Deposit, WithdrawPrivately,
                DeactivateParticipant, FundPrizeReserve, ClaimPrize, DrawLottery,
                RevealBalance, RevealPrize
  <2>8. /\ ~StartRefresh /\ ~ApplyRefresh /\ ~FailRefresh /\ ~TypeAmount /\ ~Hide /\ ~Throws
        /\ ~PageFollows /\ ~Elsewhere /\ ~Meanwhile /\ ~UNCHANGED clientVars
        /\ \A to : ~SwitchTab(to)
        /\ \A user : ~OwnerSelects(user)
    BY <1>1 DEF StartRefresh, ApplyRefresh, FailRefresh, TypeAmount, Hide, Throws, OnlyAction,
                PageFollows, Elsewhere, Meanwhile, clientVars, SwitchTab, OwnerSelects
  <2>9. QED
    BY <1>1, <2>2, <2>4, <2>5, <2>6, <2>7, <2>8 DEF ClientNext, Continue
<1>2. ClientInv /\ [ClientNext]_clientVars =>
        [\A tx \in mempool \ mempool' : Mine(tx)]_clientVars
  BY <1>1
<1>3. QED
  BY <1>2, AlwaysClientInv, PTL DEF ClientSpec, SwitchHarmless

\* When every euint64 is an input, as it is of the deployed contract, the page
\* does nothing to the pool that the pool's own specification does not allow:
\* every theorem about the pool holds under the page too.
THEOREM ClientAddsNothing ==
  ASSUME Amounts = Euint64s
  PROVE  ClientSpec => Spec
<1>1. ClientInv /\ [ClientNext]_clientVars => [Next]_vars
  BY ClientTransacts, TransactsIsNext DEF ClientInv
<1>2. ClientInit => Init
  BY DEF ClientInit
<1>3. QED
  BY <1>1, <1>2, AlwaysClientInv, PTL DEF ClientSpec, Spec
=============================================================================
