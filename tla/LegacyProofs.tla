---------------------------- MODULE LegacyProofs ----------------------------
(***************************************************************************)
(* The archived pool keeps its promises, for every set of users, width,    *)
(* delay and bound: types, conservation of funds, the lifecycle of every   *)
(* request, and what the page may report as finalized.                     *)
(***************************************************************************)
EXTENDS LegacyProperties, ArithmeticProofs, SequenceTheorems

Events == [event : {"requested", "finalized", "cancelled"}, nonce : Nat]

\* A step of the contract, whoever sends it.
ContractStep ==
  \/ \E user \in Users, amount \in Amounts : RequestWithdrawal(user, amount)
  \/ \E user \in Users, proof \in decryptable : FinalizeWithdrawal(user, proof.clear, proof)
  \/ \E user \in Users : CancelWithdrawal(user)
  \/ UNCHANGED pool
-----------------------------------------------------------------------------
(* The page: what it signs carries a proof that the KMS published.          *)

Ops == [kind : {"none", "finalize", "cancel"},
        stage : {"none", "kms", "prepare", "prompt", "mining", "settling", "confirmed", "failed"},
        account : Users \cup {Nobody}, signer : Users \cup {Nobody},
        request : Requests, clear : Euint64s]

Transactions == [kind : {"none", "finalize", "cancel"}, from : Users, clear : Euint64s, page : BOOLEAN,
                 proof : [handle : (Users \cup {Nobody}) \X Nat, clear : Euint64s]]

PageOK ==
  /\ selected \in Users \cup {Nobody} /\ account \in Users \cup {Nobody}
  /\ view \in Requests
  /\ refresh \in [ready : BOOLEAN, request : Requests]
  /\ op \in Ops
  /\ op.stage \in {"prompt", "mining"} => op.signer \in Users
  /\ op.stage # "none" => op.account \in Users
  /\ mempool \subseteq Transactions

\* A broadcast transaction of the page is the one of the operation that waits.
PageWaits ==
  \A tx \in mempool : tx.page => op.stage = "mining" /\ tx = Transaction(op)

Published(proof) == proof \in decryptable

ProofsPublished ==
  /\ (op.kind = "finalize" /\ op.stage \in {"prompt", "mining"})
       => Published(Transaction(op).proof)
  /\ \A tx \in mempool :
       tx.kind = "finalize" => Published(tx.proof) /\ tx.proof.clear = tx.clear
-----------------------------------------------------------------------------
(* The contract: the strengthening of the invariants.                       *)

\* What the KMS may sign for the open request of a user is at most its balance.
ProofsCovered ==
  \A proof \in decryptable :
    LET user == proof.handle[1]
    IN  /\ proof.handle[2] < userWithdrawalNonces[user]
        /\ (pending[user].active /\ pending[user].nonce = proof.handle[2])
             => proof.clear <= balances[user]

NoncesUsed ==
  \A user \in Users :
    /\ pending[user].active => pending[user].nonce < userWithdrawalNonces[user]
    /\ \A what, nonce :
         Lifecycle!Logged(user, what, nonce) => nonce < userWithdrawalNonces[user]

\* The open request of a user is the only one of its log without an end.
OpenIsPending ==
  \A user \in Users, nonce \in Nat :
    (Lifecycle!Logged(user, "requested", nonce) /\ ~Lifecycle!Settled(user, nonce))
      <=> (pending[user].active /\ pending[user].nonce = nonce)

ContractInv == LegacyTypeOK /\ FundsConserved /\ ProofsCovered /\ NoncesUsed /\ OpenIsPending
LegacyInv == ContractInv /\ PageOK /\ PageWaits /\ ProofsPublished
-----------------------------------------------------------------------------
LEMMA WidthFacts == 0 \in Euint64s /\ Euint64s \subseteq Nat /\ NoRequest \in Requests
BY ModulusAssumption DEF Euint64s, NoRequest, Requests

\* What one more event makes of a log.
LEMMA Recorded ==
  ASSUME log \in [Users -> Seq(Events)],
         NEW user \in Users, NEW what \in {"requested", "finalized", "cancelled"},
         NEW nonce \in Nat, Record(what, user, nonce)
  PROVE  /\ log' \in [Users -> Seq(Events)]
         /\ log'[user] = Append(log[user], [event |-> what, nonce |-> nonce])
         /\ Len(log'[user]) = Len(log[user]) + 1
         /\ Lifecycle!Added(user) = nonce
         /\ \A u \in Users : \A w, n :
              Lifecycle!Logged(u, w, n)'
                <=> Lifecycle!Logged(u, w, n) \/ (u = user /\ w = what /\ n = nonce)
<1> DEFINE e == [event |-> what, nonce |-> nonce]
<1>1. e \in Events
  BY DEF Events
<1>2. log' = [log EXCEPT ![user] = Append(log[user], e)]
  BY DEF Record
<1> HIDE DEF e
<1>3. /\ Append(log[user], e) \in Seq(Events)
      /\ Len(Append(log[user], e)) = Len(log[user]) + 1
      /\ \A i \in 1 .. Len(log[user]) : Append(log[user], e)[i] = log[user][i]
      /\ Append(log[user], e)[Len(log[user]) + 1] = e
      /\ Len(log[user]) \in Nat
  BY <1>1, AppendProperties, LenProperties
<1>4. log' \in [Users -> Seq(Events)] /\ log'[user] = Append(log[user], e)
  BY <1>2, <1>3
<1>5. Len(log'[user]) = Len(log[user]) + 1 /\ Lifecycle!Added(user) = nonce
  BY <1>3, <1>4 DEF Lifecycle!Added, e
<1>6. ASSUME NEW u \in Users, NEW w, NEW n
      PROVE  Lifecycle!Logged(u, w, n)'
               <=> Lifecycle!Logged(u, w, n) \/ (u = user /\ w = what /\ n = nonce)
  <2>1. CASE u # user
    BY <1>2, <2>1 DEF Lifecycle!Logged
  <2>2. CASE u = user
    <3>1. Lifecycle!Logged(u, w, n)'
            <=> \/ \E i \in 1 .. Len(log[user]) : log[user][i] = [event |-> w, nonce |-> n]
                \/ e = [event |-> w, nonce |-> n]
      <4>1. Lifecycle!Logged(u, w, n)'
              <=> \E i \in 1 .. (Len(log[user]) + 1) :
                    Append(log[user], e)[i] = [event |-> w, nonce |-> n]
        BY <1>3, <1>4, <2>2 DEF Lifecycle!Logged
      <4>2. 1 .. (Len(log[user]) + 1) = (1 .. Len(log[user])) \cup {Len(log[user]) + 1}
        BY <1>3
      <4>3. QED
        BY <1>3, <4>1, <4>2
    <3>2. e = [event |-> w, nonce |-> n] <=> (w = what /\ n = nonce)
      BY DEF e
    <3>3. QED
      BY <2>2, <3>1, <3>2 DEF Lifecycle!Logged
  <2>3. QED
    BY <2>1, <2>2
<1>7. QED
  BY <1>4, <1>5, <1>6 DEF e
\* An event of a log is one of the events.
LEMMA LoggedTyped ==
  ASSUME LegacyTypeOK, NEW u \in Users, NEW w, NEW n, Lifecycle!Logged(u, w, n)
  PROVE  n \in Nat
<1>1. PICK i \in 1 .. Len(log[u]) : log[u][i] = [event |-> w, nonce |-> n]
  BY DEF Lifecycle!Logged
<1>2. log[u][i] \in Events
  BY ElementOfSeq DEF LegacyTypeOK, Events
<1>3. QED
  BY <1>1, <1>2 DEF Events

-----------------------------------------------------------------------------
\* _createWithdrawalRequest keeps the invariant, and opens a request.
LEMMA RequestPreserves ==
  ASSUME ContractInv, now' \in Nat, NEW user \in Users, NEW amount \in Amounts,
         RequestWithdrawal(user, amount)
  PROVE  ContractInv' /\ Lifecycle!Next /\ decryptable \subseteq decryptable'
<1> DEFINE nonce == userWithdrawalNonces[user]
           clear == IF balances[user] >= amount THEN amount ELSE 0
           request == [active |-> TRUE, user |-> user, nonce |-> nonce, amount |-> amount,
                       timestamp |-> now]
           proof == [handle |-> <<user, nonce>>, clear |-> clear]
<1>1. LegacyTypeOK /\ FundsConserved /\ ProofsCovered /\ NoncesUsed /\ OpenIsPending
  BY DEF ContractInv
<1>2. /\ ~pending[user].active
      /\ userWithdrawalNonces' = [userWithdrawalNonces EXCEPT ![user] = nonce + 1]
      /\ pending' = [pending EXCEPT ![user] = request]
      /\ decryptable' = decryptable \cup {proof}
      /\ Record("requested", user, nonce)
      /\ balances' = balances /\ paid' = paid
  BY DEF RequestWithdrawal, CreateWithdrawalRequest, Handle
<1>3. /\ nonce \in Nat /\ amount \in Euint64s /\ balances[user] \in Euint64s
      /\ clear \in Euint64s /\ clear <= balances[user]
  BY <1>1, LegacyAssumption, WidthFacts DEF LegacyTypeOK, Euint64s
<1>4. request \in Requests /\ proof \in [handle : Users \X Nat, clear : Euint64s]
      /\ request.active /\ request.nonce = nonce
      /\ proof.handle[1] = user /\ proof.handle[2] = nonce /\ proof.clear = clear
  BY <1>1, <1>3 DEF Requests, LegacyTypeOK
<1> HIDE DEF request, proof, clear
<1>5. /\ log' \in [Users -> Seq(Events)]
      /\ Len(log'[user]) = Len(log[user]) + 1
      /\ log' = [log EXCEPT ![user] = Append(@, [event |-> "requested", nonce |-> nonce])]
      /\ Lifecycle!Added(user) = nonce
      /\ \A u \in Users : \A w, n :
           Lifecycle!Logged(u, w, n)'
             <=> Lifecycle!Logged(u, w, n) \/ (u = user /\ w = "requested" /\ n = nonce)
  BY <1>1, <1>2, <1>3, Recorded DEF LegacyTypeOK, Events, Record
<1>6. LegacyTypeOK'
  BY <1>1, <1>2, <1>3, <1>4, <1>5 DEF LegacyTypeOK, Events
<1>7. FundsConserved'
  BY <1>1, <1>2 DEF FundsConserved
<1>8. ProofsCovered'
  <2>1. ASSUME NEW p \in decryptable'
        PROVE  /\ p.handle[2] < userWithdrawalNonces'[p.handle[1]]
               /\ (pending'[p.handle[1]].active /\ pending'[p.handle[1]].nonce = p.handle[2])
                    => p.clear <= balances'[p.handle[1]]
    <3>1. CASE p = proof
      BY <1>1, <1>2, <1>3, <1>4, <3>1 DEF LegacyTypeOK
    <3>2. CASE p \in decryptable
      <4>1. p.handle[1] \in Users /\ p.handle[2] \in Nat
        BY <1>1, <3>2 DEF LegacyTypeOK
      <4>2. /\ p.handle[2] < userWithdrawalNonces[p.handle[1]]
            /\ (pending[p.handle[1]].active /\ pending[p.handle[1]].nonce = p.handle[2])
                 => p.clear <= balances[p.handle[1]]
        BY <1>1, <3>2 DEF ProofsCovered
      <4>3. CASE p.handle[1] = user
        BY <1>1, <1>2, <1>3, <1>4, <4>1, <4>2, <4>3 DEF LegacyTypeOK
      <4>4. CASE p.handle[1] # user
        BY <1>1, <1>2, <4>1, <4>2, <4>4 DEF LegacyTypeOK
      <4>5. QED
        BY <4>3, <4>4
    <3>3. QED
      BY <1>2, <3>1, <3>2
  <2>2. QED
    BY <2>1 DEF ProofsCovered
<1>9. NoncesUsed'
  <2>1. ASSUME NEW u \in Users
        PROVE  /\ pending'[u].active => pending'[u].nonce < userWithdrawalNonces'[u]
               /\ userWithdrawalNonces'[u] \in Nat /\ userWithdrawalNonces[u] \in Nat
               /\ userWithdrawalNonces'[u] = IF u = user THEN nonce + 1
                                             ELSE userWithdrawalNonces[u]
    BY <1>1, <1>2, <1>3, <1>4 DEF LegacyTypeOK, NoncesUsed
  <2>2. ASSUME NEW u \in Users, NEW w, NEW n, Lifecycle!Logged(u, w, n)'
        PROVE  n < userWithdrawalNonces'[u]
    <3>1. CASE Lifecycle!Logged(u, w, n)
      <4>1. n \in Nat /\ n < userWithdrawalNonces[u]
        BY <1>1, <3>1, LoggedTyped DEF NoncesUsed
      <4>2. QED
        BY <2>1, <4>1
    <3>2. CASE u = user /\ n = nonce
      BY <1>3, <2>1, <3>2
    <3>3. QED
      BY <1>5, <2>2, <3>1, <3>2
  <2>3. QED
    BY <2>1, <2>2 DEF NoncesUsed
<1>10. OpenIsPending'
  <2>1. ASSUME NEW u \in Users, NEW n \in Nat
        PROVE  (Lifecycle!Logged(u, "requested", n)' /\ ~Lifecycle!Settled(u, n)')
                 <=> (pending'[u].active /\ pending'[u].nonce = n)
    <3>1. Lifecycle!Settled(u, n)' <=> Lifecycle!Settled(u, n)
      BY <1>5 DEF Lifecycle!Settled
    <3>2. (Lifecycle!Logged(u, "requested", n) /\ ~Lifecycle!Settled(u, n))
            <=> (pending[u].active /\ pending[u].nonce = n)
      BY <1>1 DEF OpenIsPending
    <3>3. CASE u = user
      <4>1. ~Lifecycle!Settled(user, nonce)
        BY <1>1, <1>3 DEF Lifecycle!Settled, NoncesUsed
      <4>2. pending'[u].active /\ pending'[u].nonce = nonce
        BY <1>1, <1>2, <1>4, <3>3 DEF LegacyTypeOK
      <4>3. QED
        BY <1>2, <1>5, <3>1, <3>2, <3>3, <4>1, <4>2
    <3>4. CASE u # user
      BY <1>1, <1>2, <1>5, <3>1, <3>2, <3>4 DEF LegacyTypeOK
    <3>5. QED
      BY <3>3, <3>4
  <2>2. QED
    BY <2>1 DEF OpenIsPending
<1>11. Lifecycle!Next
  <2>1. ~Lifecycle!Logged(user, "requested", nonce)
    BY <1>1, <1>3 DEF NoncesUsed
  <2>2. ASSUME NEW i \in 1 .. Len(log[user]), log[user][i].event = "requested"
        PROVE  Lifecycle!Settled(user, log[user][i].nonce)
    <3>1. log[user][i] \in Events
      BY <1>1, ElementOfSeq DEF LegacyTypeOK, Events
    <3>2. log[user][i] = [event |-> "requested", nonce |-> log[user][i].nonce]
      BY <2>2, <3>1 DEF Events
    <3>3. Lifecycle!Logged(user, "requested", log[user][i].nonce)
      BY <3>2 DEF Lifecycle!Logged
    <3>4. QED
      BY <1>1, <1>2, <3>1, <3>3 DEF OpenIsPending, Events
  <2>3. Lifecycle!Request(user, nonce)
    BY <1>5, <2>1, <2>2 DEF Lifecycle!Request
  <2>4. QED
    BY <1>5, <2>3 DEF Lifecycle!Next
<1>12. QED
  BY <1>2, <1>6, <1>7, <1>8, <1>9, <1>10, <1>11 DEF ContractInv
-----------------------------------------------------------------------------
\* _deleteWithdrawalRequest with the event of a finalization or a cancellation
\* ends the open request and no other.
LEMMA SettlementPreserves ==
  ASSUME LegacyTypeOK, NoncesUsed, OpenIsPending,
         NEW user \in Users, pending[user].active, DeleteWithdrawalRequest(user),
         NEW what \in {"finalized", "cancelled"}, Record(what, user, pending[user].nonce),
         userWithdrawalNonces' = userWithdrawalNonces
  PROVE  /\ log' \in [Users -> Seq(Events)] /\ pending' \in [Users -> Requests]
         /\ ~pending'[user].active
         /\ \A u \in Users \ {user} : pending'[u] = pending[u]
         /\ NoncesUsed' /\ OpenIsPending' /\ Lifecycle!Next
<1> DEFINE nonce == pending[user].nonce
<1>1. nonce \in Nat
  BY DEF LegacyTypeOK, Requests
<1>2. pending' = [pending EXCEPT ![user] = NoRequest] /\ ~NoRequest.active
  BY DEF DeleteWithdrawalRequest, NoRequest
<1>3. /\ log' \in [Users -> Seq(Events)]
      /\ Len(log'[user]) = Len(log[user]) + 1
      /\ log' = [log EXCEPT ![user] = Append(@, [event |-> what, nonce |-> nonce])]
      /\ Lifecycle!Added(user) = nonce
      /\ \A u \in Users : \A w, n :
           Lifecycle!Logged(u, w, n)'
             <=> Lifecycle!Logged(u, w, n) \/ (u = user /\ w = what /\ n = nonce)
  <2>1. log \in [Users -> Seq(Events)] /\ what \in {"requested", "finalized", "cancelled"}
    BY DEF LegacyTypeOK, Events
  <2>2. log' = [log EXCEPT ![user] = Append(@, [event |-> what, nonce |-> nonce])]
    BY DEF Record
  <2>3. QED
    BY <1>1, <2>1, <2>2, Recorded
<1>4. /\ pending' \in [Users -> Requests] /\ ~pending'[user].active
      /\ \A u \in Users \ {user} : pending'[u] = pending[u]
  BY <1>2, WidthFacts DEF LegacyTypeOK
<1>5. NoncesUsed'
  <2>1. ASSUME NEW u \in Users
        PROVE  pending'[u].active => pending'[u].nonce < userWithdrawalNonces'[u]
    BY <1>4, <2>1 DEF NoncesUsed
  <2>2. ASSUME NEW u \in Users, NEW w, NEW n, Lifecycle!Logged(u, w, n)'
        PROVE  n < userWithdrawalNonces'[u]
    BY <1>3, <2>2 DEF NoncesUsed
  <2>3. QED
    BY <2>1, <2>2 DEF NoncesUsed
<1>6. Lifecycle!Logged(user, "requested", nonce) /\ ~Lifecycle!Settled(user, nonce)
  BY <1>1 DEF OpenIsPending
<1>7. OpenIsPending'
  <2>1. ASSUME NEW u \in Users, NEW n \in Nat
        PROVE  (Lifecycle!Logged(u, "requested", n)' /\ ~Lifecycle!Settled(u, n)')
                 <=> (pending'[u].active /\ pending'[u].nonce = n)
    <3>1. Lifecycle!Settled(u, n)'
            <=> Lifecycle!Settled(u, n) \/ (u = user /\ n = nonce)
      BY <1>3 DEF Lifecycle!Settled
    <3>2. Lifecycle!Logged(u, "requested", n)' <=> Lifecycle!Logged(u, "requested", n)
      BY <1>3
    <3>3. (Lifecycle!Logged(u, "requested", n) /\ ~Lifecycle!Settled(u, n))
            <=> (pending[u].active /\ pending[u].nonce = n)
      BY DEF OpenIsPending
    <3>4. CASE u = user
      BY <1>4, <3>1, <3>2, <3>3, <3>4
    <3>5. CASE u # user
      BY <1>4, <3>1, <3>2, <3>3, <3>5
    <3>6. QED
      BY <3>4, <3>5
  <2>2. QED
    BY <2>1 DEF OpenIsPending
<1>8. Lifecycle!Next
  BY <1>3, <1>6 DEF Lifecycle!Next, Lifecycle!Settle
<1>9. QED
  BY <1>3, <1>4, <1>5, <1>7, <1>8

\* finalizeWithdrawal pays what the KMS signed for the open request.
LEMMA FinalizePreserves ==
  ASSUME ContractInv, now' \in Nat, NEW user \in Users, NEW proof \in decryptable,
         FinalizeWithdrawal(user, proof.clear, proof)
  PROVE  ContractInv' /\ Lifecycle!Next /\ decryptable \subseteq decryptable'
<1> DEFINE clear == proof.clear
<1>1. LegacyTypeOK /\ FundsConserved /\ ProofsCovered /\ NoncesUsed /\ OpenIsPending
  BY DEF ContractInv
<1>2. /\ pending[user].active /\ proof.handle = <<user, pending[user].nonce>>
      /\ DeleteWithdrawalRequest(user)
      /\ balances' = [balances EXCEPT ![user] = Sub(@, clear)]
      /\ paid' = [paid EXCEPT ![user] = @ + clear]
      /\ Record("finalized", user, pending[user].nonce)
      /\ userWithdrawalNonces' = userWithdrawalNonces /\ decryptable' = decryptable
  BY DEF FinalizeWithdrawal, CanFinalize, ProofFits, Handle
<1>3. /\ clear \in Euint64s /\ balances[user] \in Euint64s /\ paid[user] \in Euint64s
      /\ balances[user] + paid[user] = Savings /\ Savings \in Euint64s
  BY <1>1, LegacyAssumption DEF LegacyTypeOK, FundsConserved
<1>4. clear <= balances[user]
  BY <1>1, <1>2 DEF ProofsCovered
<1>5. /\ Sub(balances[user], clear) = balances[user] - clear
      /\ balances[user] - clear \in Euint64s /\ paid[user] + clear \in Euint64s
      /\ balances[user] - clear <= balances[user]
  BY <1>3, <1>4, ArithmeticExact, ModulusAssumption DEF Euint64s
<1>6. /\ log' \in [Users -> Seq(Events)] /\ pending' \in [Users -> Requests]
      /\ ~pending'[user].active
      /\ \A u \in Users \ {user} : pending'[u] = pending[u]
      /\ NoncesUsed' /\ OpenIsPending' /\ Lifecycle!Next
  BY <1>1, <1>2, SettlementPreserves
<1>7. LegacyTypeOK'
  BY <1>1, <1>2, <1>5, <1>6 DEF LegacyTypeOK, Events
<1>8. FundsConserved'
  <2>1. ASSUME NEW u \in Users PROVE balances'[u] + paid'[u] = Savings
    <3>1. CASE u = user
      <4>1. balances'[user] = balances[user] - clear /\ paid'[user] = paid[user] + clear
        BY <1>1, <1>2, <1>5 DEF LegacyTypeOK
      <4>2. balances[user] \in Int /\ paid[user] \in Int /\ clear \in Int
        BY <1>3 DEF Euint64s
      <4>3. QED
        BY <1>3, <3>1, <4>1, <4>2
    <3>2. CASE u # user
      BY <1>1, <1>2, <3>2 DEF LegacyTypeOK, FundsConserved
    <3>3. QED
      BY <3>1, <3>2
  <2>2. QED
    BY <2>1 DEF FundsConserved
<1>9. ProofsCovered'
  <2>1. ASSUME NEW p \in decryptable
        PROVE  /\ p.handle[2] < userWithdrawalNonces[p.handle[1]]
               /\ (pending'[p.handle[1]].active /\ pending'[p.handle[1]].nonce = p.handle[2])
                    => p.clear <= balances'[p.handle[1]]
    <3>1. p.handle[1] \in Users
      BY <1>1 DEF LegacyTypeOK
    <3>2. CASE p.handle[1] = user
      BY <1>1, <1>6, <3>2 DEF ProofsCovered
    <3>3. CASE p.handle[1] # user
      BY <1>1, <1>2, <1>6, <3>1, <3>3 DEF ProofsCovered, LegacyTypeOK
    <3>4. QED
      BY <3>2, <3>3
  <2>2. QED
    BY <1>2, <2>1 DEF ProofsCovered
<1>10. QED
  BY <1>2, <1>6, <1>7, <1>8, <1>9 DEF ContractInv

\* cancelWithdrawal touches no balance.
LEMMA CancelPreserves ==
  ASSUME ContractInv, now' \in Nat, NEW user \in Users, CancelWithdrawal(user)
  PROVE  ContractInv' /\ Lifecycle!Next /\ decryptable \subseteq decryptable'
<1>1. LegacyTypeOK /\ FundsConserved /\ ProofsCovered /\ NoncesUsed /\ OpenIsPending
  BY DEF ContractInv
<1>2. /\ pending[user].active /\ DeleteWithdrawalRequest(user)
      /\ Record("cancelled", user, pending[user].nonce)
      /\ balances' = balances /\ paid' = paid
      /\ userWithdrawalNonces' = userWithdrawalNonces /\ decryptable' = decryptable
  BY DEF CancelWithdrawal, CanCancel
<1>3. /\ log' \in [Users -> Seq(Events)] /\ pending' \in [Users -> Requests]
      /\ ~pending'[user].active
      /\ \A u \in Users \ {user} : pending'[u] = pending[u]
      /\ NoncesUsed' /\ OpenIsPending' /\ Lifecycle!Next
  BY <1>1, <1>2, SettlementPreserves
<1>4. LegacyTypeOK' /\ FundsConserved'
  BY <1>1, <1>2, <1>3 DEF LegacyTypeOK, FundsConserved, Events
<1>5. ProofsCovered'
  <2>1. ASSUME NEW p \in decryptable
        PROVE  (pending'[p.handle[1]].active /\ pending'[p.handle[1]].nonce = p.handle[2])
                 => p.clear <= balances[p.handle[1]]
    <3>1. p.handle[1] \in Users
      BY <1>1 DEF LegacyTypeOK
    <3>2. QED
      BY <1>1, <1>3, <3>1 DEF ProofsCovered
  <2>2. QED
    BY <1>1, <1>2, <2>1 DEF ProofsCovered
<1>6. QED
  BY <1>2, <1>3, <1>4, <1>5 DEF ContractInv
-----------------------------------------------------------------------------
\* Whatever the page does, the contract makes one of its own steps or none.
LEMMA NextIsContractStep ==
  ASSUME PageOK, ProofsPublished, [Next]_vars
  PROVE  ContractStep
<1>1. CASE Elsewhere
  BY <1>1 DEF Elsewhere, ContractStep
<1>2. ASSUME NEW tx \in mempool, Mined(tx) PROVE ContractStep
  <2>1. tx.from \in Users
    BY DEF PageOK, Transactions
  <2>2. CASE tx.kind = "finalize" /\ FinalizeWithdrawal(tx.from, tx.clear, tx.proof)
    BY <2>1, <2>2 DEF ProofsPublished, Published, ContractStep
  <2>3. CASE tx.kind = "cancel" /\ CancelWithdrawal(tx.from)
    BY <2>1, <2>3 DEF ContractStep
  <2>4. QED
    BY <1>2, <2>2, <2>3 DEF Mined
<1>3. CASE UNCHANGED pool
  BY <1>3 DEF ContractStep
<1>4. Elsewhere \/ (\E tx \in mempool : Mined(tx)) \/ UNCHANGED pool
  <2>1. CASE StartRefresh \/ ApplyRefresh \/ FailRefresh \/ PageFollows
    BY <2>1 DEF StartRefresh, ApplyRefresh, FailRefresh, PageFollows, pool
  <2>2. CASE StartFinalize \/ StartCancel \/ (\E proof \in decryptable : ProofArrives(proof))
    BY <2>2 DEF StartFinalize, StartCancel, ProofArrives, pool
  <2>3. CASE Continue
    BY <2>3 DEF Continue, PrepareCancel, Approve, Reverted, Settle, Dismiss, pool
  <2>4. CASE Throws \/ ReloadAnyTime \/ ReloadWhenStuck
    BY <2>4 DEF Throws, ReloadAnyTime, ReloadWhenStuck, Reload, pool
  <2>5. CASE (\E user \in Users \cup {Nobody} : OwnerSelects(user)) \/ Tick
    BY <2>5 DEF OwnerSelects, Tick, pool
  <2>6. CASE UNCHANGED vars
    BY <2>6 DEF vars, pool
  <2>7. QED
    BY <2>1, <2>2, <2>3, <2>4, <2>5, <2>6 DEF Next
<1>5. QED
  BY <1>1, <1>2, <1>3, <1>4

\* Every step of the contract keeps its invariant and is a step of the lifecycle.
LEMMA ContractPreserves ==
  ASSUME ContractInv, now' \in Nat, ContractStep
  PROVE  ContractInv' /\ [Lifecycle!Next]_log /\ decryptable \subseteq decryptable'
<1>1. CASE \E user \in Users, amount \in Amounts : RequestWithdrawal(user, amount)
  BY <1>1, RequestPreserves
<1>2. CASE \E user \in Users, proof \in decryptable :
             FinalizeWithdrawal(user, proof.clear, proof)
  BY <1>2, FinalizePreserves
<1>3. CASE \E user \in Users : CancelWithdrawal(user)
  BY <1>3, CancelPreserves
<1>4. CASE UNCHANGED pool
  <2>1. UNCHANGED <<balances, paid, pending, userWithdrawalNonces, decryptable, log>>
    BY <1>4 DEF pool
  <2>2. LegacyTypeOK' /\ FundsConserved' /\ ProofsCovered'
    BY <2>1 DEF ContractInv, LegacyTypeOK, FundsConserved, ProofsCovered
  <2>3. NoncesUsed' /\ OpenIsPending'
    BY <2>1 DEF ContractInv, NoncesUsed, OpenIsPending, Lifecycle!Settled, Lifecycle!Logged
  <2>4. QED
    BY <2>1, <2>2, <2>3 DEF ContractInv
<1>5. QED
  BY <1>1, <1>2, <1>3, <1>4 DEF ContractStep

LEMMA TimeTyped ==
  ASSUME LegacyTypeOK, [Next]_vars
  PROVE  now' \in Nat
<1>1. now \in Nat
  BY DEF LegacyTypeOK
<1>2. now' = now \/ now' = now + 1
  <2>1. CASE StartRefresh \/ ApplyRefresh \/ FailRefresh \/ PageFollows
    BY <2>1 DEF StartRefresh, ApplyRefresh, FailRefresh, PageFollows
  <2>2. CASE StartFinalize \/ StartCancel \/ (\E proof \in decryptable : ProofArrives(proof))
    BY <2>2 DEF StartFinalize, StartCancel, ProofArrives
  <2>3. CASE Continue
    BY <2>3 DEF Continue, PrepareCancel, Approve, Mined, Reverted, Included, Settle, Dismiss
  <2>4. CASE Throws \/ ReloadAnyTime \/ ReloadWhenStuck
    BY <2>4 DEF Throws, ReloadAnyTime, ReloadWhenStuck, Reload
  <2>5. CASE (\E user \in Users \cup {Nobody} : OwnerSelects(user)) \/ Elsewhere \/ Tick
    BY <2>5 DEF OwnerSelects, Elsewhere, Tick
  <2>6. CASE UNCHANGED vars
    BY <2>6 DEF vars
  <2>7. QED
    BY <2>1, <2>2, <2>3, <2>4, <2>5, <2>6 DEF Next
<1>3. QED
  BY <1>1, <1>2
-----------------------------------------------------------------------------
\* What the page shows and signs keeps its form.
LEMMA PagePreserves ==
  ASSUME LegacyTypeOK, PageOK, PageWaits, ProofsPublished, [Next]_vars,
         decryptable \subseteq decryptable'
  PROVE  PageOK' /\ PageWaits' /\ ProofsPublished'
<1> USE DEF Published
<1>1. ASSUME UNCHANGED <<op, mempool>> PROVE PageWaits' /\ ProofsPublished'
  BY <1>1 DEF PageWaits, ProofsPublished, Transaction, Handle
<1>2. pending \in [Users -> Requests]
  BY DEF LegacyTypeOK
<1>3. CASE StartRefresh \/ ApplyRefresh \/ FailRefresh
  <2>1. UNCHANGED <<selected, account, op, mempool>>
    BY <1>3 DEF StartRefresh, ApplyRefresh, FailRefresh
  <2>2. view' \in Requests
    BY <1>3 DEF StartRefresh, ApplyRefresh, FailRefresh, PageOK
  <2>3. CASE StartRefresh
    <3>1. account \in Users
      BY <2>3 DEF StartRefresh, PageOK
    <3>2. refresh' \in [ready : BOOLEAN, request : Requests]
      BY <1>2, <2>3, <3>1 DEF StartRefresh
    <3>3. QED
      BY <1>1, <2>1, <2>2, <3>2 DEF PageOK
  <2>4. CASE ApplyRefresh \/ FailRefresh
    <3>1. refresh' \in [ready : BOOLEAN, request : Requests]
      <4>1. refresh' = NoRefresh
        BY <2>4 DEF ApplyRefresh, FailRefresh
      <4>2. NoRefresh \in [ready : BOOLEAN, request : Requests]
        BY WidthFacts DEF NoRefresh
      <4>3. QED
        BY <4>1, <4>2
    <3>2. QED
      BY <1>1, <2>1, <2>2, <3>1 DEF PageOK
  <2>5. QED
    BY <1>3, <2>3, <2>4
<1>4. CASE PageFollows
  BY <1>1, <1>4, WidthFacts DEF PageFollows, PageOK
<1>5. CASE StartFinalize \/ StartCancel
  <2>1. op = NoOp /\ mempool' = mempool /\ op'.stage \in {"kms", "prepare"}
        /\ UNCHANGED <<selected, account, view, refresh>>
    BY <1>5 DEF StartFinalize, StartCancel, NoOp
  <2>2. op' \in Ops /\ op'.account \in Users
    BY <1>5, WidthFacts DEF StartFinalize, StartCancel, NoOp, Ops, PageOK
  <2>3. QED
    BY <2>1, <2>2 DEF PageOK, PageWaits, ProofsPublished, NoOp
<1>6. ASSUME NEW proof \in decryptable, ProofArrives(proof)
      PROVE  PageOK' /\ PageWaits' /\ ProofsPublished'
  <2>1. proof \in [handle : Users \X Nat, clear : Euint64s]
    BY DEF LegacyTypeOK
  <2>2. op' \in Ops /\ op'.account = op.account /\ op'.kind = "finalize"
        /\ op'.stage \in {"failed", "prompt"}
        /\ (op'.stage = "prompt" => op'.signer \in Users)
    BY <1>6, <2>1 DEF ProofArrives, Ops, PageOK
  <2>3. op'.stage = "prompt" => Transaction(op').proof = proof
    BY <1>6, <2>1 DEF ProofArrives, Transaction, Handle, Ops, PageOK
  <2>4. op.stage = "kms" /\ UNCHANGED <<selected, account, view, refresh, mempool>>
    BY <1>6 DEF ProofArrives
  <2>5. QED
    BY <2>2, <2>3, <2>4 DEF PageOK, PageWaits, ProofsPublished, Transaction
<1>7. CASE PrepareCancel
  <2>1. op' \in Ops /\ op'.account = op.account /\ op'.kind = "cancel"
        /\ op'.stage \in {"failed", "prompt"}
        /\ (op'.stage = "prompt" => op'.signer \in Users)
    BY <1>7 DEF PrepareCancel, Ops, PageOK
  <2>2. op.stage = "prepare" /\ UNCHANGED <<selected, account, view, refresh, mempool>>
    BY <1>7 DEF PrepareCancel
  <2>3. QED
    BY <2>1, <2>2 DEF PageOK, PageWaits, ProofsPublished
<1>8. CASE Approve
  <2>1. op.stage = "prompt" /\ mempool' = mempool \cup {Transaction(op)}
        /\ UNCHANGED <<selected, account, view, refresh>>
    BY <1>8 DEF Approve
  <2>2. op' \in Ops /\ op' = [op EXCEPT !.stage = "mining"]
        /\ op'.stage = "mining" /\ op'.account = op.account /\ op'.signer = op.signer
        /\ op'.kind = op.kind
    BY <1>8 DEF Approve, Ops, PageOK
  <2>3. Transaction(op') = Transaction(op) /\ Transaction(op) \in Transactions
    BY <2>1, <2>2 DEF Transaction, Handle, Ops, PageOK, Transactions, Requests
  <2>4. Transaction(op).kind = op.kind
        /\ Transaction(op).proof.clear = Transaction(op).clear
    BY DEF Transaction
  <2>5. PageOK'
    BY <2>1, <2>2, <2>3 DEF PageOK
  <2>6. QED
    BY <2>1, <2>2, <2>3, <2>4, <2>5 DEF PageWaits, ProofsPublished
<1>9. CASE Throws
  <2>1. op.stage \in {"kms", "prepare", "prompt"} /\ op' = [op EXCEPT !.stage = "failed"]
        /\ UNCHANGED <<selected, account, view, refresh, mempool>>
    BY <1>9 DEF Throws
  <2>2. op' \in Ops /\ op'.stage = "failed" /\ op'.account = op.account
    BY <2>1 DEF Ops, PageOK
  <2>3. QED
    BY <2>1, <2>2 DEF PageOK, PageWaits, ProofsPublished
<1>10. ASSUME NEW tx \in mempool, Mined(tx) \/ Reverted(tx)
       PROVE  PageOK' /\ PageWaits' /\ ProofsPublished'
  <2>1. PICK succeeded \in BOOLEAN : Included(tx, succeeded)
    BY <1>10 DEF Mined, Reverted
  <2>2. mempool' = mempool \ {tx} /\ UNCHANGED <<selected, account, view, refresh>>
    BY <2>1 DEF Included
  <2>3. CASE tx.page
    <3>1. op.stage = "mining" /\ tx = Transaction(op)
      BY <2>3 DEF PageWaits
    <3>2. op' \in Ops /\ op'.stage \in {"settling", "failed"} /\ op'.account = op.account
      BY <2>1, <2>3 DEF Included, ReceiptStage, Ops, PageOK
    <3>3. \A other \in mempool' : ~other.page
      BY <2>2, <3>1 DEF PageWaits
    <3>4. QED
      BY <2>2, <3>1, <3>2, <3>3 DEF PageOK, PageWaits, ProofsPublished
  <2>4. CASE ~tx.page
    <3>1. op' = op
      BY <2>1, <2>4 DEF Included
    <3>2. QED
      BY <2>2, <3>1 DEF PageOK, PageWaits, ProofsPublished, Transaction, Handle
  <2>5. QED
    BY <2>3, <2>4
<1>11. CASE Settle
  <2>1. op.stage = "settling" /\ op' = [op EXCEPT !.stage = "confirmed"]
        /\ UNCHANGED <<selected, account, refresh, mempool>>
    BY <1>11 DEF Settle
  <2>2. op' \in Ops /\ op'.stage = "confirmed" /\ op'.account = op.account
    BY <2>1 DEF Ops, PageOK
  <2>3. view' \in Requests
    BY <1>2, <1>11 DEF Settle, PageOK
  <2>4. QED
    BY <2>1, <2>2, <2>3 DEF PageOK, PageWaits, ProofsPublished
<1>12. CASE Dismiss
  <2>1. op.stage \in {"confirmed", "failed"} /\ op' = NoOp
        /\ UNCHANGED <<selected, account, view, refresh, mempool>>
    BY <1>12 DEF Dismiss
  <2>2. NoOp \in Ops /\ NoOp.stage = "none"
    BY WidthFacts DEF NoOp, Ops
  <2>3. QED
    BY <2>1, <2>2 DEF PageOK, PageWaits, ProofsPublished
<1>13. CASE ReloadAnyTime \/ ReloadWhenStuck
  <2>1. /\ account' = Nobody /\ view' = NoRequest /\ refresh' = NoRefresh /\ op' = NoOp
        /\ mempool' = {[tx EXCEPT !.page = FALSE] : tx \in mempool}
        /\ selected' = selected
    BY <1>13 DEF ReloadAnyTime, ReloadWhenStuck, Reload
  <2>2. NoOp \in Ops /\ NoOp.stage = "none" /\ NoRefresh \in [ready : BOOLEAN, request : Requests]
    BY WidthFacts DEF NoOp, Ops, NoRefresh
  <2>3. ASSUME NEW tx \in mempool, NEW orphan, orphan = [tx EXCEPT !.page = FALSE]
        PROVE  orphan \in Transactions /\ ~orphan.page /\ orphan.kind = tx.kind
               /\ orphan.proof = tx.proof /\ orphan.clear = tx.clear
    BY <2>3 DEF PageOK, Transactions
  <2>4. QED
    BY <2>1, <2>2, <2>3, WidthFacts DEF PageOK, PageWaits, ProofsPublished
<1>14. CASE \E user \in Users \cup {Nobody} : OwnerSelects(user)
  BY <1>1, <1>14 DEF OwnerSelects, page, PageOK
<1>15. CASE Elsewhere \/ Tick
  BY <1>1, <1>15 DEF Elsewhere, Tick, page, PageOK
<1>16. CASE UNCHANGED vars
  BY <1>1, <1>16 DEF vars, page, PageOK
<1>17. QED
  BY <1>3, <1>4, <1>5, <1>6, <1>7, <1>8, <1>9, <1>10, <1>11, <1>12, <1>13, <1>14, <1>15, <1>16
     DEF Next, Continue
-----------------------------------------------------------------------------
\* A page that learns of its finalization learns it of the request it showed.
LEMMA ReportedFinalization ==
  ASSUME LegacyTypeOK, PageOK, PageWaits, ProofsPublished, [Next]_vars,
         op.kind = "finalize", op.stage = "mining", op'.stage = "settling"
  PROVE  /\ pending[op.request.user].active
         /\ pending[op.request.user].nonce = op.request.nonce
         /\ ~pending'[op.request.user].active
         /\ \A user \in Users : paid'[user] # paid[user] => user = op.request.user
<1>1. PICK tx \in mempool : tx.page /\ Mined(tx)
  <2>1. \E tx \in mempool : Mined(tx) \/ Reverted(tx)
    <3>1. CASE StartRefresh \/ ApplyRefresh \/ FailRefresh \/ PageFollows
      BY <3>1 DEF StartRefresh, ApplyRefresh, FailRefresh, PageFollows
    <3>2. CASE StartFinalize \/ StartCancel \/ (\E proof \in decryptable : ProofArrives(proof))
      BY <3>2 DEF StartFinalize, StartCancel, ProofArrives, NoOp
    <3>3. CASE PrepareCancel \/ Approve \/ Settle \/ Dismiss \/ Throws
      BY <3>3 DEF PrepareCancel, Approve, Settle, Dismiss, Throws
    <3>4. CASE ReloadAnyTime \/ ReloadWhenStuck
      BY <3>4 DEF ReloadAnyTime, ReloadWhenStuck, Reload, NoOp
    <3>5. CASE (\E user \in Users \cup {Nobody} : OwnerSelects(user)) \/ Elsewhere \/ Tick
      BY <3>5 DEF OwnerSelects, Elsewhere, Tick, page
    <3>6. CASE UNCHANGED vars
      BY <3>6 DEF vars, page
    <3>7. QED
      BY <3>1, <3>2, <3>3, <3>4, <3>5, <3>6 DEF Next, Continue
  <2>2. PICK tx \in mempool : Mined(tx) \/ Reverted(tx)
    BY <2>1
  <2>3. CASE Reverted(tx)
    BY <2>3 DEF Reverted, Included, ReceiptStage, PageOK, Ops
  <2>4. CASE Mined(tx)
    BY <2>4 DEF Mined, Included, PageOK, Transactions
  <2>5. QED
    BY <2>2, <2>3, <2>4
<1>2. tx = Transaction(op) /\ tx.kind = "finalize" /\ tx.from \in Users
  BY <1>1 DEF PageWaits, Transaction, PageOK, Transactions
<1>3. FinalizeWithdrawal(tx.from, tx.clear, tx.proof)
  BY <1>1, <1>2 DEF Mined
<1>4. /\ pending[tx.from].active
      /\ tx.proof.handle = <<tx.from, pending[tx.from].nonce>>
      /\ DeleteWithdrawalRequest(tx.from)
      /\ paid' = [paid EXCEPT ![tx.from] = @ + tx.clear]
  BY <1>3 DEF FinalizeWithdrawal, CanFinalize, ProofFits, Handle
<1>5. tx.proof.handle = <<op.request.user, op.request.nonce>>
  BY <1>2 DEF Transaction, Handle
<1>6. tx.from = op.request.user /\ pending[tx.from].nonce = op.request.nonce
  BY <1>4, <1>5
<1>7. ~pending'[tx.from].active
  BY <1>2, <1>4 DEF DeleteWithdrawalRequest, NoRequest, LegacyTypeOK
<1>8. \A user \in Users : paid'[user] # paid[user] => user = tx.from
  BY <1>4 DEF LegacyTypeOK
<1>9. QED
  BY <1>4, <1>6, <1>7, <1>8
-----------------------------------------------------------------------------
THEOREM LegacyInitially == Init => LegacyInv /\ Lifecycle!Init
<1> SUFFICES ASSUME Init PROVE LegacyInv /\ Lifecycle!Init
  OBVIOUS
<1>1. Lifecycle!Init
  BY DEF Init, Lifecycle!Init
<1>2. \A u \in Users : \A w, n : ~Lifecycle!Logged(u, w, n)
  BY DEF Init, Lifecycle!Logged
<1>3. LegacyTypeOK
  BY WidthFacts, LegacyAssumption DEF Init, LegacyTypeOK
<1>4. FundsConserved
  BY LegacyAssumption DEF Init, FundsConserved, Euint64s
<1>5. ProofsCovered /\ NoncesUsed /\ OpenIsPending
  BY <1>2 DEF Init, ProofsCovered, NoncesUsed, OpenIsPending, NoRequest
<1>6. PageOK /\ PageWaits /\ ProofsPublished
  BY WidthFacts DEF Init, PageOK, PageWaits, ProofsPublished, NoRefresh, NoOp, Ops
<1>7. QED
  BY <1>1, <1>3, <1>4, <1>5, <1>6 DEF LegacyInv, ContractInv

\* One step of the system keeps the invariant, is a step of the lifecycle or none,
\* and reports a finalization only of the request on screen.
THEOREM LegacyStep ==
  LegacyInv /\ [Next]_vars => LegacyInv' /\ [Lifecycle!Next]_log
<1> SUFFICES ASSUME LegacyInv, [Next]_vars PROVE LegacyInv' /\ [Lifecycle!Next]_log
  OBVIOUS
<1>1. ContractInv /\ LegacyTypeOK /\ PageOK /\ PageWaits /\ ProofsPublished
  BY DEF LegacyInv, ContractInv
<1>2. ContractInv' /\ [Lifecycle!Next]_log /\ decryptable \subseteq decryptable'
  BY <1>1, TimeTyped, NextIsContractStep, ContractPreserves
<1>3. PageOK' /\ PageWaits' /\ ProofsPublished'
  BY <1>1, <1>2, PagePreserves
<1>4. QED
  BY <1>2, <1>3 DEF LegacyInv

THEOREM LegacyInvariant == Spec => []LegacyInv
<1>1. QED
  BY LegacyInitially, LegacyStep, PTL DEF Spec

\* Balances, requests, nonces, proofs and the log keep their types: no balance
\* and no payment leaves the width of an encrypted amount.
THEOREM LegacyTypeCorrect == Spec => []LegacyTypeOK
<1>1. LegacyInv => LegacyTypeOK
  BY DEF LegacyInv, ContractInv
<1>2. QED
  BY <1>1, LegacyInvariant, PTL

\* docs/security/stale-handles.md, Theorem 3, for every interleaving of requests,
\* late proofs and cancellations: what a user is paid is what its balance lost.
THEOREM FundsAlwaysConserved == Spec => []FundsConserved
<1>1. LegacyInv => FundsConserved
  BY DEF LegacyInv, ContractInv
<1>2. QED
  BY <1>1, LegacyInvariant, PTL

\* docs/security/stale-handles.md, Theorem 1: the archived pool implements the
\* lifecycle of a withdrawal request, in which each ends at most once.
THEOREM LifecycleImplemented == Spec => FollowsLifecycle
<1>1. QED
  BY LegacyInvariant, LegacyInitially, LegacyStep, PTL DEF Spec, FollowsLifecycle, Lifecycle!Spec

\* useLegacyExit.ts, finalizeWithdrawal: an exit reported as finalized settled the
\* request on screen and paid nobody but its owner.
THEOREM FinalizedAlwaysShown == Spec => FinalizedIsShown
<1> DEFINE Reported ==
      (op.kind = "finalize" /\ op.stage = "mining" /\ op'.stage = "settling")
      => LET owner == op.request.user
         IN  /\ pending[owner].active /\ pending[owner].nonce = op.request.nonce
             /\ ~pending'[owner].active
             /\ \A user \in Users : paid'[user] # paid[user] => user = owner
<1>1. LegacyInv /\ [Next]_vars => [Reported]_vars
  <2>1. SUFFICES ASSUME LegacyInv, [Next]_vars,
                        op.kind = "finalize", op.stage = "mining", op'.stage = "settling"
                 PROVE  Reported
    OBVIOUS
  <2>2. LegacyTypeOK /\ PageOK /\ PageWaits /\ ProofsPublished
    BY <2>1 DEF LegacyInv, ContractInv
  <2>3. QED
    BY <2>1, <2>2, ReportedFinalization
<1>2. QED
  BY <1>1, LegacyInvariant, PTL DEF Spec, FinalizedIsShown
=============================================================================
