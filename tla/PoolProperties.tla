--------------------------- MODULE PoolProperties ---------------------------
(***************************************************************************)
(* What makes the pool correct, stated over the state of ConfidentialPool. *)
(***************************************************************************)
EXTENDS ConfidentialPool

SumOver(f, S) == SumFunctionOnSet(f, S)

-----------------------------------------------------------------------------
(* Types *)

Nonces == Nat
Requests == Nat \cup {None}

Handles == [kind : {"eligible", "zero"}, of : Users, nonce : Nonces]
             \cup [kind : {"ready"}, of : {Pool}, nonce : Nonces]

Draws == [active : BOOLEAN, nonce : Nonces, timestamp : Nat,
          total : Euint64s, reserve : Euint64s]

\* The values every storage slot of the pool, and of the token, may hold.
TypeOK ==
  /\ wallet \in [Users -> Nat] /\ custody \in Nat
  /\ balances \in [Users -> Euint64s] /\ prizes \in [Users -> Euint64s]
  /\ positionInitialized \in [Users -> BOOLEAN]
  /\ totalAccountedBalance \in Euint64s
  /\ totalEligibleBalance \in Euint64s /\ eligibleTotalInitialized \in BOOLEAN
  /\ prizeReserve \in Euint64s /\ reserveInitialized \in BOOLEAN
  /\ participants \in Seq(Users)
  /\ isParticipant \in [Users -> BOOLEAN]
  /\ participantIndexPlusOne \in [Users -> Nat]
  /\ userDepositNonces \in [Users -> Nonces]
  /\ userWithdrawalNonces \in [Users -> Nonces]
  /\ participantActivationNonces \in [Users -> Nonces]
  /\ participantDeactivationNonces \in [Users -> Nonces]
  /\ pendingActivations \in [Users -> Requests]
  /\ pendingDeactivations \in [Users -> Requests]
  /\ pendingDraw \in Draws
  /\ drawWeights \in [Users -> Euint64s]
  /\ drawRequestNonce \in Nonces /\ nextDrawRequestTimestamp \in Nat
  /\ currentDrawId \in Nat /\ lastDrawReady \in BOOLEAN
  /\ lastDrawVerificationTimestamp \in Nat
  /\ paused \in BOOLEAN
  /\ decryptable \subseteq [handle : Handles, bit : BOOLEAN]
  /\ now \in Nat

-----------------------------------------------------------------------------
(* Accounting *)

\* The pool always holds enough tokens to pay every position in full and the
\* whole prize reserve: no interleaving of deposits, silent zero transfers,
\* draws and withdrawals leaves a claim without tokens behind it.
Solvent ==
  /\ custody >= SumOver(balances, Users) + prizeReserve
  /\ totalAccountedBalance = SumOver(balances, Users)

\* The encrypted aggregate that the next draw scales its ticket with is the
\* sum of the participants' balances, through activation, removal, exits
\* during a draw and prize credits.
EligibleTotalExact == totalEligibleBalance = SumOver(balances, Members)

\* A prize counter never claims more than the position holds, although
\* withdrawals, compounding and prizes move the two separately.
PrizesWithinBalance == \A u \in Users : prizes[u] <= balances[u]

-----------------------------------------------------------------------------
(* Membership *)

\* The participant array, the membership flag and the index map that
\* swap-and-pop maintains describe the same bounded set without repetition.
MembershipConsistent ==
  /\ Len(participants) <= MaxParticipants
  /\ \A i \in 1 .. Len(participants) : participantIndexPlusOne[participants[i]] = i
  /\ \A u \in Users :
       IF isParticipant[u]
       THEN /\ participantIndexPlusOne[u] \in 1 .. Len(participants)
            /\ participants[participantIndexPlusOne[u]] = u
       ELSE participantIndexPlusOne[u] = 0

\* A pending activation or deactivation always asks about the balance the
\* position has now: whatever proof the KMS has signed for the stored handle,
\* it is not stale, and the two kinds of request never coexist.
RequestsAreFresh ==
  \A u \in Users :
    /\ pendingActivations[u] # None =>
         /\ ~isParticipant[u]
         /\ \A p \in decryptable :
              p.handle = EligibilityHandle(u, pendingActivations[u])
                => p.bit = (balances[u] > 0)
    /\ pendingDeactivations[u] # None =>
         /\ isParticipant[u]
         /\ \A p \in decryptable :
              p.handle = ZeroBalanceHandle(u, pendingDeactivations[u])
                => p.bit = (balances[u] = 0)

\* A position with savings is in the draw or has an activation request that
\* anyone can finalize: it is never left out with nothing to submit.
NoStrandedSavings ==
  \A u \in Users :
    balances[u] > 0 /\ ~isParticipant[u] =>
      /\ pendingActivations[u] # None
      /\ \E p \in decryptable :
           CheckSignatures(EligibilityHandle(u, pendingActivations[u]), TRUE, p)

\* No step admits a position without savings or removes one that has some,
\* whatever proof is submitted and in whatever order it arrives.
MembershipFollowsSavings ==
  [][\A u \in Users :
       /\ ~isParticipant[u] /\ isParticipant'[u] => balances[u] > 0
       /\ isParticipant[u] /\ ~isParticipant'[u] => balances[u] = 0]_vars

-----------------------------------------------------------------------------
(* Draws *)

\* While a draw is pending its snapshot adds up: the weights of the current
\* participants sum to the total the ticket is scaled with, the reserve is the
\* one the readiness predicate saw, and a true predicate can still be paid.
SnapshotConsistent ==
  pendingDraw.active =>
    /\ SumOver(drawWeights, Members) = pendingDraw.total
    /\ prizeReserve = pendingDraw.reserve
    /\ \A p \in decryptable :
         CheckSignatures(ReadinessHandle(pendingDraw.nonce), TRUE, p)
           => pendingDraw.total > 0 /\ prizeReserve >= PrizeAmount

\* While a draw stays pending nobody joins or leaves, no weight and no reserve
\* moves and no position grows; only withdrawals may shrink positions.
DrawFreezes ==
  [][pendingDraw.active /\ pendingDraw' = pendingDraw =>
       /\ participants' = participants
       /\ drawWeights' = drawWeights
       /\ prizeReserve' = prizeReserve
       /\ \A u \in Users : balances'[u] <= balances[u]]_vars

\* A settled draw pays exactly one participant, one that had weight when the
\* draw was requested, on top of what the position holds now: principal that
\* was withdrawn during the draw is not restored.
OneWinner ==
  [][currentDrawId' # currentDrawId =>
       \E w \in Members :
         /\ drawWeights[w] > 0
         /\ balances' = [balances EXCEPT ![w] = @ + PrizeAmount]
         /\ prizes' = [prizes EXCEPT ![w] = @ + PrizeAmount]
         /\ prizeReserve' = prizeReserve - PrizeAmount]_vars

\* Cancellations and skipped draws do not buy extra prizes: over the life of
\* the pool at most one prize is paid per interval, and the pending request
\* counts as one.
EmissionCapped ==
  /\ currentDrawId <= drawRequestNonce
  /\ pendingDraw.active => currentDrawId + 1 <= drawRequestNonce
  /\ drawRequestNonce * DrawInterval <= now + DrawInterval

-----------------------------------------------------------------------------
(* Progress and refinement *)

\* The weakest help the pool relies on: time passes and, once a pending
\* request is stale, somebody calls the permissionless cancelDraw.
LockSpec == Spec /\ WF_vars(Tick) /\ WF_vars(CancelDraw)

\* With the KMS never answering at all, every request that locks the pool is
\* released.
DrawLockReleased ==
  \A n \in 0 .. MaxDraws - 1 :
    pendingDraw.active /\ pendingDraw.nonce = n
      ~> ~(pendingDraw.active /\ pendingDraw.nonce = n)

\* Somebody keeps relaying the KMS's positive answers.  Draws disable the
\* relay again and again, hence strong fairness.
AdmissionSpec ==
  /\ LockSpec
  /\ \A u \in Users :
       SF_vars(\E p \in decryptable : FinalizeParticipantActivation(u, TRUE, p))

\* A position with savings enters the draw, unless its owner withdraws it or
\* the participants' slots are taken: replaced requests, stale proofs and draw
\* locks only delay it.
SavingsAdmitted ==
  \A u \in Users :
    balances[u] > 0 /\ ~isParticipant[u]
      ~> \/ isParticipant[u]
         \/ balances[u] = 0
         \/ Len(participants) = MaxParticipants

\* The pool implements the promise to savers: every transaction is one of the
\* abstract movements or changes nothing a saver owns.
Promise == INSTANCE PrizeSavings WITH
  Savers <- Users, Prize <- PrizeAmount, Grant <- WalletGrant,
  purse <- wallet, saved <- balances, pot <- prizeReserve,
  entry <- IF pendingDraw.active THEN [u \in Members |-> drawWeights[u]]
                                 ELSE [u \in {} |-> 0]

PromiseKept == Promise!Spec
=============================================================================
