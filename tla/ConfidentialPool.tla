-------------------------- MODULE ConfidentialPool --------------------------
(***************************************************************************)
(* contracts/ConfidentialPool.sol: the prize-savings pool, one action per  *)
(* external function, each a single transaction.  Ciphertexts are modelled *)
(* by their plaintexts (module Euint64).  A handle that was made publicly  *)
(* decryptable keeps its identity, because a proof of the KMS is accepted  *)
(* only for the handle that the pending request stores.                    *)
(*                                                                         *)
(* A call that reverts changes nothing and is no step.  Anyone may call    *)
(* the permissionless functions, so their caller is not a parameter.       *)
(*                                                                         *)
(* A definition whose comment starts with FAULT is a mistake this code     *)
(* could contain, written beside the definition it would replace.  No      *)
(* specification uses one: they show that the properties can fail.         *)
(***************************************************************************)
EXTENDS WeightedTicket, FiniteSets, Functions

CONSTANTS
  Users,               \* addresses that deposit, withdraw and fund the reserve
  Pool,                \* the subject of a draw's readiness handle
  MaxParticipants,     \* MAX_PARTICIPANTS
  CancellationDelay,   \* _drawCancellationDelay
  DrawInterval,        \* drawInterval
  PrizeAmount,         \* drawPrizeAmount
  WalletGrant,         \* tokens each user holds when the pool is deployed
  Amounts,             \* bound: the encrypted inputs that are enumerated
  MaxNonce,            \* bound on deposits and on withdrawals of a user
  MaxHandles,          \* bound on the predicates made publicly decryptable
  MaxDraws,            \* bound on drawRequestNonce
  MaxRequestTime       \* bound on the timestamp of a draw request

ASSUME PoolAssumption ==
  /\ IsFiniteSet(Users)
  /\ Pool \notin Users
  /\ MaxParticipants \in Nat
  /\ CancellationDelay \in Nat \ {0}
  /\ DrawInterval \in Nat
  /\ DrawInterval >= 2 * CancellationDelay
  /\ PrizeAmount \in Euint64s \ {0}
  /\ WalletGrant \in Nat
  /\ Cardinality(Users) * WalletGrant < Modulus   \* the token's supply fits a euint64
  /\ Amounts \subseteq Euint64s
  /\ MaxNonce \in Nat
  /\ MaxHandles \in Nat
  /\ MaxDraws \in Nat
  /\ MaxRequestTime \in Nat

VARIABLES
  wallet, custody,                         \* the ERC-7984 token: users' and the pool's balances
  balances, prizes, positionInitialized,
  totalAccountedBalance, totalEligibleBalance, eligibleTotalInitialized,
  prizeReserve, reserveInitialized,
  participants, isParticipant, participantIndexPlusOne,
  userDepositNonces, userWithdrawalNonces,
  participantActivationNonces, participantDeactivationNonces,
  pendingActivations, pendingDeactivations,  \* nonce of the active request, or None
  pendingDraw, drawWeights, drawRequestNonce, nextDrawRequestTimestamp,
  currentDrawId, lastDrawReady, lastDrawVerificationTimestamp,
  paused,
  decryptable,                             \* every predicate the KMS may sign, with its bit
  now                                      \* block.timestamp, counted from the deployment

token      == <<wallet, custody>>
position   == <<balances, prizes, positionInitialized>>
eligible   == <<totalEligibleBalance, eligibleTotalInitialized>>
reserve    == <<prizeReserve, reserveInitialized>>
membership == <<participants, isParticipant, participantIndexPlusOne>>
eventNonces == <<userDepositNonces, userWithdrawalNonces>>
activation == <<pendingActivations, participantActivationNonces>>
deactivation == <<pendingDeactivations, participantDeactivationNonces>>
outcome    == <<currentDrawId, lastDrawReady, lastDrawVerificationTimestamp>>
drawing    == <<pendingDraw, drawWeights, drawRequestNonce,
                nextDrawRequestTimestamp, outcome>>
vars == <<token, position, totalAccountedBalance, eligible, reserve, membership,
          eventNonces, activation, deactivation, drawing, paused, decryptable, now>>

None == -1

NoDraw == [active |-> FALSE, nonce |-> 0, timestamp |-> 0, total |-> 0, reserve |-> 0]

EligibilityHandle(user, nonce) == [kind |-> "eligible", of |-> user, nonce |-> nonce]
ZeroBalanceHandle(user, nonce) == [kind |-> "zero", of |-> user, nonce |-> nonce]
ReadinessHandle(nonce)         == [kind |-> "ready", of |-> Pool, nonce |-> nonce]

\* FHE.makePubliclyDecryptable: from now on the KMS signs this bit for anyone.
MakePubliclyDecryptable(handle, bit) ==
  /\ Cardinality(decryptable) < MaxHandles
  /\ decryptable' = decryptable \cup {[handle |-> handle, bit |-> bit]}

\* FAULT: any proof about the same user and predicate passes, stale ones too.
CheckSignaturesUnbound(handle, bit, proof) ==
  /\ proof.bit = bit
  /\ proof.handle.kind = handle.kind /\ proof.handle.of = handle.of

\* FAULT: the clear value is not part of what the KMS signed.
CheckSignaturesAnyBit(handle, bit, proof) == proof.handle = handle

\* FHE.checkSignatures: the proof is for this handle and this clear value.
CheckSignatures(handle, bit, proof) == proof = [handle |-> handle, bit |-> bit]

Members == Range(participants)

Init ==
  /\ wallet = [u \in Users |-> WalletGrant] /\ custody = 0
  /\ balances = [u \in Users |-> 0]
  /\ prizes = [u \in Users |-> 0]
  /\ positionInitialized = [u \in Users |-> FALSE]
  /\ totalAccountedBalance = 0
  /\ totalEligibleBalance = 0 /\ eligibleTotalInitialized = FALSE
  /\ prizeReserve = 0 /\ reserveInitialized = FALSE
  /\ participants = << >>
  /\ isParticipant = [u \in Users |-> FALSE]
  /\ participantIndexPlusOne = [u \in Users |-> 0]
  /\ userDepositNonces = [u \in Users |-> 0]
  /\ userWithdrawalNonces = [u \in Users |-> 0]
  /\ participantActivationNonces = [u \in Users |-> 0]
  /\ participantDeactivationNonces = [u \in Users |-> 0]
  /\ pendingActivations = [u \in Users |-> None]
  /\ pendingDeactivations = [u \in Users |-> None]
  /\ pendingDraw = NoDraw
  /\ drawWeights = [u \in Users |-> 0]
  /\ drawRequestNonce = 0 /\ nextDrawRequestTimestamp = 0
  /\ currentDrawId = 0 /\ lastDrawReady = FALSE /\ lastDrawVerificationTimestamp = 0
  /\ paused = FALSE
  /\ decryptable = {}
  /\ now = 0
-----------------------------------------------------------------------------
(* Internal functions.  Each reads the balance the caller has just written. *)

\* FAULT: a request that is already pending is kept.
RequestParticipantActivationOnce(user) ==
  LET nonce == participantActivationNonces[user]
  IN  IF pendingActivations[user] # None
      THEN UNCHANGED <<activation, decryptable>>
      ELSE /\ participantActivationNonces' =
                [participantActivationNonces EXCEPT ![user] = nonce + 1]
           /\ pendingActivations' = [pendingActivations EXCEPT ![user] = nonce]
           /\ MakePubliclyDecryptable(EligibilityHandle(user, nonce), balances'[user] > 0)

RequestParticipantActivation(user) ==
  LET nonce == participantActivationNonces[user]
  IN  /\ participantActivationNonces' =
           [participantActivationNonces EXCEPT ![user] = nonce + 1]
      /\ pendingActivations' = [pendingActivations EXCEPT ![user] = nonce]
      /\ MakePubliclyDecryptable(EligibilityHandle(user, nonce), balances'[user] > 0)

\* FAULT: the nonce is counted from minus one.
RequestParticipantDeactivationEarly(user) ==
  LET nonce == participantDeactivationNonces[user] - 1
  IN  /\ participantDeactivationNonces' =
           [participantDeactivationNonces EXCEPT ![user] = @ + 1]
      /\ pendingDeactivations' = [pendingDeactivations EXCEPT ![user] = nonce]
      /\ MakePubliclyDecryptable(ZeroBalanceHandle(user, nonce), balances'[user] = 0)

\* The request it replaces, if any, is the one invalidated first.
RequestParticipantDeactivation(user) ==
  LET nonce == participantDeactivationNonces[user]
  IN  /\ participantDeactivationNonces' =
           [participantDeactivationNonces EXCEPT ![user] = nonce + 1]
      /\ pendingDeactivations' = [pendingDeactivations EXCEPT ![user] = nonce]
      /\ MakePubliclyDecryptable(ZeroBalanceHandle(user, nonce), balances'[user] = 0)

\* FAULT: the pending requests survive the change of balance.
InvalidateParticipantDeactivationsSkipped(users) == UNCHANGED pendingDeactivations

InvalidateParticipantDeactivations(users) ==
  pendingDeactivations' =
    [u \in Users |-> IF u \in users THEN None ELSE pendingDeactivations[u]]

\* FAULT: the index of the member that was moved is not updated.
RemoveParticipantStaleIndex(user) ==
  LET index == participantIndexPlusOne[user]
      last  == Len(participants)
  IN  /\ index # 0
      /\ participants' =
           SubSeq([participants EXCEPT ![index] = participants[last]], 1, last - 1)
      /\ participantIndexPlusOne' = [participantIndexPlusOne EXCEPT ![user] = 0]
      /\ isParticipant' = [isParticipant EXCEPT ![user] = FALSE]

\* Swap-and-pop.
RemoveParticipant(user) ==
  LET index == participantIndexPlusOne[user]
      last  == Len(participants)
      moved == participants[last]
  IN  /\ index # 0
      /\ participants' =
           SubSeq([participants EXCEPT ![index] = moved], 1, last - 1)
      /\ participantIndexPlusOne' =
           [participantIndexPlusOne EXCEPT ![moved] = index, ![user] = 0]
      /\ isParticipant' = [isParticipant EXCEPT ![user] = FALSE]

\* A total that was never written decrypts to zero, so that both branches of
\* the code's initialisation tests are the same addition.
CreditDeposit(user, amount) ==
  /\ positionInitialized' = [positionInitialized EXCEPT ![user] = TRUE]
  /\ balances' = [balances EXCEPT ![user] = Add(@, amount)]
  /\ totalAccountedBalance' = Add(totalAccountedBalance, amount)
  /\ userDepositNonces[user] < MaxNonce
  /\ userDepositNonces' = [userDepositNonces EXCEPT ![user] = @ + 1]
  /\ \/ /\ isParticipant[user]
        /\ InvalidateParticipantDeactivations({user})
        /\ totalEligibleBalance' = Add(totalEligibleBalance, amount)
        /\ UNCHANGED <<activation, participantDeactivationNonces, decryptable>>
     \/ /\ ~isParticipant[user]
        /\ RequestParticipantActivation(user)
        /\ UNCHANGED <<totalEligibleBalance, deactivation>>
  /\ UNCHANGED <<prizes, eligibleTotalInitialized, reserve, userWithdrawalNonces>>

CreditPrizeReserve(amount) ==
  /\ prizeReserve' = Add(prizeReserve, amount)
  /\ reserveInitialized' = TRUE
  /\ UNCHANGED <<position, totalAccountedBalance, eligible, eventNonces,
                 activation, deactivation, decryptable>>
-----------------------------------------------------------------------------
(* The token calls the pool inside a transfer and takes the moved amount    *)
(* back when the callback answers an encrypted false.                       *)

\* FAULT: the callback forgets the draw lock.
AcceptsDuringDraw(from, action) ==
  /\ ~paused
  /\ action \in {"deposit", "prizeReserve"}
  /\ action = "deposit" => isParticipant[from] \/ Len(participants) < MaxParticipants

Accepts(from, action) ==
  /\ ~paused
  /\ ~pendingDraw.active
  /\ \/ /\ action = "deposit"
        /\ isParticipant[from] \/ Len(participants) < MaxParticipants
     \/ action = "prizeReserve"

OnConfidentialTransferReceived(from, amount, action) ==
  /\ Accepts(from, action)
  /\ \/ action = "deposit" /\ CreditDeposit(from, amount)
     \/ action = "prizeReserve" /\ CreditPrizeReserve(amount)
  /\ UNCHANGED <<membership, drawing, paused, now>>

\* The token moves the whole amount or, silently, nothing.
ConfidentialTransferAndCall(from, amount, action) ==
  \E moved \in {0, amount} :
    /\ moved <= wallet[from]
    /\ OnConfidentialTransferReceived(from, moved, action)
    /\ wallet' = [wallet EXCEPT ![from] = @ - moved]
    /\ custody' = custody + moved

\* "other" stands for data that names no action of the pool.
RefundedTransfer(from, action) ==
  /\ ~Accepts(from, action)
  /\ UNCHANGED vars

ConfidentialTransfer(to, amount) ==
  /\ amount <= custody
  /\ wallet' = [wallet EXCEPT ![to] = @ + amount]
  /\ custody' = custody - amount
-----------------------------------------------------------------------------
(* External functions.                                                      *)

\* FAULT: no sufficiency check before the transfer.
ApprovedUnchecked(user, requested) == requested

Approved(user, requested) == IF balances[user] >= requested THEN requested ELSE 0

Withdraw(user, requested) ==
  /\ positionInitialized[user]
  /\ userWithdrawalNonces[user] < MaxNonce
  /\ \E transferred \in {0, Approved(user, requested)} :
       /\ ConfidentialTransfer(user, transferred)
       /\ balances' = [balances EXCEPT ![user] = Sub(@, transferred)]
       /\ prizes' = [prizes EXCEPT ![user] = Sub(@, Smaller(@, transferred))]
       /\ totalAccountedBalance' = Sub(totalAccountedBalance, transferred)
       /\ \/ /\ isParticipant[user]
             /\ totalEligibleBalance' = Sub(totalEligibleBalance, transferred)
             /\ RequestParticipantDeactivation(user)
             /\ UNCHANGED activation
          \/ /\ ~isParticipant[user]
             /\ RequestParticipantActivation(user)
             /\ UNCHANGED <<totalEligibleBalance, deactivation>>
  /\ userWithdrawalNonces' = [userWithdrawalNonces EXCEPT ![user] = @ + 1]
  /\ UNCHANGED <<positionInitialized, eligibleTotalInitialized, reserve,
                 membership, userDepositNonces, drawing, paused, now>>

RequestDeactivation(user) ==
  /\ ~pendingDraw.active
  /\ isParticipant[user]
  /\ UNCHANGED position
  /\ RequestParticipantDeactivation(user)
  /\ UNCHANGED <<token, totalAccountedBalance, eligible, reserve, membership,
                 eventNonces, activation, drawing, paused, now>>

FinalizeParticipantActivation(user, isEligible, proof) ==
  /\ ~pendingDraw.active
  /\ ~isParticipant[user]
  /\ pendingActivations[user] # None
  /\ CheckSignatures(EligibilityHandle(user, pendingActivations[user]), isEligible, proof)
  /\ pendingActivations' = [pendingActivations EXCEPT ![user] = None]
  /\ \/ /\ isEligible
        /\ Len(participants) < MaxParticipants
        /\ isParticipant' = [isParticipant EXCEPT ![user] = TRUE]
        /\ participants' = Append(participants, user)
        /\ participantIndexPlusOne' =
             [participantIndexPlusOne EXCEPT ![user] = Len(participants) + 1]
        /\ eligibleTotalInitialized' = TRUE
        /\ totalEligibleBalance' = Add(totalEligibleBalance, balances[user])
     \/ /\ ~isEligible
        /\ UNCHANGED <<membership, eligible>>
  /\ UNCHANGED <<token, position, totalAccountedBalance, reserve, eventNonces,
                 participantActivationNonces, deactivation, drawing, paused,
                 decryptable, now>>

FinalizeParticipantDeactivation(user, isZero, proof) ==
  /\ ~pendingDraw.active
  /\ isParticipant[user]
  /\ pendingDeactivations[user] # None
  /\ CheckSignatures(ZeroBalanceHandle(user, pendingDeactivations[user]), isZero, proof)
  /\ pendingDeactivations' = [pendingDeactivations EXCEPT ![user] = None]
  /\ \/ isZero /\ RemoveParticipant(user)
     \/ ~isZero /\ UNCHANGED membership
  /\ UNCHANGED <<token, position, totalAccountedBalance, eligible, reserve,
                 eventNonces, activation, participantDeactivationNonces,
                 drawing, paused, decryptable, now>>

\* FAULT: the two halves of the readiness predicate are or-ed.
ReadyEither == totalEligibleBalance > 0 \/ prizeReserve >= PrizeAmount

Ready == totalEligibleBalance > 0 /\ prizeReserve >= PrizeAmount

\* The caller's prize must equal PrizeAmount, so it is not a parameter.
RequestDraw ==
  /\ ~paused
  /\ ~pendingDraw.active
  /\ now >= nextDrawRequestTimestamp
  /\ eligibleTotalInitialized /\ participants # << >>
  /\ reserveInitialized
  /\ drawRequestNonce < MaxDraws /\ now <= MaxRequestTime
  /\ drawWeights' = [u \in Users |-> IF u \in Members THEN balances[u] ELSE drawWeights[u]]
  /\ MakePubliclyDecryptable(ReadinessHandle(drawRequestNonce), Ready)
  /\ drawRequestNonce' = drawRequestNonce + 1
  /\ nextDrawRequestTimestamp' = now + DrawInterval
  /\ pendingDraw' = [active |-> TRUE, nonce |-> drawRequestNonce, timestamp |-> now,
                     total |-> totalEligibleBalance, reserve |-> prizeReserve]
  /\ UNCHANGED <<token, position, totalAccountedBalance, eligible, reserve, membership,
                 eventNonces, activation, deactivation, outcome, paused, now>>

\* The part of finalizeDraw before its early return.
SettleRequest(ready, proof) ==
  /\ pendingDraw.active
  /\ CheckSignatures(ReadinessHandle(pendingDraw.nonce), ready, proof)
  /\ pendingDraw' = NoDraw
  /\ lastDrawReady' = ready
  /\ lastDrawVerificationTimestamp' = now
  /\ UNCHANGED <<token, positionInitialized, eligibleTotalInitialized,
                 reserveInitialized, membership, eventNonces, activation,
                 participantDeactivationNonces, drawRequestNonce,
                 nextDrawRequestTimestamp, paused, decryptable, now>>

SkipDraw(proof) ==
  /\ SettleRequest(FALSE, proof)
  /\ UNCHANGED <<balances, prizes, totalAccountedBalance, totalEligibleBalance,
                 prizeReserve, pendingDeactivations, drawWeights, currentDrawId>>

ExecuteDraw(proof, random) ==
  LET ticket  == SampleWeightedTicket(random, pendingDraw.total)
      weights == [i \in 1 .. Len(participants) |-> drawWeights[participants[i]]]
      winners == {participants[i] :
                    i \in {j \in 1 .. Len(participants) : IsWinner(weights, ticket, j)}}
      Award(u) == IF u \in winners THEN PrizeAmount ELSE 0
  IN  /\ SettleRequest(TRUE, proof)
      /\ InvalidateParticipantDeactivations(Members)
      /\ drawWeights' = [u \in Users |-> IF u \in Members THEN 0 ELSE drawWeights[u]]
      /\ balances' = [u \in Users |-> Add(balances[u], Award(u))]
      /\ prizes' = [u \in Users |-> Add(prizes[u], Award(u))]
      /\ prizeReserve' = Sub(prizeReserve, PrizeAmount)
      /\ totalAccountedBalance' = Add(totalAccountedBalance, PrizeAmount)
      /\ totalEligibleBalance' = Add(totalEligibleBalance, PrizeAmount)
      /\ currentDrawId' = currentDrawId + 1

\* FAULT: cancelDraw carries whenNotPaused.
CancelDrawUnlessPaused ==
  /\ ~paused
  /\ pendingDraw.active
  /\ now - pendingDraw.timestamp > CancellationDelay
  /\ pendingDraw' = NoDraw
  /\ UNCHANGED <<token, position, totalAccountedBalance, eligible, reserve, membership,
                 eventNonces, activation, deactivation, drawWeights, drawRequestNonce,
                 nextDrawRequestTimestamp, outcome, paused, decryptable, now>>

\* FAULT: a cancelled request gives its place in the cadence back.
CancelDrawReopened ==
  /\ pendingDraw.active
  /\ now - pendingDraw.timestamp > CancellationDelay
  /\ pendingDraw' = NoDraw
  /\ nextDrawRequestTimestamp' = now
  /\ UNCHANGED <<token, position, totalAccountedBalance, eligible, reserve, membership,
                 eventNonces, activation, deactivation, drawWeights, drawRequestNonce,
                 outcome, paused, decryptable, now>>

CancelDraw ==
  /\ pendingDraw.active
  /\ now - pendingDraw.timestamp > CancellationDelay
  /\ pendingDraw' = NoDraw
  /\ UNCHANGED <<token, position, totalAccountedBalance, eligible, reserve, membership,
                 eventNonces, activation, deactivation, drawWeights, drawRequestNonce,
                 nextDrawRequestTimestamp, outcome, paused, decryptable, now>>

CompoundPrizes(user) ==
  /\ ~paused
  /\ positionInitialized[user]
  /\ prizes' = [prizes EXCEPT ![user] = 0]
  /\ UNCHANGED <<token, balances, positionInitialized, totalAccountedBalance, eligible,
                 reserve, membership, eventNonces, activation, deactivation, drawing,
                 paused, decryptable, now>>

\* pause and unpause, which the owner calls.
SetPaused(p) ==
  /\ paused # p
  /\ paused' = p
  /\ UNCHANGED <<token, position, totalAccountedBalance, eligible, reserve, membership,
                 eventNonces, activation, deactivation, drawing, decryptable, now>>

\* Time passes until the last request the bound allows can be cancelled.
Tick ==
  /\ now <= MaxRequestTime + CancellationDelay
  /\ now' = now + 1
  /\ UNCHANGED <<token, position, totalAccountedBalance, eligible, reserve, membership,
                 eventNonces, activation, deactivation, drawing, paused, decryptable>>
-----------------------------------------------------------------------------
UserStep(user) ==
  \/ \E amount \in Amounts, action \in {"deposit", "prizeReserve"} :
       ConfidentialTransferAndCall(user, amount, action)
  \/ \E action \in {"deposit", "prizeReserve", "other"} : RefundedTransfer(user, action)
  \/ \E requested \in Amounts : Withdraw(user, requested)
  \/ RequestDeactivation(user)
  \/ CompoundPrizes(user)

KeeperStep(proof) ==
  \/ \E user \in Users, bit \in BOOLEAN :
       \/ FinalizeParticipantActivation(user, bit, proof)
       \/ FinalizeParticipantDeactivation(user, bit, proof)
  \/ SkipDraw(proof)
  \/ \E random \in Euint64s : ExecuteDraw(proof, random)

Next ==
  \/ \E user \in Users : UserStep(user)
  \/ \E proof \in decryptable : KeeperStep(proof)
  \/ RequestDraw
  \/ CancelDraw
  \/ \E p \in BOOLEAN : SetPaused(p)
  \/ Tick

Spec == Init /\ [][Next]_vars
=============================================================================
