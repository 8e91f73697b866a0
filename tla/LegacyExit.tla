----------------------------- MODULE LegacyExit -----------------------------
(***************************************************************************)
(* The way out of an archived pool: the withdrawal requests it stores      *)
(* (contracts/base/RequestBindingState.sol, and the two functions of the   *)
(* archived contract that the page calls), and the page that settles them  *)
(* (useLegacyExit.ts and LegacyExitCard.tsx).                              *)
(*                                                                         *)
(* The page acts on a copy of the request of the account it last heard of; *)
(* the contract acts on the request of the account that signs.  The KMS    *)
(* may never answer.                                                       *)
(***************************************************************************)
EXTENDS Euint64, Sequences, FiniteSets

CONSTANTS
  Users,
  Nobody,
  CancellationDelay,  \* _cancellationDelay
  Savings,            \* what every user holds when the pool is archived
  Amounts,            \* bound: the amounts requested
  MaxRequests,        \* bound on the requests of a user
  MaxRequestTime,     \* bound on the timestamp of a request
  MaxFinalizations,   \* bound on the finalizations the page starts
  MaxTroubles         \* bound on failures, reloads and account switches

ASSUME LegacyAssumption ==
  /\ Nobody \notin Users
  /\ CancellationDelay \in Nat
  /\ Savings \in Euint64s
  /\ Amounts \subseteq Euint64s
  /\ MaxRequests \in Nat /\ MaxRequestTime \in Nat
  /\ MaxFinalizations \in Nat /\ MaxTroubles \in Nat

VARIABLES
  balances, paid,         \* plaintexts of _balances, and what was transferred out
  pending,                \* _pendingWithdrawals
  userWithdrawalNonces,
  decryptable,            \* proofs the KMS may sign
  log,                    \* the events of each user's requests
  now,
  selected,               \* the wallet's account
  account,                \* the address the hook sees
  view,                   \* pendingWithdrawal: the copy on screen
  refresh,                \* what a refresh has read and not applied
  op, mempool,            \* the operation that runs; broadcast transactions
  finalizations, troubles

pool == <<balances, paid, pending, userWithdrawalNonces, decryptable, log>>
page == <<account, view, refresh, op>>
bounds == <<finalizations, troubles>>
vars == <<pool, now, selected, page, mempool, bounds>>

NoRequest == [active |-> FALSE, user |-> Nobody, nonce |-> 0, amount |-> 0, timestamp |-> 0]
NoRefresh == [ready |-> FALSE, request |-> NoRequest]
NoOp == [kind |-> "none", stage |-> "none", account |-> Nobody, signer |-> Nobody,
         request |-> NoRequest, clear |-> 0]

Trouble == troubles < MaxTroubles /\ troubles' = troubles + 1 /\ UNCHANGED finalizations

\* The handle of a request, named by what is hashed into its binding.
Handle(user, nonce) == <<user, nonce>>

Record(what, user, nonce) ==
  log' = [log EXCEPT ![user] = Append(@, [event |-> what, nonce |-> nonce])]
-----------------------------------------------------------------------------
(* The contract.                                                            *)

\* FAULT: the code does not look for a request that is still active.
CreateWithdrawalRequestAgain(user, approved, amount) ==
  LET nonce == userWithdrawalNonces[user]
  IN  /\ userWithdrawalNonces' = [userWithdrawalNonces EXCEPT ![user] = nonce + 1]
      /\ pending' = [pending EXCEPT ![user] =
           [active |-> TRUE, user |-> user, nonce |-> nonce, amount |-> amount,
            timestamp |-> now]]
      /\ decryptable' = decryptable \cup {[handle |-> Handle(user, nonce), clear |-> approved]}
      /\ Record("requested", user, nonce)

\* _createWithdrawalRequest, after which the handle is publicly decryptable.
CreateWithdrawalRequest(user, approved, amount) ==
  LET nonce == userWithdrawalNonces[user]
  IN  /\ ~pending[user].active
      /\ userWithdrawalNonces' = [userWithdrawalNonces EXCEPT ![user] = nonce + 1]
      /\ pending' = [pending EXCEPT ![user] =
           [active |-> TRUE, user |-> user, nonce |-> nonce, amount |-> amount,
            timestamp |-> now]]
      /\ decryptable' = decryptable \cup {[handle |-> Handle(user, nonce), clear |-> approved]}
      /\ Record("requested", user, nonce)

\* FAULT: the slot keeps its active flag.
DeleteWithdrawalRequestKept(user) == UNCHANGED pending

DeleteWithdrawalRequest(user) == pending' = [pending EXCEPT ![user] = NoRequest]

\* While the pool was open: the amount that is sufficient, or zero.
RequestWithdrawal(user, amount) ==
  /\ amount > 0
  /\ userWithdrawalNonces[user] < MaxRequests /\ now <= MaxRequestTime
  /\ CreateWithdrawalRequest(user, IF balances[user] >= amount THEN amount ELSE 0, amount)
  /\ UNCHANGED <<balances, paid>>

\* FAULT: the handle comes with the call instead of from storage.
ProofFitsAnyHandle(user, clear, proof) == proof.clear = clear

ProofFits(user, clear, proof) ==
  proof = [handle |-> Handle(user, pending[user].nonce), clear |-> clear]

CanFinalize(user, clear, proof) ==
  /\ pending[user].active
  /\ clear \in {0, pending[user].amount}
  /\ ProofFits(user, clear, proof)

FinalizeWithdrawal(user, clear, proof) ==
  /\ CanFinalize(user, clear, proof)
  /\ DeleteWithdrawalRequest(user)
  /\ balances' = [balances EXCEPT ![user] = Sub(@, clear)]
  /\ paid' = [paid EXCEPT ![user] = @ + clear]
  /\ Record("finalized", user, pending[user].nonce)
  /\ UNCHANGED <<userWithdrawalNonces, decryptable>>

CanCancel(user) ==
  pending[user].active /\ now - pending[user].timestamp > CancellationDelay

CancelWithdrawal(user) ==
  /\ CanCancel(user)
  /\ DeleteWithdrawalRequest(user)
  /\ Record("cancelled", user, pending[user].nonce)
  /\ UNCHANGED <<balances, paid, userWithdrawalNonces, decryptable>>
-----------------------------------------------------------------------------
(* The page.                                                                *)

\* refresh(): a request of the account of its closure, read and then shown.
StartRefresh ==
  /\ account # Nobody /\ ~refresh.ready
  /\ refresh' = [ready |-> TRUE, request |-> pending[account]]
  /\ UNCHANGED <<pool, now, selected, account, view, op, mempool, bounds>>

ApplyRefresh ==
  /\ refresh.ready
  /\ view' = refresh.request /\ refresh' = NoRefresh
  /\ UNCHANGED <<pool, now, selected, account, op, mempool, bounds>>

\* A read that fails leaves the copy of the request as it was.
FailRefresh ==
  /\ Trouble
  /\ refresh.ready
  /\ refresh' = NoRefresh
  /\ UNCHANGED <<pool, now, selected, account, view, op, mempool>>

\* useWallet reports the address.  The copy of a request is cleared only when
\* there is none; otherwise it stays until a refresh for the new one succeeds.
PageFollows ==
  /\ account # selected
  /\ account' = selected
  /\ view' = IF selected = Nobody THEN NoRequest ELSE view
  /\ UNCHANGED <<pool, now, selected, refresh, op, mempool, bounds>>

StartFinalize ==
  /\ op = NoOp /\ account # Nobody /\ view.active
  /\ finalizations < MaxFinalizations /\ finalizations' = finalizations + 1
  /\ op' = [NoOp EXCEPT !.kind = "finalize", !.stage = "kms", !.account = account,
                        !.request = view]
  /\ UNCHANGED <<pool, now, selected, account, view, refresh, mempool, troubles>>

\* publicDecrypt of the handle in the copy, and then the wallet's signer.
ProofArrives(proof) ==
  /\ op.kind = "finalize" /\ op.stage = "kms"
  /\ proof.handle = Handle(op.request.user, op.request.nonce)
  /\ op' = IF selected = Nobody THEN [op EXCEPT !.stage = "failed"]
           ELSE [op EXCEPT !.stage = "prompt", !.signer = selected, !.clear = proof.clear]
  /\ UNCHANGED <<pool, now, selected, account, view, refresh, mempool, bounds>>

\* FAULT: the timestamp, which the hook already scaled to milliseconds, is scaled again.
StaleNever(request) == FALSE

\* The card and the hook compare the same clock with the copy's timestamp.
Stale(request) == now > request.timestamp + CancellationDelay

StartCancel ==
  /\ op = NoOp /\ account # Nobody /\ view.active /\ Stale(view)
  /\ op' = [NoOp EXCEPT !.kind = "cancel", !.stage = "prepare", !.account = account,
                        !.request = view]
  /\ UNCHANGED <<pool, now, selected, account, view, refresh, mempool, bounds>>

PrepareCancel ==
  /\ op.kind = "cancel" /\ op.stage = "prepare"
  /\ op' = IF selected = Nobody THEN [op EXCEPT !.stage = "failed"]
           ELSE [op EXCEPT !.stage = "prompt", !.signer = selected]
  /\ UNCHANGED <<pool, now, selected, account, view, refresh, mempool, bounds>>

Transaction(o) ==
  [kind |-> o.kind, from |-> o.signer, clear |-> o.clear, page |-> TRUE,
   proof |-> [handle |-> Handle(o.request.user, o.request.nonce), clear |-> o.clear]]

Approve ==
  /\ op.stage = "prompt"
  /\ mempool' = mempool \cup {Transaction(op)}
  /\ op' = [op EXCEPT !.stage = "mining"]
  /\ UNCHANGED <<pool, now, selected, account, view, refresh, bounds>>

Throws ==
  /\ Trouble
  /\ op.stage \in {"kms", "prepare", "prompt"}
  /\ op' = [op EXCEPT !.stage = "failed"]
  /\ UNCHANGED <<pool, now, selected, account, view, refresh, mempool>>

CanSucceed(tx) ==
  IF tx.kind = "finalize" THEN CanFinalize(tx.from, tx.clear, tx.proof)
                          ELSE CanCancel(tx.from)

\* FAULT: the receipt's status is not looked at.
ReceiptStageAlways(succeeded) == "settling"

\* ensureReceipt
ReceiptStage(succeeded) == IF succeeded THEN "settling" ELSE "failed"

Included(tx, succeeded) ==
  /\ mempool' = mempool \ {tx}
  /\ op' = IF tx.page THEN [op EXCEPT !.stage = ReceiptStage(succeeded)] ELSE op
  /\ UNCHANGED <<now, selected, account, view, refresh>>

Mined(tx) ==
  /\ \/ tx.kind = "finalize" /\ FinalizeWithdrawal(tx.from, tx.clear, tx.proof)
     \/ tx.kind = "cancel" /\ CancelWithdrawal(tx.from)
  /\ Included(tx, TRUE)
  /\ UNCHANGED bounds

\* A transaction that could succeed may still run out of gas.
Reverted(tx) ==
  /\ IF CanSucceed(tx) THEN Trouble ELSE UNCHANGED bounds
  /\ Included(tx, FALSE)
  /\ UNCHANGED pool

\* The refresh of the closure, before the receipt is reported.  It may fail.
Settle ==
  /\ op.stage = "settling"
  /\ \/ view' = pending[op.account] /\ UNCHANGED bounds
     \/ UNCHANGED view /\ Trouble
  /\ op' = [op EXCEPT !.stage = "confirmed"]
  /\ UNCHANGED <<pool, now, selected, account, refresh, mempool>>

Dismiss ==
  /\ op.stage \in {"confirmed", "failed"}
  /\ op' = NoOp
  /\ UNCHANGED <<pool, now, selected, account, view, refresh, mempool, bounds>>

\* The dialog of a running operation has no way out: only a reload ends it.
Reload ==
  /\ account' = Nobody /\ view' = NoRequest /\ refresh' = NoRefresh /\ op' = NoOp
  /\ mempool' = {[tx EXCEPT !.page = FALSE] : tx \in mempool}
  /\ UNCHANGED <<pool, now, selected>>

ReloadAnyTime == Trouble /\ Reload
ReloadWhenStuck == op.stage = "kms" /\ Reload /\ UNCHANGED bounds
-----------------------------------------------------------------------------
OwnerSelects(user) ==
  /\ Trouble
  /\ user # selected
  /\ selected' = user
  /\ UNCHANGED <<pool, now, page, mempool>>

\* The same wallet elsewhere, or before the pool was archived.
Elsewhere ==
  /\ \/ \E user \in Users, amount \in Amounts : RequestWithdrawal(user, amount)
     \/ \E user \in Users, proof \in decryptable : FinalizeWithdrawal(user, proof.clear, proof)
     \/ \E user \in Users : CancelWithdrawal(user)
  /\ UNCHANGED <<now, selected, page, mempool, bounds>>

Tick ==
  /\ now <= MaxRequestTime + CancellationDelay
  /\ now' = now + 1
  /\ UNCHANGED <<pool, selected, page, mempool, bounds>>

Init ==
  /\ balances = [u \in Users |-> Savings] /\ paid = [u \in Users |-> 0]
  /\ pending = [u \in Users |-> NoRequest]
  /\ userWithdrawalNonces = [u \in Users |-> 0]
  /\ decryptable = {} /\ log = [u \in Users |-> << >>] /\ now = 0
  /\ selected \in Users /\ account = Nobody
  /\ view = NoRequest /\ refresh = NoRefresh
  /\ op = NoOp /\ mempool = {}
  /\ finalizations = 0 /\ troubles = 0

\* What goes on by itself once the user has clicked.
Continue ==
  \/ PrepareCancel \/ Approve
  \/ \E tx \in mempool : Mined(tx) \/ Reverted(tx)
  \/ Settle \/ Dismiss

Next ==
  \/ StartRefresh \/ ApplyRefresh \/ FailRefresh
  \/ PageFollows
  \/ StartFinalize \/ StartCancel
  \/ \E proof \in decryptable : ProofArrives(proof)
  \/ Continue
  \/ Throws
  \/ ReloadAnyTime \/ ReloadWhenStuck
  \/ \E user \in Users \cup {Nobody} : OwnerSelects(user)
  \/ Elsewhere
  \/ Tick

Spec == Init /\ [][Next]_vars

\* Nothing is assumed of the KMS.
Fairness ==
  /\ WF_vars(Continue) /\ WF_vars(StartRefresh) /\ WF_vars(ApplyRefresh)
  /\ WF_vars(PageFollows) /\ WF_vars(ReloadWhenStuck)
  /\ SF_vars(StartCancel)
  /\ WF_vars(Tick)

FairSpec == Spec /\ Fairness
=============================================================================
