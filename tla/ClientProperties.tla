-------------------------- MODULE ClientProperties --------------------------
(***************************************************************************)
(* What must hold of the web application as a client of the pool.          *)
(***************************************************************************)
EXTENDS PoolClient

\* Type correctness.  A proof is asked for only with the nonce of a request.
ClientTypeOK ==
  /\ selected \in Accounts \cup {Nobody} /\ account \in Accounts \cup {Nobody}
  /\ action.kind \in Kinds \cup {"none"}
  /\ \A i \in DOMAIN action.todo :
       action.todo[i] \in {"prepare", "prompt", "mining", "read", "kms", "refresh", "finally"}
  /\ action.outcome \in {"none", "confirmed", "failed"}
  /\ \A tx \in mempool : tx.from \in Accounts /\ tx.for \in Accounts
  /\ At("kms") /\ action.kind \notin Reveals => action.nonce \in Nat
  /\ shown.balance.of \in Accounts \cup {Nobody} /\ shown.prize.of \in Accounts \cup {Nobody}
  /\ tab \in {"pool", "draw"} /\ amountTyped \in BOOLEAN

\* usePool.ts, activateParticipant: a draw entry that is reported as finalized
\* consumed the very request whose proof was asked for, and the account is in
\* the draw set exactly when the report says so, whatever replaced the request
\* or the account while the wallet and the KMS were answering.
ReportedEntryIsReal ==
  [][ (action.outcome = "none" /\ action'.outcome = "confirmed"
        /\ action.kind \in {"deposit", "activate"})
      => /\ pendingActivations[action.account] = action.nonce
         /\ pendingActivations'[action.account] = None
         /\ isParticipant'[action.account] = action.bit ]_clientVars

\* The wallet's account can change between the click and the signature: a
\* transaction the page built for one account moves no tokens of another one.
SwitchHarmless ==
  [][ \A tx \in mempool \ mempool' : \A user \in Users :
        wallet'[user] # wallet[user] => user = tx.for ]_clientVars

\* DepositCard.tsx: a deposit whose admission was interrupted, by a reload, a
\* refusal, a failure or a draw, is finalized in the end by a user who keeps
\* the page open on that account while the pool is not paused.
InterruptedDepositRecovers ==
  \A user \in Accounts :
    []<>(~paused /\ account = user)
      => (pendingActivations[user] # None ~> pendingActivations[user] = None)

\* docs/operations/snapshot-withdrawal-release.md: "withdrawals and ordinary
\* prize withdrawals remain available during both pending draws and owner
\* pause".  When the page says that withdrawals are available, its user can
\* enter an amount.
WithdrawalsAvailable == Idle /\ tab = "pool" /\ WithdrawalsEnabled => amountTyped \/ CanTypeAmount
=============================================================================
