--------------------------- MODULE PoolDocClaims ----------------------------
(***************************************************************************)
(* Two sentences the repository says about the draw lock that the code     *)
(* does not keep, each as an invariant a run refutes.  cancelledAt records *)
(* when the last request was cancelled; the pool does not store it.        *)
(***************************************************************************)
EXTENDS ConfidentialPool

VARIABLE cancelledAt

ClaimInit == Init /\ cancelledAt = None

ClaimNext ==
  \/ CancelDraw /\ cancelledAt' = now
  \/ /\ \/ \E user \in Users : UserStep(user)
        \/ \E proof \in decryptable : KeeperStep(proof)
        \/ RequestDraw
        \/ \E p \in BOOLEAN : SetPaused(p)
        \/ Tick
     /\ UNCHANGED cancelledAt

ClaimSpec == ClaimInit /\ [][ClaimNext]_<<vars, cancelledAt>>

\* docs/operations/draw-policy.md: a request "locks balance mutations until
\* settlement or cancellation".  While a draw is pending every participant's
\* position would then be the weight the draw gave it.  withdraw has no draw
\* guard, so a participant can exit during the draw.
PositionsLocked ==
  pendingDraw.active => \A u \in Members : balances[u] = drawWeights[u]

\* ConfidentialPool.sol, requestDraw: the cadence is "guaranteeing an unlocked
\* recovery window after a timeout".  Some time would then pass between the
\* cancellation of a stale request and the next request.  Nobody has to cancel
\* before the next request is due: then both happen at the same timestamp.
RecoveryWindow ==
  pendingDraw.active /\ cancelledAt # None => pendingDraw.timestamp > cancelledAt
=============================================================================
