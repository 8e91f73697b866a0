------------------------ MODULE LifecycleProperties ------------------------
(***************************************************************************)
(* What must hold of the lifecycle script.                                 *)
(***************************************************************************)
EXTENDS LifecycleScript

\* Type correctness.  A proof is asked for only with the nonce of a request, and
\* only the writing phases send transactions.
LifecycleTypeOK ==
  /\ env.drawId \in Nat /\ env.participants \subseteq Users
  /\ run.action \in Actions \cup {"none"} /\ run.amount \in Euint64s
  /\ At("kms") => run.nonce \in Nat
  /\ \A tx \in mempool : tx.action \in Writes /\ tx.amount \in Euint64s

Prints(evidence) == run'.printed \in evidence /\ run.printed \notin evidence

\* Evidence is printed of what happened: a confirmed deposit was credited and
\* not refunded, and an activation or deactivation that is printed as finalized
\* consumed the very request the proof was asked for, with the result that the
\* proof says, whatever happened to the pool since the guard passed.
EvidenceIsTrue ==
  [][ /\ Prints({"deposit-confirmed"}) =>
           userDepositNonces'[Actor] = userDepositNonces[Actor] + 1
      /\ Prints({"participant-activation-finalized"}) =>
           /\ pendingActivations[Actor] = run.nonce /\ pendingActivations'[Actor] = None
           /\ isParticipant'[Actor] = run.bit
      /\ Prints({"participant-deactivation-finalized"}) =>
           /\ pendingDeactivations[Actor] = run.nonce /\ pendingDeactivations'[Actor] = None
           /\ isParticipant'[Actor] = ~run.bit ]_lifecycleVars

\* The draw that a run prints as finalized or skipped is the one it requested:
\* a request that timed out, was cancelled and replaced while the script was
\* waiting is never settled in its name.
PrintedDrawIsOwn ==
  [][ Prints({"draw-finalized", "draw-skipped"}) =>
        /\ pendingDraw.active /\ pendingDraw.nonce = run.own
        /\ ~pendingDraw'.active
        /\ (run'.printed = "draw-finalized") = (currentDrawId' = currentDrawId + 1)
    ]_lifecycleVars

\* docs/operations/live-prize-lifecycle.md, Write Guard: a deposit whose second
\* transaction was interrupted or reverted is completed in the end by an
\* operator who inspects the pool and runs the activate phase.
InterruptedRunRecovers ==
  <>[]~paused => (pendingActivations[Actor] # None ~> pendingActivations[Actor] = None)
=============================================================================
