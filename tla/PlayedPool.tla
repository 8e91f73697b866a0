----------------------------- MODULE PlayedPool -----------------------------
(* A starting point for TLC beyond the deployment: a pool that has run a     *)
(* round.  Saver deposited 1 and was admitted, everybody funded the reserve  *)
(* with 1 (Saver before the round), Saver won it, the cadence is open again  *)
(* and the others still hold the rest of their tokens.                       *)
EXTENDS ConfidentialPool

CONSTANT Saver

PlayedInit ==
  LET others == Users \ {Saver}
      ForSaver(x, y) == [u \in Users |-> IF u = Saver THEN x ELSE y]
  IN  /\ wallet = ForSaver(0, WalletGrant - 1) /\ custody = 2 + Cardinality(others)
      /\ balances = ForSaver(1 + PrizeAmount, 0)
      /\ prizes = ForSaver(PrizeAmount, 0)
      /\ positionInitialized = ForSaver(TRUE, FALSE)
      /\ totalAccountedBalance = 1 + PrizeAmount
      /\ totalEligibleBalance = 1 + PrizeAmount /\ eligibleTotalInitialized = TRUE
      /\ prizeReserve = 1 + Cardinality(others) - PrizeAmount /\ reserveInitialized = TRUE
      /\ participants = <<Saver>>
      /\ isParticipant = ForSaver(TRUE, FALSE)
      /\ participantIndexPlusOne = ForSaver(1, 0)
      /\ userDepositNonces = ForSaver(1, 0)
      /\ userWithdrawalNonces = ForSaver(0, 0)
      /\ participantActivationNonces = ForSaver(1, 0)
      /\ participantDeactivationNonces = ForSaver(0, 0)
      /\ pendingActivations = ForSaver(None, None)
      /\ pendingDeactivations = ForSaver(None, None)
      /\ pendingDraw = NoDraw
      /\ drawWeights = ForSaver(0, 0)
      /\ drawRequestNonce = 1 /\ nextDrawRequestTimestamp = DrawInterval
      /\ currentDrawId = 1 /\ lastDrawReady = TRUE /\ lastDrawVerificationTimestamp = 0
      /\ paused = FALSE
      /\ decryptable = {[handle |-> EligibilityHandle(Saver, 0), bit |-> TRUE],
                        [handle |-> ReadinessHandle(0), bit |-> TRUE]}
      /\ now = DrawInterval
=============================================================================
