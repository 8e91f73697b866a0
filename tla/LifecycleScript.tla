-------------------------- MODULE LifecycleScript --------------------------
(***************************************************************************)
(* scripts/live-prize-lifecycle.ts: one process performs one phase of the  *)
(* prize lifecycle for the wallet Actor.  It reads the pool, one call      *)
(* after the other, compares what it read with what its operator expects,  *)
(* decrypts, sends its transactions and prints evidence of their receipts. *)
(* The pool is module ConfidentialPool, which everybody else uses as well. *)
(*                                                                         *)
(* Every await is a step of its own: the world may change before it, a     *)
(* call may fail and the process may be killed.  What it broadcast stays   *)
(* in the mempool.  The confirmation phrase repeats the action, the amount *)
(* and the draw ID that the guard compares, and is left out.               *)
(***************************************************************************)
EXTENDS ConfidentialPool, SequencesExt

CONSTANTS
  Actor,       \* LIFECYCLE_WALLET_ADDRESS
  MaxRuns,     \* bound on the runs (preflights and activations are not counted)
  MaxTroubles  \* bound on failures, kills and what others do to the pool

ASSUME ActorAssumption == Actor \in Users

VARIABLES
  env,         \* what the operator expects: the draw ID and the participants
  run,         \* the process, or NoRun
  mempool,     \* broadcast transactions that are not in a block
  runs, troubles

script == <<env, run, mempool>>
lifecycleVars == <<vars, script, runs, troubles>>

Actions == {"preflight", "deposit", "activate", "deactivate", "draw", "reveal-prize",
            "claim-prize", "withdraw"}
Writes == Actions \ {"preflight", "reveal-prize"}

Unread == [paused |-> FALSE, drawId |-> 0, count |-> 0, next |-> 0, pending |-> FALSE,
           participants |-> <<>>, wallet |-> 0, position |-> 0, prize |-> 0]

NoRun == [action |-> "none", todo |-> <<>>, seen |-> Unread, amount |-> 0,
          nonce |-> None, bit |-> FALSE, own |-> None, printed |-> "nothing"]

Trouble == troubles < MaxTroubles /\ troubles' = troubles + 1 /\ UNCHANGED runs
OnlyRun == UNCHANGED <<vars, env, mempool>>
-----------------------------------------------------------------------------
(* A run, as what it awaits.                                                *)

\* Of the public reads, those that a later check of this action is about.
PublicReads(action) ==
  <<"paused", "drawId", "count">>
    \o (IF action = "draw" THEN <<"next">> ELSE <<>>)
    \o <<"pending", "participants">>

\* privateValueNamesForAction: their handles are read, in this order, before
\* the guard, and decrypted after it.
PrivateReads(action) ==
  CASE action = "deposit"      -> <<"wallet">>
    [] action = "withdraw"     -> <<"position">>
    [] action = "claim-prize"  -> <<"position", "prize">>
    [] action = "reveal-prize" -> <<"prize">>
    [] OTHER                   -> <<>>

ActivatePhase == <<"read", "kms", "send", "receipt">>
DeactivatePhase == <<"read", "kms", "send", "receipt">>
DepositPhase == <<"decrypt", "send", "receipt">> \o ActivatePhase
DrawPhase == <<"send", "receipt", "read", "kms", "send", "receipt">>
WithdrawPhase == <<"decrypt", "send", "receipt">>

Phase(action) ==
  CASE action = "activate"                    -> ActivatePhase
    [] action = "deactivate"                  -> DeactivatePhase
    [] action = "deposit"                     -> DepositPhase
    [] action = "draw"                        -> DrawPhase
    [] action \in {"withdraw", "claim-prize"} -> WithdrawPhase
    [] action = "reveal-prize"                -> <<"decrypt">>
    [] action = "preflight"                   -> <<>>

AmountsOf(action) ==
  IF action \in {"deposit", "withdraw"} THEN Amounts \ {0} ELSE {0}

Idle == run.todo = <<>>
At(step) == ~Idle /\ Head(run.todo) = step
Advance == [run EXCEPT !.todo = Tail(@)]
Throw == run' = NoRun

Start(action) ==
  /\ Idle
  /\ \E amount \in AmountsOf(action) :
       run' = [NoRun EXCEPT !.action = action, !.amount = amount,
                 !.todo = PublicReads(action) \o PrivateReads(action)
                            \o <<"guard">> \o Phase(action)]
  /\ OnlyRun /\ UNCHANGED troubles

StartCounted ==
  /\ runs < MaxRuns /\ runs' = runs + 1
  /\ \E action \in Actions \ {"preflight", "activate"} : Start(action)

StartPreflight == Start("preflight") /\ UNCHANGED runs
StartActivate == Start("activate") /\ UNCHANGED runs
-----------------------------------------------------------------------------
(* Preflight.                                                               *)

ValueOf(field) ==
  CASE field = "paused"   -> paused
    [] field = "drawId"   -> currentDrawId
    [] field = "count"    -> Len(participants)
    [] field = "next"     -> nextDrawRequestTimestamp
    [] field = "pending"  -> pendingDraw.active
    [] field = "wallet"   -> wallet[Actor]
    [] field = "position" -> balances[Actor]
    [] field = "prize"    -> prizes[Actor]

ReadPublic ==
  \E field \in DOMAIN Unread \ {"participants"} :
    /\ At(field)
    /\ run' = [Advance EXCEPT !.seen[field] = ValueOf(field)]
    /\ OnlyRun /\ UNCHANGED <<runs, troubles>>

\* One index after the other, up to the count that was read before.
ReadParticipants ==
  LET index == Len(run.seen.participants) + 1
  IN  /\ At("participants")
      /\ \/ index > run.seen.count /\ run' = Advance
         \/ /\ index <= run.seen.count /\ index <= Len(participants)
            /\ run' = [run EXCEPT !.seen.participants = Append(@, participants[index])]
         \/ index <= run.seen.count /\ index > Len(participants) /\ Throw
      /\ OnlyRun /\ UNCHANGED <<runs, troubles>>

ExpectedParticipants ==
  /\ Range(run.seen.participants) = env.participants
  /\ Len(run.seen.participants) = Cardinality(env.participants)

WriteGuard ==
  /\ ExpectedParticipants
  /\ ~run.seen.paused
  /\ ~run.seen.pending
  /\ run.seen.drawId = env.drawId
  /\ run.action = "draw" => now >= run.seen.next

\* What was read for the guard alone is not used again.
Guarded == [Advance EXCEPT !.seen = [Unread EXCEPT !.wallet = run.seen.wallet,
                                                   !.position = run.seen.position,
                                                   !.prize = run.seen.prize]]

\* A preflight ends by printing; its operator takes the expectations from there.
Guard ==
  /\ At("guard")
  /\ run' = IF run.action \in Writes /\ ~WriteGuard THEN NoRun ELSE Guarded
  /\ env' = IF run.action = "preflight"
            THEN [drawId |-> run.seen.drawId, participants |-> Range(run.seen.participants)]
            ELSE env
  /\ UNCHANGED <<vars, mempool, runs, troubles>>

\* The decrypted values must cover the amount.
DecryptPrivateValues ==
  LET amount == IF run.action = "claim-prize" THEN run.seen.prize ELSE run.amount
      covered == CASE run.action = "deposit" -> run.seen.wallet >= amount
                   [] run.action \in {"withdraw", "claim-prize"} ->
                        amount > 0 /\ run.seen.position >= amount
                   [] run.action = "reveal-prize" -> TRUE
  IN  /\ At("decrypt")
      /\ run' = IF covered THEN [Advance EXCEPT !.amount = amount, !.seen = Unread] ELSE NoRun
      /\ OnlyRun /\ UNCHANGED <<runs, troubles>>
-----------------------------------------------------------------------------
(* Requests, proofs and transactions.                                       *)

\* FAULT: the pending request is not compared with the one of the receipt.
DrawMatchesAny == pendingDraw.active

DrawMatches == pendingDraw.active /\ pendingDraw.nonce = run.own

ReadRequest ==
  LET nonce == CASE run.action \in {"deposit", "activate"} -> pendingActivations[Actor]
                 [] run.action = "deactivate" -> pendingDeactivations[Actor]
                 [] run.action = "draw" -> IF DrawMatches THEN pendingDraw.nonce ELSE None
  IN  /\ At("read")
      /\ run' = IF nonce = None THEN NoRun ELSE [Advance EXCEPT !.nonce = nonce]
      /\ OnlyRun /\ UNCHANGED <<runs, troubles>>

Handle(action, nonce) ==
  CASE action \in {"deposit", "activate"} -> EligibilityHandle(Actor, nonce)
    [] action = "deactivate"              -> ZeroBalanceHandle(Actor, nonce)
    [] action = "draw"                    -> ReadinessHandle(nonce)

\* FAULT: a false predicate ends the run instead of being finalized.
FinalizesOnlyTrue(bit) == bit

\* A proof of either bit is presented: it is the contract that decides.
Finalizes(bit) == TRUE

PublicDecrypt ==
  /\ At("kms")
  /\ \E proof \in decryptable :
       /\ proof.handle = Handle(run.action, run.nonce)
       /\ run' = IF Finalizes(proof.bit) THEN [Advance EXCEPT !.bit = proof.bit] ELSE NoRun
  /\ OnlyRun /\ UNCHANGED <<runs, troubles>>

Send ==
  /\ At("send")
  /\ mempool' = mempool \cup
       {[action |-> run.action, amount |-> run.amount, nonce |-> run.nonce, bit |-> run.bit,
         opens |-> Contains(run.todo, "read"), awaited |-> TRUE]}
  /\ run' = Advance
  /\ UNCHANGED <<vars, env, runs, troubles>>

\* What a transaction does in the block that includes it.  The first one of a
\* deposit or a draw opens the request that the second one finalizes.
Effect(tx) ==
  LET proof == [handle |-> Handle(tx.action, tx.nonce), bit |-> tx.bit]
  IN  CASE tx.action \in {"withdraw", "claim-prize"} -> Withdraw(Actor, tx.amount)
        [] tx.opens /\ tx.action = "deposit" ->
             \/ ConfidentialTransferAndCall(Actor, tx.amount, "deposit")
             \/ RefundedTransfer(Actor, "deposit")
        [] tx.opens /\ tx.action = "draw" -> RequestDraw
        [] ~tx.opens /\ tx.action \in {"deposit", "activate"} ->
             FinalizeParticipantActivation(Actor, tx.bit, proof)
        [] tx.action = "deactivate" -> FinalizeParticipantDeactivation(Actor, tx.bit, proof)
        [] ~tx.opens /\ tx.action = "draw" ->
             \/ ~tx.bit /\ SkipDraw(proof)
             \/ tx.bit /\ \E random \in Euint64s : ExecuteDraw(proof, random)

\* FAULT: a successful receipt is taken for a credited deposit.
DepositedAssumed == TRUE

\* The receipt holds the Deposited event: the token refunds a refused transfer
\* in a transaction that succeeds.
Deposited == userDepositNonces'[Actor] # userDepositNonces[Actor]

\* parseReceiptEvent finds the event about the request that was read.
ExpectedEvent(tx) ==
  CASE tx.opens /\ tx.action = "deposit" -> Deposited
    [] ~tx.opens /\ tx.action \in {"deposit", "activate"} ->
         pendingActivations[Actor] = run.nonce
    [] tx.action = "deactivate" -> pendingDeactivations[Actor] = run.nonce
    [] ~tx.opens /\ tx.action = "draw" -> pendingDraw.nonce = run.nonce
    [] OTHER -> TRUE

Evidence(tx) ==
  CASE tx.opens /\ tx.action = "deposit" -> "deposit-confirmed"
    [] tx.opens /\ tx.action = "draw" -> "draw-request-confirmed"
    [] ~tx.opens /\ tx.action \in {"deposit", "activate"} -> "participant-activation-finalized"
    [] tx.action = "deactivate" -> "participant-deactivation-finalized"
    [] ~tx.opens /\ tx.action = "draw" -> IF tx.bit THEN "draw-finalized" ELSE "draw-skipped"
    [] tx.action = "claim-prize" -> "prize-claim-confirmed"
    [] tx.action = "withdraw" -> "withdrawal-confirmed"

\* requireConfirmedReceipt, parseReceiptEvent and printEvidence.
Confirmed(tx) ==
  LET over == Tail(run.todo) = <<>>
      next == IF over THEN NoRun ELSE Advance
      own  == IF tx.action = "draw" /\ tx.opens THEN drawRequestNonce ELSE next.own
  IN  IF ExpectedEvent(tx)
      THEN [next EXCEPT !.printed = Evidence(tx), !.own = own]
      ELSE NoRun

\* A process that was killed hears of no receipt.
Mined(tx) ==
  /\ Effect(tx)
  /\ mempool' = mempool \ {tx}
  /\ run' = IF tx.awaited THEN Confirmed(tx) ELSE run
  /\ UNCHANGED <<env, runs, troubles>>

\* A transaction that could succeed may still run out of gas.
Reverted(tx) ==
  /\ IF ENABLED Effect(tx) THEN Trouble ELSE UNCHANGED <<runs, troubles>>
  /\ mempool' = mempool \ {tx}
  /\ IF tx.awaited THEN Throw ELSE UNCHANGED run
  /\ UNCHANGED <<vars, env>>
-----------------------------------------------------------------------------
(* Failures, and everybody else.                                            *)

\* A read that failed three times, the relayer or the provider ends the run.
Fails ==
  /\ Trouble
  /\ ~Idle /\ ~At("receipt")
  /\ Throw /\ OnlyRun

Killed ==
  /\ Trouble
  /\ At("receipt")
  /\ Throw
  /\ mempool' = {[tx EXCEPT !.awaited = FALSE] : tx \in mempool}
  /\ UNCHANGED <<vars, env>>

\* Other savers and keepers, the owner, and the same wallet in a browser.
Elsewhere ==
  /\ Trouble
  /\ \/ \E user \in Users : UserStep(user)
     \/ \E proof \in decryptable : KeeperStep(proof)
     \/ RequestDraw
     \/ \E p \in BOOLEAN : SetPaused(p)
  /\ UNCHANGED script

\* Time, and the cancellation that anybody may send when it is due.
Meanwhile == (CancelDraw \/ Tick) /\ UNCHANGED <<script, runs, troubles>>

LifecycleInit ==
  /\ env = [drawId |-> currentDrawId, participants |-> Members]
  /\ run = NoRun /\ mempool = {}
  /\ runs = 0 /\ troubles = 0

Continue ==
  \/ ReadPublic \/ ReadParticipants \/ Guard \/ DecryptPrivateValues
  \/ ReadRequest \/ PublicDecrypt \/ Send
  \/ \E tx \in mempool : Mined(tx) \/ Reverted(tx)

LifecycleNext ==
  \/ Continue
  \/ StartCounted \/ StartPreflight \/ StartActivate
  \/ Fails \/ Killed
  \/ Elsewhere \/ Meanwhile

LifecycleSpec == Init /\ LifecycleInit /\ [][LifecycleNext]_lifecycleVars

\* The network answers, the KMS signs, blocks are mined, and the operator goes
\* on inspecting the pool and running the activation phase.
LifecycleFairness ==
  /\ WF_lifecycleVars(Continue)
  /\ SF_lifecycleVars(StartPreflight) /\ SF_lifecycleVars(StartActivate)
  /\ WF_lifecycleVars(Meanwhile)

FairLifecycleSpec == LifecycleSpec /\ LifecycleFairness
=============================================================================
