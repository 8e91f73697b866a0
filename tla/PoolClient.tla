----------------------------- MODULE PoolClient -----------------------------
(***************************************************************************)
(* The web application as a client of the pool: usePool.ts, the action and *)
(* reveal wrappers of App.tsx, the transaction dialog and the cards whose  *)
(* buttons start the operations.  The pool is module ConfidentialPool and  *)
(* moves by the client's transactions and by those of everybody else.      *)
(*                                                                         *)
(* The page acts on what it last read (page) and on the account it last    *)
(* heard of (account); the chain and the wallet (selected) move on.  An    *)
(* operation keeps what the hook captured when it was started.  Every      *)
(* await is a step of its own: before it the world may change, and the     *)
(* page may be closed.                                                     *)
(***************************************************************************)
EXTENDS ConfidentialPool, SequencesExt

CONSTANTS
  Accounts,     \* the users whose keys are in this browser's wallet
  Nobody,
  MaxStarts,    \* bound on the operations started (recoveries are not counted)
  MaxTroubles   \* bound on failures, reloads, switches and what others do to the pool

ASSUME ClientAssumption ==
  /\ Accounts \subseteq Users
  /\ Nobody \notin Users

VARIABLES
  selected,     \* the wallet's account
  account,      \* the address usePool sees, Nobody when disconnected
  page,         \* the state the last applied refresh left
  refresh,      \* what a refresh has read and not applied, or NoRefresh
  action,       \* the operation the dialog is about
  mempool,      \* broadcast transactions that are not in a block
  shown,        \* revealed values and whose they are
  tab,          \* the tab on screen
  amountTyped,  \* the withdrawal form holds an amount
  starts, troubles

ui == <<shown, tab, amountTyped>>
session == <<selected, account>>
bounds == <<starts, troubles>>
clientVars == <<vars, session, page, refresh, action, mempool, ui, bounds>>

Kinds == {"deposit", "activate", "withdraw", "deactivate", "revealBalance", "fund", "draw",
          "claim", "revealPrize"}
Reveals == {"revealBalance", "revealPrize"}

Hidden == [of |-> Nobody, value |-> 0]
NothingShown == [balance |-> Hidden, prize |-> Hidden]
NoAction == [kind |-> "none", todo |-> <<>>, account |-> Nobody, signer |-> Nobody,
             nonce |-> None, bit |-> FALSE, amount |-> 0, outcome |-> "none"]

Trouble == troubles < MaxTroubles /\ troubles' = troubles + 1 /\ UNCHANGED starts
-----------------------------------------------------------------------------
(* Reading the pool.                                                        *)

\* refreshPoolData reads for the address of its closure.
Snapshot(user) ==
  [verified |-> TRUE, loaded |-> TRUE, route |-> user # Nobody,
   paused |-> paused, drawActive |-> pendingDraw.active,
   next |-> nextDrawRequestTimestamp, draws |-> currentDrawId,
   activation |-> user # Nobody /\ pendingActivations[user] # None,
   participant |-> user # Nobody /\ isParticipant[user]]

Unread == [verified |-> FALSE, loaded |-> FALSE, route |-> FALSE, paused |-> FALSE,
           drawActive |-> FALSE, next |-> 0, draws |-> 0, activation |-> FALSE,
           participant |-> FALSE]
NoRefresh == Unread

\* A refresh that fails leaves the last statistics and locks the writes.
Failed(view) == [view EXCEPT !.verified = FALSE]

\* A new number of rounds hides the revealed prize.
ShownAfter(view) ==
  IF view.draws # page.draws THEN [shown EXCEPT !.prize = Hidden] ELSE shown

\* On mounting, on a new address or status, and every 15 seconds.
StartRefresh ==
  /\ refresh = NoRefresh
  /\ refresh' = Snapshot(account)
  /\ UNCHANGED <<vars, session, page, action, mempool, ui, bounds>>

ApplyRefresh ==
  /\ refresh # NoRefresh
  /\ refresh' = NoRefresh
  /\ page' = refresh /\ shown' = ShownAfter(refresh)
  /\ UNCHANGED <<vars, session, action, mempool, tab, amountTyped, bounds>>

FailRefresh ==
  /\ Trouble
  /\ refresh # NoRefresh
  /\ refresh' = NoRefresh
  /\ page' = Failed(page)
  /\ UNCHANGED <<vars, session, action, mempool, ui>>
-----------------------------------------------------------------------------
(* What the page lets its user do.  The dialog covers the page while an     *)
(* operation runs, so there is one operation at a time.                     *)

Idle == action.kind = "none"
WalletReady == account # Nobody /\ page.loaded
WithdrawalsEnabled == account # Nobody /\ page.verified /\ page.route
WritesEnabled == WithdrawalsEnabled /\ ~page.paused /\ ~page.drawActive
CadenceOpen == page.loaded /\ now >= page.next

\* The flags App hands to the cards of a tab, which enable their buttons.
PoolTab(button) ==
  /\ tab = "pool"
  /\ CASE button \in {"deposit", "activate"}    -> WritesEnabled
       [] button \in {"withdraw", "deactivate"} -> WithdrawalsEnabled
       [] button = "revealBalance"              -> WalletReady

DrawTab(button) ==
  /\ tab = "draw"
  /\ CASE button \in {"fund", "draw"}  -> WritesEnabled
       [] button = "claim"             -> WithdrawalsEnabled
       [] button = "revealPrize"       -> WalletReady

\* FAULT: the recovery button is shown to participants only.
ActivationOfferedToParticipants == PoolTab("activate") /\ page.activation /\ page.participant

ActivationOffered == PoolTab("activate") /\ page.activation
DepositOffered == PoolTab("deposit")
WithdrawalOffered == PoolTab("withdraw") /\ amountTyped
SlotCheckOffered == PoolTab("deactivate") /\ page.participant
BalanceRevealOffered == PoolTab("revealBalance") /\ shown.balance = Hidden
FundingOffered == DrawTab("fund")
DrawOffered == DrawTab("draw") /\ CadenceOpen
ClaimOffered == DrawTab("claim") /\ shown.prize.value > 0
PrizeRevealOffered == DrawTab("revealPrize") /\ shown.prize = Hidden

\* requireVerifiedWrites
RequireVerifiedWrites(withdrawal) == IF withdrawal THEN WithdrawalsEnabled ELSE WritesEnabled

Begin(kind, offered, required, amounts, steps) ==
  /\ Idle /\ offered
  /\ \E amount \in amounts :
       action' = [NoAction EXCEPT !.kind = kind, !.account = account, !.amount = amount,
                                  !.todo = IF required THEN steps ELSE <<>>,
                                  !.outcome = IF required THEN "none" ELSE "failed"]
  /\ UNCHANGED <<vars, session, page, refresh, mempool, ui, troubles>>
-----------------------------------------------------------------------------
(* The operations, each as what it awaits, in this order:                   *)
(*   prepare  the encryption, the reads before the transaction, the signer  *)
(*   prompt   the user's approval in the wallet                             *)
(*   mining   the receipt                                                   *)
(*   read     the request the transaction created                           *)
(*   kms      the proof about it, or the decryption of a reveal             *)
(*   refresh  refreshPoolData after a success                               *)
(*   finally  refreshPoolData after a success or a failure                  *)

Transaction == <<"prompt", "mining">>
Proven == <<"kms">> \o Transaction \o <<"finally">>
Activation == <<"read">> \o Proven

ActivateParticipant ==
  Begin("activate", ActivationOffered, RequireVerifiedWrites(FALSE), {0}, Activation)

Deposit ==
  Begin("deposit", DepositOffered, RequireVerifiedWrites(FALSE), Amounts \ {0},
        <<"prepare">> \o Transaction \o Activation)

Withdrawal == <<"prepare">> \o Transaction \o <<"refresh">>

WithdrawPrivately ==
  Begin("withdraw", WithdrawalOffered, RequireVerifiedWrites(TRUE), Amounts \ {0}, Withdrawal)

\* One transaction less when the slot check is already requested: see Prepare.
DeactivateParticipant ==
  Begin("deactivate", SlotCheckOffered, RequireVerifiedWrites(FALSE), {0},
        <<"prepare">> \o Transaction \o <<"read">> \o Proven)

FundPrizeReserve ==
  Begin("fund", FundingOffered, RequireVerifiedWrites(FALSE), Amounts \ {0},
        <<"prepare">> \o Transaction \o <<"refresh">>)

\* The amount that was revealed, whenever that was.
ClaimPrize ==
  Begin("claim", ClaimOffered, RequireVerifiedWrites(TRUE), {shown.prize.value}, Withdrawal)

DrawLottery ==
  Begin("draw", DrawOffered, RequireVerifiedWrites(FALSE), {0},
        <<"prepare">> \o Transaction \o <<"read">> \o Proven)

\* A reveal needs the verified deployment only.
RevealBalance ==
  Begin("revealBalance", BalanceRevealOffered, page.verified, {0}, <<"prepare", "kms">>)

RevealPrize ==
  Begin("revealPrize", PrizeRevealOffered, page.verified, {0}, <<"prepare", "kms">>)

StartOne ==
  /\ starts < MaxStarts /\ starts' = starts + 1
  /\ \/ Deposit \/ WithdrawPrivately \/ DeactivateParticipant \/ FundPrizeReserve
     \/ ClaimPrize \/ DrawLottery \/ RevealBalance \/ RevealPrize

Resume == ActivateParticipant /\ UNCHANGED starts
-----------------------------------------------------------------------------
(* What else the user does on the page.                                     *)

CanTypeAmount == Idle /\ WithdrawalsEnabled /\ WritesEnabled

TypeAmount ==
  /\ tab = "pool" /\ CanTypeAmount
  /\ amountTyped' = TRUE
  /\ UNCHANGED <<vars, session, page, refresh, action, mempool, shown, tab, bounds>>

\* The button, or 60 seconds on screen: a card that is not rendered has no timer.
Hide ==
  /\ shown' = CASE tab = "pool" -> [shown EXCEPT !.balance = Hidden]
                [] tab = "draw" -> [shown EXCEPT !.prize = Hidden]
  /\ UNCHANGED <<vars, session, page, refresh, action, mempool, tab, amountTyped, bounds>>

SwitchTab(to) ==
  /\ Idle /\ tab # to
  /\ tab' = to /\ amountTyped' = FALSE
  /\ UNCHANGED <<vars, session, page, refresh, action, mempool, shown, bounds>>

Dismiss ==
  /\ ~Idle /\ action.todo = <<>>
  /\ action' = NoAction
  /\ UNCHANGED <<vars, session, page, refresh, mempool, ui, bounds>>
-----------------------------------------------------------------------------
(* An operation.  Each action is what runs from one await to the next.      *)

At(step) == action.todo # <<>> /\ Head(action.todo) = step

\* The rest of the steps, with the outcome known when only a refresh is left.
Advance(act) ==
  LET rest == Tail(act.todo)
      over == rest = <<>> \/ Head(rest) \in {"refresh", "finally"}
  IN  [act EXCEPT !.todo = rest, !.outcome = IF over THEN "confirmed" ELSE "none"]

\* A deposit is inside the try of activateParticipant from the read on.
InTry(act) ==
  /\ Contains(act.todo, "finally")
  /\ act.kind = "deposit" => ~Contains(Tail(act.todo), "read")

Fail ==
  action' = [action EXCEPT !.outcome = "failed",
                           !.todo = IF InTry(action) THEN <<"finally">> ELSE <<>>]
OnlyAction == UNCHANGED <<vars, session, page, refresh, mempool, ui>>

\* Any await may throw: the wallet refuses, a provider or the relayer fails.
Throws ==
  /\ Trouble
  /\ \E step \in {"prepare", "read", "kms", "prompt"} : At(step)
  /\ Fail /\ OnlyAction

RequestOf(kind, user) ==
  CASE kind \in {"deposit", "activate"} -> pendingActivations[user]
    [] kind = "deactivate"              -> pendingDeactivations[user]
    [] kind = "draw"                    -> IF pendingDraw.active THEN pendingDraw.nonce ELSE None

HandleOf(act) ==
  CASE act.kind \in {"deposit", "activate"} -> EligibilityHandle(act.account, act.nonce)
    [] act.kind = "deactivate"              -> ZeroBalanceHandle(act.account, act.nonce)
    [] act.kind = "draw"                    -> ReadinessHandle(act.nonce)

AskFor(nonce) == action' = [Advance(action) EXCEPT !.nonce = nonce]

\* The input is encrypted for the account the hook knows, then the wallet names
\* the account that signs.  A slot check already under way is taken up again.
Prepare ==
  LET user == action.account
      signed == [Advance(action) EXCEPT !.signer = selected]
  IN  /\ At("prepare") /\ action.kind \notin Reveals
      /\ \/ selected = Nobody /\ Fail
         \/ selected # Nobody /\ action.kind # "deactivate" /\ action' = signed
         \/ /\ selected # Nobody /\ action.kind = "deactivate"
            /\ \/ ~isParticipant[user] /\ Fail
               \/ isParticipant[user] /\ pendingDeactivations[user] = None /\ action' = signed
               \/ /\ isParticipant[user] /\ pendingDeactivations[user] # None
                  /\ action' = [action EXCEPT !.signer = selected, !.todo = Proven,
                                             !.nonce = pendingDeactivations[user]]
      /\ OnlyAction /\ UNCHANGED bounds

\* FAULT: the code does not look whether a request is pending.
ReadRequestUnchecked ==
  /\ At("read")
  /\ AskFor(RequestOf(action.kind, action.account))
  /\ OnlyAction /\ UNCHANGED bounds

ReadRequest ==
  LET nonce == RequestOf(action.kind, action.account)
  IN  /\ At("read")
      /\ \/ nonce = None /\ Fail
         \/ nonce # None /\ AskFor(nonce)
      /\ OnlyAction /\ UNCHANGED bounds

\* publicDecrypt; an activation asks for its signer only now.
KmsAnswers ==
  /\ At("kms") /\ action.kind \notin Reveals
  /\ \E proof \in decryptable :
       /\ proof.handle = HandleOf(action)
       /\ LET late == action.kind \in {"deposit", "activate"}
          IN  \/ late /\ selected = Nobody /\ Fail
              \/ /\ late => selected # Nobody
                 /\ action' = [Advance(action) EXCEPT !.bit = proof.bit,
                                                     !.signer = IF late THEN selected ELSE @]
  /\ OnlyAction /\ UNCHANGED bounds

TransactionOf(act) ==
  [kind |-> act.kind, half |-> IF Contains(act.todo, "kms") THEN "request" ELSE "finalize",
   from |-> act.signer, for |-> act.account,
   nonce |-> act.nonce, bit |-> act.bit, amount |-> act.amount, page |-> TRUE]

\* FAULT: the encrypted input is accepted from any sender.
InputBoundToAnyone(tx) == TRUE

\* An encrypted input is valid only from the account it was encrypted for.
InputBound(tx) == tx.from = tx.for

\* What a transaction does in the block that includes it.
Effect(tx) ==
  LET proof == [handle |-> HandleOf([kind |-> tx.kind, account |-> tx.for, nonce |-> tx.nonce]),
                bit |-> tx.bit]
      Sends(data) == \/ ConfidentialTransferAndCall(tx.from, tx.amount, data)
                        \/ RefundedTransfer(tx.from, data)
  IN  CASE tx.kind \in {"withdraw", "claim"} -> InputBound(tx) /\ Withdraw(tx.from, tx.amount)
        [] tx.kind = "fund" -> InputBound(tx) /\ Sends("prizeReserve")
        [] tx.half = "request" /\ tx.kind = "deposit" -> InputBound(tx) /\ Sends("deposit")
        [] tx.half = "request" /\ tx.kind = "deactivate" -> RequestDeactivation(tx.from)
        [] tx.half = "request" /\ tx.kind = "draw" -> RequestDraw
        [] tx.half = "finalize" /\ tx.kind \in {"deposit", "activate"} ->
             FinalizeParticipantActivation(tx.for, tx.bit, proof)
        [] tx.half = "finalize" /\ tx.kind = "deactivate" ->
             FinalizeParticipantDeactivation(tx.for, tx.bit, proof)
        [] tx.half = "finalize" /\ tx.kind = "draw" ->
             \/ ~tx.bit /\ SkipDraw(proof)
             \/ tx.bit /\ \E random \in Euint64s : ExecuteDraw(proof, random)

\* The wallet broadcasts what the user approved.
Approve ==
  /\ At("prompt")
  /\ mempool' = mempool \cup {TransactionOf(action)}
  /\ action' = Advance(action)
  /\ UNCHANGED <<vars, session, page, refresh, ui, bounds>>

\* FAULT: the receipt's status is not looked at.
FailedReceiptIgnored == action' = Advance(action)

FailedReceipt == Fail

\* A page that was closed hears of no receipt.
Mined(tx) ==
  /\ Effect(tx)
  /\ mempool' = mempool \ {tx}
  /\ action' = IF tx.page THEN Advance(action) ELSE action
  /\ UNCHANGED <<session, page, refresh, ui, bounds>>

\* A transaction that could succeed may still run out of gas.
Reverted(tx) ==
  /\ IF ENABLED Effect(tx) THEN Trouble ELSE UNCHANGED bounds
  /\ mempool' = mempool \ {tx}
  /\ IF tx.page THEN FailedReceipt ELSE UNCHANGED action
  /\ UNCHANGED <<vars, session, page, refresh, ui>>

\* The refresh before the report; a claim then shows that nothing is left.
Settle ==
  /\ At("refresh") \/ At("finally")
  /\ \E view \in {Snapshot(action.account), Failed(page)} :
       /\ IF view.verified THEN UNCHANGED bounds ELSE Trouble
       /\ page' = view
       /\ shown' = IF action.kind = "claim"
                   THEN [ShownAfter(view) EXCEPT !.prize = [of |-> action.account, value |-> 0]]
                   ELSE ShownAfter(view)
  /\ action' = [action EXCEPT !.todo = <<>>]
  /\ UNCHANGED <<vars, session, refresh, mempool, tab, amountTyped>>

\* A reveal shows what it decrypted, on whatever the page shows by then.
Show(value) ==
  LET field == IF action.kind = "revealBalance" THEN "balance" ELSE "prize"
  IN  shown' = [shown EXCEPT ![field] = [of |-> action.account, value |-> value]]

\* The handle is read first; one that was never written is shown as zero.
ReadHandle ==
  LET user   == action.account
      amount == IF action.kind = "revealBalance" THEN balances[user] ELSE prizes[user]
  IN  /\ At("prepare") /\ action.kind \in Reveals
      /\ \/ selected = Nobody /\ Fail /\ UNCHANGED shown
         \/ /\ selected # Nobody /\ ~positionInitialized[user]
            /\ Show(0) /\ action' = [action EXCEPT !.outcome = "confirmed", !.todo = <<>>]
         \/ /\ selected # Nobody /\ positionInitialized[user]
            /\ action' = [Advance(action) EXCEPT !.signer = selected, !.amount = amount]
            /\ UNCHANGED shown
  /\ UNCHANGED <<vars, session, page, refresh, mempool, tab, amountTyped, bounds>>

\* The KMS decrypts for the account of the request if that account signed it.
Decrypted ==
  /\ At("kms") /\ action.kind \in Reveals
  /\ \/ action.signer # action.account /\ Fail /\ UNCHANGED shown
     \/ /\ action.signer = action.account
        /\ Show(action.amount) /\ action' = Advance(action)
  /\ UNCHANGED <<vars, session, page, refresh, mempool, tab, amountTyped, bounds>>
-----------------------------------------------------------------------------
(* Everything else that moves.                                              *)

\* The wallet's owner picks another account, or none for this site.
OwnerSelects(user) ==
  /\ Trouble
  /\ user # selected
  /\ selected' = user
  /\ UNCHANGED <<vars, account, page, refresh, action, mempool, ui>>

\* useWallet reports the address; a new one hides what was revealed.
PageFollows ==
  /\ account # selected
  /\ account' = selected
  /\ shown' = NothingShown
  /\ UNCHANGED <<vars, selected, page, refresh, action, mempool, tab, amountTyped, bounds>>

\* Only what was broadcast survives.
Reload ==
  /\ Trouble
  /\ account' = Nobody /\ page' = Unread /\ refresh' = NoRefresh /\ action' = NoAction
  /\ mempool' = {[tx EXCEPT !.page = FALSE] : tx \in mempool}
  /\ shown' = NothingShown /\ tab' = "pool" /\ amountTyped' = FALSE
  /\ UNCHANGED <<vars, selected>>

\* Other savers, keepers and the owner, and the same accounts on another device.
Elsewhere ==
  /\ Trouble
  /\ \/ \E user \in Users : UserStep(user)
     \/ \E proof \in decryptable : KeeperStep(proof)
     \/ RequestDraw
     \/ \E p \in BOOLEAN : SetPaused(p)
  /\ UNCHANGED <<session, page, refresh, action, mempool, ui>>

\* Time, and the cancellation that anybody may send when it is due.
Meanwhile ==
  /\ CancelDraw \/ Tick
  /\ UNCHANGED <<session, page, refresh, action, mempool, ui, bounds>>
-----------------------------------------------------------------------------
PageInit ==
  /\ selected \in Accounts /\ account = Nobody
  /\ page = Unread /\ refresh = NoRefresh
  /\ action = NoAction /\ mempool = {}
  /\ shown = NothingShown /\ tab = "pool" /\ amountTyped = FALSE
  /\ starts = 0 /\ troubles = 0

ClientInit == Init /\ PageInit

Continue ==
  \/ Prepare \/ ReadRequest \/ KmsAnswers \/ Approve
  \/ \E tx \in mempool : Mined(tx) \/ Reverted(tx)
  \/ Settle \/ ReadHandle \/ Decrypted
  \/ Dismiss

ClientNext ==
  \/ Continue
  \/ StartRefresh \/ ApplyRefresh \/ FailRefresh
  \/ StartOne \/ Resume
  \/ TypeAmount \/ Hide
  \/ \E to \in {"pool", "draw"} : SwitchTab(to)
  \/ Throws
  \/ PageFollows \/ Reload
  \/ \E user \in Accounts \cup {Nobody} : OwnerSelects(user)
  \/ Elsewhere \/ Meanwhile

ClientSpec == ClientInit /\ [][ClientNext]_clientVars

\* The wallet answers, the KMS signs, blocks are mined, the page polls, and the
\* user finishes what the page offers to finish.
ClientFairness ==
  /\ WF_clientVars(Continue)
  /\ WF_clientVars(StartRefresh) /\ WF_clientVars(ApplyRefresh)
  /\ WF_clientVars(PageFollows)
  /\ WF_clientVars(SwitchTab("pool"))
  /\ SF_clientVars(Resume)
  /\ WF_clientVars(Meanwhile)

FairClientSpec == ClientSpec /\ ClientFairness
=============================================================================
