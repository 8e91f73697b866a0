# CipherPool: formal model

TLA+ models of CipherPool, a prize-savings pool whose balances are encrypted
(Zama fhEVM, `euint64`). Savers deposit an ERC-7984 token and keep their
principal; every draw pays a fixed prize from a sponsored reserve to one
participant, with a chance proportional to its encrypted balance. Nothing but
single predicate bits is ever decrypted, and each bit comes back in a later
transaction, as a proof anyone may submit. That split of every decision into
*request* and *finalize* is where the system is hard, and it is what the models
are about.

Paths are relative to the repository (`contracts/ConfidentialPool.sol` and so on).

## 1. Inventory of the system

| Component | State | Operations | What makes it correct |
|---|---|---|---|
| **Pool contract**, `contracts/ConfidentialPool.sol`, types in `contracts/interfaces/IPoolTypes.sol` | encrypted balance and prize counter per user, encrypted totals (accounted, eligible, reserve), participant array with flag and index map, one pending activation and one pending deactivation per user, one pending draw with its snapshot of weights, nonces, cadence timestamp, pause flag | token callback (deposit, reserve funding), `withdraw`, `requestParticipantDeactivation`, `finalizeParticipantActivation`, `finalizeParticipantDeactivation`, `requestDraw`, `finalizeDraw`, `cancelDraw`, `compoundPrizes`, `pause`, `unpause` | solvency; totals equal to the sums they stand for; a proof is about the state it changes; nobody with savings is left out; one winner per draw; bounded emission; every lock is released |
| **Winner selection**, `_sampleWeightedTicket` and the loop of `finalizeDraw` | ticket, cumulative interval, awards | one iteration per participant | exactly one winner, fair to within one part of 2^64 |
| **Custody token** (external), `contracts/interfaces/IERC7984*.sol` | encrypted balances | transfer, transfer-and-call with refund | moves the whole amount or silently nothing |
| **KMS and FHE coprocessor** (external) | handles, who may use them, which are publicly decryptable | arithmetic, `makePubliclyDecryptable`, `checkSignatures` | a proof passes only for the handle and the clear value it was signed for |
| **Archived withdrawal requests**, `contracts/base/RequestBindingState.sol`, driven by `frontend/src/hooks/useLegacyExit.ts` and `LegacyExitCard.tsx` | one request per user: handle, nonce, hash; the page's copy of it | request, finalize, cancel | mutual exclusion of requests, a request is consumed once |
| **Event indexer**, `backend/src/index.ts`, `backend/src/indexer/*.ts` | in-memory deposits, withdrawals, reserve fundings, draws and counters; next block; a checkpoint row in the database | startup load, poll (blocks up to the head, in batches), record, save, shutdown | what is shown and saved is the effect of a prefix of the chain; a crash loses nothing and repeats nothing |
| **HTTP API**, `backend/src/routes/*.ts` | none | reads the indexer's store | - |
| **Pool client**, `frontend/src/hooks/usePool.ts`, `useTxLifecycle.ts`, with `App.tsx` and the cards of `components/flows/` | pool data, revealed values and their expiry, step and error of the running action | refresh (15 s interval), the two-transaction flows, reveal and hide | a flow ends in the step the chain is in; revealed values do not survive the account they belong to |
| **Wallet session**, `frontend/src/hooks/useWallet.ts`, with `WalletButton.tsx` and `WalletModal.tsx` | provider, account, chain, disconnect mark | connect, disconnect, switch account or network, provider events | the session shown is the one the provider is in; a disconnect is final |
| **Lifecycle script**, `scripts/live-prize-lifecycle.ts` | none between runs: one phase per run, chosen by the operator | preflight, one action, postconditions | a phase acts only in the state it was checked in |
| **Tooling**, `script/`, `scripts/`, `.github/` | none at run time | deploy, verify bundles, generate showcases | - |

**How they interact.** The token calls the pool inside a transfer and takes the
tokens back when the callback answers an encrypted *false*. The pool calls the
token to pay a withdrawal and books what the token says it moved. The pool marks
a predicate handle publicly decryptable; any keeper (the web app, the script, a
stranger) fetches the bit with its proof and submits it in a transaction of its
own, at any later time, any number of times. The indexer reads the pool's event
log; the web app reads the pool and the indexer and drives the two-transaction
flows.

**What is hard.**

1. *Stale proofs.* A proof never expires. Between the request and its
   finalization the user can deposit, withdraw, win or leave.
2. *Interleaving with a draw.* `withdraw` is open while a draw is pending, so
   the balances change under a snapshot of weights that does not.
3. *Silent failure.* Encrypted arithmetic wraps without an error and an
   encrypted transfer moves nothing without an error.
4. *Races.* Several activations compete for the last slot; a late settlement
   races a cancellation.
5. *Liveness.* A KMS that stops answering, an owner that pauses, a saver whose
   every deposit replaces its pending request.
6. *Long sequences.* Swap-and-pop membership, totals adjusted in six places.
7. *Off chain.* Crashes between two saves; answers that arrive after the state
   they were asked for has gone; an account that is switched between a click and
   a signature; a flow of two transactions that ends after the first.

`PROJECT.json` lists each of these, with the line where it bites and the
properties that would show it.

## 2. Plan

In order of importance.

| Modules | Subject | State |
|---|---|---|
| `Euint64`, `WeightedTicket`, `ConfidentialPool`, `PoolProperties`, `MCConfidentialPool` | the pool, every external function | modelled and checked |
| `PrizeSavings` | abstract promise to a saver; `ConfidentialPool` refines it, with the accounting it rests on | modelled, checked and proved |
| `HandleAccess` | who may use which stored ciphertext | modelled, checked with the pool and proved |
| `WinnerLoop`, `WinnerProofs` | the winner loop by iterations, the evenness of the tickets | modelled, checked and proved |
| `PoolProofs`, `ArithmeticProofs` | the pool: structure, freshness, cadence, the money and the refinement of `PrizeSavings`, access rights, what its clients need to know of it; arithmetic, finite sums, intervals | proved |
| `EventLog`, `Indexer`, `IndexerProperties`, `ChainPrefix` (abstract), `IndexerProofs` | poll, record, save, crash, restart, overlap; the row refines a prefix of the chain | modelled, checked and proved |
| `PoolClient`, `ClientProperties`, `PlayedPool`, `MCClient`, `ClientProofs` | the web application composed with the pool | modelled, checked and proved |
| `LegacyExit`, `LegacyProperties`, `WithdrawalLifecycle` (abstract), `LegacyProofs` | the archived requests and the page that drives them; their events refine a lifecycle | modelled, checked and proved |
| `WalletSession`, `WalletProperties`, `MCWallet`, `WalletProofs` | the wallet hook, with requests, answers and reports in flight | modelled, checked and proved |
| `LifecycleScript`, `LifecycleProperties`, `MCLifecycle`, `LifecycleProofs` | the operator's script composed with the pool | modelled, checked and proved |

`ConfidentialPool` is composed with its two environments inside the module (the
token and the KMS have no behaviour of their own that the pool does not
trigger). `HandleAccess`, `PoolClient` and `LifecycleScript` EXTEND it, conjoin
their state to its actions, and leave every other action of the pool to everybody
else. `WalletSession` and `PoolClient` are composed by an interface: the client
sees an account that follows the wallet's late (`PageFollows`), which is what
`WalletSession` shows of the hook.

## 3. The modules

### Euint64, WeightedTicket

`euint64` arithmetic by what it does: `Add` and `Sub` are taken modulo
`Modulus` (2^64 in the program), `Smaller` is the `le`/`select` pair of
`withdraw`. `SampleWeightedTicket` is multiply-high, `random * upperBound`
divided by `Modulus`; `IsWinner` tests the cumulative interval of one index.

### ConfidentialPool

One variable per storage slot, under the slot's name (the leading underscore
dropped), plus

* `wallet`, `custody`: the token's balances of the users and of the pool;
* `decryptable`: every predicate handle made publicly decryptable so far, with
  its bit. It only grows, so that a keeper can submit any proof that was ever
  available, in any order, as often as it likes;
* `now`: `block.timestamp`, counted from the deployment.

Each external function is one action, since the EVM runs it as one transaction
and every one is `nonReentrant`. A revert is no step. The internal functions
(`CreditDeposit`, `RequestParticipantActivation`, `RemoveParticipant`, ...) are
operators that the actions conjoin.

| Code | Action |
|---|---|
| `onConfidentialTransferReceived` with the token's transfer around it | `ConfidentialTransferAndCall`, `OnConfidentialTransferReceived`; refused callbacks are `RefundedTransfer` |
| `withdraw` | `Withdraw` |
| `requestParticipantDeactivation` | `RequestDeactivation` |
| `finalizeParticipantActivation`, `finalizeParticipantDeactivation` | the same names |
| `requestDraw` | `RequestDraw` |
| `finalizeDraw` | `SkipDraw` (its early return) and `ExecuteDraw`, both on `SettleRequest` |
| `cancelDraw`, `compoundPrizes`, `pause`/`unpause` | `CancelDraw`, `CompoundPrizes`, `SetPaused` |
| the clock | `Tick` |

Abstractions, and why they are harmless:

* A ciphertext is its plaintext. The pool never branches on an identity of a
  ciphertext except in `checkSignatures`, and there the identity is kept:
  a handle is a predicate, a user and the nonce of the request, and a request is
  stored as its nonce. The `requestHash` is a function of the nonce and is only
  emitted. Access rights to ciphertexts are in `HandleAccess`.
* A slot that was never written reads as zero; the flags that the code branches
  on to revert (`positionInitialized`, `reserveInitialized`,
  `eligibleTotalInitialized`) are kept, the one that only chooses between
  assignment and addition (`_totalInitialized`) is not.
* `requestDraw`'s argument must equal the immutable prize, so it is no parameter.
* The token's supply fits a `euint64` (`PoolAssumption`), as any ERC-7984 token's
  does. Silent failure of the token is a choice: each transfer moves the amount or 0.
* The KMS may never answer: nothing forces a finalization outside `AdmissionSpec`.

Definitions whose comment starts with `FAULT` are mistakes this code could
contain (a dropped guard, a stale index, an inclusive bound). No specification
uses them; each shows, put in place of the definition it stands beside, that some
property is able to fail.

### PoolProperties, PrizeSavings

The properties of section 4, and the abstract specification: savings go in only
while no draw is open, come out at any time, and change otherwise only by a prize
paid from the pot to one entrant with weight, in integers that never wrap.
`PromiseKept` is the refinement, under the mapping
`purse <- wallet, saved <- balances, pot <- prizeReserve` and `entry <-` the
weights of the pending draw. Requests, handles, membership, time and pausing are
stutters of the abstract specification, and must be.

### WinnerLoop

`ConfidentialPool` takes the loop of `finalizeDraw` as one set of winners.
`WinnerLoop` runs it one iteration per step, with the running `cumulativeEnd` of
the code, and shows that the iterations compute that set.

### HandleAccess

The result of an FHE operation may be used only by the transaction that made it,
unless `FHE.allowThis` and `FHE.allow` say otherwise. `readers` holds, for every
slot that stores a ciphertext, who may use it. Each action of the pool is
conjoined with what it reads and with the rights of what it stores; an action
whose operand the pool may not read is not enabled, as the transaction reverts.
The pending draw copies handles and not values, so its weights have the rights
the balances had (`RequestDrawAccess`). The local test double of the ACL allows
everything, so the repository's tests cannot notice a missing grant.
`granted ++ rights` replaces the rights of some slots and keeps the others'.

### PoolDocClaims, IndexerClaims, and WithdrawalsAvailable of ClientProperties

Sentences of the repository that the code does not keep (section 7).

### EventLog, ChainPrefix

What `backend/src/indexer/store.ts` makes of a log: which events it keeps, the
key that recognises an event it has seen (transaction, kind, and the user's own
nonce or the draw's id, exactly what the template strings contain) and the
counter an event adds to. `Firsts` and `Tally` say what an index of the first n
events should contain: each key once, at its first occurrence. `ChainPrefix` is
the abstract promise: a tally of a prefix of the log, and the prefix only grows.

### Indexer

`chain` and `blockEnd` are the pool's event log and the blocks that cut it;
`checkpoint` is the database row; per process there are the `store`,
`lastPolledBlock`, and, while a poll runs, `queryToBlock` and the position in
the loop over events. `inflight` holds upserts that were sent and not executed.

| Code | Action |
|---|---|
| `main` up to the first poll (`index.ts:36-50`, `fromSnapshot`) | `Start` |
| `runPoll` up to the answer of `queryFilter`; its early return | `Poll`; `PollNothing` |
| one iteration of the loop: `getBlock` answered, `processLog`, `add...` | `ProcessLog` |
| `toSnapshot` and the upsert sent | `Save` |
| the database executes it and `runPoll` goes on | `Saved`, on `Upsert` |
| the `catch` of `runPoll` and the `finally` of `pollLogs` | `PollFails` |
| `gracefulShutdown`: timer off, then exit behind the active poll | `Shutdown`, `Exit` |
| a process dies; a write of a caller that is gone arrives | `Crash`; `SavedLate` |

A step ends where the code awaits. A call that fails after it was sent may have
been executed, may be executed later, or never is (`Abandon`); that covers a save
that was executed and not acknowledged, in one step or in two. `getBlockNumber`
and `queryFilter` are one step because the answer for a range of mined blocks
does not change. Two processes at once are a deployment that replaces one version
by another. A SIGTERM during the very first poll kills the process in the code
and is awaited in the model, which also has the `Crash`.

No row is the row of an empty store at `INDEXER_START_BLOCK`, here block 1.
`fromSnapshot` inverts `toSnapshot`, so the row holds the store itself. Of a draw
the store keeps the number of the latest and the count, not the payload.
Blocks are final: the code compares no block hashes and waits for no
confirmations, so a reorganisation is outside what it could handle.

### PoolClient

`usePool.ts` with the wrappers of `App.tsx`, the transaction dialog and the cards.
The page knows the last refresh it applied (`page`) and the account it last heard
of (`account`); the pool and the wallet's account (`selected`) move on.

| Code | Action |
|---|---|
| `refreshPoolData`: its reads, its result, its `catch` | `StartRefresh`, `ApplyRefresh`, `FailRefresh` |
| a button of a card, through `runAction`; the guards at the head of each operation | `StartOne`, `Resume` (finishing an interrupted deposit, not counted), over `Deposit`, `ActivateParticipant`, `WithdrawPrivately`, `DeactivateParticipant`, `FundPrizeReserve`, `DrawLottery`, `ClaimPrize`, `RevealBalance`, `RevealPrize` |
| encryption, signer, arguments | `Prepare` |
| the pending request of the second transaction | `ReadRequest` |
| `publicDecrypt`, `userDecrypt` | `KmsAnswers`, `Decrypted` |
| the wallet's prompt and the broadcast | `Approve` |
| `transaction.wait()`, `ensureReceipt` | `Mined`, `Reverted` |
| the `finally` of an operation | `Settle` |
| any `await` that rejects | `Throws` |
| the tabs, the forms, the dialog's close button | `SwitchTab`, `TypeAmount`, `Hide`, `Dismiss` |
| other accounts and devices; time and cancellation | `Elsewhere`; `Meanwhile` |

An operation is the list of the awaits it still has (`todo`), with what its closure
captured. A step ends at each await. A broadcast transaction is in `mempool` until
a block includes it, also when the page that sent it was closed. An input proof is
bound to the account it was encrypted for (`InputBound`), and the pool reads the
sender of the transaction, which is the account the wallet signs with *then*.
Amounts are small numbers; error texts, phases of progress and diagnostics are
left out.

`PlayedPool` gives the runs that extend the pool a start beyond the deployment: a
saver admitted and paid by one round, the cadence open again.

### WalletSession

`useWallet.ts` and the injected wallet as two processes. The page posts requests
(`asked`); the wallet answers them when its owner gets to it, and reports what its
owner changes. Answers and reports reach the page in the order the wallet sent
them (`inbox`), which is what the provider's interface promises. A call is one of
the hook's functions between its first `await` and its end; several can be open,
because a menu stays usable while an answer is missing (`MenuShown`).
`probe` is the effect of line 112, run again whenever the in-memory preference
changes; `Disconnect` closes its probes as the effect's cleanup does. Storage of
the preference may fail, as the code allows (`mark' \in {mark, ...}`). `overlapped`
is no state of the page: it remembers that a report reached it while a call was
open, or that the user disconnected during a change of account, which is when the
page may end up with an older account than the wallet's.

### LegacyExit, WithdrawalLifecycle

The contract half is `RequestBindingState.sol`, with the two functions of the
archived pool (not in the repository, external) as the page calls them: a
finalization needs the proof of the *stored* handle, a cancellation the delay.
The page half is `useLegacyExit.ts`: it copies the request of its account every 15
seconds (`view`), keeps the copy when a refresh fails or the account changes, and
finalizes what it copied with whichever signer the wallet gives it.
`WithdrawalLifecycle` is the abstract promise, told by the events of each user:
one open request, a fresh nonce each, settled once.

### LifecycleScript

One process, one phase per run: the public reads one after the other
(`ReadPublic`, `ReadParticipants`), the write guard (`Guard`), the private values
(`DecryptPrivateValues`), then the transactions and the evidence each prints
(`Send`, `Mined`, `ReadRequest`, `PublicDecrypt`). A run that fails or is killed
keeps nothing; what it broadcast stays in the mempool. Between runs the operator
inspects the pool with `StartPreflight`, which renews what the guard compares with.

## 4. What the runs check

All runs are over model values for the users; symmetry is used in the safety runs
only, never with a liveness property.

| Run | Question | Bounds |
|---|---|---|
| `pool_accounting` | Do the tokens, positions, totals, membership and the pending snapshot agree, whatever is interleaved with a draw? Can every stored ciphertext be used when it is needed? Does the pool implement `PrizeSavings`? | 2 savers, amounts 1 and 2, 2 requests of a kind each, 1 draw, 5 published predicates |
| `pool_progress` | Can cancellations and skips buy extra prizes, what does the lock freeze, is it released when the KMS never answers and the owner pauses, and does a position with savings get in? | 2 savers for 1 slot, 2 draw requests, timestamps up to 3, 4 predicates |
| `winner_loop` | Is there exactly one winner for every list of weights and every random value, and are the tickets even? | up to 4 participants of weight up to 3, width 16 |
| `indexer` | Whatever fails, is late or runs twice: is what the API answers from an index of a prefix of the chain, does the row only move forward, without a hole, and does every block get indexed once failures stop? | 2 processes, 2 events, 2 blocks in batches of 1, 2 failures |
| `wallet_session` | Is a connected page usable, does a connecting one stop, is a disconnect retained, does the page show the wallet's account? | 2 accounts, 2 chains, 2 calls between loads, 2 changes or loads |
| `pool_client` | Is what the page reports what happened, are switches of account harmless, is an interrupted deposit finished? | 2 accounts, 2 operations besides recoveries, 1 trouble, 1 more draw |
| `legacy_exit` | Is each archived request settled once and for its owner, and released if the KMS is silent? | 2 users, 2 requests each, 1 finalization by the page, 1 trouble |
| `lifecycle_script` | Is the printed evidence true, the printed draw the run's own, an interrupted deposit completed? | 3 counted runs, 1 trouble, 2 more draws |
| `claim_positions_locked`, `claim_recovery_window`, `claim_deposits_counted`, `claim_withdrawals_available` | the claims of section 7 | 2 savers |

Why the bounds are enough. Positions interact pairwise: through the totals, the
array and the ticket interval, so two savers show the accounting hazards, and two
savers for one slot the capacity race. That a swap moves somebody else correctly
for any number of participants is what the proofs of section 5 add. Two deposits
and two withdrawals per saver give a request, a request that replaces it and a
proof of the first that arrives after the second. Five
predicates are a full history: two activations, the draw, and an exit with its
replacement. `Modulus` is 8 in `pool_accounting`, just above all the tokens, so that a
subtraction that wraps lands far from any honest value. `Tick` stops one step
after the last draw request of the bound can be cancelled. Every bound
(`Amounts`, `MaxNonce`, `MaxHandles`, `MaxDraws`, `MaxRequestTime`) is a conjunct
of a guard; in the proofs they are arbitrary.

For the indexer, two failures are a poll that fails and a crash before the retry
is done, or a write that is forgotten and a second one that overtakes it; a chain
that is ahead by more than a batch gives a full batch and a boundary (the proofs have
every batch size and every chain); two
events in one transaction or two give a key that repeats, because reserve fundings
of one transaction share theirs. `MaxLogs`,
`MaxBlocks` and `MaxFaults` are conjuncts of guards and arbitrary in the proofs.

In the client, legacy and script runs one *trouble* is one thing that goes wrong or
interferes: a rejected await, a lost receipt, a reload, an account switched, or
one step of anybody else (a deposit from another device, a stranger's
finalization, a pause). Ticks, cancellations of stale draws, refreshes and recoveries
are not troubles and not bounded by them. One is enough to separate any two awaits
of one operation, which is where the hazards are; two operations give one that
was interrupted and another that meets what it left. In `wallet_session` two calls
and two changes give every crossing of two answers and a report; every
number of either is in the proofs, and had to be: what a change of account restores
after a disconnect takes five calls to show (section 5). `MaxCalls` counts calls between two loads of the page.

The pool and the indexer are checked for deadlock: a refused callback that is
refunded is always possible, as it is in the program, and an idle indexer keeps
polling. The page, the wallet and the script may stop for good, when nobody uses
them, so their runs do not check it.

### The properties, beyond types

Pool and winner:

* `Solvent`: the pool's tokens cover every position and the reserve.
* `EligibleTotalExact`: the total the next ticket is scaled with is the sum of
  the participants' balances, through activation, exits during a draw, prizes.
* `RequestsAreFresh`: a pending request asks about the balance the position has
  now. With `CheckSignatures` this is what makes an old proof harmless.
* `NoStrandedSavings`: a position with savings outside the draw always has a
  request whose proof anyone can submit, whoever loses a capacity race.
* `MembershipFollowsSavings`: admission only with a positive balance, removal
  only with a zero one, as an action property over every order of proofs.
* `SnapshotConsistent`: the weights of a pending draw sum to the total it was
  requested with, the reserve is what the readiness bit saw, and a true bit can
  still be paid.
* `DrawFreezes`: during a draw nobody joins, leaves or grows.
* `OneWinner`: a settled draw pays one participant that had weight at the
  request, on top of what it holds at the settlement; principal withdrawn in
  between is not restored.
* `EmissionCapped`: at most one prize per interval over the life of the pool.
* `MembershipConsistent`: array, flag and index map agree; the capacity bounds them.
* `NothingUnreadable`: the pool may read every ciphertext it stored and every saver
  its own, whichever transaction stored it last.
* `OneIntervalWins`, `TicketsEven`: exactly one participant's interval holds the
  ticket, and every ticket is hit by as many random values as any other, give or
  take one.

Indexer:

* `LiveStoreIsPrefix`: the store of a process is, between any two steps, the
  index of some prefix of the chain at least as long as the blocks it has polled.
* `NeverAheadOfCheckpoint`: the next block of a process is never past the row's,
  so a crash at any point rereads blocks and never skips one.
* `DurablePrefix`: the row refines `ChainPrefix`, whichever process writes last.

Web application and script:

* `ReportedEntryIsReal`: a draw entry the page reports as finalized consumed the
  very request whose proof it asked for, with the result it reports.
* `SwitchHarmless`: a transaction built for one account moves no tokens of another.
* `ConnectedIsUsable`, `ConnectingEnds`: the status the operations rely on is never
  left over from a report or an answer that crossed another.
* `ShowsWallet`: at rest the page shows the wallet's account, unless a report came
  while a call was open or the user disconnected during a change of account.
* `DisconnectRetained`: after a disconnect no account appears, by a report or by a
  probe that answers late, unless a call the user started brings it.
* `FundsConserved`, `FollowsLifecycle`, `FinalizedIsShown`: an archived request is
  settled once, for its owner, and the exit the page reports is the one it showed.
* `EvidenceIsTrue`, `PrintedDrawIsOwn`: what a run prints is about the request it
  acted on, whatever happened to the pool since its guard passed.
* `DrawLockReleased`, `SavingsAdmitted`, `BlocksIndexed`, `InterruptedDepositRecovers`,
  `StaleRequestReleased`, `InterruptedRunRecovers`: the liveness properties below.

### Fairness

* `LockSpec` assumes that time passes (`WF(Tick)`) and that somebody calls
  `cancelDraw` once a pending request is stale (`WF(CancelDraw)`). The function is
  permissionless and open while the pool is paused, so one interested saver is
  enough; the contract itself schedules nothing. Nothing is assumed of the KMS.
* `AdmissionSpec` adds that for every saver somebody keeps relaying positive
  eligibility proofs: strong fairness of `FinalizeParticipantActivation` with
  TRUE, because every draw disables it and enables it again. `SavingsAdmitted`
  has two honest exits: the owner withdraws, or the slots are full.
* `FairSpec` of the indexer assumes weak fairness of what one process does next:
  its interval timer fires, a call that does not fail is answered, and a process
  that ended is started again (`restart: unless-stopped` in `docker-compose.yml`).
  Failures are not fair, but bounded by `MaxFaults`: with calls that fail for ever
  nothing can be promised.
* `ClientFairness`: the wallet answers, the KMS signs, blocks are mined, the page
  polls (its 15 s interval), and the user, who comes back to the pool tab, finishes
  what the page offers to finish: strong fairness of `Resume`, since draws and
  refreshes disable it and enable it again. `InterruptedDepositRecovers` asks it
  only of a user whose account is on the page again and again while the pool is not
  paused; troubles are bounded.
* `Fairness` of `LegacyExit` assumes nothing of the KMS: the user may wait for a proof
  for ever, and leaves a dialog that has no way out by loading the page again
  (`ReloadWhenStuck`). Time passes, the page polls, and the user who stays with the
  page cancels when it is offered, again and again (strong fairness).
* `LifecycleFairness`: the network answers, and the operator goes on inspecting the pool
  and running the activation phase, as the runbook says after an interruption.

## 5. What is proved

`tlapm` checks every leaf. The assumptions are `ModulusAssumption`,
`PoolAssumption`, `LoopAssumption`, `IndexerAssumption`, `LegacyAssumption`,
`SessionAssumption`, `ClientAssumption` (the wallet's accounts are users) and
`ActorAssumption` (the script's is one), which TLC evaluates on the runs, for every value of the
constants: any set of users, capacity, width, delay, cadence and bound; any number of
processes, batch size, chain and number of failures, requests, calls and page loads.
Where the number of users matters, the set of users is finite, as `PoolAssumption` says.

| Theorem | Statement |
|---|---|
| `PoolProofs!TypeCorrect` | `Spec => []TypeOK` |
| `MembershipAlwaysConsistent` | `Spec => []MembershipConsistent` |
| `RequestsAlwaysFresh` | `Spec => []RequestsAreFresh` |
| `SavingsNeverStranded` | `Spec => []NoStrandedSavings` |
| `MembershipAlwaysFollowsSavings` | `Spec => MembershipFollowsSavings` |
| `EmissionAlwaysCapped` | `Spec => []EmissionCapped` |
| `DrawAlwaysFreezes` | `Spec => DrawFreezes` |
| `SavingsAlways` | `Spec => []SavingsInv`, the invariant of the money |
| `AlwaysSolvent` | `Spec => []Solvent` |
| `EligibleTotalAlwaysExact` | `Spec => []EligibleTotalExact` |
| `PrizesAlwaysWithinBalance` | `Spec => []PrizesWithinBalance` |
| `SnapshotAlwaysConsistent` | `Spec => []SnapshotConsistent` |
| `DrawAlwaysPaysOne` | `Spec => OneWinner` |
| `PromiseAlwaysKept` | `Spec => PromiseKept`, the refinement of `PrizeSavings` |
| `AccessAddsNothing` | `AccessSpec => Spec`: the rights take no step the pool does not take |
| `NothingEverUnreadable` | `AccessSpec => []NothingUnreadable` |
| `ArithmeticProofs!TicketBelowTotal` | a ticket is below any positive total, for every width and random value |
| `ArithmeticExact` | addition and subtraction are exact where the true result fits the width |
| `OneInterval` | where nothing wraps, a ticket below the last end lies in one interval, and it is not empty |
| `WinnerProofs!OneIntervalAlwaysWins` | `Spec => []OneIntervalWins` of the loop |
| `TicketsAreEven` | floor or ceiling of `Modulus / upper` random values scale to any ticket below `upper` |
| `TicketsAlwaysEven` | `Spec => []TicketsEven` |
| `IndexerProofs!IndexerTypeCorrect` | `Spec => []TypeOK` of the indexer |
| `IndexerNeverAhead` | `Spec => []NeverAheadOfCheckpoint` |
| `IndexerLiveStoreIsPrefix` | `Spec => []LiveStoreIsPrefix` |
| `IndexerImplementsPrefix` | `Spec => DurablePrefix`, the refinement of `ChainPrefix` |
| `AddNextEvent` | recording the next event takes the index of a prefix to the next |
| `LegacyProofs!LegacyTypeCorrect` | `Spec => []LegacyTypeOK` |
| `FundsAlwaysConserved` | `Spec => []FundsConserved` |
| `LifecycleImplemented` | `Spec => FollowsLifecycle`, the refinement of `WithdrawalLifecycle` |
| `FinalizedAlwaysShown` | `Spec => FinalizedIsShown` |
| `WalletProofs!SessionTypeCorrect` | `Spec => []TypeOK` of the wallet session |
| `ConnectedAlwaysUsable` | `Spec => []ConnectedIsUsable` |
| `ConnectingAlwaysEnds` | `Spec => []ConnectingEnds` |
| `DisconnectAlwaysRetained` | `Spec => DisconnectRetained` |
| `WalletAlwaysShown` | `Spec => []ShowsWallet` |
| `ClientProofs!ClientTypeCorrect` | `ClientSpec => []ClientTypeOK` |
| `ReportedEntryAlwaysReal` | `ClientSpec => ReportedEntryIsReal` |
| `SwitchAlwaysHarmless` | `ClientSpec => SwitchHarmless` |
| `ClientAddsNothing` | `ClientSpec => Spec` of the pool, where `Amounts = Euint64s` |
| `LifecycleProofs!LifecycleTypeCorrect` | `LifecycleSpec => []LifecycleTypeOK`, which no run spends time on |
| `EvidenceAlwaysTrue` | `LifecycleSpec => EvidenceIsTrue` |
| `PrintedDrawAlwaysOwn` | `LifecycleSpec => PrintedDrawIsOwn` |
| `ScriptAddsNothing` | `LifecycleSpec => Spec` of the pool, where `Amounts = Euint64s` |

The argument for the pool, in three invariants.

1. **Structure** is `TypeOK /\ MembershipConsistent`. Neither is inductive alone:
   the index that `RemoveParticipant` writes is in the array only because the
   index map is right, and the array holds users only because it is an array of
   users. One step per action, and one lemma each for `Append` and for
   swap-and-pop, which distinguishes removal of the last slot from removal of
   another.
2. **RequestInv** adds two facts to Structure: every published predicate is
   numbered below its user's nonce counter (so a new request has no proof yet),
   and per user the fresh half, which also says that a user with savings outside
   the draw has a request. Freshness alone is not inductive: a reused number would
   make an old proof match a new request. From it come `RequestsAreFresh`,
   `NoStrandedSavings` and, step by step, `MembershipFollowsSavings`: a proof
   that passes `CheckSignatures` is about the stored handle, and the stored
   handle is about the current balance.
3. **CadenceInv** relates `drawRequestNonce`, `nextDrawRequestTimestamp`, `now`
   and `currentDrawId`; the pending draw counts as a prize not yet paid, which is
   what makes a cancellation race a settlement without gain.

`DrawFreezes` follows from `Structure`, since a withdrawal subtracts no more
than the balance.

A fourth, **SavingsInv**, is about the money, and adds to RequestInv what none of the
checked properties says: tokens only move between the users and the pool
(`Conserved`), and the pool's tokens are exactly the positions and the reserve
(`Backed`, with the encrypted total of the positions). `Solvent` alone is not
inductive: a deposit adds in encrypted integers, and only because every amount in
the system exists as a token, of which there are fewer than `Modulus`, does no
addition wrap. `EligibleTotalExact` needs both as well, and `SnapshotConsistent`
that a pending draw has participants. Each action then moves one amount between two
sums or none (`SumUpdate`, `SumAdd`, `SumRemove`, `SumSame` of `ArithmeticProofs`).

* `OneWinner` joins the two halves of a draw: the snapshot sums to the total the ticket
  was scaled with (SavingsInv), so the ticket is below the last cumulative end
  (`TicketBelowTotal`), and then exactly one interval holds it (`OneInterval`).
* `PromiseKept` goes action by action: deposit, withdrawal and compounding, reserve
  funding, request, settlement, skip and cancellation each map to an action of
  `PrizeSavings`, everything else to a stutter. The abstract arithmetic is that of the
  integers; that the pool's agrees is `SavingsInv`.

Sums and cumulative ends are recursive functions, and no induction rule can be cited
here. What is about every finite set or every length is proved from a *least
counterexample* instead: a nonempty set of naturals has a least element
(`LeastNatural`), a nonempty family of subsets of a finite set a least member
(`LeastSubset`), and removing one element of it, or one participant, contradicts it.
That also gives `OneInterval`, and in `WinnerProofs` that the end after `i` iterations
is the sum of `i` weights (`EndsAreSums`). `LoopInv` says that the loop has credited
those of the first `i` participants whose interval holds the ticket. `TicketsAreEven`
is arithmetic: the random values of ticket `t` are those between the ceilings of
`t * Modulus / upper` and `(t + 1) * Modulus / upper`.

For the access rights, `AccessAddsNothing` lets the pool's invariants be used in the
composition. `AccessInv` adds to `NothingUnreadable` that every slot of storage has
rights recorded, and one fact of the pool, `Structure`: the slots that an action reads are
those of participants.

For the indexer, `IInv` says of every store what it is the index of. The row,
and every write that may still reach the database, is exactly the index of the
blocks before its own next block (`RowOK`); that is why it does not matter
which of them is executed, or when. The store of a process may be *ahead* of
its next block, by what a failed poll recorded, but never past the last block of
the next poll: the batch is measured from a next block that did not move, towards
a head that only grows. Without that bound the store would be saved under a next
block that it has already passed, and the row would not be the index it claims.
Reading an event again is harmless because every key of a prefix has a first
occurrence (`KeyHasFirst`, from the well-foundedness of the naturals), and
reading the next one extends the index (`AddNextEvent`). The refinement maps
`Saved` and `SavedLate` to `Publish`, the chain's events to `Emit` and the rest to
stutters.

For the archived exits, `LegacyInv` has a contract half and a page half. The contract
half relates what is stored to what was ever signed: a proof of a pending request
covers at most the balance (`ProofsCovered`: the balance does not move while a
request is open, because every change of it settles the request), every
nonce of a proof or of an event has been used (`NoncesUsed`), and the log has an
open request exactly where the contract has one (`OpenIsPending`). Without the first
the subtraction of a late proof could wrap, and `FundsConserved` is not inductive;
without the second a proof of a former request could fit a new one. The page half
says that what the page signs and what it broadcast carries a proof the KMS published
(`ProofsPublished`), and that the only transaction the page still waits for is the one
of the operation on screen (`PageWaits`, `PageOK`). That is why a finalization that
succeeds settled the very request that was on screen, though the page never compares
its account with the signer's: the handle in the proof does.

For the wallet session, `SessionType` says that every message in flight answers a call of
the loaded page with what it asked for; with it, `ConnectedIsUsable` and `ConnectingEnds`
are inductive (the former next to `StatusShown`: a status that is not "connecting" or
"disconnected" has an account). `DisconnectRetained` rests on `NoProbe`: a page that keeps
to a disconnect has no probe open, which is what the effect's cleanup is for.
`ShowsWallet` needs to say what an account *in flight* is worth. `Fresh(account, k)`: it
is the one the wallet exposes, or a report of another is in the inbox behind position
`k`. The wallet keeps that for everything it sends (`FreshSent`: it reports a change
before it answers), the page for everything it takes (`FreshTaken`), and `ShownFresh` has
it of the account shown, of what the open calls got and of what a change of account would
restore. At rest nothing is in flight, so fresh is current.

The first attempt at that proof failed, and for a good reason. `ShowsWallet` used to
say nothing of a disconnect during a change of account, and TLC had agreed with two
calls. The case that would not close has a counterexample with five: the user disconnects
while a change of account is open, and it completes when the page no longer listens, so
the page shows an account that the owner may have changed since without the page
hearing of it. A later change of account keeps that stale account to restore, and its
refusal after a reconnection restores it (`useWallet.ts:209-218`). `overlapped` now
covers this case, and the premise that the page was not disconnected by hand, which hid
it, is gone.

The web application and the script are proved along one argument, in `ClientInv` and
`ScriptInv`. Both say of the pool only `Structure`, and of the rest four things.

1. *What is left to do tells where an operation is.* The awaits still ahead (`todo`) are
   one of the tails of the list its kind starts with (`TodosOf`, `LeftOf`), or a list of
   reads followed by the guard.
2. *What an operation knows grows with its steps* (`OperationOK`, `RunOK`): after the
   wallet has been asked, the account that signs; after the read, the nonce of a request; after
   the KMS, a bit that the KMS has signed about that nonce. A draw of the script knows
   from its own receipt which nonce it asks about.
3. *Every finalization in the mempool presents what the KMS signed*, whoever sent it and
   whether or not anybody still listens. Signatures are for good (`SignedForGood`), so
   no step of the pool takes that away.
4. *The transaction that is listened to is the one on screen* (`OwnTransaction`), hence
   there is at most one (`OneListened`).

`ReportedEntryAlwaysReal` and `EvidenceAlwaysTrue` then need no fact about time: a page
or a run reports only in the step in which its own transaction is mined, that
transaction carries the nonce and the bit on screen, and the pool executes it only if
that very nonce is pending. What others did since the read makes it revert.
`PrintedDrawAlwaysOwn` also needs the script's comparison of the pending draw with the
request it made (`DrawMatches`); without it the proof fails at the step that reads the
request. `SwitchAlwaysHarmless` does not rest on the page, which signs with the account selected
*then*, but on the binding of an encrypted input to its account (`InputBound`): without it, the
proof fails where the effect of a transaction moves tokens.

`ClientAddsNothing` and `ScriptAddsNothing` say that page and script can take the pool
nowhere a stranger could not, so the theorems about the pool hold under them. They have
one hypothesis. `Amounts` bounds the inputs that TLC enumerates; the contract accepts
any `euint64`, and a claim asks for an amount that was revealed, a sum of others.
`Amounts = Euint64s` is the program; `SavingsAlways` and the rest hold for it, as for any
other. The other six theorems need no such hypothesis (`Transacts`).

## 6. What is only model-checked

* Liveness, all six properties: fairness and ENABLED are beyond the prover.
* The statements of section 7, which are false.

## 7. What the runs found

Four statements the code does not keep, each with a run that refutes it.

* `docs/operations/draw-policy.md:5` says a draw request "locks balance mutations
  until settlement or cancellation", and `docs/ux/user-flows.md:42` that it "locks
  deposits and withdrawals". `withdraw` (`contracts/ConfidentialPool.sol:130`)
  tests no draw lock: `PositionsLocked` fails after a withdrawal during a draw.
  The README and the current threat model describe what the code does.
* `contracts/ConfidentialPool.sol:236-237` says that the cadence guarantees "an
  unlocked recovery window after a timeout"; `docs/operations/draw-policy.md:9`
  counts on it. The guarantee needs somebody to call `cancelDraw` early: a stale
  request can be cancelled and replaced at one timestamp, once the next request
  is due (`RecoveryWindow`).
* `backend/test/api.test.ts:10` says the API "returns event counts". A deposit is
  recognised by transaction and nonce (`backend/src/indexer/store.ts:78`), but
  nonces are per user (`contracts/ConfidentialPool.sol:427`): when one transaction
  carries the first deposits of two users, as a bundle of smart accounts can, the
  second is dropped (`DepositsCounted`). Reserve fundings (`store.ts:94`) are
  counted at most once per transaction.

* `docs/operations/snapshot-withdrawal-release.md:5` says that "withdrawals and ordinary
  prize withdrawals remain available during both pending draws and owner pause", and the
  page repeats it (`frontend/src/App.tsx:270`). The button does remain enabled, but the
  field the amount is typed into is disabled with the deactivation
  (`components/flows/WithdrawalCard.tsx:72`, `App.tsx:420`): unless an amount was typed
  before the draw, there is nothing to withdraw (`WithdrawalsAvailable`).

Further disagreements and limits, met while modelling, that no run is spent on:

* A decryption that answers after the account was switched or disconnected still shows
  the former account's value (`usePool.ts:636-672`; the clearing effect at 175-180 has
  run by then), while `docs/ux/user-flows.md:35` promises that it is cleared.
* A claim withdraws the prize as it was revealed. It may be less than what the account
  has won since, and more than the position if it withdrew in between, when nothing is
  moved; the page says "Prize paid" in both cases (`App.tsx:534`).
* A reserve funding the pool refuses is refunded inside the token's transaction, which
  succeeds; the page reports it as confirmed (`App.tsx:504`).
* A participant's further deposit is credited without an activation request; the page and
  the script then look for one and report a failure although the deposit succeeded
  (`usePool.ts:482`, `scripts/live-prize-lifecycle.ts:494`).
* The wait for the KMS has no timeout, and the dialog of a running operation cannot be
  dismissed: only loading the page again ends it.
* The archived page keeps the former account's copy until a refresh for the new one
  succeeds. A cancellation started from it cancels the signer's own stale request, not
  the one shown (`useLegacyExit.ts:28-65`, `102-114`). A finalization cannot do that:
  its proof is of the shown handle.
* A call the user started before a disconnect may connect the page again when it is
  answered (`useWallet.ts:197`); `DisconnectRetained` states what is kept.
* A change of account that is declined restores what the page held when it began
  (`useWallet.ts:209-218`), not what the wallet has exposed since; the page then shows the
  older account until the next report or load.
* A participant that withdraws everything while a draw is pending asks for its removal,
  but the settlement invalidates the request. It keeps its slot, with no weight, until
  that same address asks for a new check; nobody else can.
* The API reads the live store, so after a failed save and a restart it may answer with
  smaller counters than before.
* A script killed between broadcast and receipt leaves no trace: an operator who repeats
  the phase without inspecting the pool deposits a second time.

## 8. What is not modelled

* The HTTP API, its configuration and the event declarations: they keep no state that
  another part relies on. The number of draws the page reads from the API may lag; in
  the model the page reads it from the pool.
* `scripts/fund-sponsor-reserve.ts`: one guarded transaction of the shape of the deposit
  phase, without a second step.
* Rendering, formatting, the timer that hides a revealed value after 60 seconds,
  deployment profiles and RPC diagnostics of the web application, the archived runtime
  versions that `usePool.ts` can still drive, and the encryption SDK.
* Two-step ownership transfer (library code that only decides who may pause).
* Deployment, verification, bundle and showcase tooling: no state at run time.
* Chain reorganisations: no part of the code waits for confirmations or compares block
  hashes.
