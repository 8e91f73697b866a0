------------------------------- MODULE Indexer -------------------------------
(***************************************************************************)
(* backend/src: the service that polls the pool's events, keeps counters   *)
(* in memory for the HTTP API and saves them, with the next block to read, *)
(* as one row of a database.  A process dies and restarts; while one       *)
(* version replaces another two processes run at once.  A poll is a chain  *)
(* of awaited calls, each of which may fail, and a save whose answer was   *)
(* lost may have been executed, or be executed later.                      *)
(*                                                                         *)
(* The chain is append-only: blocks are final when they are read.          *)
(***************************************************************************)
EXTENDS EventLog

CONSTANTS
  Instances,      \* processes of the service
  Nobody,         \* the owner of a write whose caller is gone
  BatchSize,      \* INDEXER_BLOCK_BATCH_SIZE
  Emitted,        \* bound: the kinds of events that are enumerated
  MaxLogs,        \* bound on the events emitted
  MaxBlocks,      \* bound on the blocks mined
  MaxFaults       \* bound on the failures of calls, crashes and shutdowns

ASSUME IndexerAssumption ==
  /\ IsFiniteSet(Users) /\ Pool \notin Users
  /\ Nobody \notin Instances
  /\ BatchSize \in Nat \ {0}
  /\ Emitted \subseteq EventNames
  /\ MaxLogs \in Nat /\ MaxBlocks \in Nat /\ MaxFaults \in Nat

VARIABLES
  chain,             \* the events, in log order
  blockEnd,          \* for each block, the number of events up to its end
  checkpoint,        \* the row of the database
  inflight,          \* upserts that were sent and not executed
  phase,             \* of each process: where its poll is
  stopping,          \* it received SIGTERM
  store,             \* its IndexerStore
  lastPolledBlock,   \* the next block it will read
  queryToBlock,      \* the last block of the poll that is running
  cursor,            \* the next event of the poll that is running
  faults             \* failures so far

ledger  == <<chain, blockEnd>>
process == <<phase, stopping, store, lastPolledBlock, queryToBlock, cursor>>
vars    == <<ledger, checkpoint, inflight, process, faults>>

Phases == {"down", "idle", "processing", "saving"}

EmptyStore == [seenEventKeys |-> {}, counts |-> [c \in Counters |-> 0], latestDraw |-> 0]

\* FAULT: blocks are numbered from zero here and from one everywhere else.
NoCheckpointFromZero == [nextBlockNumber |-> 0, snapshot |-> EmptyStore]

\* No row behaves as a row of the empty store at INDEXER_START_BLOCK, the
\* first block the model counts.
NoCheckpoint == [nextBlockNumber |-> 1, snapshot |-> EmptyStore]

currentBlock == Len(blockEnd)

\* The number of events up to the end of block b.
End(b) == IF b = 0 THEN 0 ELSE blockEnd[b]

Init ==
  /\ chain = << >> /\ blockEnd = << >>
  /\ checkpoint = NoCheckpoint
  /\ inflight = {}
  /\ phase = [i \in Instances |-> "down"]
  /\ stopping = [i \in Instances |-> FALSE]
  /\ store = [i \in Instances |-> EmptyStore]
  /\ lastPolledBlock = [i \in Instances |-> 1]
  /\ queryToBlock = [i \in Instances |-> 0]
  /\ cursor = [i \in Instances |-> 1]
  /\ faults = 0
-----------------------------------------------------------------------------
(* The chain. *)

\* An event of the block being built, in a transaction of its own or in that
\* of the event before it.
Emit(name, source, sameTransaction) ==
  /\ Len(chain) < MaxLogs /\ currentBlock < MaxBlocks
  /\ sameTransaction => Len(chain) > End(currentBlock)
  /\ LET last  == IF chain = << >> THEN 0 ELSE chain[Len(chain)].transactionHash
         times == Cardinality({j \in 1 .. Len(chain) :
                                 chain[j].name = name /\ chain[j].source = source})
     IN  chain' = Append(chain, [name |-> name, source |-> source, number |-> times,
                                 transactionHash |-> IF sameTransaction THEN last ELSE last + 1])
  /\ UNCHANGED <<blockEnd, checkpoint, inflight, process, faults>>

Mine ==
  /\ currentBlock < MaxBlocks
  /\ blockEnd' = Append(blockEnd, Len(chain))
  /\ UNCHANGED <<chain, checkpoint, inflight, process, faults>>
-----------------------------------------------------------------------------
(* The store. *)

\* FAULT: the key of an event is not looked up.
AddEventAgain(s, log) ==
  IF log.name \notin Recorded
  THEN s
  ELSE [seenEventKeys |-> s.seenEventKeys \cup {Key(log)},
        counts        |-> [s.counts EXCEPT ![Counter(log)] = @ + 1],
        latestDraw    |-> IF log.name = "DrawExecuted" THEN log.number + 1 ELSE s.latestDraw]

\* processLog with the add method it calls.  Draws are counted from one.
AddEvent(s, log) ==
  IF log.name \notin Recorded \/ Key(log) \in s.seenEventKeys
  THEN s
  ELSE [seenEventKeys |-> s.seenEventKeys \cup {Key(log)},
        counts        |-> [s.counts EXCEPT ![Counter(log)] = @ + 1],
        latestDraw    |-> IF log.name = "DrawExecuted" THEN log.number + 1 ELSE s.latestDraw]
-----------------------------------------------------------------------------
(* A process. *)

Start(i) ==
  /\ phase[i] = "down"
  /\ store' = [store EXCEPT ![i] = checkpoint.snapshot]
  /\ lastPolledBlock' = [lastPolledBlock EXCEPT ![i] = checkpoint.nextBlockNumber]
  /\ phase' = [phase EXCEPT ![i] = "idle"]
  /\ UNCHANGED <<ledger, checkpoint, inflight, stopping, queryToBlock, cursor, faults>>

\* The timer fires, no poll is active and no block is new.
PollNothing(i) ==
  /\ phase[i] = "idle" /\ ~stopping[i]
  /\ currentBlock < lastPolledBlock[i]
  /\ UNCHANGED vars

\* Up to getBlockNumber's answer, or to the end of the batch.
QueryToBlock(i) ==
  LET batchEnd == lastPolledBlock[i] + BatchSize - 1
  IN  IF currentBlock < batchEnd THEN currentBlock ELSE batchEnd

\* Up to the answer of queryFilter: the events of blocks that are all mined.
Poll(i) ==
  /\ phase[i] = "idle" /\ ~stopping[i]
  /\ currentBlock >= lastPolledBlock[i]
  /\ queryToBlock' = [queryToBlock EXCEPT ![i] = QueryToBlock(i)]
  /\ cursor' = [cursor EXCEPT ![i] = End(lastPolledBlock[i] - 1) + 1]
  /\ phase' = [phase EXCEPT ![i] = "processing"]
  /\ UNCHANGED <<ledger, checkpoint, inflight, stopping, store, lastPolledBlock, faults>>

ProcessLog(i) ==
  /\ phase[i] = "processing"
  /\ cursor[i] <= End(queryToBlock[i])
  /\ store' = [store EXCEPT ![i] = AddEvent(@, chain[cursor[i]])]
  /\ cursor' = [cursor EXCEPT ![i] = @ + 1]
  /\ UNCHANGED <<ledger, checkpoint, inflight, phase, stopping, lastPolledBlock,
                 queryToBlock, faults>>

\* toSnapshot and the upsert are one step: nothing is awaited between them.
Save(i) ==
  /\ phase[i] = "processing"
  /\ cursor[i] > End(queryToBlock[i])
  /\ inflight' = inflight \cup
       {[nextBlockNumber |-> queryToBlock[i] + 1, snapshot |-> store[i], by |-> i]}
  /\ phase' = [phase EXCEPT ![i] = "saving"]
  /\ UNCHANGED <<ledger, checkpoint, stopping, store, lastPolledBlock, queryToBlock,
                 cursor, faults>>

\* FAULT: the upsert has no WHERE clause.
UpsertAlways(write) ==
  /\ inflight' = inflight \ {write}
  /\ checkpoint' = [nextBlockNumber |-> write.nextBlockNumber, snapshot |-> write.snapshot]

\* INSERT ... ON CONFLICT ... WHERE next_block_number <= EXCLUDED.next_block_number.
Upsert(write) ==
  /\ inflight' = inflight \ {write}
  /\ checkpoint' = IF checkpoint.nextBlockNumber <= write.nextBlockNumber
                   THEN [nextBlockNumber |-> write.nextBlockNumber,
                         snapshot |-> write.snapshot]
                   ELSE checkpoint

\* The poll ends and the next one starts behind what was saved.
Saved(i, write) ==
  /\ phase[i] = "saving" /\ write.by = i
  /\ Upsert(write)
  /\ lastPolledBlock' = [lastPolledBlock EXCEPT ![i] = write.nextBlockNumber]
  /\ phase' = [phase EXCEPT ![i] = "idle"]
  /\ UNCHANGED <<ledger, stopping, store, queryToBlock, cursor, faults>>

\* The database executes a write whose caller stopped waiting.
SavedLate(write) ==
  /\ write.by = Nobody
  /\ Upsert(write)
  /\ UNCHANGED <<ledger, process, faults>>
-----------------------------------------------------------------------------
(* Failures. *)

Fault == faults < MaxFaults /\ faults' = faults + 1

\* Nobody waits for i's write any more: it never arrives, or arrives later.
Abandon(i) ==
  LET mine == {w \in inflight : w.by = i}
  IN  \/ inflight' = inflight \ mine
      \/ inflight' = (inflight \ mine) \cup {[w EXCEPT !.by = Nobody] : w \in mine}

\* FAULT: the next block is advanced although the save failed.
PollFailsAhead(i) ==
  /\ Fault
  /\ phase[i] \in {"processing", "saving"}
  /\ Abandon(i)
  /\ lastPolledBlock' = [lastPolledBlock EXCEPT ![i] = queryToBlock[i] + 1]
  /\ phase' = [phase EXCEPT ![i] = "idle"]
  /\ UNCHANGED <<ledger, checkpoint, stopping, store, queryToBlock, cursor>>

\* FAULT: a poll that failed is not cleared, and every later tick joins it.
PollFailsForGood(i) ==
  /\ Fault
  /\ phase[i] \in {"processing", "saving"}
  /\ Abandon(i)
  /\ phase' = [phase EXCEPT ![i] = "failed"]
  /\ UNCHANGED <<ledger, checkpoint, stopping, store, lastPolledBlock, queryToBlock, cursor>>

\* getBlock or save rejects: the poll ends and keeps what it has recorded.
PollFails(i) ==
  /\ Fault
  /\ phase[i] \in {"processing", "saving"}
  /\ Abandon(i)
  /\ phase' = [phase EXCEPT ![i] = "idle"]
  /\ UNCHANGED <<ledger, checkpoint, stopping, store, lastPolledBlock, queryToBlock, cursor>>

Crash(i) ==
  /\ Fault
  /\ phase[i] # "down"
  /\ Abandon(i)
  /\ phase' = [phase EXCEPT ![i] = "down"]
  /\ stopping' = [stopping EXCEPT ![i] = FALSE]
  /\ UNCHANGED <<ledger, checkpoint, store, lastPolledBlock, queryToBlock, cursor>>

\* SIGTERM: the timer is cleared and the active poll is awaited.
Shutdown(i) ==
  /\ Fault
  /\ phase[i] # "down" /\ ~stopping[i]
  /\ stopping' = [stopping EXCEPT ![i] = TRUE]
  /\ UNCHANGED <<ledger, checkpoint, inflight, phase, store, lastPolledBlock,
                 queryToBlock, cursor>>

Exit(i) ==
  /\ stopping[i] /\ phase[i] = "idle"
  /\ phase' = [phase EXCEPT ![i] = "down"]
  /\ stopping' = [stopping EXCEPT ![i] = FALSE]
  /\ UNCHANGED <<ledger, checkpoint, inflight, store, lastPolledBlock, queryToBlock,
                 cursor, faults>>
-----------------------------------------------------------------------------
ChainStep ==
  \/ \E name \in Emitted : \E source \in Sources(name), same \in BOOLEAN :
       Emit(name, source, same)
  \/ Mine

\* What a process does when nothing fails.
Progress(i) ==
  \/ Start(i) \/ Poll(i) \/ ProcessLog(i) \/ Save(i) \/ Exit(i)
  \/ \E write \in inflight : Saved(i, write)

Next ==
  \/ ChainStep
  \/ \E i \in Instances :
       Progress(i) \/ PollNothing(i) \/ PollFails(i) \/ Crash(i) \/ Shutdown(i)
  \/ \E write \in inflight : SavedLate(write)

Spec == Init /\ [][Next]_vars
=============================================================================
