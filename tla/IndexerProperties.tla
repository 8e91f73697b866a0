------------------------- MODULE IndexerProperties --------------------------
(***************************************************************************)
(* What makes the indexer correct, stated over the state of Indexer.       *)
(***************************************************************************)
EXTENDS Indexer

Stores == [seenEventKeys : SUBSET [transactionHash : Nat, kind : Recorded, number : Nat],
           counts : [Counters -> Nat], latestDraw : Nat]

\* The values of the chain, the row, the writes and every process.
TypeOK ==
  /\ chain \in Seq(Logs) /\ blockEnd \in Seq(Nat)
  /\ checkpoint \in [nextBlockNumber : Nat \ {0}, snapshot : Stores]
  /\ inflight \subseteq [nextBlockNumber : Nat \ {0}, snapshot : Stores,
                         by : Instances \cup {Nobody}]
  /\ phase \in [Instances -> Phases]
  /\ stopping \in [Instances -> BOOLEAN]
  /\ store \in [Instances -> Stores]
  /\ lastPolledBlock \in [Instances -> Nat \ {0}]
  /\ queryToBlock \in [Instances -> Nat]
  /\ cursor \in [Instances -> Nat \ {0}]
  /\ faults \in Nat

\* Store s is what indexing the first n events of a log, each once, gives.
Represents(log, s, n) ==
  /\ s.seenEventKeys = {Key(log[j]) : j \in Firsts(log, n)}
  /\ s.counts = Tally(log, n)
  /\ LET draws == {j \in Firsts(log, n) : log[j].name = "DrawExecuted"}
     IN  \/ draws = {} /\ s.latestDraw = 0
         \/ \E j \in draws : (\A k \in draws : k <= j) /\ s.latestDraw = log[j].number + 1

\* What the HTTP API answers from is at any moment the index of a prefix of
\* the chain: no event counted twice and none skipped, although polls fail
\* half way and their range is read again.
LiveStoreIsPrefix ==
  \A i \in Instances :
    phase[i] # "down" =>
      \E n \in End(lastPolledBlock[i] - 1) .. End(currentBlock) : Represents(chain, store[i], n)

\* A process never moves past a block whose events are not durable, so that
\* a crash after any save, acknowledged or not, loses nothing.
NeverAheadOfCheckpoint ==
  \A i \in Instances :
    phase[i] # "down" => lastPolledBlock[i] <= checkpoint.nextBlockNumber

\* The durable row implements the abstract promise: the tally of a prefix that
\* only grows, whichever process writes last and however late a write arrives.
Prefix == INSTANCE ChainPrefix WITH
  events <- chain,
  upTo   <- End(checkpoint.nextBlockNumber - 1),
  tally  <- checkpoint.snapshot.counts

DurablePrefix == Prefix!Spec

\* Failures are bounded, processes are restarted, timers fire, and a call that
\* does not fail is answered.
FairSpec == Spec /\ \A i \in Instances : WF_vars(Progress(i))

\* Every mined block gets into the durable row.
BlocksIndexed ==
  \A b \in 1 .. MaxBlocks : currentBlock >= b ~> checkpoint.nextBlockNumber > b
=============================================================================
