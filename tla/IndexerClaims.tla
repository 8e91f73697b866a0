--------------------------- MODULE IndexerClaims ----------------------------
(***************************************************************************)
(* A sentence of the documents about the indexer that the code does not    *)
(* keep, as an invariant a run refutes.                                    *)
(***************************************************************************)
EXTENDS IndexerProperties

\* backend/test/api.test.ts says of the pool's state that it "returns event counts",
\* and docs/operations/live-prize-lifecycle.md reports them as the events that
\* happened.  A row would then count, for every user, all its deposits in the
\* blocks before the next one to read.  The key of a deposit is its transaction
\* and its nonce, which two users' deposits in one transaction can share: the
\* second is dropped.
DepositsCounted ==
  \A u \in Users :
    checkpoint.snapshot.counts[[name |-> "Deposited", of |-> u]] =
      Cardinality({j \in 1 .. End(checkpoint.nextBlockNumber - 1) :
                     chain[j].name = "Deposited" /\ chain[j].source = u})
=============================================================================
