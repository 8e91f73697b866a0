-------------------------- MODULE LegacyProperties --------------------------
(***************************************************************************)
(* What must hold of the exits from an archived pool.                      *)
(***************************************************************************)
EXTENDS LegacyExit

Requests == [active : BOOLEAN, user : Users \cup {Nobody}, nonce : Nat,
             amount : Euint64s, timestamp : Nat]

\* Type correctness.  What a user was paid fits the width of a balance.
LegacyTypeOK ==
  /\ balances \in [Users -> Euint64s] /\ paid \in [Users -> Euint64s]
  /\ pending \in [Users -> Requests]
  /\ userWithdrawalNonces \in [Users -> Nat]
  /\ decryptable \subseteq [handle : Users \X Nat, clear : Euint64s]
  /\ log \in [Users -> Seq([event : {"requested", "finalized", "cancelled"}, nonce : Nat])]
  /\ now \in Nat

\* docs/security/stale-handles.md, Theorem 3: whatever is requested, cancelled
\* and finalized, a user is paid what leaves its balance and no more.  A balance
\* that wrapped around, or a proof that was used twice, would break it.
FundsConserved == \A user \in Users : balances[user] + paid[user] = Savings

\* useLegacyExit.ts, finalizeWithdrawal: an exit that is reported as finalized
\* settled the request whose copy was on screen, for its owner, whichever
\* account signed in the meantime.
FinalizedIsShown ==
  [][ (op.kind = "finalize" /\ op.stage = "mining" /\ op'.stage = "settling")
      => LET owner == op.request.user
         IN  /\ pending[owner].active /\ pending[owner].nonce = op.request.nonce
             /\ ~pending'[owner].active
             /\ \A user \in Users : paid'[user] # paid[user] => user = owner ]_vars

\* docs/security/stale-handles.md, Theorem 1 and section 4.2: requests live as
\* the lifecycle says; a finalization and a cancellation exclude each other and
\* a proof that arrives late settles nothing.
Lifecycle == INSTANCE WithdrawalLifecycle
FollowsLifecycle == Lifecycle!Spec

\* docs/security/stale-handles.md, section 4.1: when the KMS never answers, a
\* user who stays with the page has the request released after the delay.
StaleRequestReleased ==
  \A user \in Users :
    []<>(account = user) => (pending[user].active ~> ~pending[user].active)
=============================================================================
