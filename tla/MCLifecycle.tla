---------------------------- MODULE MCLifecycle ----------------------------
(* Instances of LifecycleScript for TLC: the operator's first run meets a    *)
(* pool that has run a round.                                                *)
EXTENDS LifecycleProperties, PlayedPool

MCInit == PlayedInit /\ LifecycleInit

MCFairSpec == MCInit /\ [][LifecycleNext]_lifecycleVars /\ LifecycleFairness
=============================================================================
