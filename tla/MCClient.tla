------------------------------ MODULE MCClient ------------------------------
(* Instances of PoolClient for TLC: the page opens on a pool that has run a  *)
(* round, and the account that has not saved yet is the one selected.        *)
EXTENDS ClientProperties, PlayedPool

MCInit == PlayedInit /\ PageInit /\ selected # Saver

MCSpec == MCInit /\ [][ClientNext]_clientVars
MCFairSpec == MCSpec /\ ClientFairness
=============================================================================
