----------------------------- MODULE MCMissions -----------------------------
(* MissionBookkeeping for TLC: two requests that may trade places.         *)
EXTENDS MissionBookkeeping, TLC

Permuted == Permutations(Requests)
=============================================================================
