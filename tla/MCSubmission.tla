---------------------------- MODULE MCSubmission ----------------------------
(* Instance for TLC: tabs, and addresses, are interchangeable. *)
EXTENDS MissionSubmission, TLC

Interchangeable == Permutations(Tabs) \cup Permutations(Addresses)
=============================================================================
