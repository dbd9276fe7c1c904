------------------------------ MODULE MCAccess ------------------------------
(* Instance for TLC: the requests, and the founders, are interchangeable. *)
EXTENDS OperatorAccess, TLC

Interchangeable == Permutations(Requests) \cup Permutations(Founders)
=============================================================================
