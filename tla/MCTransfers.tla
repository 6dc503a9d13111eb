---------------------------- MODULE MCTransfers ----------------------------
EXTENDS Transfers, TLC

(* Clients and threads are interchangeable. *)
Symmetric == Permutations(Owners) \cup Permutations(Requests) \cup Permutations(Tokens)
=============================================================================
