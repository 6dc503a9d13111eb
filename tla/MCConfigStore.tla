---------------------------- MODULE MCConfigStore ----------------------------
EXTENDS ConfigStore, TLC

(* Threads of the pool, hosts and users are interchangeable. *)
Symmetric == Permutations(Workers) \cup Permutations(Hosts) \cup Permutations(Users)
=============================================================================
