--------------------------- MODULE MCClientLink ---------------------------
EXTENDS ClientLink, TLC

(* The websockets are interchangeable. *)
Symmetric == Permutations(Slots)
=============================================================================
