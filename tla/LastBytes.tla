------------------------------ MODULE LastBytes ------------------------------
(***************************************************************************)
(* What the output buffer of a terminal session promises, without saying   *)
(* how it stores anything: it keeps the last MaxSize bytes written since   *)
(* the last clear and counts every byte ever written.  RingBuffer.tla is   *)
(* shown to implement this module.                                         *)
(***************************************************************************)
EXTENDS Naturals, Sequences

CONSTANTS
  Chunks,   (* the byte strings a caller may append   *)
  MaxSize   (* how many bytes are kept                *)

VARIABLES
  content,  (* the bytes kept, oldest first           *)
  count     (* bytes written since the creation       *)

vars == <<content, count>>

(* The last n elements of s, or all of s when it is shorter. *)
LastOf(s, n) == IF Len(s) <= n THEN s ELSE SubSeq(s, Len(s) - n + 1, Len(s))

Init == content = <<>> /\ count = 0

Write(data) ==
  /\ content' = LastOf(content \o data, MaxSize)
  /\ count' = count + Len(data)

(* Forgetting the content never rewinds the counter. *)
Clear == content' = <<>> /\ UNCHANGED count

Next == Clear \/ \E data \in Chunks : Write(data)

Spec == Init /\ [][Next]_vars
=============================================================================
