---------------------------- MODULE ViewerStream ----------------------------
(***************************************************************************)
(* What a terminal session promises to one viewer, seen from its screen:   *)
(* the bytes shown since the last reset are a run of the output, in order, *)
(* each byte once.  Only when the buffer it is being replayed from has     *)
(* dropped bytes may the run skip forward.                                 *)
(***************************************************************************)
EXTENDS Naturals, Sequences

CONSTANT MaxBytes

VARIABLES
  produced,  (* bytes of output so far; a byte is its position    *)
  shown,     (* the positions shown since the last reset          *)
  overran    (* bytes were dropped before this viewer got them    *)

vars == <<produced, shown, overran>>

Run(lo, hi) == [i \in 1 .. hi - lo + 1 |-> lo + i - 1]

Follows(lo) ==
  \/ shown = <<>>
  \/ lo = shown[Len(shown)] + 1
  \/ overran /\ lo > shown[Len(shown)]

Init == produced = 0 /\ shown = <<>> /\ overran = FALSE

Produce ==
  /\ produced' \in produced + 1 .. MaxBytes
  /\ UNCHANGED <<shown, overran>>

Show ==
  /\ \E lo, hi \in 1 .. produced :
       /\ lo <= hi /\ Follows(lo)
       /\ shown' = shown \o Run(lo, hi)
  /\ UNCHANGED <<produced, overran>>

Reset == shown' = <<>> /\ UNCHANGED <<produced, overran>>

Overrun == overran' \in BOOLEAN /\ UNCHANGED <<produced, shown>>

Next == Produce \/ Show \/ Reset \/ Overrun

Spec == Init /\ [][Next]_vars
=============================================================================
