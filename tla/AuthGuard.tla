------------------------------ MODULE AuthGuard ------------------------------
(***************************************************************************)
(* AuthGuard of security/auth.py: the failures of one IP as an entry       *)
(* [count, last].  An IP that is not in the dictionary has count zero.     *)
(***************************************************************************)
EXTENDS Naturals

CONSTANTS
  MaxFails,   (* AUTH_MAX_FAILS                                            *)
  BlockSecs   (* AUTH_BLOCK_SECS                                           *)

ASSUME GuardAssumption == MaxFails \in Nat \ {0} /\ BlockSecs \in Nat

NoEntry == [count |-> 0, last |-> 0]

(* is_blocked(): its answer at time t. *)
IsBlocked(entry, t) == entry.count >= MaxFails /\ t - entry.last < BlockSecs

(* Variant: an expired entry is discounted instead of removed. *)
LookedAtDiscounting(entry, t) ==
  IF entry.count > 0 /\ t - entry.last >= BlockSecs
  THEN [entry EXCEPT !.count = @ - MaxFails] ELSE entry

(* ... and its side effect: an expired entry is removed, whether it had    *)
(* reached the threshold or not.                                           *)
LookedAt(entry, t) ==
  IF entry.count > 0 /\ t - entry.last >= BlockSecs THEN NoEntry ELSE entry

(* record_fail() *)
Failed(entry, t) == [count |-> entry.count + 1, last |-> t]
=============================================================================
