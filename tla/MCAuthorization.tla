--------------------------- MODULE MCAuthorization ---------------------------
(* Two connections from one LAN address, one from another and one from the *)
(* PC itself.  While lan_require_pin is on, a LAN address takes the path   *)
(* of a remote one.                                                        *)
EXTENDS Authorization, TLC

CONSTANTS first, second, other, window, lanA, lanB, pc

MCIpOf == first :> lanA @@ second :> lanA @@ other :> lanB @@ window :> pc
MCKindOf == lanA :> "lan" @@ lanB :> "lan" @@ pc :> "loopback"

(* The two connections of one address are interchangeable. *)
Symmetric == Permutations({first, second})
=============================================================================
