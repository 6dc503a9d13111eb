---------------------------- MODULE Authorization ----------------------------
(***************************************************************************)
(* Who gets past NetworkServices.authorize() of net/server.py, and who is  *)
(* thrown out: the three ways in (loopback, first come LAN whitelist, PIN),*)
(* the guard that rations PIN attempts, the list of connections to close   *)
(* when the PIN changes, and the GUI thread that changes the PIN, the LAN  *)
(* option and the whitelist meanwhile.                                     *)
(*                                                                         *)
(* An element of Conns is a slot for one websocket at a time.  An action   *)
(* of a connection is the code between two awaits; the GUI thread and the  *)
(* event loop interleave at every shared access.  A client behind the      *)
(* tunnel is a remote one whose IP is the header's.                        *)
(***************************************************************************)
EXTENDS AuthGuard, Sequences

CONSTANTS
  Conns, Ips,
  IpOf,       (* the address each connection comes from                    *)
  KindOf,     (* "loopback", "lan" or "remote", for each address           *)
  NoIp,       (* the whitelist is free                                     *)
  MaxTime,    (* bound of the exploration: seconds                         *)
  MaxChanges  (* bound of the exploration: changes of the PIN and resets   *)

ASSUME ConnsAssumption ==
  /\ IpOf \in [Conns -> Ips]
  /\ KindOf \in [Ips -> {"loopback", "lan", "remote"}]
  /\ NoIp \notin Ips
  /\ MaxTime \in Nat /\ MaxChanges \in Nat

VARIABLES
  now,         (* the guard's clock                                        *)
  failures,    (* AuthGuard._failures                                      *)
  inProgress,  (* AuthGuard._in_progress                                   *)
  trusted,     (* TrustedPeer._ip                                          *)
  lanPin,      (* config['lan_require_pin']                                *)
  pin,         (* config['pin_hash'], as the number of times it changed    *)
  revoking,    (* the GUI thread is between regenerate_pin and the revoke  *)
  conn,        (* where handler() is, for each connection                  *)
  tracked,     (* _remote_conns                                            *)
  kicked,      (* connections whose close was requested by the revoke      *)
  badge,       (* history: how and when a connection was let in            *)
  resets,      (* history: how many times the whitelist was freed          *)
  guesses      (* history: times of the wrong PINs of each address, since  *)
               (* its last right one                                       *)

guard == <<failures, inProgress, guesses>>
gui == <<trusted, lanPin, pin, revoking, resets>>
vars == <<now, guard, gui, conn, tracked, kicked, badge>>

States == {"closed", "refused", "asked", "parting", "welcoming", "in"}

(* Connections that hold their address in inProgress. *)
Handshake == {c \in Conns : conn[c] \in {"asked", "parting"}}

Badge(how, n) == [how |-> how, epoch |-> n]
NoBadge == Badge("none", 0)

Init ==
  /\ now = 0
  /\ failures = [ip \in Ips |-> NoEntry] /\ inProgress = {}
  /\ guesses = [ip \in Ips |-> <<>>]
  /\ trusted = NoIp /\ lanPin \in BOOLEAN /\ pin = 0 /\ revoking = FALSE /\ resets = 0
  /\ conn = [c \in Conns |-> "closed"]
  /\ tracked = {} /\ kicked = {}
  /\ badge = [c \in Conns |-> NoBadge]

Moves(c, state) == conn' = [conn EXCEPT ![c] = state]

-----------------------------------------------------------------------------
(* authorize(): the PC itself is always let in, and not tracked. *)
OpenLoopback(c) ==
  /\ conn[c] = "closed" /\ KindOf[IpOf[c]] = "loopback"
  /\ Moves(c, "in")
  /\ badge' = [badge EXCEPT ![c] = Badge("loopback", 0)]
  /\ UNCHANGED <<now, guard, gui, tracked, kicked>>

(* Variant: the whitelist is only written, never looked at. *)
ClaimAlways(ip) == TRUE

(* A whitelist that is free, or holds this address, lets it in. *)
MayClaim(ip) == trusted \in {NoIp, ip}

OpenLan(c) ==
  /\ conn[c] = "closed" /\ KindOf[IpOf[c]] = "lan" /\ ~lanPin
  /\ IF MayClaim(IpOf[c])
     THEN /\ trusted' = IpOf[c]
          /\ Moves(c, "in") /\ tracked' = tracked \cup {c}
          /\ badge' = [badge EXCEPT ![c] = Badge("lan", resets)]
     ELSE /\ Moves(c, "refused")
          /\ UNCHANGED <<trusted, tracked, badge>>
  /\ UNCHANGED <<now, guard, lanPin, pin, revoking, resets, kicked>>

NeedsPin(c) ==
  KindOf[IpOf[c]] = "remote" \/ (KindOf[IpOf[c]] = "lan" /\ lanPin)

(* Variant: handshakes of one address are not serialised. *)
MayTryInParallel(ip) == ~IsBlocked(failures[ip], now)

(* is_blocked() and begin(), in this order. *)
MayTry(ip) == ~IsBlocked(failures[ip], now) /\ ip \notin inProgress

(* _authorize_remote(), up to the wait for the PIN. *)
OpenWithPin(c) ==
  /\ conn[c] = "closed" /\ NeedsPin(c)
  /\ failures' = [failures EXCEPT ![IpOf[c]] = LookedAt(@, now)]
  /\ IF MayTry(IpOf[c])
     THEN inProgress' = inProgress \cup {IpOf[c]} /\ Moves(c, "asked")
     ELSE Moves(c, "refused") /\ UNCHANGED inProgress
  /\ UNCHANGED <<now, guesses, gui, tracked, kicked, badge>>

(* auth_blocked, or the close of a refused LAN client, is being sent. *)
Refused(c) ==
  /\ conn[c] = "refused"
  /\ Moves(c, "closed")
  /\ UNCHANGED <<now, guard, gui, tracked, kicked, badge>>

(* The connection drops, times out or sends something else than a PIN; the *)
(* address stays in progress until the close has been sent.                *)
HandshakeAborts(c) ==
  /\ conn[c] = "asked"
  /\ Moves(c, "parting")
  /\ UNCHANGED <<now, guard, gui, tracked, kicked, badge>>

WrongPin(c) ==
  /\ conn[c] = "asked"
  /\ failures' = [failures EXCEPT ![IpOf[c]] = Failed(@, now)]
  /\ guesses' = [guesses EXCEPT ![IpOf[c]] = Append(@, now)]
  /\ Moves(c, "parting")
  /\ UNCHANGED <<now, inProgress, gui, tracked, kicked, badge>>

(* The right PIN: the handshake is over, the failures are forgotten, and   *)
(* auth_ok is being sent.                                                  *)
RightPin(c) ==
  /\ conn[c] = "asked"
  /\ failures' = [failures EXCEPT ![IpOf[c]] = NoEntry]
  /\ guesses' = [guesses EXCEPT ![IpOf[c]] = <<>>]
  /\ inProgress' = inProgress \ {IpOf[c]}
  /\ badge' = [badge EXCEPT ![c] = Badge("pin", pin)]
  /\ Moves(c, "welcoming")
  /\ UNCHANGED <<now, gui, tracked, kicked>>

Parted(c) ==
  /\ conn[c] = "parting"
  /\ inProgress' = inProgress \ {IpOf[c]}
  /\ Moves(c, "closed")
  /\ UNCHANGED <<now, failures, guesses, gui, tracked, kicked, badge>>

(* handler() after a successful authorize().  Until this step the          *)
(* connection is authenticated and not tracked: a change of the PIN that   *)
(* is carried out meanwhile does not reach it.                             *)
Welcomed(c) ==
  /\ conn[c] = "welcoming"
  /\ Moves(c, "in") /\ tracked' = tracked \cup {c}
  /\ UNCHANGED <<now, guard, gui, kicked, badge>>

(* auth_ok cannot be sent. *)
WelcomeFails(c) ==
  /\ conn[c] = "welcoming"
  /\ Moves(c, "closed")
  /\ badge' = [badge EXCEPT ![c] = NoBadge]
  /\ UNCHANGED <<now, guard, gui, tracked, kicked>>

(* The client leaves, or the close that was requested is carried out. *)
Leave(c) ==
  /\ conn[c] = "in"
  /\ Moves(c, "closed")
  /\ tracked' = tracked \ {c} /\ kicked' = kicked \ {c}
  /\ badge' = [badge EXCEPT ![c] = NoBadge]
  /\ UNCHANGED <<now, guard, gui>>

-----------------------------------------------------------------------------
(* The GUI thread.  regenerate_pin(): the new PIN is stored, and then      *)
(* revoke_pin_sessions() asks every tracked connection to close.           *)
ChangePin ==
  /\ ~revoking /\ pin + resets < MaxChanges
  /\ pin' = pin + 1 /\ revoking' = TRUE
  /\ UNCHANGED <<now, guard, trusted, lanPin, resets, conn, tracked, kicked, badge>>

(* Variant: the list is emptied instead of closed. *)
RevokeForgets ==
  /\ revoking
  /\ revoking' = FALSE
  /\ tracked' = {}
  /\ UNCHANGED <<now, guard, trusted, lanPin, pin, resets, conn, kicked, badge>>

RevokePinSessions ==
  /\ revoking
  /\ revoking' = FALSE
  /\ kicked' = kicked \cup tracked
  /\ UNCHANGED <<now, guard, trusted, lanPin, pin, resets, conn, tracked, badge>>

ToggleLanPin ==
  /\ lanPin' = ~lanPin
  /\ UNCHANGED <<now, guard, trusted, pin, revoking, resets, conn, tracked, kicked, badge>>

ResetTrusted ==
  /\ pin + resets < MaxChanges
  /\ trusted' = NoIp /\ resets' = resets + 1
  /\ UNCHANGED <<now, guard, lanPin, pin, revoking, conn, tracked, kicked, badge>>

Tick ==
  /\ now < MaxTime
  /\ now' = now + 1
  /\ UNCHANGED <<guard, gui, conn, tracked, kicked, badge>>

Next ==
  \/ \E c \in Conns :
       \/ OpenLoopback(c) \/ OpenLan(c) \/ OpenWithPin(c) \/ Refused(c)
       \/ HandshakeAborts(c) \/ WrongPin(c) \/ RightPin(c)
       \/ Parted(c) \/ Welcomed(c) \/ WelcomeFails(c) \/ Leave(c)
  \/ ChangePin \/ RevokePinSessions \/ ToggleLanPin \/ ResetTrusted \/ Tick

Spec == Init /\ [][Next]_vars

-----------------------------------------------------------------------------
(* Types. *)
TypeOK ==
  /\ now \in Nat /\ pin \in Nat /\ resets \in Nat
  /\ failures \in [Ips -> [count : Nat, last : Nat]]
  /\ inProgress \subseteq Ips
  /\ guesses \in [Ips -> Seq(Nat)]
  /\ trusted \in Ips \cup {NoIp}
  /\ lanPin \in BOOLEAN /\ revoking \in BOOLEAN
  /\ conn \in [Conns -> States]
  /\ tracked \subseteq Conns /\ kicked \subseteq Conns
  /\ badge \in [Conns -> [how : {"none", "loopback", "lan", "pin"}, epoch : Nat]]

(* Among the wrong PINs an address has tried since its last right one,     *)
(* any MaxFails + 1 in a row span at least BlockSecs: opening connections  *)
(* in parallel, waiting inside a handshake or coming back just before the  *)
(* block ends never buys a guess more.                                     *)
GuessesAreRationed ==
  \A ip \in Ips : \A i \in 1 .. Len(guesses[ip]) :
    i + MaxFails <= Len(guesses[ip])
      => guesses[ip][i + MaxFails] - guesses[ip][i] >= BlockSecs

(* "Un solo tentativo di autenticazione alla volta per IP", and an address *)
(* is marked as in progress exactly while one of its connections is.       *)
OneHandshakePerIp ==
  /\ inProgress = {IpOf[c] : c \in Handshake}
  /\ \A c, d \in Handshake : IpOf[c] = IpOf[d] => c = d

(* Between two resets the whitelist lets in a single LAN address, however  *)
(* the PIN option is switched in between.                                  *)
WhitelistIsExclusive ==
  \A c, d \in Conns :
    (badge[c].how = "lan" /\ badge[d].how = "lan" /\ badge[c].epoch = badge[d].epoch)
      => IpOf[c] = IpOf[d]

(* What is served and can be revoked is exactly what is tracked. *)
ServedIsTracked ==
  tracked = {c \in Conns : conn[c] = "in" /\ KindOf[IpOf[c]] # "loopback"}

(* Who is let in, and with what standing: one handshake of an address at a *)
(* time (begin and end of AuthGuard), one LAN address in the whitelist     *)
(* (TrustedPeer), and whoever is served is known to the revoke.            *)
AdmissionIsSound == OneHandshakePerIp /\ WhitelistIsExclusive /\ ServedIsTracked

(* When the sessions are revoked, everybody who is being served on an old  *)
(* PIN is asked to leave.                                                  *)
RevokeAsksTheServed ==
  (revoking /\ ~revoking') =>
    \A c \in Conns :
      (conn[c] = "in" /\ badge[c].how = "pin" /\ badge[c].epoch < pin) => c \in kicked'
RevokeReachesTheServed == [][RevokeAsksTheServed]_vars

=============================================================================
