--------------------------- MODULE ConnectionProofs ---------------------------
(***************************************************************************)
(* How a client is let in, and what it does once it is: the properties of  *)
(* Authorization.tla for any connections and addresses, any threshold and  *)
(* block, and those of ClientLink.tla for any number of websockets, keys   *)
(* and attempts, whatever is in flight and however often things happen.    *)
(***************************************************************************)
EXTENDS Authorization, ClientLink, Integers, TLAPS

USE GuardAssumption, ConnsAssumption

(* A connection that is being asked for the PIN, or has been, is not the   *)
(* PC's own; one let in by PIN neither.                                    *)
PinIsForOthers ==
  \A c \in Conns :
    (conn[c] \in {"asked", "parting", "welcoming"} \/ badge[c].how = "pin")
      => KindOf[IpOf[c]] # "loopback"

(* Whoever was let in by the whitelist since the last reset is in it.      *)
WhitelistRemembers ==
  \A c \in Conns : badge[c].how = "lan" =>
    /\ badge[c].epoch <= resets
    /\ badge[c].epoch = resets => trusted = IpOf[c]

(* What an entry e of the guard stands for at time t, when g are the times *)
(* of the wrong PINs: it counts the last ones, the others are older than   *)
(* the block, and any MaxFails + 1 in a row span the block.                *)
Stands(e, g, t) ==
  /\ \A i \in 1 .. Len(g) : g[i] <= t
  /\ \A i, j \in 1 .. Len(g) : i <= j => g[i] <= g[j]
  /\ e.count <= Len(g) /\ e.count <= MaxFails
  /\ e.count > 0 => e.last = g[Len(g)]
  /\ \A i \in 1 .. Len(g) - e.count : t - g[i] >= BlockSecs
  /\ \A i \in 1 .. Len(g) :
       i + MaxFails <= Len(g) => g[i + MaxFails] - g[i] >= BlockSecs

EntriesStand == \A ip \in Ips : Stands(failures[ip], guesses[ip], now)

(* Nobody is asked for the PIN while its address has used its guesses up.  *)
AskedMayFail ==
  \A c \in Conns : conn[c] = "asked" => failures[IpOf[c]].count < MaxFails

AuthInv ==
  /\ TypeOK /\ OneHandshakePerIp /\ ServedIsTracked
  /\ PinIsForOthers /\ WhitelistRemembers
  /\ WhitelistIsExclusive /\ EntriesStand /\ AskedMayFail

-----------------------------------------------------------------------------
(* The helpers of the guard return entries. *)
Entry == [count : Nat, last : Nat]

LEMMA EntriesTyped ==
  ASSUME NEW e \in Entry, NEW t \in Nat
  PROVE  LookedAt(e, t) \in Entry /\ Failed(e, t) \in Entry /\ NoEntry \in Entry
  BY DEF Entry, LookedAt, Failed, NoEntry

(* Every step keeps the types. *)
LEMMA TypeStep == ASSUME TypeOK, [Next]_vars PROVE TypeOK'
  <1> USE DEF TypeOK, guard, gui, Moves, States, Badge, NoBadge
  <1>t. \A ip \in Ips : failures[ip] \in Entry
    BY DEF Entry
  <1>1. ASSUME NEW c \in Conns, OpenLoopback(c) PROVE TypeOK'
    BY <1>1 DEF OpenLoopback
  <1>2. ASSUME NEW c \in Conns, OpenLan(c) PROVE TypeOK'
    <2>1. conn' \in [Conns -> States]
      <3>1. conn' = [conn EXCEPT ![c] = "in"] \/ conn' = [conn EXCEPT ![c] = "refused"]
        BY <1>2, Zenon DEF OpenLan
      <3>2. "in" \in States /\ "refused" \in States /\ conn \in [Conns -> States]
        OBVIOUS
      <3> QED
        BY <3>1, <3>2
    <2>2. trusted' \in Ips \cup {NoIp} /\ tracked' \subseteq Conns
      BY <1>2 DEF OpenLan
    <2>3. badge' \in [Conns -> [how : {"none", "loopback", "lan", "pin"}, epoch : Nat]]
      <3> DEFINE B == [how : {"none", "loopback", "lan", "pin"}, epoch : Nat]
                 new == [how |-> "lan", epoch |-> resets]
      <3>1. badge' = badge \/ badge' = [badge EXCEPT ![c] = new]
        BY <1>2 DEF OpenLan
      <3>2. new \in B /\ badge \in [Conns -> B]
        OBVIOUS
      <3> HIDE DEF B, new
      <3>3. badge' \in [Conns -> B]
        BY <3>1, <3>2
      <3> QED
        BY <3>3 DEF B
    <2> QED
      BY <1>2, <2>1, <2>2, <2>3 DEF OpenLan
  <1>3. ASSUME NEW c \in Conns, OpenWithPin(c) PROVE TypeOK'
    <2>1. failures' \in [Ips -> Entry]
      BY <1>3, <1>t, EntriesTyped DEF OpenWithPin, Entry
    <2>2. inProgress' \subseteq Ips
      BY <1>3 DEF OpenWithPin
    <2>3. conn' \in [Conns -> States]
      BY <1>3 DEF OpenWithPin
    <2> QED
      BY <1>3, <2>1, <2>2, <2>3 DEF OpenWithPin, Entry
  <1>4. ASSUME NEW c \in Conns, Refused(c) PROVE TypeOK'
    BY <1>4 DEF Refused
  <1>5. ASSUME NEW c \in Conns, HandshakeAborts(c) PROVE TypeOK'
    BY <1>5 DEF HandshakeAborts
  <1>6. ASSUME NEW c \in Conns, WrongPin(c) PROVE TypeOK'
    <2>1. failures' \in [Ips -> Entry]
      BY <1>6, <1>t, EntriesTyped DEF WrongPin, Entry
    <2>2. guesses' \in [Ips -> Seq(Nat)]
      BY <1>6 DEF WrongPin
    <2> QED
      BY <1>6, <2>1, <2>2 DEF WrongPin, Entry
  <1>7. ASSUME NEW c \in Conns, RightPin(c) PROVE TypeOK'
    <2>1. failures' \in [Ips -> Entry]
      BY <1>7, <1>t DEF RightPin, Entry, NoEntry
    <2>2. guesses' \in [Ips -> Seq(Nat)]
      BY <1>7 DEF RightPin
    <2> QED
      BY <1>7, <2>1, <2>2 DEF RightPin, Entry
  <1>8. ASSUME NEW c \in Conns, Parted(c) PROVE TypeOK'
    BY <1>8 DEF Parted
  <1>9. ASSUME NEW c \in Conns, Welcomed(c) PROVE TypeOK'
    BY <1>9 DEF Welcomed
  <1>10. ASSUME NEW c \in Conns, WelcomeFails(c) PROVE TypeOK'
    BY <1>10 DEF WelcomeFails
  <1>11. ASSUME NEW c \in Conns, Leave(c) PROVE TypeOK'
    BY <1>11 DEF Leave
  <1>12. CASE ChangePin
    BY <1>12 DEF ChangePin
  <1>13. CASE RevokePinSessions
    BY <1>13 DEF RevokePinSessions
  <1>14. CASE ToggleLanPin
    BY <1>14 DEF ToggleLanPin
  <1>15. CASE ResetTrusted
    BY <1>15 DEF ResetTrusted
  <1>16. CASE Tick
    BY <1>16 DEF Tick
  <1>17. CASE UNCHANGED vars
    BY <1>17 DEF vars
  <1> QED
    BY <1>1, <1>2, <1>3, <1>4, <1>5, <1>6, <1>7, <1>8, <1>9, <1>10, <1>11, <1>12,
       <1>13, <1>14, <1>15, <1>16, <1>17 DEF Next

(* begin() and end() bracket a handshake, whichever way it ends.           *)
LEMMA HandshakeStep ==
  ASSUME TypeOK, OneHandshakePerIp, [Next]_vars
  PROVE  OneHandshakePerIp'
  <1> USE DEF TypeOK, guard, gui, Moves
  <1>1. ASSUME NEW c \in Conns,
               \/ OpenLoopback(c) \/ OpenLan(c) \/ Refused(c)
               \/ Welcomed(c) \/ WelcomeFails(c) \/ Leave(c)
        PROVE  OneHandshakePerIp'
    <2>1. /\ conn[c] \notin {"asked", "parting"}
          /\ \E state \in States \ {"asked", "parting"} : Moves(c, state)
          /\ inProgress' = inProgress
      BY <1>1 DEF OpenLoopback, OpenLan, Refused, Welcomed, WelcomeFails, Leave, States
    <2>2. Handshake' = Handshake
      BY <2>1 DEF Handshake
    <2> QED
      BY <2>1, <2>2 DEF OneHandshakePerIp
  <1>2. ASSUME NEW c \in Conns, OpenWithPin(c) PROVE OneHandshakePerIp'
    <2>1. CASE MayTry(IpOf[c])
      <3>1. Handshake' = Handshake \cup {c} /\ inProgress' = inProgress \cup {IpOf[c]}
        BY <1>2, <2>1 DEF OpenWithPin, Handshake
      <3>2. IpOf[c] \notin {IpOf[d] : d \in Handshake}
        BY <2>1 DEF MayTry, OneHandshakePerIp
      <3>3. inProgress' = {IpOf[d] : d \in Handshake'}
        BY <3>1 DEF OneHandshakePerIp
      <3>4. \A d, e \in Handshake' : IpOf[d] = IpOf[e] => d = e
        BY <3>1, <3>2 DEF OneHandshakePerIp
      <3> QED
        BY <3>3, <3>4 DEF OneHandshakePerIp
    <2>2. CASE ~MayTry(IpOf[c])
      <3>1. Handshake' = Handshake /\ inProgress' = inProgress
        BY <1>2, <2>2 DEF OpenWithPin, Handshake
      <3> QED
        BY <3>1 DEF OneHandshakePerIp
    <2> QED
      BY <2>1, <2>2
  <1>3. ASSUME NEW c \in Conns, HandshakeAborts(c) \/ WrongPin(c)
        PROVE  OneHandshakePerIp'
    <2>1. conn[c] = "asked" /\ Moves(c, "parting") /\ inProgress' = inProgress
      BY <1>3 DEF HandshakeAborts, WrongPin
    <2>2. Handshake' = Handshake
      BY <2>1 DEF Handshake
    <2> QED
      BY <2>1, <2>2 DEF OneHandshakePerIp
  <1>4. ASSUME NEW c \in Conns, RightPin(c) \/ Parted(c) PROVE OneHandshakePerIp'
    <2>1. /\ Handshake' = Handshake \ {c} /\ c \in Handshake
          /\ inProgress' = inProgress \ {IpOf[c]}
      BY <1>4 DEF RightPin, Parted, Handshake
    <2>2. \A d \in Handshake : IpOf[d] = IpOf[c] => d = c
      BY <2>1 DEF OneHandshakePerIp
    <2>3. ASSUME NEW ip
          PROVE  ip \in inProgress' <=> \E d \in Handshake' : ip = IpOf[d]
      <3>1. ip \in inProgress <=> \E d \in Handshake : ip = IpOf[d]
        BY DEF OneHandshakePerIp
      <3> QED
        BY <2>1, <2>2, <3>1
    <2>4. inProgress' = {IpOf[d] : d \in Handshake'}
      BY <2>3
    <2> QED
      BY <2>1, <2>4 DEF OneHandshakePerIp
  <1>5. CASE ChangePin \/ RevokePinSessions \/ ToggleLanPin \/ ResetTrusted \/ Tick
             \/ UNCHANGED vars
    <2>1. conn' = conn /\ inProgress' = inProgress
      BY <1>5 DEF ChangePin, RevokePinSessions, ToggleLanPin, ResetTrusted, Tick, vars
    <2> QED
      BY <2>1 DEF OneHandshakePerIp, Handshake
  <1> QED
    BY <1>1, <1>2, <1>3, <1>4, <1>5 DEF Next

(* handler() tracks every connection of another machine it serves.         *)
LEMMA ServedStep ==
  ASSUME TypeOK, PinIsForOthers, ServedIsTracked, [Next]_vars
  PROVE  ServedIsTracked' /\ PinIsForOthers'
  <1> DEFINE Good == ServedIsTracked' /\ PinIsForOthers'
  <1> USE DEF TypeOK, PinIsForOthers, ServedIsTracked, guard, gui, Moves, Badge, NoBadge
  <1>1. ASSUME NEW c \in Conns, OpenLoopback(c) PROVE Good
    BY <1>1 DEF OpenLoopback
  <1>2. ASSUME NEW c \in Conns, OpenLan(c) PROVE Good
    <2>1. CASE MayClaim(IpOf[c])
      BY <1>2, <2>1 DEF OpenLan
    <2>2. CASE ~MayClaim(IpOf[c])
      BY <1>2, <2>2 DEF OpenLan
    <2> QED
      BY <2>1, <2>2
  <1>3. ASSUME NEW c \in Conns, OpenWithPin(c) PROVE Good
    BY <1>3 DEF OpenWithPin, NeedsPin
  <1>4. ASSUME NEW c \in Conns,
               Refused(c) \/ HandshakeAborts(c) \/ WrongPin(c) \/ Parted(c)
        PROVE  Good
    BY <1>4 DEF Refused, HandshakeAborts, WrongPin, Parted
  <1>5. ASSUME NEW c \in Conns, RightPin(c) PROVE Good
    BY <1>5 DEF RightPin
  <1>6. ASSUME NEW c \in Conns, Welcomed(c) \/ WelcomeFails(c) PROVE Good
    BY <1>6 DEF Welcomed, WelcomeFails
  <1>7. ASSUME NEW c \in Conns, Leave(c) PROVE Good
    BY <1>7 DEF Leave
  <1>8. CASE ChangePin \/ RevokePinSessions \/ ToggleLanPin \/ ResetTrusted \/ Tick
             \/ UNCHANGED vars
    BY <1>8 DEF ChangePin, RevokePinSessions, ToggleLanPin, ResetTrusted, Tick, vars
  <1> QED
    BY <1>1, <1>2, <1>3, <1>4, <1>5, <1>6, <1>7, <1>8 DEF Next

(* The whitelist is claimed by an address only when it is free or its own. *)
LEMMA WhitelistStep ==
  ASSUME TypeOK, WhitelistRemembers, WhitelistIsExclusive, [Next]_vars
  PROVE  WhitelistRemembers' /\ WhitelistIsExclusive'
  <1> DEFINE Good == WhitelistRemembers' /\ WhitelistIsExclusive'
  <1> USE DEF TypeOK, guard, gui, Badge, NoBadge
  <1>1. ASSUME NEW c \in Conns, OpenLan(c), MayClaim(IpOf[c]) PROVE Good
    <2>1. /\ trusted' = IpOf[c] /\ resets' = resets /\ trusted \in {NoIp, IpOf[c]}
          /\ badge'[c] = [how |-> "lan", epoch |-> resets]
          /\ \A d \in Conns : d # c => badge'[d] = badge[d]
      BY <1>1 DEF OpenLan, MayClaim
    <2>2. \A d \in Conns : (d # c /\ badge[d].how = "lan" /\ badge[d].epoch = resets)
                             => IpOf[d] = IpOf[c]
      BY <2>1 DEF WhitelistRemembers
    <2>3. ASSUME NEW d \in Conns, badge'[d].how = "lan"
          PROVE  badge'[d].epoch <= resets /\ (badge'[d].epoch = resets => IpOf[d] = IpOf[c])
      <3>1. CASE d = c
        BY <2>1, <3>1
      <3>2. CASE d # c
        BY <2>1, <2>2, <2>3, <3>2 DEF WhitelistRemembers
      <3> QED
        BY <3>1, <3>2
    <2>4. WhitelistRemembers'
      BY <2>1, <2>3 DEF WhitelistRemembers
    <2>5. ASSUME NEW d \in Conns, NEW e \in Conns, badge'[d].how = "lan",
                 badge'[e].how = "lan", badge'[d].epoch = badge'[e].epoch
          PROVE  IpOf[d] = IpOf[e]
      <3>1. CASE d = c \/ e = c
        BY <2>1, <2>3, <2>5, <3>1
      <3>2. CASE d # c /\ e # c
        BY <2>1, <2>5, <3>2 DEF WhitelistIsExclusive
      <3> QED
        BY <3>1, <3>2
    <2> QED
      BY <2>4, <2>5 DEF WhitelistIsExclusive
  <1>2. ASSUME NEW c \in Conns,
               \/ OpenLoopback(c) \/ RightPin(c) \/ WelcomeFails(c) \/ Leave(c)
        PROVE  Good
    <2>1. /\ trusted' = trusted /\ resets' = resets
          /\ badge'[c].how # "lan"
          /\ \A d \in Conns : d # c => badge'[d] = badge[d]
      BY <1>2 DEF OpenLoopback, RightPin, WelcomeFails, Leave
    <2>2. \A d \in Conns : badge'[d].how = "lan" => badge'[d] = badge[d]
      BY <2>1
    <2>3. WhitelistRemembers'
      BY <2>1, <2>2 DEF WhitelistRemembers
    <2>4. WhitelistIsExclusive'
      BY <2>2 DEF WhitelistIsExclusive
    <2> QED
      BY <2>3, <2>4
  <1>3. ASSUME NEW c \in Conns,
               \/ OpenWithPin(c) \/ Refused(c) \/ HandshakeAborts(c)
               \/ WrongPin(c) \/ Parted(c) \/ Welcomed(c)
               \/ OpenLan(c) /\ ~MayClaim(IpOf[c])
        PROVE  Good
    <2>1. trusted' = trusted /\ resets' = resets /\ badge' = badge
      BY <1>3 DEF OpenWithPin, Refused, HandshakeAborts, WrongPin, Parted, Welcomed, OpenLan
    <2> QED
      BY <2>1 DEF WhitelistRemembers, WhitelistIsExclusive
  <1>4. CASE ResetTrusted
    <2>1. resets' = resets + 1 /\ badge' = badge
      BY <1>4 DEF ResetTrusted
    <2>2. \A c \in Conns : badge[c].epoch \in Nat
      OBVIOUS
    <2> QED
      BY <2>1, <2>2 DEF WhitelistRemembers, WhitelistIsExclusive
  <1>5. CASE ChangePin \/ RevokePinSessions \/ ToggleLanPin \/ Tick \/ UNCHANGED vars
    <2>1. trusted' = trusted /\ resets' = resets /\ badge' = badge
      BY <1>5 DEF ChangePin, RevokePinSessions, ToggleLanPin, Tick, vars
    <2> QED
      BY <2>1 DEF WhitelistRemembers, WhitelistIsExclusive
  <1> QED
    BY <1>1, <1>2, <1>3, <1>4, <1>5 DEF Next

-----------------------------------------------------------------------------
(* Time passes. *)
LEMMA StandsLater ==
  ASSUME NEW e \in Entry, NEW g \in Seq(Nat), NEW t \in Nat, Stands(e, g, t)
  PROVE  Stands(e, g, t + 1)
  <1>1. ASSUME NEW i \in 1 .. Len(g), g[i] <= t PROVE g[i] <= t + 1
    BY <1>1
  <1>2. ASSUME NEW i \in 1 .. Len(g), t - g[i] >= BlockSecs
        PROVE  (t + 1) - g[i] >= BlockSecs
    BY <1>2
  <1>3. e.count \in Nat /\ \A i \in 1 .. Len(g) - e.count : i \in 1 .. Len(g)
    BY DEF Entry
  <1> QED
    BY <1>1, <1>2, <1>3 DEF Stands

(* is_blocked() looks at the entry. *)
LEMMA StandsLookedAt ==
  ASSUME NEW e \in Entry, NEW g \in Seq(Nat), NEW t \in Nat, Stands(e, g, t)
  PROVE  /\ Stands(LookedAt(e, t), g, t)
         /\ LookedAt(e, t).count <= e.count
         /\ ~IsBlocked(e, t) => LookedAt(e, t).count < MaxFails
  <1>1. CASE e.count > 0 /\ t - e.last >= BlockSecs
    <2>1. LookedAt(e, t).count = 0 /\ 0 < MaxFails
      BY <1>1 DEF LookedAt, NoEntry
    <2>2. ASSUME NEW i \in 1 .. Len(g) PROVE t - g[i] >= BlockSecs
      <3>1. g[i] <= g[Len(g)] /\ e.last = g[Len(g)]
        BY <1>1 DEF Stands
      <3> QED
        BY <1>1, <3>1 DEF Entry
    <2> QED
      BY <2>1, <2>2 DEF Stands, Entry
  <1>2. CASE ~(e.count > 0 /\ t - e.last >= BlockSecs)
    <2>1. LookedAt(e, t) = e
      BY <1>2 DEF LookedAt
    <2>2. ~IsBlocked(e, t) => e.count < MaxFails
      BY <1>2 DEF IsBlocked, Entry
    <2> QED
      BY <2>1, <2>2 DEF Entry
  <1> QED
    BY <1>1, <1>2

(* record_fail() counts one more, which the threshold allows. *)
LEMMA StandsFailed ==
  ASSUME NEW e \in Entry, NEW g \in Seq(Nat), NEW t \in Nat, Stands(e, g, t),
         e.count < MaxFails
  PROVE  Stands(Failed(e, t), Append(g, t), t)
  <1> DEFINE h == Append(g, t)
             n == Len(g)
  <1>1. /\ n \in Nat /\ Len(h) = n + 1 /\ h[n + 1] = t
        /\ \A i \in 1 .. n : h[i] = g[i] /\ g[i] \in Nat /\ g[i] <= t
        /\ \A i, j \in 1 .. n : i <= j => g[i] <= g[j]
    BY DEF Stands
  <1>2. Failed(e, t).count = e.count + 1 /\ Failed(e, t).last = t /\ e.count \in Nat
    BY DEF Failed, Entry
  <1>3. \A i \in 1 .. n - e.count : t - g[i] >= BlockSecs
    BY DEF Stands
  <1>4. \A i \in 1 .. n : i + MaxFails <= n => g[i + MaxFails] - g[i] >= BlockSecs
    BY DEF Stands
  <1>5. e.count <= n
    BY DEF Stands
  <1> HIDE DEF h, n
  <1>6. \A i \in 1 .. n + 1 : h[i] <= t
    BY <1>1
  <1>7. ASSUME NEW i \in 1 .. n + 1, NEW j \in 1 .. n + 1, i <= j PROVE h[i] <= h[j]
    <2>1. CASE j = n + 1
      BY <1>1, <1>6, <2>1
    <2>2. CASE j # n + 1
      BY <1>1, <1>7, <2>2
    <2> QED
      BY <2>1, <2>2
  <1>8. ASSUME NEW i \in 1 .. (n + 1) - (e.count + 1) PROVE t - h[i] >= BlockSecs
    <2>1. i \in 1 .. n /\ i \in 1 .. n - e.count
      BY <1>1, <1>2
    <2> QED
      BY <1>1, <1>3, <2>1
  <1>9. ASSUME NEW i \in 1 .. n + 1, i + MaxFails <= n + 1
        PROVE  h[i + MaxFails] - h[i] >= BlockSecs
    <2>1. i \in 1 .. n
      BY <1>1, <1>9
    <2>2. CASE i + MaxFails = n + 1
      <3>1. i \in 1 .. n - e.count
        BY <1>1, <1>2, <2>1, <2>2
      <3> QED
        BY <1>1, <1>3, <2>1, <2>2, <3>1
    <2>3. CASE i + MaxFails # n + 1
      <3>1. i + MaxFails \in 1 .. n
        BY <1>1, <1>9, <2>3
      <3> QED
        BY <1>1, <1>4, <2>1, <3>1
    <2> QED
      BY <2>2, <2>3
  <1>10. /\ Failed(e, t).count <= Len(h) /\ Failed(e, t).count <= MaxFails
         /\ Failed(e, t).last = h[Len(h)]
    BY <1>1, <1>2, <1>5
  <1>11. Stands(Failed(e, t), h, t)
    BY <1>1, <1>2, <1>6, <1>7, <1>8, <1>9, <1>10 DEF Stands
  <1> QED
    BY <1>11 DEF h

(* No wrong PIN, no entry: what record_ok() leaves. *)
LEMMA StandsFresh == ASSUME NEW t \in Nat PROVE Stands(NoEntry, <<>>, t)
  BY DEF Stands, NoEntry

(* The entries of the guard go on standing for the wrong PINs given.       *)
LEMMA GuardStep ==
  ASSUME TypeOK, OneHandshakePerIp, EntriesStand, AskedMayFail, [Next]_vars
  PROVE  EntriesStand' /\ AskedMayFail'
  <1> DEFINE Good == EntriesStand' /\ AskedMayFail'
  <1>t. /\ \A ip \in Ips : failures[ip] \in Entry /\ guesses[ip] \in Seq(Nat)
        /\ \A c \in Conns : IpOf[c] \in Ips
        /\ now \in Nat /\ failures \in [Ips -> Entry] /\ guesses \in [Ips -> Seq(Nat)]
        /\ conn \in [Conns -> States]
    BY DEF TypeOK, Entry
  <1>1. ASSUME NEW c \in Conns, OpenWithPin(c) PROVE Good
    <2> DEFINE e == LookedAt(failures[IpOf[c]], now)
    <2>1. /\ failures' = [failures EXCEPT ![IpOf[c]] = e]
          /\ guesses' = guesses /\ now' = now
          /\ \A d \in Conns \ {c} : conn'[d] = conn[d]
          /\ conn'[c] = "asked" => MayTry(IpOf[c])
      BY <1>1, <1>t DEF OpenWithPin, Moves, guard
    <2>2. /\ Stands(e, guesses[IpOf[c]], now)
          /\ e.count <= failures[IpOf[c]].count
          /\ MayTry(IpOf[c]) => e.count < MaxFails
      BY <1>t, StandsLookedAt DEF EntriesStand, MayTry
    <2>3. /\ e \in Entry /\ \A ip \in Ips : failures'[ip] = IF ip = IpOf[c] THEN e
                                                             ELSE failures[ip]
      BY <1>t, <2>1, EntriesTyped
    <2> HIDE DEF e
    <2>4. EntriesStand'
      BY <2>1, <2>2, <2>3 DEF EntriesStand
    <2>5. ASSUME NEW d \in Conns, conn'[d] = "asked"
          PROVE  failures'[IpOf[d]].count < MaxFails
      <3>1. CASE d = c
        BY <1>t, <2>1, <2>2, <2>3, <2>5, <3>1
      <3>2. CASE d # c /\ IpOf[d] = IpOf[c]
        <4>1. failures[IpOf[d]].count < MaxFails
          BY <2>1, <2>5, <3>2 DEF AskedMayFail
        <4>2. failures[IpOf[d]].count \in Nat /\ e.count \in Nat
          BY <1>t, <2>3 DEF Entry
        <4> QED
          BY <1>t, <2>2, <2>3, <3>2, <4>1, <4>2
      <3>3. CASE d # c /\ IpOf[d] # IpOf[c]
        BY <1>t, <2>1, <2>3, <2>5, <3>3 DEF AskedMayFail
      <3> QED
        BY <3>1, <3>2, <3>3
    <2> QED
      BY <2>4, <2>5 DEF AskedMayFail
  <1>2. ASSUME NEW c \in Conns, WrongPin(c) \/ RightPin(c) PROVE Good
    <2> DEFINE e == failures'[IpOf[c]]
               g == guesses'[IpOf[c]]
    <2>1. /\ conn[c] = "asked" /\ conn'[c] # "asked" /\ now' = now
          /\ \A d \in Conns \ {c} : conn'[d] = conn[d]
          /\ \A ip \in Ips \ {IpOf[c]} :
               failures'[ip] = failures[ip] /\ guesses'[ip] = guesses[ip]
      BY <1>2, <1>t DEF WrongPin, RightPin, Moves
    <2>2. Stands(e, g, now)
      <3>1. CASE WrongPin(c)
        <4>1. /\ e = Failed(failures[IpOf[c]], now)
              /\ g = Append(guesses[IpOf[c]], now)
          BY <1>t, <3>1 DEF WrongPin
        <4>2. /\ Stands(failures[IpOf[c]], guesses[IpOf[c]], now)
              /\ failures[IpOf[c]].count < MaxFails
          BY <1>t, <2>1 DEF EntriesStand, AskedMayFail
        <4> QED
          BY <1>t, <4>1, <4>2, StandsFailed
      <3>2. CASE RightPin(c)
        <4>1. e = NoEntry /\ g = <<>>
          BY <1>t, <3>2 DEF RightPin
        <4> QED
          BY <1>t, <4>1, StandsFresh
      <3> QED
        BY <1>2, <3>1, <3>2
    <2> HIDE DEF e, g
    <2>3. EntriesStand'
      <3> SUFFICES ASSUME NEW ip \in Ips
                   PROVE  Stands(failures'[ip], guesses'[ip], now)
        BY <2>1 DEF EntriesStand
      <3> QED
        BY <2>1, <2>2 DEF EntriesStand, e, g
    <2>4. AskedMayFail'
      <3> SUFFICES ASSUME NEW d \in Conns, conn'[d] = "asked"
                   PROVE  failures'[IpOf[d]].count < MaxFails
        BY DEF AskedMayFail
      <3>1. d # c /\ conn[d] = "asked"
        BY <2>1
      <3>2. IpOf[d] # IpOf[c]
        BY <2>1, <3>1 DEF OneHandshakePerIp, Handshake
      <3> QED
        BY <1>t, <2>1, <3>1, <3>2 DEF AskedMayFail
    <2> QED
      BY <2>3, <2>4
  <1>3. ASSUME NEW c \in Conns,
               \/ OpenLoopback(c) \/ OpenLan(c) \/ Refused(c) \/ HandshakeAborts(c)
               \/ Parted(c) \/ Welcomed(c) \/ WelcomeFails(c) \/ Leave(c)
        PROVE  Good
    <2>1. /\ failures' = failures /\ guesses' = guesses /\ now' = now
          /\ \A d \in Conns : conn'[d] = "asked" => conn[d] = "asked"
      BY <1>3, <1>t DEF OpenLoopback, OpenLan, Refused, HandshakeAborts, Parted, Welcomed,
                        WelcomeFails, Leave, Moves, guard
    <2> QED
      BY <2>1 DEF EntriesStand, AskedMayFail
  <1>4. CASE ChangePin \/ RevokePinSessions \/ ToggleLanPin \/ ResetTrusted \/ UNCHANGED vars
    <2>1. failures' = failures /\ guesses' = guesses /\ now' = now /\ conn' = conn
      BY <1>4 DEF ChangePin, RevokePinSessions, ToggleLanPin, ResetTrusted, vars, guard
    <2> QED
      BY <2>1 DEF EntriesStand, AskedMayFail
  <1>5. CASE Tick
    <2>1. failures' = failures /\ guesses' = guesses /\ now' = now + 1 /\ conn' = conn
      BY <1>5 DEF Tick, guard
    <2>2. \A ip \in Ips : Stands(failures[ip], guesses[ip], now + 1)
      BY <1>t, StandsLater DEF EntriesStand
    <2> QED
      BY <2>1, <2>2 DEF EntriesStand, AskedMayFail
  <1> QED
    BY <1>1, <1>2, <1>3, <1>4, <1>5 DEF Next

-----------------------------------------------------------------------------
(* The initial states satisfy the invariant. *)
LEMMA Initially == Init => AuthInv
  <1> SUFFICES ASSUME Init PROVE AuthInv
    OBVIOUS
  <1> USE DEF Init, Badge, NoBadge
  <1>1. TypeOK
    <2>1. failures \in [Ips -> [count : Nat, last : Nat]] /\ guesses \in [Ips -> Seq(Nat)]
      BY DEF NoEntry
    <2>2. badge \in [Conns -> [how : {"none", "loopback", "lan", "pin"}, epoch : Nat]]
      OBVIOUS
    <2> QED
      BY <2>1, <2>2 DEF TypeOK, States
  <1>2. OneHandshakePerIp /\ ServedIsTracked /\ AskedMayFail /\ PinIsForOthers
    BY DEF OneHandshakePerIp, Handshake, ServedIsTracked, AskedMayFail, PinIsForOthers
  <1>3. WhitelistRemembers /\ WhitelistIsExclusive
    BY DEF WhitelistRemembers, WhitelistIsExclusive
  <1>4. EntriesStand
    BY StandsFresh DEF EntriesStand
  <1> QED
    BY <1>1, <1>2, <1>3, <1>4 DEF AuthInv

(* Whatever the clients, the PIN, the whitelist and the clock do, the      *)
(* invariant holds.                                                        *)
THEOREM AuthInvariant == Spec => []AuthInv
  <1>1. AuthInv /\ [Next]_vars => AuthInv'
    BY TypeStep, HandshakeStep, ServedStep, WhitelistStep, GuardStep DEF AuthInv
  <1> QED
    BY <1>1, Initially, PTL DEF Spec

(* The types of what authorize(), AuthGuard and TrustedPeer keep.          *)
THEOREM TypeCorrect == Spec => []TypeOK
  <1>1. AuthInv => TypeOK
    BY DEF AuthInv
  <1> QED
    BY <1>1, AuthInvariant, PTL

(* begin() and end() of AuthGuard bracket every handshake, and no address  *)
(* ever has two of them open.                                              *)
THEOREM OneHandshake == Spec => []OneHandshakePerIp
  <1>1. AuthInv => OneHandshakePerIp
    BY DEF AuthInv
  <1> QED
    BY <1>1, AuthInvariant, PTL

(* AuthGuard never lets more than MaxFails wrong PINs of one address fall  *)
(* within BlockSecs of the first of them.                                  *)
THEOREM Rationed == Spec => []GuessesAreRationed
  <1>1. AuthInv => GuessesAreRationed
    BY DEF AuthInv, EntriesStand, Stands, GuessesAreRationed
  <1> QED
    BY <1>1, AuthInvariant, PTL

(* TrustedPeer admits one LAN address between two resets.                  *)
THEOREM Exclusive == Spec => []WhitelistIsExclusive
  <1>1. AuthInv => WhitelistIsExclusive
    BY DEF AuthInv
  <1> QED
    BY <1>1, AuthInvariant, PTL

(* _remote_conns holds exactly the connections of other machines that      *)
(* handler() is serving.                                                   *)
THEOREM Tracked == Spec => []ServedIsTracked
  <1>1. AuthInv => ServedIsTracked
    BY DEF AuthInv
  <1> QED
    BY <1>1, AuthInvariant, PTL

(* Whoever authorize() lets in had the only handshake of its address, is   *)
(* the only LAN address in, and is known to revoke_pin_sessions().         *)
THEOREM Admission == Spec => []AdmissionIsSound
  <1>1. AuthInv => AdmissionIsSound
    BY DEF AuthInv, AdmissionIsSound
  <1> QED
    BY <1>1, AuthInvariant, PTL

(* revoke_pin_sessions() asks everybody who is being served on an old PIN  *)
(* to leave.                                                               *)
THEOREM RevokeReaches == Spec => RevokeReachesTheServed
  <1>1. AuthInv /\ [Next]_vars => [RevokeAsksTheServed]_vars
    <2> SUFFICES ASSUME AuthInv, Next, revoking, ~revoking',
                        NEW c \in Conns, conn[c] = "in", badge[c].how = "pin"
                 PROVE  c \in kicked'
      BY DEF RevokeAsksTheServed
    <2>1. c \in tracked
      BY DEF AuthInv, ServedIsTracked, PinIsForOthers
    <2>2. RevokePinSessions
      BY DEF Next, OpenLoopback, OpenLan, OpenWithPin, Refused, HandshakeAborts, WrongPin,
             RightPin, Parted, Welcomed, WelcomeFails, Leave, ChangePin, ToggleLanPin,
             ResetTrusted, Tick, gui
    <2> QED
      BY <2>1, <2>2 DEF RevokePinSessions
  <1> QED
    BY <1>1, AuthInvariant, PTL DEF Spec, RevokeReachesTheServed

-----------------------------------------------------------------------------
(***************************************************************************)
(* ClientLink.tla: the inductive invariant.                                *)
(***************************************************************************)
(* The page has a websocket unless it is closed, and has not dealt with    *)
(* its end while it has one.                                               *)
PageWhole ==
  /\ page.rs = "closed" <=> page.ws = NoSlot
  /\ page.ws # NoSlot => ~page.handled

(* Only the websocket of the page has something for it; while it connects  *)
(* the server has not answered, or what became of it is the first to come. *)
NewsInOrder ==
  \A c \in Slots :
    /\ page.ws # c => toPage[c] = <<>>
    /\ page.ws = c /\ srv[c] = "knocking" => toPage[c] = <<>>
    /\ page.ws = c /\ page.rs = "connecting" =>
         srv[c] = "knocking" \/ (toPage[c] # <<>> /\ Head(toPage[c]) \in {"open", "close"})

(* The server holds something only for a connection it serves, and keeps   *)
(* nothing of one that is gone.                                            *)
ServerWhole ==
  \A c \in Slots :
    /\ srv[c] = "gone" => toServer[c] = <<>>
    /\ srv[c] # "serving" => held[c] = {}

(* The message m releases input i: in its name, or with the websocket.     *)
Lets(m, i) == m = End \/ (m.kind = "up" /\ m.arg = i)

(* A queue releases input i, from its n-th message on. *)
Releases(q, i, n) == \E m \in DOMAIN q : m >= n /\ Lets(q[m], i)

(* Every input that a queue presses is in S, or the queue releases it.     *)
Followed(q, S) ==
  \A n \in DOMAIN q : q[n].kind = "down" => q[n].arg \in S \/ Releases(q, q[n].arg, n + 1)

(* A queue that presses nothing. *)
NoDowns(q) == \A n \in DOMAIN q : q[n].kind # "down"

(* What the page shows as down. *)
Shown(p) == p.locks \cup (IF p.dragging THEN {Button} ELSE {})

OnlyServed(c) == srv[c] = "serving" /\ \A d \in Slots : srv[d] = "serving" => d = c

(* On the websocket of the page, what it has pressed is shown or about to  *)
(* be released, and it presses nothing before the websocket is open.       *)
Accountable(S, c) ==
  /\ \A i \in held[c] : i \in S \/ Releases(toServer[c], i, 1)
  /\ Followed(toServer[c], S)
  /\ OnlyServed(c) /\ Button \in pressed => Button \in S \/ Releases(toServer[c], Button, 1)
Untouched(c) == held[c] = {} /\ NoDowns(toServer[c]) /\ ~(OnlyServed(c) /\ Button \in pressed)
PressesShown ==
  \A c \in Slots : page.ws = c =>
    /\ Accountable(Shown(page), c)
    /\ page.rs = "connecting" => Untouched(c)

LinkInv ==
  /\ LinkTypeOK /\ PageWhole /\ NewsInOrder /\ ServerWhole /\ PressesShown
  /\ NothingStaysDown /\ NeverStuck

-----------------------------------------------------------------------------
(* Queues. *)
LEMMA QueueAppends ==
  ASSUME NEW q \in Seq(MessageType), NEW m \in MessageType
  PROVE  LET r == Append(q, m)
         IN  /\ r \in Seq(MessageType) /\ r # <<>>
             /\ \A i, n : Releases(q, i, n) => Releases(r, i, n)
             /\ \A i : \A n \in 1 .. Len(q) + 1 : Lets(m, i) => Releases(r, i, n)
             /\ NoDowns(q) /\ m.kind # "down" => NoDowns(r)
  <1> DEFINE r == Append(q, m)
  <1>1. /\ r \in Seq(MessageType) /\ Len(r) = Len(q) + 1 /\ r[Len(q) + 1] = m
        /\ \A n \in 1 .. Len(q) : r[n] = q[n]
    OBVIOUS
  <1>2. DOMAIN r = 1 .. Len(q) + 1 /\ DOMAIN q = 1 .. Len(q) /\ Len(q) \in Nat
    BY <1>1
  <1> HIDE DEF r
  <1>3. \A i, n : Releases(q, i, n) => Releases(r, i, n)
    BY <1>1, <1>2 DEF Releases
  <1>4. \A i : \A n \in 1 .. Len(q) + 1 : Lets(m, i) => Releases(r, i, n)
    BY <1>1, <1>2 DEF Releases
  <1>5. NoDowns(q) /\ m.kind # "down" => NoDowns(r)
    BY <1>1, <1>2 DEF NoDowns
  <1>6. r # <<>>
    BY <1>1, <1>2
  <1> QED
    BY <1>1, <1>3, <1>4, <1>5, <1>6 DEF r

(* What is sent after a press keeps it accounted for: the message presses  *)
(* what is shown then, and what is shown no more it releases.              *)
LEMMA FollowedAppends ==
  ASSUME NEW q \in Seq(MessageType), NEW m \in MessageType, NEW S, NEW T, Followed(q, S),
         \A i \in S : i \in T \/ Lets(m, i), m.kind = "down" => m.arg \in T
  PROVE  Followed(Append(q, m), T)
  <1> DEFINE r == Append(q, m)
  <1>1. /\ Len(r) = Len(q) + 1 /\ r[Len(q) + 1] = m /\ \A n \in 1 .. Len(q) : r[n] = q[n]
    OBVIOUS
  <1>2. DOMAIN r = 1 .. Len(q) + 1 /\ DOMAIN q = 1 .. Len(q) /\ Len(q) \in Nat
    OBVIOUS
  <1>3. /\ \A i, n : Releases(q, i, n) => Releases(r, i, n)
        /\ \A i : \A n \in 1 .. Len(q) + 1 : Lets(m, i) => Releases(r, i, n)
    BY QueueAppends
  <1> HIDE DEF r
  <1>4. SUFFICES ASSUME NEW n \in DOMAIN r, r[n].kind = "down"
                 PROVE  r[n].arg \in T \/ Releases(r, r[n].arg, n + 1)
    BY DEF Followed, r
  <1>5. CASE n = Len(q) + 1
    BY <1>1, <1>4, <1>5
  <1>6. CASE n \in 1 .. Len(q)
    <2>1. r[n] = q[n] /\ n + 1 \in 1 .. Len(q) + 1
      BY <1>1, <1>2, <1>6
    <2>2. q[n].arg \in S \/ Releases(q, q[n].arg, n + 1)
      BY <1>2, <1>4, <1>6, <2>1 DEF Followed
    <2> QED
      BY <1>3, <2>1, <2>2
  <1> QED
    BY <1>2, <1>4, <1>5, <1>6

(* The first message of a queue is read. *)
LEMMA QueueReads ==
  ASSUME NEW q \in Seq(MessageType), q # <<>>
  PROVE  LET r == Tail(q)
         IN  /\ r \in Seq(MessageType) /\ Head(q) \in MessageType
             /\ \A i : Releases(q, i, 1) => Lets(Head(q), i) \/ Releases(r, i, 1)
             /\ \A S : Followed(q, S) => Followed(r, S)
             /\ \A S : Followed(q, S) /\ Head(q).kind = "down" =>
                  Head(q).arg \in S \/ Releases(r, Head(q).arg, 1)
             /\ NoDowns(q) => NoDowns(r) /\ Head(q).kind # "down"
  <1> DEFINE r == Tail(q)
  <1>1. /\ r \in Seq(MessageType) /\ Head(q) = q[1] /\ Head(q) \in MessageType
        /\ Len(q) \in Nat \ {0} /\ Len(r) = Len(q) - 1
        /\ \A n \in 1 .. Len(r) : r[n] = q[n + 1]
    OBVIOUS
  <1>2. DOMAIN r = 1 .. Len(q) - 1 /\ DOMAIN q = 1 .. Len(q)
    BY <1>1
  <1> HIDE DEF r
  <1>3. \A i : \A n \in Nat \ {0} : Releases(q, i, n + 1) => Releases(r, i, n)
    <2> SUFFICES ASSUME NEW i, NEW n \in Nat \ {0}, NEW m \in DOMAIN q, m >= n + 1, Lets(q[m], i)
                 PROVE  Releases(r, i, n)
      BY DEF Releases
    <2>1. m - 1 \in DOMAIN r /\ m - 1 >= n /\ r[m - 1] = q[m]
      BY <1>1, <1>2
    <2> QED
      BY <2>1 DEF Releases
  <1>4. \A i : Releases(q, i, 1) => Lets(Head(q), i) \/ Releases(r, i, 1)
    <2> SUFFICES ASSUME NEW i, NEW m \in DOMAIN q, Lets(q[m], i), ~Lets(Head(q), i)
                 PROVE  Releases(r, i, 1)
      BY DEF Releases
    <2>1. m >= 2
      BY <1>1, <1>2
    <2>2. Releases(q, i, 1 + 1)
      BY <2>1 DEF Releases
    <2> QED
      BY <1>3, <2>2
  <1>5. \A S : Followed(q, S) => Followed(r, S)
    <2> SUFFICES ASSUME NEW S, Followed(q, S), NEW n \in DOMAIN r, r[n].kind = "down"
                 PROVE  r[n].arg \in S \/ Releases(r, r[n].arg, n + 1)
      BY DEF Followed
    <2>1. n + 1 \in DOMAIN q /\ r[n] = q[n + 1] /\ n + 1 \in Nat \ {0}
      BY <1>1, <1>2
    <2>2. q[n + 1].arg \in S \/ Releases(q, q[n + 1].arg, n + 1 + 1)
      BY <2>1 DEF Followed
    <2> QED
      BY <1>3, <2>1, <2>2
  <1>6. \A S : Followed(q, S) /\ Head(q).kind = "down" => Head(q).arg \in S \/ Releases(r, Head(q).arg, 1)
    <2>1. 1 \in DOMAIN q
      BY <1>1, <1>2
    <2> QED
      BY <1>1, <1>3, <2>1 DEF Followed
  <1>7. NoDowns(q) => NoDowns(r) /\ Head(q).kind # "down"
    <2>1. \A n \in DOMAIN r : n + 1 \in DOMAIN q /\ r[n] = q[n + 1]
      BY <1>1, <1>2
    <2>2. 1 \in DOMAIN q
      BY <1>1, <1>2
    <2> QED
      BY <1>1, <2>1, <2>2 DEF NoDowns
  <1> QED
    BY <1>1, <1>4, <1>5, <1>6, <1>7 DEF r

(* An empty queue, and one that has only the end of its websocket. *)
LEMMA QueueEnds ==
  /\ \A S : Followed(<<>>, S)
  /\ NoDowns(<<>>) /\ End \in MessageType /\ Auth \in MessageType
  /\ End.kind = "end" /\ Auth.kind = "auth"
  /\ \A i : Releases(<<End>>, i, 1)
  /\ \A S : Followed(<<End>>, S)
  /\ NoDowns(<<End>>) /\ <<End>> \in Seq(MessageType)
  <1>1. /\ End \in MessageType /\ Auth \in MessageType /\ End.kind = "end" /\ Auth.kind = "auth"
    BY DEF End, Auth, Msg, MessageType, Inputs
  <1>2. DOMAIN <<End>> = {1} /\ <<End>>[1] = End /\ <<End>> \in Seq(MessageType)
    BY <1>1
  <1>3. DOMAIN <<>> = {}
    OBVIOUS
  <1> HIDE DEF End, Auth
  <1> QED
    BY <1>1, <1>2, <1>3 DEF Followed, NoDowns, Releases, Lets

(* When the end of the websocket is the last message, everything before it *)
(* is released.                                                            *)
LEMMA EndReleases ==
  ASSUME NEW q \in Seq(MessageType), q # <<>>, Last(q) = End
  PROVE  (\A i : Releases(q, i, 1)) /\ (\A S : Followed(q, S))
  <1>1. Len(q) \in Nat \ {0} /\ DOMAIN q = 1 .. Len(q) /\ q[Len(q)] = End /\ End.kind = "end"
    BY QueueEnds DEF Last
  <1>2. \A i : \A n \in 1 .. Len(q) : Releases(q, i, n)
    BY <1>1 DEF Releases, Lets
  <1>3. \A n \in DOMAIN q : q[n].kind = "down" => n + 1 \in 1 .. Len(q)
    BY <1>1
  <1> QED
    BY <1>1, <1>2, <1>3 DEF Followed

-----------------------------------------------------------------------------
(* What is sent: nothing more once the websocket has come to its end. *)
LEMMA SentFacts ==
  ASSUME LinkTypeOK, ServerWhole, NEW c \in Slots, NEW m \in MessageType
  PROVE  LET q == Sent(c, m)
         IN  /\ q \in [Slots -> Seq(MessageType)]
             /\ \A d \in Slots \ {c} : q[d] = toServer[d]
             /\ \A d \in Slots : srv[d] = "gone" => q[d] = <<>>
             /\ \/ srv[c] = "gone" /\ q[c] = <<>>
                \/ toServer[c] # <<>> /\ Last(toServer[c]) = End /\ q[c] = toServer[c]
                \/ q[c] = Append(toServer[c], m)
  <1> DEFINE q == Sent(c, m)
             over == srv[c] = "gone" \/ (toServer[c] # <<>> /\ Last(toServer[c]) = End)
  <1>1. toServer \in [Slots -> Seq(MessageType)] /\ \A d \in Slots : srv[d] = "gone" => toServer[d] = <<>>
    BY DEF LinkTypeOK, ServerWhole
  <1>2. CASE over
    <2>1. q = toServer
      BY <1>2 DEF Sent
    <2> QED
      BY <1>1, <1>2, <2>1
  <1>3. CASE ~over
    <2> DEFINE r == Append(toServer[c], m)
    <2>1. r \in Seq(MessageType) /\ srv[c] # "gone"
      BY <1>1, <1>3
    <2>2. q = [toServer EXCEPT ![c] = r]
      BY <1>3 DEF Sent
    <2> HIDE DEF r
    <2>3. q \in [Slots -> Seq(MessageType)] /\ q[c] = r /\ \A d \in Slots \ {c} : q[d] = toServer[d]
      BY <1>1, <2>1, <2>2
    <2> HIDE DEF q
    <2>4. /\ q \in [Slots -> Seq(MessageType)]
          /\ \A d \in Slots \ {c} : q[d] = toServer[d]
          /\ \A d \in Slots : srv[d] = "gone" => q[d] = <<>>
          /\ q[c] = Append(toServer[c], m)
      BY <1>1, <2>1, <2>3 DEF r
    <2> QED
      BY <2>4 DEF q
  <1> QED
    BY <1>2, <1>3

(* What the end of the websocket of the page leaves of the queues. *)
LEMMA CloseFacts ==
  ASSUME LinkTypeOK, NewsInOrder, ServerWhole, CloseWS
  PROVE  /\ toServer' \in [Slots -> Seq(MessageType)]
         /\ \A d \in Slots : d # page.ws => toServer'[d] = toServer[d]
         /\ \A d \in Slots : srv[d] = "gone" => toServer'[d] = <<>>
         /\ toPage' \in [Slots -> Seq(NewsType)]
         /\ \A d \in Slots : toPage'[d] = <<>>
  <1>1. /\ toServer' \in [Slots -> Seq(MessageType)]
        /\ \A d \in Slots : d # page.ws => toServer'[d] = toServer[d]
        /\ \A d \in Slots : srv[d] = "gone" => toServer'[d] = <<>>
    <2>1. CASE page.ws = NoSlot
      BY <2>1 DEF CloseWS, ToServerClosed, LinkTypeOK, ServerWhole
    <2>2. CASE page.ws # NoSlot
      <3>1. page.ws \in Slots
        BY <2>2 DEF LinkTypeOK, PageType
      <3>2. toServer' = Sent(page.ws, End)
        BY <2>2 DEF CloseWS, ToServerClosed
      <3> QED
        BY <3>1, <3>2, SentFacts, QueueEnds
    <2> QED
      BY <2>1, <2>2
  <1>2. toPage' = [c \in Slots |-> IF page.ws = c THEN <<>> ELSE toPage[c]]
    BY DEF CloseWS, ToPageClosed
  <1>3. \A d \in Slots : toPage'[d] = <<>>
    BY <1>2 DEF NewsInOrder
  <1>4. toPage' \in [Slots -> Seq(NewsType)]
    BY <1>2 DEF LinkTypeOK
  <1> QED
    BY <1>1, <1>3, <1>4

(* A fresh websocket: the server has heard nothing on it. *)
LEMMA ConnectKeeps ==
  ASSUME LinkInv, NEW p \in PageType, NEW c \in Slots, Connect(p, c)
  PROVE  LinkInv'
  <1>1. /\ LinkTypeOK /\ PageWhole /\ NewsInOrder /\ ServerWhole /\ NothingStaysDown
    BY DEF LinkInv
  <1>2. /\ srv[c] = "gone" /\ page.ws # c /\ page' = Connecting(p, c) /\ CloseWS
        /\ srv' = [srv EXCEPT ![c] = "knocking"] /\ held' = held /\ pressed' = pressed
    BY DEF Connect
  <1>3. /\ page' \in PageType /\ page'.ws = c /\ page'.rs = "connecting"
        /\ page'.timeout = TRUE /\ page'.handled = FALSE
    BY <1>2 DEF Connecting, PageType
  <1>4. /\ toServer' \in [Slots -> Seq(MessageType)]
        /\ \A d \in Slots : d # page.ws => toServer'[d] = toServer[d]
        /\ \A d \in Slots : srv[d] = "gone" => toServer'[d] = <<>>
        /\ toPage' \in [Slots -> Seq(NewsType)]
        /\ \A d \in Slots : toPage'[d] = <<>>
    BY <1>1, <1>2, CloseFacts
  <1>5. /\ srv' \in [Slots -> {"gone", "knocking", "asking", "serving"}] /\ srv'[c] = "knocking"
        /\ \A d \in Slots \ {c} : srv'[d] = srv[d]
    BY <1>1, <1>2 DEF LinkTypeOK
  <1>6. LinkTypeOK'
    BY <1>1, <1>2, <1>3, <1>4, <1>5 DEF LinkTypeOK
  <1>7. PageWhole'
    BY <1>3, LinkAssumption DEF PageWhole
  <1>8. NewsInOrder'
    BY <1>3, <1>4, <1>5 DEF NewsInOrder
  <1>9. ServerWhole'
    BY <1>1, <1>2, <1>4, <1>5 DEF ServerWhole
  <1>10. PressesShown'
    <2>1. held'[c] = {} /\ toServer'[c] = <<>> /\ ~OnlyServed(c)'
      BY <1>1, <1>2, <1>4, <1>5 DEF ServerWhole, OnlyServed
    <2>2. Accountable(Shown(page), c)' /\ Untouched(c)'
      BY <2>1, QueueEnds DEF Accountable, Untouched
    <2> QED
      BY <1>3, <2>2 DEF PressesShown
  <1>11. NothingStaysDown'
    BY <1>1, <1>2, <1>5 DEF NothingStaysDown
  <1>12. NeverStuck'
    BY <1>3 DEF NeverStuck
  <1> QED
    BY <1>6, <1>7, <1>8, <1>9, <1>10, <1>11, <1>12 DEF LinkInv

(* A page without a websocket: it shows the panel, or is to try again, or  *)
(* has had its address refused.                                            *)
LEMMA ClosedKeeps ==
  ASSUME LinkInv, page' \in PageType, page'.ws = NoSlot, page'.rs = "closed",
         page'.panel \/ page'.retries > 0 \/ page'.refused,
         UNCHANGED <<srv, held, pressed>>,
         toServer' \in [Slots -> Seq(MessageType)],
         \A d \in Slots : srv[d] = "gone" => toServer'[d] = <<>>,
         toPage' \in [Slots -> Seq(NewsType)], \A d \in Slots : toPage'[d] = <<>>
  PROVE  LinkInv'
  <1>1. LinkTypeOK /\ ServerWhole /\ NothingStaysDown
    BY DEF LinkInv
  <1>2. LinkTypeOK'
    BY <1>1 DEF LinkTypeOK
  <1>3. PageWhole' /\ NewsInOrder' /\ ServerWhole'
    BY <1>1 DEF PageWhole, NewsInOrder, ServerWhole
  <1>4. PressesShown'
    BY LinkAssumption DEF PressesShown
  <1>5. NothingStaysDown' /\ NeverStuck'
    BY <1>1 DEF NothingStaysDown, NeverStuck
  <1> QED
    BY <1>2, <1>3, <1>4, <1>5 DEF LinkInv

(* handleDisconnect() leaves a timer or the panel. *)
LEMMA DisconnectedFacts ==
  ASSUME NEW p \in PageType
  PROVE  LET r == Disconnected(p)
         IN  /\ r \in PageType /\ r.ws = p.ws /\ r.rs = p.rs
             /\ r.panel \/ r.retries > 0
  <1>1. CASE p.attempts < MaxReconnects
    <2> DEFINE r == [p EXCEPT !.locks = {}, !.attempts = @ + 1, !.retries = @ + 1]
    <2>1. p.attempts + 1 \in 0 .. MaxReconnects /\ p.retries + 1 \in Nat /\ p.retries + 1 > 0
      BY <1>1, LinkAssumption DEF PageType
    <2>2. Disconnected(p) = r
      BY <1>1 DEF Disconnected
    <2>3. r \in PageType /\ r.ws = p.ws /\ r.rs = p.rs /\ r.retries = p.retries + 1
      BY <2>1 DEF PageType
    <2> HIDE DEF r
    <2> QED
      BY <2>1, <2>2, <2>3
  <1>2. CASE ~(p.attempts < MaxReconnects)
    <2> DEFINE r == [p EXCEPT !.locks = {}, !.panel = TRUE]
    <2>1. Disconnected(p) = r
      BY <1>2 DEF Disconnected
    <2>2. r \in PageType /\ r.ws = p.ws /\ r.rs = p.rs /\ r.panel = TRUE
      BY DEF PageType
    <2> HIDE DEF r
    <2> QED
      BY <2>1, <2>2
  <1> QED
    BY <1>1, <1>2

(* stopWithError() shows the panel. *)
LEMMA StopKeeps ==
  ASSUME LinkInv, NEW p \in PageType, StopWithError(p), UNCHANGED server
  PROVE  LinkInv'
  <1>1. LinkTypeOK /\ NewsInOrder /\ ServerWhole /\ CloseWS /\ UNCHANGED <<srv, held, pressed>>
    BY DEF LinkInv, StopWithError, server
  <1>2. page' \in PageType /\ page'.ws = NoSlot /\ page'.rs = "closed" /\ page'.panel = TRUE
    BY DEF StopWithError, PageType
  <1> QED
    BY <1>1, <1>2, CloseFacts, ClosedKeeps

(* What the page sends on its websocket keeps its presses accounted for. *)
LEMMA AccountableSends ==
  ASSUME LinkTypeOK, ServerWhole, NEW c \in Slots, NEW m \in MessageType,
         toServer' = Sent(c, m), UNCHANGED <<srv, held, pressed>>,
         Accountable(Shown(page), c),
         \A i \in Shown(page) : i \in Shown(page') \/ Lets(m, i),
         m.kind = "down" => m.arg \in Shown(page')
  PROVE  Accountable(Shown(page), c)'
  <1> DEFINE q == toServer[c]
             S == Shown(page)
             T == Shown(page')
  <1>1. q \in Seq(MessageType) /\ Len(q) \in Nat
    BY DEF LinkTypeOK
  <1>2. \/ srv[c] = "gone" /\ toServer'[c] = <<>>
        \/ q # <<>> /\ Last(q) = End /\ toServer'[c] = q
        \/ toServer'[c] = Append(q, m)
    BY SentFacts
  <1>3. /\ \A i \in held[c] : i \in S \/ Releases(q, i, 1)
        /\ Followed(q, S)
        /\ OnlyServed(c) /\ Button \in pressed => Button \in S \/ Releases(q, Button, 1)
    BY DEF Accountable
  <1>4. OnlyServed(c)' = OnlyServed(c)
    BY DEF OnlyServed
  <1> HIDE DEF S, T
  <1>5. /\ \A i \in held[c] : i \in T \/ Releases(toServer'[c], i, 1)
        /\ Followed(toServer'[c], T)
        /\ OnlyServed(c) /\ Button \in pressed => Button \in T \/ Releases(toServer'[c], Button, 1)
    <2>1. CASE srv[c] = "gone" /\ toServer'[c] = <<>>
      BY <2>1, QueueEnds DEF ServerWhole, OnlyServed
    <2>2. CASE q # <<>> /\ Last(q) = End /\ toServer'[c] = q
      BY <1>1, <2>2, EndReleases
    <2>3. CASE toServer'[c] = Append(q, m)
      <3> DEFINE r == Append(q, m)
      <3>1. Followed(r, T)
        BY <1>1, <1>3, FollowedAppends DEF S, T
      <3>2. \A i : Releases(q, i, 1) => Releases(r, i, 1)
        BY <1>1, QueueAppends
      <3>3. \A i : Lets(m, i) => Releases(r, i, 1)
        <4>1. 1 \in 1 .. Len(q) + 1
          BY <1>1
        <4> QED
          BY <1>1, <4>1, QueueAppends
      <3>4. \A i \in S : i \in T \/ Lets(m, i)
        BY DEF S, T
      <3> HIDE DEF r
      <3>5. toServer'[c] = r
        BY <2>3 DEF r
      <3> QED
        BY <1>3, <3>1, <3>2, <3>3, <3>4, <3>5
    <2> QED
      BY <1>2, <2>1, <2>2, <2>3
  <1> QED
    BY <1>4, <1>5 DEF Accountable, T

(* The page goes on with the websocket it has, if it has one. *)
LEMMA PageActs ==
  ASSUME LinkInv, NEW m \in MessageType, page' \in PageType, page'.ws = page.ws,
         page'.rs = page.rs \/ (page.ws \in Slots /\ page'.rs = "open"),
         ~page.handled => ~page'.handled,
         UNCHANGED <<srv, held, pressed>>,
         \/ toServer' = toServer /\ (page.rs = "open" => Shown(page) \subseteq Shown(page'))
         \/ /\ page.ws \in Slots /\ page'.rs = "open" /\ toServer' = Sent(page.ws, m)
            /\ \A i \in Shown(page) : i \in Shown(page') \/ Lets(m, i)
            /\ m.kind = "down" => m.arg \in Shown(page'),
         \/ toPage' = toPage
         \/ /\ page.ws \in Slots /\ page'.rs = "open" /\ toPage[page.ws] # <<>>
            /\ toPage' = [toPage EXCEPT ![page.ws] = Tail(@)],
         NeverStuck'
  PROVE  LinkInv'
  <1>1. /\ LinkTypeOK /\ PageWhole /\ NewsInOrder /\ ServerWhole /\ PressesShown /\ NothingStaysDown
    BY DEF LinkInv
  <1>2. /\ toServer' \in [Slots -> Seq(MessageType)]
        /\ \A d \in Slots : srv[d] = "gone" => toServer'[d] = <<>>
    BY <1>1, SentFacts DEF LinkTypeOK, ServerWhole
  <1>3. toPage' \in [Slots -> Seq(NewsType)]
    <2>1. toPage \in [Slots -> Seq(NewsType)]
      BY <1>1 DEF LinkTypeOK
    <2>2. CASE toPage' = toPage
      BY <2>1, <2>2
    <2>3. CASE page.ws \in Slots /\ toPage[page.ws] # <<>> /\ toPage' = [toPage EXCEPT ![page.ws] = Tail(@)]
      <3> DEFINE rest == Tail(toPage[page.ws])
      <3>1. toPage[page.ws] \in Seq(NewsType)
        BY <2>1, <2>3
      <3>2. rest \in Seq(NewsType)
        BY <2>3, <3>1
      <3>3. toPage' = [toPage EXCEPT ![page.ws] = rest]
        BY <2>3
      <3> HIDE DEF rest
      <3> QED
        BY <2>1, <2>3, <3>2, <3>3
    <2> QED
      BY <2>2, <2>3
  <1>4. LinkTypeOK'
    BY <1>1, <1>2, <1>3 DEF LinkTypeOK
  <1>5. PageWhole'
    BY <1>1, LinkAssumption DEF PageWhole
  <1>6. NewsInOrder'
    <2>1. CASE toPage' = toPage
      BY <1>1, <2>1 DEF NewsInOrder
    <2>2. CASE /\ page.ws \in Slots /\ page'.rs = "open" /\ toPage[page.ws] # <<>>
               /\ toPage' = [toPage EXCEPT ![page.ws] = Tail(@)]
      <3>1. srv[page.ws] # "knocking"
        BY <1>1, <2>2 DEF NewsInOrder
      <3>2. \A d \in Slots : d # page.ws => toPage'[d] = toPage[d]
        BY <1>1, <2>2 DEF LinkTypeOK
      <3> QED
        BY <1>1, <2>2, <3>1, <3>2 DEF NewsInOrder
    <2> QED
      BY <2>1, <2>2
  <1>7. ServerWhole'
    BY <1>1, <1>2 DEF ServerWhole
  <1>8. PressesShown'
    <2> SUFFICES ASSUME NEW c \in Slots, page.ws = c
                 PROVE  Accountable(Shown(page), c)' /\ (page'.rs = "connecting" => Untouched(c)')
      BY DEF PressesShown
    <2>1. Accountable(Shown(page), c) /\ (page.rs = "connecting" => Untouched(c))
      BY <1>1 DEF PressesShown
    <2>2. CASE toServer' = toServer /\ (page.rs = "open" => Shown(page) \subseteq Shown(page'))
      <3>1. page.rs \in {"open", "connecting"}
        BY <1>1, LinkAssumption DEF LinkTypeOK, PageType, PageWhole
      <3>2. OnlyServed(c)' = OnlyServed(c)
        BY DEF OnlyServed
      <3>3. Untouched(c)' = Untouched(c)
        BY <2>2, <3>2 DEF Untouched
      <3>4. CASE page.rs = "open"
        <4>1. page'.rs # "connecting"
          BY <3>4
        <4>2. Accountable(Shown(page), c)'
          BY <2>1, <2>2, <3>2, <3>4 DEF Accountable, Followed
        <4> QED
          BY <4>1, <4>2
      <3>5. CASE page.rs = "connecting"
        <4>1. Untouched(c)'
          BY <2>1, <3>3, <3>5
        <4>2. Accountable(Shown(page), c)'
          BY <4>1 DEF Untouched, Accountable, NoDowns, Followed
        <4> QED
          BY <4>1, <4>2
      <3> QED
        BY <3>1, <3>4, <3>5
    <2>3. CASE /\ page.ws \in Slots /\ page'.rs = "open" /\ toServer' = Sent(page.ws, m)
               /\ \A i \in Shown(page) : i \in Shown(page') \/ Lets(m, i)
               /\ m.kind = "down" => m.arg \in Shown(page')
      BY <1>1, <2>1, <2>3, AccountableSends
    <2> QED
      BY <2>2, <2>3
  <1>9. NothingStaysDown'
    BY <1>1 DEF NothingStaysDown
  <1> QED
    BY <1>4, <1>5, <1>6, <1>7, <1>8, <1>9 DEF LinkInv

-----------------------------------------------------------------------------
(* The events of the page keep the invariant. *)
LEMMA OpenHasSlot ==
  ASSUME LinkInv, page.rs = "open"
  PROVE  page.ws \in Slots
  BY DEF LinkInv, LinkTypeOK, PageType, PageWhole

LEMMA MessagesFacts ==
  ASSUME NEW i \in Inputs, NEW kind \in {"auth", "down", "up", "tap", "end"}
  PROVE  /\ Msg(kind, i) \in MessageType
         /\ Msg(kind, i).kind = kind /\ Msg(kind, i).arg = i
         /\ kind = "up" => Lets(Msg(kind, i), i)
  BY DEF Msg, MessageType, Lets

LEMMA LoadKeeps ==
  ASSUME LinkInv, Load
  PROVE  LinkInv'
  <1> DEFINE p == [page EXCEPT !.loaded = TRUE]
  <1>1. page \in PageType /\ p \in PageType
    BY DEF LinkInv, LinkTypeOK, PageType
  <1>2. CASE page' = [p EXCEPT !.panel = TRUE] /\ UNCHANGED <<server, toServer, toPage>>
    <2>1. /\ page' \in PageType /\ page'.ws = page.ws /\ page'.rs = page.rs
          /\ page'.handled = page.handled /\ page'.panel = TRUE
          /\ page'.locks = page.locks /\ page'.dragging = page.dragging
      BY <1>1, <1>2 DEF PageType
    <2>2. Shown(page) = Shown(page') /\ NeverStuck'
      BY <2>1 DEF Shown, NeverStuck
    <2>3. UNCHANGED <<srv, held, pressed, toServer, toPage>>
      BY <1>2 DEF server
    <2> QED
      BY <2>1, <2>2, <2>3, PageActs, QueueEnds
  <1>3. CASE page' = [p EXCEPT !.refused = TRUE] /\ UNCHANGED <<server, toServer, toPage>>
    <2>1. /\ page' \in PageType /\ page'.ws = page.ws /\ page'.rs = page.rs
          /\ page'.handled = page.handled /\ page'.refused = TRUE
          /\ page'.locks = page.locks /\ page'.dragging = page.dragging
      BY <1>1, <1>3 DEF PageType
    <2>2. Shown(page) = Shown(page') /\ NeverStuck'
      BY <2>1 DEF Shown, NeverStuck
    <2>3. UNCHANGED <<srv, held, pressed, toServer, toPage>>
      BY <1>3 DEF server
    <2> QED
      BY <2>1, <2>2, <2>3, PageActs, QueueEnds
  <1>4. CASE \E c \in Slots : Connect([p EXCEPT !.valid = TRUE], c)
    <2> DEFINE q == [p EXCEPT !.valid = TRUE]
    <2>1. q \in PageType
      BY <1>1 DEF PageType
    <2>2. \E c \in Slots : Connect(q, c)
      BY <1>4
    <2> HIDE DEF q
    <2> QED
      BY <2>1, <2>2, ConnectKeeps
  <1> QED
    BY <1>2, <1>3, <1>4 DEF Load

LEMMA SendAuthKeeps ==
  ASSUME LinkInv, NEW p \in PageType, p.ws = page.ws, page.ws \in Slots, p.rs = "open",
         p.handled = FALSE, Shown(p) = Shown(page), toPage[page.ws] # <<>>,
         SendAuth(p), UNCHANGED server
  PROVE  LinkInv'
  <1>1. CASE StopWithError(p)
    BY <1>1, StopKeeps
  <1>2. CASE page' = p /\ toServer' = Sent(p.ws, Auth) /\ Received(p.ws)
    <2>1. /\ toPage' = [toPage EXCEPT ![page.ws] = Tail(@)]
          /\ UNCHANGED <<srv, held, pressed>>
      BY <1>2 DEF Received, server
    <2>2. NeverStuck'
      BY <1>2 DEF NeverStuck
    <2>3. Auth \in MessageType /\ Auth.kind = "auth"
      BY QueueEnds
    <2> QED
      BY <1>2, <2>1, <2>2, <2>3, PageActs
  <1> QED
    BY <1>1, <1>2 DEF SendAuth

LEMMA OnOpenKeeps ==
  ASSUME LinkInv, NEW c \in Slots, OnOpen(c)
  PROVE  LinkInv'
  <1> DEFINE p == [page EXCEPT !.rs = "open", !.timeout = FALSE, !.handled = FALSE,
                               !.attempts = 0]
  <1>1. page \in PageType /\ page.ws = c /\ toPage[page.ws] # <<>>
    BY DEF LinkInv, LinkTypeOK, OnOpen, Incoming
  <1>2. 0 \in 0 .. MaxReconnects
    BY LinkAssumption
  <1>3. /\ p \in PageType /\ p.ws = page.ws /\ p.rs = "open" /\ p.handled = FALSE
        /\ p.locks = page.locks /\ p.dragging = page.dragging
    BY <1>1, <1>2 DEF PageType
  <1>4. Shown(p) = Shown(page)
    BY <1>3 DEF Shown
  <1>5. UNCHANGED server
    BY DEF OnOpen
  <1>6. CASE Wss
    <2>1. SendAuth(p)
      BY <1>6 DEF OnOpen
    <2> HIDE DEF p
    <2> QED
      BY <1>1, <1>3, <1>4, <1>5, <2>1, SendAuthKeeps
  <1>7. CASE ~Wss
    <2>1. page' = [p EXCEPT !.panel = FALSE] /\ Received(c) /\ UNCHANGED toServer
      BY <1>7 DEF OnOpen
    <2>2. /\ page' \in PageType /\ page'.ws = page.ws /\ page'.rs = "open" /\ page'.handled = FALSE
          /\ page'.locks = page.locks /\ page'.dragging = page.dragging
      BY <1>3, <2>1 DEF PageType
    <2>3. Shown(page') = Shown(page) /\ NeverStuck'
      BY <2>2 DEF Shown, NeverStuck
    <2>4. toPage' = [toPage EXCEPT ![page.ws] = Tail(@)] /\ UNCHANGED <<srv, held, pressed>>
      BY <1>1, <1>5, <2>1 DEF Received, server
    <2>5. toServer' = toServer
      BY <2>1
    <2> QED
      BY <1>1, <2>2, <2>3, <2>4, <2>5, PageActs, QueueEnds
  <1> QED
    BY <1>6, <1>7

(* Any other answer than the first finds the websocket open. *)
LEMMA AnswersFindItOpen ==
  ASSUME LinkInv, NEW c \in Slots, page.ws = c, toPage[c] # <<>>,
         Head(toPage[c]) \notin {"open", "close"}
  PROVE  page.rs = "open" /\ page.handled = FALSE
  <1>1. page \in PageType /\ page.ws # NoSlot
    BY LinkAssumption DEF LinkInv, LinkTypeOK
  <1>2. page.rs # "closed" /\ ~page.handled
    BY <1>1 DEF LinkInv, PageWhole
  <1>3. page.rs # "connecting"
    BY DEF LinkInv, NewsInOrder
  <1> QED
    BY <1>1, <1>2, <1>3 DEF PageType

LEMMA OnAuthRequiredKeeps ==
  ASSUME LinkInv, NEW c \in Slots, OnAuthRequired(c)
  PROVE  LinkInv'
  <1>1. /\ page.ws = c /\ toPage[c] # <<>> /\ Head(toPage[c]) = "auth_required"
        /\ SendAuth(page) /\ UNCHANGED server
    BY DEF OnAuthRequired, Incoming
  <1>2. page \in PageType /\ page.rs = "open" /\ page.handled = FALSE
    BY <1>1, AnswersFindItOpen DEF LinkInv, LinkTypeOK
  <1> QED
    BY <1>1, <1>2, SendAuthKeeps

LEMMA OnAuthOkKeeps ==
  ASSUME LinkInv, NEW c \in Slots, OnAuthOk(c)
  PROVE  LinkInv'
  <1>1. /\ page.ws = c /\ toPage[c] # <<>> /\ Head(toPage[c]) = "auth_ok"
        /\ page' = [page EXCEPT !.panel = FALSE]
        /\ toPage' = [toPage EXCEPT ![page.ws] = Tail(@)]
        /\ UNCHANGED <<srv, held, pressed, toServer>>
    BY DEF OnAuthOk, Incoming, Received, server
  <1>2. page \in PageType /\ page.rs = "open" /\ page.handled = FALSE
    BY <1>1, AnswersFindItOpen DEF LinkInv, LinkTypeOK
  <1>3. /\ page' \in PageType /\ page'.ws = page.ws /\ page'.rs = "open" /\ page'.handled = FALSE
        /\ page'.locks = page.locks /\ page'.dragging = page.dragging
    BY <1>1, <1>2 DEF PageType
  <1>4. Shown(page') = Shown(page) /\ NeverStuck'
    BY <1>3 DEF Shown, NeverStuck
  <1> QED
    BY <1>1, <1>2, <1>3, <1>4, PageActs, QueueEnds

LEMMA OnRefusedKeeps ==
  ASSUME LinkInv, NEW c \in Slots, OnRefused(c)
  PROVE  LinkInv'
  <1> DEFINE p == [page EXCEPT !.failed = TRUE]
  <1>1. p \in PageType
    BY DEF LinkInv, LinkTypeOK, PageType
  <1>2. StopWithError(p) /\ UNCHANGED server
    BY DEF OnRefused
  <1> HIDE DEF p
  <1> QED
    BY <1>1, <1>2, StopKeeps

LEMMA OnCloseKeeps ==
  ASSUME LinkInv, NEW c \in Slots, OnClose(c)
  PROVE  LinkInv'
  <1> DEFINE p == [page EXCEPT !.ws = NoSlot, !.rs = "closed", !.timeout = FALSE]
             q == [p EXCEPT !.handled = TRUE]
  <1>1. page \in PageType /\ page.ws = c /\ ~page.handled
    BY LinkAssumption DEF LinkInv, LinkTypeOK, OnClose, Incoming, PageWhole
  <1>2. p.handled = FALSE
    BY <1>1 DEF PageType
  <1>3. q \in PageType /\ q.ws = NoSlot /\ q.rs = "closed"
    BY <1>1 DEF PageType
  <1>4. page' = Disconnected(q)
    BY <1>2 DEF OnClose
  <1> HIDE DEF p, q
  <1>5. /\ page' \in PageType /\ page'.ws = NoSlot /\ page'.rs = "closed"
        /\ page'.panel \/ page'.retries > 0
    BY <1>3, <1>4, DisconnectedFacts
  <1>6. UNCHANGED <<srv, held, pressed>> /\ toServer' = toServer
    BY DEF OnClose, server
  <1>7. /\ toServer \in [Slots -> Seq(MessageType)] /\ toPage \in [Slots -> Seq(NewsType)]
        /\ \A d \in Slots : srv[d] = "gone" => toServer[d] = <<>>
        /\ \A d \in Slots \ {c} : toPage[d] = <<>>
    BY <1>1 DEF LinkInv, LinkTypeOK, ServerWhole, NewsInOrder
  <1>8. toPage' = [toPage EXCEPT ![c] = <<>>]
    BY DEF OnClose
  <1>9. toPage' \in [Slots -> Seq(NewsType)] /\ \A d \in Slots : toPage'[d] = <<>>
    BY <1>7, <1>8
  <1> QED
    BY <1>5, <1>6, <1>7, <1>9, ClosedKeeps

LEMMA ConnectionTimeoutKeeps ==
  ASSUME LinkInv, ConnectionTimeout
  PROVE  LinkInv'
  <1>1. page \in PageType
    BY DEF LinkInv, LinkTypeOK
  <1>2. UNCHANGED <<srv, held, pressed>>
    BY DEF ConnectionTimeout, server
  <1>3. CASE page.rs # "open" /\ ~page.handled
    <2> DEFINE q == [page EXCEPT !.timeout = FALSE, !.handled = TRUE,
                                 !.ws = NoSlot, !.rs = "closed"]
    <2>1. q \in PageType /\ q.ws = NoSlot /\ q.rs = "closed"
      BY <1>1 DEF PageType
    <2>2. page' = Disconnected(q) /\ CloseWS
      BY <1>3 DEF ConnectionTimeout
    <2> HIDE DEF q
    <2>3. /\ page' \in PageType /\ page'.ws = NoSlot /\ page'.rs = "closed"
          /\ page'.panel \/ page'.retries > 0
      BY <2>1, <2>2, DisconnectedFacts
    <2>4. LinkTypeOK /\ NewsInOrder /\ ServerWhole
      BY DEF LinkInv
    <2> QED
      BY <1>2, <2>2, <2>3, <2>4, CloseFacts, ClosedKeeps
  <1>4. CASE ~(page.rs # "open" /\ ~page.handled)
    <2>1. page' = [page EXCEPT !.timeout = FALSE] /\ UNCHANGED <<toServer, toPage>>
      BY <1>4 DEF ConnectionTimeout
    <2>2. /\ page' \in PageType /\ page'.ws = page.ws /\ page'.rs = page.rs
          /\ page'.handled = page.handled /\ page'.panel = page.panel
          /\ page'.retries = page.retries /\ page'.loaded = page.loaded
          /\ page'.refused = page.refused
          /\ page'.locks = page.locks /\ page'.dragging = page.dragging
      BY <1>1, <2>1 DEF PageType
    <2>3. page.rs = "open" \/ page.rs = "closed"
      BY <1>4 DEF LinkInv, PageWhole
    <2>4. Shown(page') = Shown(page) /\ NeverStuck'
      BY <2>2, <2>3 DEF Shown, NeverStuck, LinkInv
    <2> QED
      BY <1>2, <2>1, <2>2, <2>4, PageActs, QueueEnds
  <1> QED
    BY <1>3, <1>4

LEMMA ReconnectKeeps ==
  ASSUME LinkInv, Reconnect
  PROVE  LinkInv'
  <1> DEFINE p == [page EXCEPT !.retries = @ - 1]
  <1>1. page \in PageType /\ page.retries > 0
    BY DEF LinkInv, LinkTypeOK, Reconnect
  <1>2. page.retries - 1 \in Nat
    BY <1>1 DEF PageType
  <1>3. p \in PageType
    BY <1>1, <1>2 DEF PageType
  <1>4. \E c \in Slots : Connect(p, c)
    BY DEF Reconnect
  <1> HIDE DEF p
  <1> QED
    BY <1>3, <1>4, ConnectKeeps

-----------------------------------------------------------------------------
(* The gestures keep the invariant. *)
LEMMA ClickConnectKeeps ==
  ASSUME LinkInv, ClickConnect
  PROVE  LinkInv'
  <1> DEFINE p == [page EXCEPT !.failed = FALSE, !.attempts = 0]
  <1>1. page \in PageType /\ page.panel /\ 0 \in 0 .. MaxReconnects
    BY LinkAssumption DEF LinkInv, LinkTypeOK, ClickConnect
  <1>2. /\ p \in PageType /\ p.ws = page.ws /\ p.rs = page.rs /\ p.panel = page.panel
        /\ p.handled = page.handled /\ p.locks = page.locks /\ p.dragging = page.dragging
    BY <1>1 DEF PageType
  <1>3. \/ \E c \in Slots : Connect(p, c)
        \/ page' = p /\ UNCHANGED <<server, toServer, toPage>>
    BY DEF ClickConnect
  <1> HIDE DEF p
  <1>4. CASE \E c \in Slots : Connect(p, c)
    BY <1>2, <1>4, ConnectKeeps
  <1>5. CASE page' = p /\ UNCHANGED <<server, toServer, toPage>>
    <2>1. Shown(page') = Shown(page) /\ NeverStuck' /\ UNCHANGED <<srv, held, pressed>>
      BY <1>1, <1>2, <1>5 DEF Shown, NeverStuck, server
    <2> QED
      BY <1>2, <1>5, <2>1, PageActs, QueueEnds
  <1> QED
    BY <1>3, <1>4, <1>5

LEMMA EditPinKeeps ==
  ASSUME LinkInv, EditPin
  PROVE  LinkInv'
  <1>1. /\ page \in PageType /\ page.panel /\ page' = [page EXCEPT !.failed = FALSE]
        /\ UNCHANGED <<srv, held, pressed, toServer, toPage>>
    BY DEF LinkInv, LinkTypeOK, EditPin, server
  <1>2. /\ page' \in PageType /\ page'.ws = page.ws /\ page'.rs = page.rs
        /\ page'.panel = page.panel /\ page'.handled = page.handled
        /\ page'.locks = page.locks /\ page'.dragging = page.dragging
    BY <1>1 DEF PageType
  <1>3. Shown(page') = Shown(page) /\ NeverStuck'
    BY <1>1, <1>2 DEF Shown, NeverStuck
  <1> QED
    BY <1>1, <1>2, <1>3, PageActs, QueueEnds

LEMMA EditAddressKeeps ==
  ASSUME LinkInv, EditAddress
  PROVE  LinkInv'
  <1>1. /\ page \in PageType /\ page.panel /\ page' = [page EXCEPT !.valid = ~page.valid]
        /\ UNCHANGED <<srv, held, pressed, toServer, toPage>>
    BY DEF LinkInv, LinkTypeOK, EditAddress, server
  <1>2. /\ page' \in PageType /\ page'.ws = page.ws /\ page'.rs = page.rs
        /\ page'.panel = page.panel /\ page'.handled = page.handled
        /\ page'.locks = page.locks /\ page'.dragging = page.dragging
    BY <1>1 DEF PageType
  <1>3. Shown(page') = Shown(page) /\ NeverStuck'
    BY <1>1, <1>2 DEF Shown, NeverStuck
  <1> QED
    BY <1>1, <1>2, <1>3, PageActs, QueueEnds

(* A wake whose address is refused leaves the page without a websocket. *)
LEMMA WakeRefusedKeeps ==
  ASSUME LinkInv, WakeRefused
  PROVE  LinkInv'
  <1> DEFINE q == [page EXCEPT !.attempts = 0, !.ws = NoSlot, !.rs = "closed",
                               !.refused = TRUE]
  <1>1. page \in PageType /\ 0 \in 0 .. MaxReconnects
    BY LinkAssumption DEF LinkInv, LinkTypeOK
  <1>2. q \in PageType /\ q.ws = NoSlot /\ q.rs = "closed" /\ q.refused = TRUE
    BY <1>1 DEF PageType
  <1>3. page' = q /\ CloseWS /\ UNCHANGED <<srv, held, pressed>>
    BY DEF WakeRefused, server
  <1> HIDE DEF q
  <1>4. LinkTypeOK /\ NewsInOrder /\ ServerWhole
    BY DEF LinkInv
  <1> QED
    BY <1>2, <1>3, <1>4, CloseFacts, ClosedKeeps

LEMMA WakeKeeps ==
  ASSUME LinkInv, Wake
  PROVE  LinkInv'
  <1> DEFINE p == [page EXCEPT !.attempts = 0]
  <1>1. page \in PageType /\ 0 \in 0 .. MaxReconnects
    BY LinkAssumption DEF LinkInv, LinkTypeOK
  <1>2. p \in PageType
    BY <1>1 DEF PageType
  <1>3. \E c \in Slots : Connect(p, c)
    BY DEF Wake
  <1> HIDE DEF p
  <1> QED
    BY <1>2, <1>3, ConnectKeeps

(* A gesture that changes what is shown sends what it changes. *)
LEMMA GestureKeeps ==
  ASSUME LinkInv, NEW kind \in {"down", "up", "tap"}, NEW i \in Inputs,
         page' \in PageType, page'.ws = page.ws, page'.rs = page.rs,
         page'.handled = page.handled, NeverStuck',
         UNCHANGED <<srv, held, pressed, toPage>>, Sends(kind, i),
         \A j \in Shown(page) : j \in Shown(page') \/ (kind = "up" /\ j = i),
         kind = "down" => i \in Shown(page')
  PROVE  LinkInv'
  <1>1. CASE page.rs = "open"
    <2> DEFINE m == Msg(kind, i)
    <2>1. toServer' = Sent(page.ws, m) /\ page.ws \in Slots
      BY <1>1, OpenHasSlot DEF Sends
    <2>2. m \in MessageType /\ m.kind = kind /\ m.arg = i /\ (kind = "up" => Lets(m, i))
      BY MessagesFacts
    <2> HIDE DEF m
    <2>3. \A j \in Shown(page) : j \in Shown(page') \/ Lets(m, j)
      BY <2>2
    <2>4. m.kind = "down" => m.arg \in Shown(page')
      BY <2>2
    <2> QED
      BY <1>1, <2>1, <2>2, <2>3, <2>4, PageActs
  <1>2. CASE page.rs # "open"
    <2>1. toServer' = toServer
      BY <1>2 DEF Sends
    <2> QED
      BY <1>2, <2>1, PageActs, QueueEnds
  <1> QED
    BY <1>1, <1>2

LEMMA ToggleLockKeeps ==
  ASSUME LinkInv, NEW i \in Inputs, ToggleLock(i)
  PROVE  LinkInv'
  <1> DEFINE locks == IF i \in page.locks THEN page.locks \ {i} ELSE page.locks \cup {i}
             kind == IF i \in page.locks THEN "up" ELSE "down"
  <1>1. /\ page \in PageType /\ NeverStuck
        /\ page' = [page EXCEPT !.locks = locks] /\ Sends(kind, i)
        /\ UNCHANGED <<srv, held, pressed, toPage>>
    BY DEF LinkInv, LinkTypeOK, ToggleLock, server
  <1>2. locks \in SUBSET Inputs /\ kind \in {"down", "up", "tap"}
    BY <1>1 DEF PageType
  <1>3. /\ \A j \in page.locks : j \in locks \/ (kind = "up" /\ j = i)
        /\ kind = "down" => i \in locks
    OBVIOUS
  <1> HIDE DEF locks, kind
  <1>4. /\ page' \in PageType /\ page'.ws = page.ws /\ page'.rs = page.rs
        /\ page'.handled = page.handled /\ page'.panel = page.panel
        /\ page'.loaded = page.loaded /\ page'.retries = page.retries
        /\ page'.timeout = page.timeout /\ page'.locks = locks /\ page'.dragging = page.dragging
    BY <1>1, <1>2 DEF PageType
  <1>5. NeverStuck'
    BY <1>1, <1>4 DEF NeverStuck
  <1>6. /\ \A j \in Shown(page) : j \in Shown(page') \/ (kind = "up" /\ j = i)
        /\ kind = "down" => i \in Shown(page')
    BY <1>3, <1>4 DEF Shown
  <1> QED
    BY <1>1, <1>2, <1>4, <1>5, <1>6, GestureKeeps

(* The drag begins or ends. *)
LEMMA DragKeeps ==
  ASSUME LinkInv, NEW kind \in {"down", "up"},
         page' = [page EXCEPT !.dragging = (kind = "down")], Sends(kind, Button),
         UNCHANGED <<server, toPage>>
  PROVE  LinkInv'
  <1>1. /\ page \in PageType /\ NeverStuck /\ UNCHANGED <<srv, held, pressed, toPage>>
        /\ Button \in Inputs
    BY DEF LinkInv, LinkTypeOK, server, Inputs
  <1>2. /\ page' \in PageType /\ page'.ws = page.ws /\ page'.rs = page.rs
        /\ page'.handled = page.handled /\ page'.panel = page.panel
        /\ page'.loaded = page.loaded /\ page'.retries = page.retries
        /\ page'.timeout = page.timeout /\ page'.locks = page.locks
        /\ page'.dragging = (kind = "down")
    BY <1>1 DEF PageType
  <1>3. NeverStuck'
    BY <1>1, <1>2 DEF NeverStuck
  <1>4. /\ \A j \in Shown(page) : j \in Shown(page') \/ (kind = "up" /\ j = Button)
        /\ kind = "down" => Button \in Shown(page')
    BY <1>2 DEF Shown
  <1> QED
    BY <1>1, <1>2, <1>3, <1>4, GestureKeeps

LEMMA StartDragKeeps ==
  ASSUME LinkInv, StartDrag
  PROVE  LinkInv'
  <1>1. page' = [page EXCEPT !.dragging = ("down" = "down")]
    BY DEF StartDrag
  <1> QED
    BY <1>1, DragKeeps DEF StartDrag

LEMMA EndDragKeeps ==
  ASSUME LinkInv, EndDrag
  PROVE  LinkInv'
  <1>1. page' = [page EXCEPT !.dragging = ("up" = "down")]
    BY DEF EndDrag
  <1> QED
    BY <1>1, DragKeeps DEF EndDrag

LEMMA TapKeeps ==
  ASSUME LinkInv, NEW i \in Inputs, Tap(i)
  PROVE  LinkInv'
  <1>1. /\ page \in PageType /\ NeverStuck /\ page' = page /\ Sends("tap", i)
        /\ UNCHANGED <<srv, held, pressed, toPage>>
    BY DEF LinkInv, LinkTypeOK, Tap, server
  <1>2. NeverStuck'
    BY <1>1 DEF NeverStuck
  <1> QED
    BY <1>1, <1>2, GestureKeeps

-----------------------------------------------------------------------------
(* The steps of the server keep the invariant. *)
LEMMA AnswerFacts ==
  ASSUME LinkTypeOK, NewsInOrder, NEW c \in Slots, NEW msgs \in Seq(NewsType), msgs # <<>>,
         Answer(c, msgs)
  PROVE  /\ toPage' \in [Slots -> Seq(NewsType)]
         /\ \A d \in Slots : d # c \/ page.ws # c => toPage'[d] = toPage[d]
         /\ page.ws = c => /\ toPage'[c] # <<>>
                           /\ toPage[c] # <<>> => Head(toPage'[c]) = Head(toPage[c])
                           /\ toPage[c] = <<>> => Head(toPage'[c]) = Head(msgs)
  <1>1. toPage \in [Slots -> Seq(NewsType)]
    BY DEF LinkTypeOK
  <1>2. CASE page.ws # c
    BY <1>1, <1>2 DEF Answer
  <1>3. CASE page.ws = c
    <2> DEFINE q == toPage[c]
               r == q \o msgs
    <2>1. q \in Seq(NewsType)
      BY <1>1
    <2> HIDE DEF q
    <2>2. /\ r \in Seq(NewsType) /\ r # <<>>
          /\ q # <<>> => Head(r) = Head(q)
          /\ q = <<>> => Head(r) = Head(msgs)
      BY <2>1
    <2>3. toPage' = [toPage EXCEPT ![c] = r]
      BY <1>3 DEF Answer, q
    <2> HIDE DEF r
    <2>4. /\ toPage' \in [Slots -> Seq(NewsType)] /\ toPage'[c] = r
          /\ \A d \in Slots : d # c => toPage'[d] = toPage[d]
      BY <1>1, <2>2, <2>3
    <2> QED
      BY <1>3, <2>2, <2>4 DEF q
  <1> QED
    BY <1>2, <1>3

(* A step of the handler of c, or of authorize() for it. *)
LEMMA ServerActs ==
  ASSUME LinkInv, NEW c \in Slots, page' = page,
         srv' \in [Slots -> {"gone", "knocking", "asking", "serving"}], srv'[c] # "knocking",
         \A d \in Slots \ {c} : srv'[d] = srv[d],
         held' \in [Slots -> SUBSET Keys], \A d \in Slots \ {c} : held'[d] = held[d],
         toServer' \in [Slots -> Seq(MessageType)],
         \A d \in Slots \ {c} : toServer'[d] = toServer[d],
         srv'[c] = "gone" => toServer'[c] = <<>>, srv'[c] # "serving" => held'[c] = {},
         NEW msgs \in Seq(NewsType),
         \/ toPage' = toPage /\ srv[c] # "knocking"
         \/ Answer(c, msgs) /\ msgs # <<>> /\ (srv[c] = "knocking" => Head(msgs) \in {"open", "close"}),
         pressed' \subseteq Inputs, srv[c] # "serving" => pressed' = pressed,
         srv[c] = "serving" /\ srv'[c] # "serving" => Button \notin pressed',
         NothingStaysDown',
         page.ws = c => Accountable(Shown(page), c)' /\ (page.rs = "connecting" => Untouched(c)')
  PROVE  LinkInv'
  <1>1. /\ LinkTypeOK /\ PageWhole /\ NewsInOrder /\ ServerWhole /\ PressesShown /\ NeverStuck
    BY DEF LinkInv
  <1>2. /\ toPage' \in [Slots -> Seq(NewsType)]
        /\ \A d \in Slots : d # c \/ page.ws # c => toPage'[d] = toPage[d]
        /\ page.ws = c =>
             /\ toPage[c] # <<>> => toPage'[c] # <<>> /\ Head(toPage'[c]) = Head(toPage[c])
             /\ srv[c] = "knocking" => toPage'[c] # <<>> /\ Head(toPage'[c]) \in {"open", "close"}
    <2>1. CASE toPage' = toPage /\ srv[c] # "knocking"
      BY <1>1, <2>1 DEF LinkTypeOK
    <2>2. CASE Answer(c, msgs) /\ msgs # <<>> /\ (srv[c] = "knocking" => Head(msgs) \in {"open", "close"})
      <3>1. srv[c] = "knocking" /\ page.ws = c => toPage[c] = <<>>
        BY <1>1 DEF NewsInOrder
      <3> QED
        BY <1>1, <2>2, <3>1, AnswerFacts
    <2> QED
      BY <2>1, <2>2
  <1>3. LinkTypeOK'
    BY <1>1, <1>2 DEF LinkTypeOK
  <1>4. PageWhole' /\ NeverStuck'
    BY <1>1 DEF PageWhole, NeverStuck
  <1>5. NewsInOrder'
    <2> SUFFICES ASSUME NEW d \in Slots
                 PROVE  /\ page.ws # d => toPage'[d] = <<>>
                        /\ page.ws = d /\ srv'[d] = "knocking" => toPage'[d] = <<>>
                        /\ page.ws = d /\ page.rs = "connecting" =>
                             srv'[d] = "knocking" \/ (toPage'[d] # <<>> /\ Head(toPage'[d]) \in {"open", "close"})
      BY DEF NewsInOrder
    <2>1. CASE d # c
      BY <1>1, <1>2, <2>1 DEF NewsInOrder
    <2>2. CASE d = c
      BY <1>1, <1>2, <2>2 DEF NewsInOrder
    <2> QED
      BY <2>1, <2>2
  <1>6. ServerWhole'
    BY <1>1 DEF ServerWhole
  <1>7. PressesShown'
    <2> SUFFICES ASSUME NEW w \in Slots, page.ws = w
                 PROVE  Accountable(Shown(page), w)' /\ (page.rs = "connecting" => Untouched(w)')
      BY DEF PressesShown
    <2>1. CASE w = c
      BY <2>1
    <2>2. CASE w # c
      <3>1. Accountable(Shown(page), w) /\ (page.rs = "connecting" => Untouched(w))
        BY <1>1 DEF PressesShown
      <3>2. (OnlyServed(w) /\ Button \in pressed)' => OnlyServed(w) /\ Button \in pressed
        <4> SUFFICES ASSUME OnlyServed(w)', Button \in pressed'
                     PROVE  OnlyServed(w) /\ Button \in pressed
          OBVIOUS
        <4>1. srv'[w] = "serving" /\ srv'[c] # "serving" /\ srv[w] = "serving"
          BY <2>2 DEF OnlyServed
        <4>2. srv[c] # "serving"
          BY <4>1
        <4> QED
          BY <4>1, <4>2 DEF OnlyServed
      <3>3. held'[w] = held[w] /\ toServer'[w] = toServer[w]
        BY <2>2
      <3> QED
        BY <3>1, <3>2, <3>3 DEF Accountable, Untouched
    <2> QED
      BY <2>1, <2>2
  <1> QED
    BY <1>3, <1>4, <1>5, <1>6, <1>7 DEF LinkInv

(* Before anything is pressed on it, any page is accountable for it. *)
LEMMA UntouchedAccountable ==
  ASSUME NEW c \in Slots, Untouched(c)'
  PROVE  Accountable(Shown(page), c)'
  BY DEF Untouched, Accountable, NoDowns, Followed

(* The server is done with c: what it held is released. *)
LEMMA GoneKeeps ==
  ASSUME LinkInv, NEW c \in Slots, page' = page, Gone(c),
         held' \in [Slots -> SUBSET Keys], held'[c] = {},
         \A d \in Slots \ {c} : held'[d] = held[d],
         NEW msgs \in Seq(NewsType),
         \/ toPage' = toPage /\ srv[c] # "knocking"
         \/ Answer(c, msgs) /\ msgs # <<>> /\ (srv[c] = "knocking" => Head(msgs) \in {"open", "close"}),
         IF srv[c] = "serving" THEN ReleaseAll(c) ELSE pressed' = pressed
  PROVE  LinkInv'
  <1>1. LinkTypeOK /\ NothingStaysDown
    BY DEF LinkInv
  <1>2. /\ srv' \in [Slots -> {"gone", "knocking", "asking", "serving"}] /\ srv'[c] = "gone"
        /\ \A d \in Slots \ {c} : srv'[d] = srv[d]
        /\ toServer' \in [Slots -> Seq(MessageType)] /\ toServer'[c] = <<>>
        /\ \A d \in Slots \ {c} : toServer'[d] = toServer[d]
    BY <1>1 DEF LinkTypeOK, Gone
  <1>3. /\ pressed' \subseteq pressed /\ pressed' \subseteq Inputs
        /\ srv[c] = "serving" => pressed' = pressed \ (held[c] \cup {Button})
        /\ srv[c] # "serving" => pressed' = pressed
    BY <1>1 DEF LinkTypeOK, ReleaseAll
  <1>4. NothingStaysDown'
    <2> SUFFICES ASSUME NEW i \in pressed'
                 PROVE  \E d \in Slots : srv'[d] = "serving" /\ (i = Button \/ i \in held'[d])
      BY DEF NothingStaysDown
    <2>1. PICK d \in Slots : srv[d] = "serving" /\ (i = Button \/ i \in held[d])
      BY <1>1, <1>3 DEF NothingStaysDown
    <2>2. d # c
      BY <1>3, <2>1
    <2> QED
      BY <1>2, <2>1, <2>2
  <1>5. Untouched(c)'
    BY <1>2, QueueEnds DEF Untouched, OnlyServed
  <1>6. Accountable(Shown(page), c)'
    BY <1>5, UntouchedAccountable
  <1>7. srv[c] = "serving" /\ srv'[c] # "serving" => Button \notin pressed'
    BY <1>3
  <1>8. srv'[c] # "knocking"
    BY <1>2
  <1> QED
    BY <1>2, <1>3, <1>4, <1>5, <1>6, <1>7, <1>8, ServerActs

(* The messages of the server. *)
LEMMA NewsFacts ==
  /\ <<"open">> \in Seq(NewsType) /\ <<"open">> # <<>> /\ Head(<<"open">>) = "open"
  /\ <<"close">> \in Seq(NewsType) /\ <<"close">> # <<>> /\ Head(<<"close">>) = "close"
  /\ <<"auth_ok">> \in Seq(NewsType) /\ <<"auth_ok">> # <<>>
  /\ <<"auth_fail", "close">> \in Seq(NewsType) /\ <<"auth_fail", "close">> # <<>>
  /\ <<"open", "auth_required">> \in Seq(NewsType) /\ <<"open", "auth_required">> # <<>>
  /\ Head(<<"open", "auth_required">>) = "open"
  /\ <<"open", "auth_blocked", "close">> \in Seq(NewsType)
  /\ <<"open", "auth_blocked", "close">> # <<>>
  /\ Head(<<"open", "auth_blocked", "close">>) = "open"
  /\ <<"open", "close">> \in Seq(NewsType) /\ <<"open", "close">> # <<>>
  /\ Head(<<"open", "close">>) = "open"
  BY DEF NewsType

(* A connection that was not served begins or goes on without pressing:    *)
(* what is down is held by another one.                                    *)
LEMMA NotServedKeeps ==
  ASSUME LinkInv, NEW c \in Slots, srv[c] \in {"knocking", "asking"}, page' = page,
         NEW s \in {"asking", "serving"}, srv' = [srv EXCEPT ![c] = s],
         UNCHANGED <<held, pressed>>,
         NEW r \in Seq(MessageType), toServer' = [toServer EXCEPT ![c] = r],
         \A S : Followed(toServer[c], S) => Followed(r, S),
         NoDowns(toServer[c]) => NoDowns(r),
         NEW msgs \in Seq(NewsType),
         \/ toPage' = toPage /\ srv[c] # "knocking"
         \/ Answer(c, msgs) /\ msgs # <<>> /\ (srv[c] = "knocking" => Head(msgs) \in {"open", "close"})
  PROVE  LinkInv'
  <1>1. LinkTypeOK /\ ServerWhole /\ NothingStaysDown /\ PressesShown
    BY DEF LinkInv
  <1>2. /\ srv' \in [Slots -> {"gone", "knocking", "asking", "serving"}] /\ srv'[c] = s
        /\ \A d \in Slots \ {c} : srv'[d] = srv[d]
        /\ toServer' \in [Slots -> Seq(MessageType)] /\ toServer'[c] = r
        /\ \A d \in Slots \ {c} : toServer'[d] = toServer[d]
    BY <1>1 DEF LinkTypeOK
  <1>3. held[c] = {} /\ held'[c] = {}
    BY <1>1 DEF ServerWhole
  <1>4. NothingStaysDown'
    <2> SUFFICES ASSUME NEW i \in pressed
                 PROVE  \E d \in Slots : srv'[d] = "serving" /\ (i = Button \/ i \in held[d])
      BY DEF NothingStaysDown
    <2>1. PICK d \in Slots : srv[d] = "serving" /\ (i = Button \/ i \in held[d])
      BY <1>1 DEF NothingStaysDown
    <2>2. d # c
      BY <2>1
    <2> QED
      BY <1>2, <2>1, <2>2
  <1>5. ~(OnlyServed(c) /\ Button \in pressed)'
    <2> SUFFICES ASSUME Button \in pressed
                 PROVE  ~OnlyServed(c)'
      OBVIOUS
    <2>1. PICK d \in Slots : srv[d] = "serving"
      BY <1>1 DEF NothingStaysDown
    <2>2. d # c /\ srv'[d] = "serving"
      BY <1>2, <2>1
    <2> QED
      BY <2>2 DEF OnlyServed
  <1>6. page.ws = c => Accountable(Shown(page), c)' /\ (page.rs = "connecting" => Untouched(c)')
    <2> SUFFICES ASSUME page.ws = c
                 PROVE  Accountable(Shown(page), c)' /\ (page.rs = "connecting" => Untouched(c)')
      OBVIOUS
    <2>1. Accountable(Shown(page), c) /\ (page.rs = "connecting" => Untouched(c))
      BY <1>1 DEF PressesShown
    <2>2. Followed(r, Shown(page)) /\ (page.rs = "connecting" => NoDowns(r))
      BY <2>1 DEF Accountable, Untouched
    <2> QED
      BY <1>2, <1>3, <1>5, <2>2 DEF Accountable, Untouched
  <1>7. /\ held' \in [Slots -> SUBSET Keys] /\ pressed' \subseteq Inputs
        /\ srv[c] # "serving" /\ srv'[c] # "knocking" /\ srv'[c] # "gone"
    BY <1>1, <1>2 DEF LinkTypeOK
  <1> QED
    BY <1>2, <1>3, <1>4, <1>6, <1>7, ServerActs

LEMMA AcceptKeeps ==
  ASSUME LinkInv, NEW c \in Slots, Accept(c)
  PROVE  LinkInv'
  <1>1. /\ srv[c] = "knocking" /\ page' = page /\ held' = held /\ pressed' = pressed
        /\ LinkTypeOK /\ ServerWhole
    BY DEF Accept, LinkInv
  <1>2. /\ held' \in [Slots -> SUBSET Keys] /\ held'[c] = {}
        /\ toServer[c] \in Seq(MessageType) /\ toServer = [toServer EXCEPT ![c] = toServer[c]]
    BY <1>1 DEF LinkTypeOK, ServerWhole
  <1>3. CASE /\ srv' = [srv EXCEPT ![c] = "asking"]
             /\ Answer(c, IF Wss THEN <<"open">> ELSE <<"open", "auth_required">>)
             /\ UNCHANGED toServer
    <2> DEFINE msgs == IF Wss THEN <<"open">> ELSE <<"open", "auth_required">>
    <2>1. msgs \in Seq(NewsType) /\ msgs # <<>> /\ Head(msgs) = "open"
      BY NewsFacts
    <2>2. Answer(c, msgs)
      BY <1>3
    <2> HIDE DEF msgs
    <2> QED
      BY <1>1, <1>2, <1>3, <2>1, <2>2, NotServedKeeps
  <1>4. CASE /\ ~Wss
             /\ srv' = [srv EXCEPT ![c] = "serving"] /\ Answer(c, <<"open">>)
             /\ UNCHANGED toServer
    BY <1>1, <1>2, <1>4, NewsFacts, NotServedKeeps
  <1>5. CASE NotUpgraded(c)
    BY <1>1, <1>2, <1>5, NewsFacts, GoneKeeps DEF NotUpgraded
  <1>6. CASE Gone(c) /\ Answer(c, <<"open", "auth_blocked", "close">>)
    BY <1>1, <1>2, <1>6, NewsFacts, GoneKeeps
  <1>7. CASE Gone(c) /\ Answer(c, <<"open", "close">>)
    BY <1>1, <1>2, <1>7, NewsFacts, GoneKeeps
  <1> QED
    BY <1>3, <1>4, <1>5, <1>6, <1>7 DEF Accept

LEMMA CheckPinKeeps ==
  ASSUME LinkInv, NEW c \in Slots, CheckPin(c)
  PROVE  LinkInv'
  <1>1. /\ srv[c] = "asking" /\ page' = page /\ held' = held /\ pressed' = pressed
        /\ toServer[c] # <<>> /\ LinkTypeOK /\ ServerWhole
    BY DEF CheckPin, LinkInv, Pending
  <1>2. /\ held' \in [Slots -> SUBSET Keys] /\ held'[c] = {}
        /\ toServer[c] \in Seq(MessageType)
    BY <1>1 DEF LinkTypeOK, ServerWhole
  <1>3. CASE srv' = [srv EXCEPT ![c] = "serving"] /\ Read(c) /\ Answer(c, <<"auth_ok">>)
    <2> DEFINE r == Tail(toServer[c])
    <2>1. /\ r \in Seq(MessageType) /\ \A S : Followed(toServer[c], S) => Followed(r, S)
          /\ NoDowns(toServer[c]) => NoDowns(r)
      BY <1>1, <1>2, QueueReads
    <2>2. toServer' = [toServer EXCEPT ![c] = r]
      BY <1>3 DEF Read
    <2> HIDE DEF r
    <2> QED
      BY <1>1, <1>3, <2>1, <2>2, NewsFacts, NotServedKeeps
  <1>4. CASE Gone(c) /\ Answer(c, <<"auth_fail", "close">>)
    BY <1>1, <1>2, <1>4, NewsFacts, GoneKeeps
  <1> QED
    BY <1>3, <1>4 DEF CheckPin

LEMMA DiscardKeeps ==
  ASSUME LinkInv, NEW c \in Slots, Discard(c)
  PROVE  LinkInv'
  <1>1. /\ srv[c] = "asking" /\ page' = page /\ srv' = srv /\ held' = held /\ pressed' = pressed
        /\ toPage' = toPage /\ toServer[c] # <<>> /\ LinkTypeOK
    BY DEF Discard, LinkInv, Pending, server
  <1>2. srv' = [srv EXCEPT ![c] = "asking"] /\ toServer[c] \in Seq(MessageType)
    BY <1>1 DEF LinkTypeOK
  <1> DEFINE r == Tail(toServer[c])
  <1>3. /\ r \in Seq(MessageType) /\ \A S : Followed(toServer[c], S) => Followed(r, S)
        /\ NoDowns(toServer[c]) => NoDowns(r)
    BY <1>1, <1>2, QueueReads
  <1>4. toServer' = [toServer EXCEPT ![c] = r]
    BY DEF Discard, Read
  <1> HIDE DEF r
  <1> QED
    BY <1>1, <1>2, <1>3, <1>4, NewsFacts, NotServedKeeps

LEMMA GiveUpAskingKeeps ==
  ASSUME LinkInv, NEW c \in Slots, GiveUpAsking(c)
  PROVE  LinkInv'
  <1>1. /\ srv[c] = "asking" /\ page' = page /\ held' = held /\ pressed' = pressed
        /\ Gone(c) /\ Answer(c, <<"close">>) /\ LinkTypeOK /\ ServerWhole
    BY DEF GiveUpAsking, LinkInv
  <1>2. held' \in [Slots -> SUBSET Keys] /\ held'[c] = {}
    BY <1>1 DEF LinkTypeOK, ServerWhole
  <1> QED
    BY <1>1, <1>2, NewsFacts, GoneKeeps

LEMMA HandlerReturnsKeeps ==
  ASSUME LinkInv, NEW c \in Slots, HandlerReturns(c)
  PROVE  LinkInv'
  <1>1. /\ srv[c] \in {"asking", "serving"} /\ page' = page /\ Gone(c) /\ toPage' = toPage
        /\ held' = [held EXCEPT ![c] = {}] /\ LinkTypeOK
        /\ IF srv[c] = "serving" THEN ReleaseAll(c) ELSE pressed' = pressed
    BY DEF HandlerReturns, HandlerEnds, LinkInv
  <1>2. /\ held' \in [Slots -> SUBSET Keys] /\ held'[c] = {}
        /\ \A d \in Slots \ {c} : held'[d] = held[d]
    BY <1>1 DEF LinkTypeOK
  <1> QED
    BY <1>1, <1>2, NewsFacts, GoneKeeps

LEMMA ServerClosesKeeps ==
  ASSUME LinkInv, NEW c \in Slots, ServerCloses(c)
  PROVE  LinkInv'
  <1>1. /\ srv[c] = "serving" /\ page' = page /\ Gone(c) /\ Answer(c, <<"close">>)
        /\ held' = [held EXCEPT ![c] = {}] /\ LinkTypeOK /\ ReleaseAll(c)
    BY DEF ServerCloses, HandlerEnds, LinkInv
  <1>2. /\ held' \in [Slots -> SUBSET Keys] /\ held'[c] = {}
        /\ \A d \in Slots \ {c} : held'[d] = held[d]
    BY <1>1 DEF LinkTypeOK
  <1> QED
    BY <1>1, <1>2, NewsFacts, GoneKeeps

(* A message of a served connection: what it presses is shown, or released *)
(* by a message that follows, and a key is held by the connection.         *)
LEMMA HandleKeeps ==
  ASSUME LinkInv, NEW c \in Slots, Handle(c)
  PROVE  LinkInv'
  <1> DEFINE q == toServer[c]
             r == Tail(q)
             kind == Head(q).kind
             i == Head(q).arg
             S == Shown(page)
  <1>1. /\ LinkTypeOK /\ ServerWhole /\ NothingStaysDown /\ PressesShown
        /\ srv[c] = "serving" /\ q # <<>> /\ kind \in {"down", "up", "tap"}
        /\ page' = page /\ srv' = srv /\ toPage' = toPage
        /\ toServer' = [toServer EXCEPT ![c] = r]
    BY DEF Handle, LinkInv, Pending, Read
  <1>2. q \in Seq(MessageType)
    BY <1>1 DEF LinkTypeOK
  <1>3. /\ r \in Seq(MessageType) /\ Head(q) \in MessageType
        /\ \A j : Releases(q, j, 1) => Lets(Head(q), j) \/ Releases(r, j, 1)
        /\ Followed(q, S) => Followed(r, S)
        /\ Followed(q, S) /\ kind = "down" => i \in S \/ Releases(r, i, 1)
        /\ NoDowns(q) => NoDowns(r) /\ kind # "down"
    BY <1>1, <1>2, QueueReads
  <1>4. i \in Inputs /\ Button \notin Keys /\ (i # Button => i \in Keys)
    BY <1>3, LinkAssumption DEF MessageType, Inputs
  <1>5. \A j : Lets(Head(q), j) => kind = "up" /\ j = i
    BY <1>1, QueueEnds DEF Lets
  <1>6. /\ kind = "down" => pressed' = pressed \cup {i}
        /\ kind # "down" => pressed' = pressed \ {i}
    BY <1>1 DEF Handle, Down, Up, Tapped
  <1>7. /\ held' \in [Slots -> SUBSET Keys]
        /\ \A d \in Slots \ {c} : held'[d] = held[d]
        /\ i # Button /\ kind = "down" => held'[c] = held[c] \cup {i}
        /\ i # Button /\ kind = "up" => held'[c] = held[c] \ {i}
        /\ i = Button \/ kind = "tap" => held'[c] = held[c]
    <2>1. held \in [Slots -> SUBSET Keys]
      BY <1>1 DEF LinkTypeOK
    <2>2. CASE i = Button \/ kind = "tap"
      <3>1. held' = held
        BY <2>2 DEF Handle
      <3> QED
        BY <1>1, <2>1, <2>2, <3>1
    <2>3. CASE ~(i = Button \/ kind = "tap")
      <3> DEFINE h == IF kind = "down" THEN held[c] \cup {i} ELSE held[c] \ {i}
      <3>1. held' = [held EXCEPT ![c] = h]
        BY <2>3 DEF Handle
      <3>2. h \in SUBSET Keys
        BY <1>4, <2>1, <2>3
      <3>3. kind = "down" \/ kind = "up"
        BY <1>1, <2>3
      <3>4. (kind = "down" => h = held[c] \cup {i}) /\ (kind = "up" => h = held[c] \ {i})
        OBVIOUS
      <3> HIDE DEF h, i, kind
      <3> QED
        BY <2>1, <2>3, <3>1, <3>2, <3>3, <3>4
    <2> QED
      BY <2>2, <2>3
  <1> HIDE DEF i, kind, r, S
  <1>8. /\ toServer' \in [Slots -> Seq(MessageType)] /\ toServer'[c] = r
        /\ \A d \in Slots \ {c} : toServer'[d] = toServer[d]
    BY <1>1, <1>3 DEF LinkTypeOK
  <1>9. pressed' \subseteq Inputs
    BY <1>1, <1>4, <1>6 DEF LinkTypeOK
  <1>10. NothingStaysDown'
    <2> SUFFICES ASSUME NEW j \in pressed'
                 PROVE  \E d \in Slots : srv'[d] = "serving" /\ (j = Button \/ j \in held'[d])
      BY DEF NothingStaysDown
    <2>1. CASE kind = "down" /\ j = i
      BY <1>1, <1>7, <2>1
    <2>2. CASE ~(kind = "down" /\ j = i)
      <3>1. j \in pressed /\ j # i
        BY <1>6, <2>2
      <3>2. PICK d \in Slots : srv[d] = "serving" /\ (j = Button \/ j \in held[d])
        BY <1>1, <3>1 DEF NothingStaysDown
      <3>3. j \in held[d] => j \in held'[d]
        BY <1>1, <1>7, <3>1
      <3> QED
        BY <1>1, <3>2, <3>3
    <2> QED
      BY <2>1, <2>2
  <1>11. page.ws = c => Accountable(Shown(page), c)' /\ (page.rs = "connecting" => Untouched(c)')
    <2> SUFFICES ASSUME page.ws = c
                 PROVE  Accountable(Shown(page), c)' /\ (page.rs = "connecting" => Untouched(c)')
      OBVIOUS
    <2>1. Accountable(S, c) /\ (page.rs = "connecting" => Untouched(c))
      BY <1>1 DEF PressesShown, S
    <2>2. /\ \A j \in held[c] : j \in S \/ Releases(q, j, 1)
          /\ Followed(q, S)
          /\ OnlyServed(c) /\ Button \in pressed => Button \in S \/ Releases(q, Button, 1)
      BY <2>1 DEF Accountable
    <2>3. OnlyServed(c)' = OnlyServed(c)
      BY <1>1 DEF OnlyServed
    <2>4. \A j \in held'[c] : j \in S \/ Releases(r, j, 1)
      <3> SUFFICES ASSUME NEW j \in held'[c]
                   PROVE  j \in S \/ Releases(r, j, 1)
        OBVIOUS
      <3>1. j \in Keys
        BY <1>7
      <3>2. CASE kind = "down" /\ j = i
        BY <1>3, <2>2, <3>2
      <3>3. CASE ~(kind = "down" /\ j = i)
        <4>1. j \in held[c] /\ ~(kind = "up" /\ j = i)
          BY <1>1, <1>4, <1>7, <3>1, <3>3
        <4>2. ~Lets(Head(q), j)
          BY <1>5, <4>1
        <4> QED
          BY <1>3, <2>2, <4>1, <4>2
      <3> QED
        BY <3>2, <3>3
    <2>5. OnlyServed(c) /\ Button \in pressed' => Button \in S \/ Releases(r, Button, 1)
      <3> SUFFICES ASSUME OnlyServed(c), Button \in pressed'
                   PROVE  Button \in S \/ Releases(r, Button, 1)
        OBVIOUS
      <3>1. CASE kind = "down" /\ i = Button
        BY <1>3, <2>2, <3>1
      <3>2. CASE ~(kind = "down" /\ i = Button)
        <4>1. Button \in pressed /\ ~(kind = "up" /\ Button = i)
          BY <1>1, <1>6, <3>2
        <4>2. ~Lets(Head(q), Button)
          BY <1>5, <4>1
        <4> QED
          BY <1>3, <2>2, <4>1, <4>2
      <3> QED
        BY <3>1, <3>2
    <2>6. S' = S
      BY <1>1 DEF S
    <2>7. Accountable(S, c)'
      BY <1>3, <1>8, <2>2, <2>3, <2>4, <2>5, <2>6 DEF Accountable
    <2>8. page.rs = "connecting" => Untouched(c)'
      <3> SUFFICES ASSUME page.rs = "connecting"
                   PROVE  Untouched(c)'
        OBVIOUS
      <3>1. held[c] = {} /\ NoDowns(q) /\ ~(OnlyServed(c) /\ Button \in pressed)
        BY <2>1 DEF Untouched
      <3>2. NoDowns(r) /\ kind # "down"
        BY <1>3, <3>1
      <3>3. held'[c] = {} /\ (Button \in pressed' => Button \in pressed)
        BY <1>1, <1>6, <1>7, <3>1, <3>2
      <3> QED
        BY <1>8, <2>3, <3>1, <3>2, <3>3 DEF Untouched
    <2> QED
      BY <2>7, <2>8 DEF S
  <1>12. /\ srv' \in [Slots -> {"gone", "knocking", "asking", "serving"}]
         /\ srv'[c] = "serving" /\ srv[c] # "knocking" /\ \A d \in Slots \ {c} : srv'[d] = srv[d]
    BY <1>1 DEF LinkTypeOK
  <1> QED
    BY <1>1, <1>7, <1>8, <1>9, <1>10, <1>11, <1>12, NewsFacts, ServerActs

(* The network is lost: the end of the websocket is all that is left.      *)
LEMMA DropKeeps ==
  ASSUME LinkInv, NEW c \in Slots, Drop(c)
  PROVE  LinkInv'
  <1>1. /\ LinkTypeOK /\ ServerWhole /\ NothingStaysDown /\ PressesShown /\ NewsInOrder
        /\ PageWhole /\ NeverStuck
        /\ srv[c] \in {"asking", "serving"} /\ page.ws = c
        /\ toServer' = [toServer EXCEPT ![c] = <<End>>]
        /\ toPage' = [toPage EXCEPT ![c] = <<"close">>]
        /\ page' = page /\ srv' = srv /\ held' = held /\ pressed' = pressed
    BY DEF Drop, LinkInv, server
  <1> DEFINE q == <<End>>
             news == <<"close">>
  <1>2. /\ q \in Seq(MessageType) /\ (\A i : Releases(q, i, 1)) /\ (\A S : Followed(q, S)) /\ NoDowns(q)
        /\ news \in Seq(NewsType) /\ news # <<>> /\ Head(news) = "close"
    BY QueueEnds, NewsFacts
  <1>3. toServer' = [toServer EXCEPT ![c] = q] /\ toPage' = [toPage EXCEPT ![c] = news]
    BY <1>1
  <1> HIDE DEF q, news
  <1>4. /\ toServer' \in [Slots -> Seq(MessageType)] /\ toServer'[c] = q
        /\ \A d \in Slots \ {c} : toServer'[d] = toServer[d]
        /\ toPage' \in [Slots -> Seq(NewsType)] /\ toPage'[c] = news
        /\ \A d \in Slots \ {c} : toPage'[d] = toPage[d]
    BY <1>1, <1>2, <1>3 DEF LinkTypeOK
  <1>5. LinkTypeOK'
    BY <1>1, <1>4 DEF LinkTypeOK
  <1>6. PageWhole' /\ NeverStuck' /\ NothingStaysDown'
    BY <1>1 DEF PageWhole, NeverStuck, NothingStaysDown
  <1>7. NewsInOrder'
    BY <1>1, <1>2, <1>4 DEF NewsInOrder
  <1>8. ServerWhole'
    BY <1>1, <1>4 DEF ServerWhole
  <1>9. PressesShown'
    <2>1. Accountable(Shown(page), c)'
      BY <1>2, <1>4 DEF Accountable
    <2>2. page.rs = "connecting" => Untouched(c)'
      <3>1. page.rs = "connecting" => Untouched(c)
        BY <1>1 DEF PressesShown
      <3>2. OnlyServed(c)' = OnlyServed(c)
        BY <1>1 DEF OnlyServed
      <3> QED
        BY <1>1, <1>2, <1>4, <3>1, <3>2 DEF Untouched
    <2> QED
      BY <1>1, <2>1, <2>2 DEF PressesShown
  <1> QED
    BY <1>5, <1>6, <1>7, <1>8, <1>9 DEF LinkInv

-----------------------------------------------------------------------------
(* Nothing is known of the server yet, and nothing is down. *)
LEMMA LinkInvHoldsAtFirst == LinkInit => LinkInv
  <1> SUFFICES ASSUME LinkInit
               PROVE  LinkInv
    OBVIOUS
  <1>1. 0 \in 0 .. MaxReconnects
    BY LinkAssumption
  <1>2. page \in PageType /\ page.loaded = FALSE /\ page.ws = NoSlot /\ page.rs = "closed"
    BY <1>1 DEF LinkInit, PageType
  <1>3. LinkTypeOK
    BY <1>2 DEF LinkInit, LinkTypeOK
  <1>4. PageWhole /\ NewsInOrder /\ ServerWhole /\ PressesShown /\ NeverStuck
    BY <1>2, LinkAssumption DEF LinkInit, PageWhole, NewsInOrder, ServerWhole, PressesShown, NeverStuck
  <1>5. NothingStaysDown
    BY DEF LinkInit, NothingStaysDown
  <1> QED
    BY <1>3, <1>4, <1>5 DEF LinkInv

LEMMA LinkNextKeeps == LinkInv /\ [LinkNext]_linkVars => LinkInv'
  <1> SUFFICES ASSUME LinkInv, [LinkNext]_linkVars
               PROVE  LinkInv'
    OBVIOUS
  <1>1. CASE Load \/ ConnectionTimeout \/ Reconnect
    BY <1>1, LoadKeeps, ConnectionTimeoutKeeps, ReconnectKeeps
  <1>2. CASE ClickConnect \/ EditPin \/ EditAddress \/ Wake \/ WakeRefused
    BY <1>2, ClickConnectKeeps, EditPinKeeps, EditAddressKeeps, WakeKeeps, WakeRefusedKeeps
  <1>3. CASE (\E i \in Inputs : ToggleLock(i) \/ Tap(i)) \/ StartDrag \/ EndDrag
    BY <1>3, ToggleLockKeeps, TapKeeps, StartDragKeeps, EndDragKeeps
  <1>4. CASE \E c \in Slots :
               OnOpen(c) \/ OnAuthRequired(c) \/ OnAuthOk(c) \/ OnRefused(c) \/ OnClose(c)
    BY <1>4, OnOpenKeeps, OnAuthRequiredKeeps, OnAuthOkKeeps, OnRefusedKeeps, OnCloseKeeps
  <1>5. CASE \E c \in Slots :
               Accept(c) \/ CheckPin(c) \/ Discard(c) \/ GiveUpAsking(c) \/ Handle(c)
    BY <1>5, AcceptKeeps, CheckPinKeeps, DiscardKeeps, GiveUpAskingKeeps, HandleKeeps
  <1>6. CASE \E c \in Slots : HandlerReturns(c) \/ ServerCloses(c) \/ Drop(c)
    BY <1>6, HandlerReturnsKeeps, ServerClosesKeeps, DropKeeps
  <1>7. CASE UNCHANGED linkVars
    <2>1. UNCHANGED <<page, srv, held, pressed, toServer, toPage>>
      BY <1>7 DEF linkVars, server
    <2> QED
      BY <2>1 DEF LinkInv, LinkTypeOK, PageWhole, NewsInOrder, ServerWhole, PressesShown,
                  Accountable, Untouched, OnlyServed, NothingStaysDown, NeverStuck
  <1> QED
    BY <1>1, <1>2, <1>3, <1>4, <1>5, <1>6, <1>7 DEF LinkNext

(* The inductive invariant of the page and its connections holds           *)
(* throughout.                                                             *)
THEOREM LinkInvariant == LinkSpec => []LinkInv
  BY LinkInvHoldsAtFirst, LinkNextKeeps, PTL DEF LinkSpec

(* The variables of the page, of the handlers and of the two directions of *)
(* each websocket keep their types.                                        *)
THEOREM LinkTypeCorrect == LinkSpec => []LinkTypeOK
  <1>1. LinkInv => LinkTypeOK
    BY DEF LinkInv
  <1> QED
    BY <1>1, LinkInvariant, PTL

(* handler() releases what the client holds however the connection ends:   *)
(* whatever is down on the PC is held by a connection that is still served.*)
THEOREM NothingDown == LinkSpec => []NothingStaysDown
  <1>1. LinkInv => NothingStaysDown
    BY DEF LinkInv
  <1> QED
    BY <1>1, LinkInvariant, PTL

(* With no other connection served, what is down on the PC is shown by the *)
(* page, or its release is on its way.                                     *)
THEOREM DownShown == LinkSpec => []DownIsShown
  <1>1. LinkInv => DownIsShown
    <2> SUFFICES ASSUME LinkInv, NEW i \in pressed, page.rs = "open",
                        {c \in Slots : srv[c] = "serving"} = {page.ws}
                 PROVE  \/ i \in page.locks \/ (i = Button /\ page.dragging)
                        \/ \E n \in DOMAIN toServer[page.ws] :
                             LET m == toServer[page.ws][n]
                             IN  m = End \/ (m.kind \in {"up", "tap"} /\ m.arg = i)
      BY DEF DownIsShown
    <2> DEFINE c == page.ws
    <2>1. c \in Slots /\ srv[c] = "serving" /\ \A d \in Slots : srv[d] = "serving" => d = c
      OBVIOUS
    <2>2. Accountable(Shown(page), c)
      BY <2>1 DEF LinkInv, PressesShown
    <2>3. i = Button \/ i \in held[c]
      BY <2>1 DEF LinkInv, NothingStaysDown
    <2>4. i \in Shown(page) \/ Releases(toServer[c], i, 1)
      BY <2>1, <2>2, <2>3 DEF Accountable, OnlyServed
    <2> QED
      BY <2>4 DEF Shown, Releases, Lets
  <1> QED
    BY <1>1, LinkInvariant, PTL

(* However the attempts to connect end, the page has something to wait for *)
(* or shows the panel, unless it refused the address itself.               *)
THEOREM PageNeverStuck == LinkSpec => []NeverStuck
  <1>1. LinkInv => NeverStuck
    BY DEF LinkInv
  <1> QED
    BY <1>1, LinkInvariant, PTL
=============================================================================
