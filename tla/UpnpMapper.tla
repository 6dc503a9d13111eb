------------------------------ MODULE UpnpMapper ------------------------------
(***************************************************************************)
(* The mapping of the remote port on the router (net/upnp.py) under the    *)
(* keepalive of the server (net/server.py): the process opens one of a few *)
(* external ports, renews it, moves to another one when the router refuses *)
(* it, and is meant to leave nothing open behind it, a crash included.     *)
(*                                                                         *)
(* A step is one exchange with the router, with the decision its answer    *)
(* leads to; the router, the other devices of the LAN and the crash of the *)
(* process come between any two of them.  A look at a mapping and the      *)
(* delete that follows it at once are one step.  Time is counted in        *)
(* periods of the keepalive; a setup takes much less than one.             *)
(***************************************************************************)
EXTENDS Naturals, Sequences

CONSTANTS
  NPorts,   (* EXTERNAL_PORTS, numbered in the order they are tried        *)
  Hosts,    (* the addresses this PC may have in the LAN                   *)
  Lease     (* LEASE_SECS, in periods of the keepalive                     *)

ASSUME UpnpAssumption ==
  NPorts \in Nat \ {0} /\ Lease \in Nat \ {0} /\ Hosts # {}

Ports == 1 .. NPorts
NoPort == 0
Forever == Lease + 1     (* what is left of a mapping that never expires   *)

VARIABLES
  router,     (* the mapping of each external port                         *)
  permanentOnly,  (* the router answers 725 to a lease that expires        *)
  ip,         (* the server's local_ip                                     *)
  pc,         (* "off": killed; "closed": left through cleanup();          *)
              (* "idle": between two setups; the others: inside setup_sync *)
  todo,       (* the ports the loop in progress has still to look at       *)
  swept,      (* _residui_controllati                                      *)
  ext,        (* external_port                                             *)
  chosen,     (* scelta                                                    *)
  open,       (* the last setup returned an address                        *)
  due,        (* the keepalive is about to call setup                      *)
  missed,     (* history: setups failed since the last that succeeded      *)
  refused,    (* history: ports this setup could not map                   *)
  strays,     (* history: our mappings whose answer or delete was lost     *)
  disturbed,  (* history: the router or another PC dropped the port in use *)
  dropped,    (* history: a renewal deleted the port in use, and could not *)
              (* map it again                                              *)
  gone        (* history: periods since the process ended                  *)

vars == <<router, permanentOnly, ip, pc, todo, swept, ext, chosen, open, due,
          missed, refused, strays, disturbed, dropped, gone>>

(* A mapping carries a description: MAPPING_DESC on ours and on those of   *)
(* the LiquidMouse of another PC, its twin; another one on the others.     *)
Unmapped == [owner |-> "none"]
Foreign == [owner |-> "other"]
Twin == [owner |-> "twin"]
OurMapping(h, t) == [owner |-> "ours", host |-> h, left |-> t]

Mappings == {Unmapped, Foreign, Twin} \cup
            {OurMapping(h, t) : h \in Hosts, t \in 1 .. Forever}

(* voce[2] = MAPPING_DESC: all the code asks of a mapping it finds. *)
Named(m) == m.owner \in {"ours", "twin"}

OursIn(r) == {p \in Ports : r[p].owner = "ours"}
Ours == OursIn(router)

(* The port that is, or is about to be, the process's own. *)
InUse == IF pc = "moving" THEN chosen ELSE ext

InSetup == {"discovering", "sweeping", "trying", "moving"}

(* The router changes to r, and s is what of ours is lost track of. *)
RouterBecomes(r, s) ==
  /\ router' = r
  /\ strays' = s \cap OursIn(r)

Init ==
  /\ router = [p \in Ports |-> Unmapped]
  /\ permanentOnly \in BOOLEAN
  /\ ip \in Hosts
  /\ pc = "off" /\ todo = <<>> /\ swept = FALSE
  /\ ext = NoPort /\ chosen = NoPort
  /\ open = FALSE /\ due = FALSE
  /\ missed = 0 /\ refused = {} /\ strays = {}
  /\ disturbed = FALSE /\ dropped = FALSE
  /\ gone = 0

(***************************************************************************)
(* The process and its keepalive.                                          *)
(***************************************************************************)
(* A new process knows nothing of the mappings of the one before. *)
Start ==
  /\ pc \in {"off", "closed"}
  /\ pc' = "idle" /\ due' = TRUE
  /\ todo' = <<>> /\ swept' = FALSE
  /\ ext' = NoPort /\ chosen' = NoPort /\ open' = FALSE
  /\ missed' = 0 /\ refused' = {} /\ strays' = {}
  /\ disturbed' = FALSE /\ dropped' = FALSE
  /\ gone' = 0
  /\ UNCHANGED <<router, permanentOnly, ip>>

(* Variant: what is open is left alone. *)
BeginUnlessOpen ==
  /\ pc = "idle" /\ due
  /\ pc' = IF open THEN "idle" ELSE "discovering"
  /\ due' = FALSE /\ refused' = {}
  /\ UNCHANGED <<router, permanentOnly, ip, todo, swept, ext, chosen, open,
                 missed, strays, disturbed, dropped, gone>>

(* _refresh_remote() calls setup() with the local_ip of the moment. *)
Begin ==
  /\ pc = "idle" /\ due
  /\ pc' = "discovering" /\ due' = FALSE /\ refused' = {}
  /\ UNCHANGED <<router, permanentOnly, ip, todo, swept, ext, chosen, open,
                 missed, strays, disturbed, dropped, gone>>

(* _refresh_local_ip() adopts a new address and the setup is redone at once. *)
IpChange ==
  /\ pc = "idle" /\ ~due
  /\ \E h \in Hosts \ {ip} : ip' = h
  /\ due' = TRUE
  /\ UNCHANGED <<router, permanentOnly, pc, todo, swept, ext, chosen, open,
                 missed, refused, strays, disturbed, dropped, gone>>

Crash ==
  /\ pc \notin {"off", "closed"}
  /\ pc' = "off"
  /\ gone' = 0
  /\ UNCHANGED <<router, permanentOnly, ip, todo, swept, ext, chosen, open,
                 due, missed, refused, strays, disturbed, dropped>>

(* The port in use is the first candidate of a renewal, the others keep    *)
(* their order.                                                            *)
CandidatePorts ==
  [i \in Ports |-> IF i > ext THEN i ELSE IF i = 1 THEN ext ELSE i - 1]

(* A setup that returns None: the port of the last success is kept. *)
SetupFails ==
  /\ pc' = "idle" /\ todo' = <<>> /\ open' = FALSE
  /\ missed' = IF missed < Lease THEN missed + 1 ELSE missed

(* The library is missing, no router answers, or its address is private. *)
DiscoveryFails ==
  /\ pc = "discovering"
  /\ SetupFails
  /\ UNCHANGED <<router, permanentOnly, ip, swept, ext, chosen, due, refused,
                 strays, disturbed, dropped, gone>>

DiscoveryWorks ==
  /\ pc = "discovering"
  /\ pc' = IF swept THEN "trying" ELSE "sweeping"
  /\ todo' = IF swept THEN CandidatePorts ELSE [p \in Ports |-> p]
  /\ UNCHANGED <<router, permanentOnly, ip, swept, ext, chosen, open, due,
                 missed, refused, strays, disturbed, dropped, gone>>

(* _rimuovi_residui(), one port: a mapping with our description is         *)
(* deleted, a twin's too; a look or a delete that fails leaves it there.   *)
SweepPort ==
  /\ pc = "sweeping"
  /\ LET p == Head(todo) IN
       \/ /\ Named(router[p])
          /\ RouterBecomes([router EXCEPT ![p] = Unmapped], strays)
       \/ RouterBecomes(router, strays \cup {p})
  /\ IF Len(todo) > 1
     THEN /\ todo' = Tail(todo)
          /\ UNCHANGED <<pc, swept>>
     ELSE /\ pc' = "trying" /\ swept' = TRUE
          /\ todo' = CandidatePorts
  /\ UNCHANGED <<permanentOnly, ip, ext, chosen, open, due, missed, refused,
                 disturbed, dropped, gone>>

(* Variant: a permanent mapping is always asked for. *)
GrantedForever == Forever

(* _add(): a lease that expires, unless the router takes only permanent ones. *)
Granted == IF permanentOnly THEN Forever ELSE Lease

(* Variant: whoever has the port loses it. *)
MapBlindly ==
  /\ pc = "trying"
  /\ LET p == Head(todo) IN
       /\ RouterBecomes([router EXCEPT ![p] = OurMapping(ip, Granted)],
                        strays \ {p})
       /\ chosen' = p
  /\ pc' = "moving" /\ todo' = <<>>
  /\ disturbed' = FALSE /\ dropped' = FALSE
  /\ UNCHANGED <<permanentOnly, ip, swept, ext, open, due, missed, refused,
                 gone>>

(* _try_map() returns None: the port was free, or ours and written over,   *)
(* or had our description and has been deleted and mapped again.           *)
Map ==
  /\ pc = "trying"
  /\ LET p == Head(todo) IN
       /\ router[p] # Foreign
       /\ RouterBecomes([router EXCEPT ![p] = OurMapping(ip, Granted)],
                        strays \ {p})
       /\ chosen' = p
  /\ pc' = "moving" /\ todo' = <<>>
  /\ disturbed' = FALSE /\ dropped' = FALSE
  /\ UNCHANGED <<permanentOnly, ip, swept, ext, open, due, missed, refused,
                 gone>>

(* Variant: the loop goes past the last port. *)
NotMappedGoesOn ==
  /\ pc = "trying"
  /\ refused' = refused \cup {Head(todo)}
  /\ todo' = Tail(todo)
  /\ UNCHANGED <<router, permanentOnly, ip, pc, swept, ext, chosen, open, due,
                 missed, strays, disturbed, dropped, gone>>

(* _try_map() returns a reason: the port is as it was, or had our          *)
(* description and has been deleted only, or the mapping was made but its  *)
(* answer was lost.                                                        *)
NotMapped ==
  /\ pc = "trying"
  /\ LET p == Head(todo) IN
       /\ \/ /\ RouterBecomes(router, strays)
             /\ UNCHANGED dropped
          \/ /\ Named(router[p])
             /\ RouterBecomes([router EXCEPT ![p] = Unmapped], strays)
             /\ dropped' = (dropped \/ p = ext)
          \/ /\ router[p] # Foreign
             /\ RouterBecomes([router EXCEPT ![p] = OurMapping(ip, Granted)],
                              strays \cup {p})
             /\ UNCHANGED dropped
       /\ refused' = refused \cup {p}
  /\ IF Len(todo) > 1
     THEN /\ todo' = Tail(todo)
          /\ UNCHANGED <<pc, open, missed>>
     ELSE SetupFails
  /\ UNCHANGED <<permanentOnly, ip, swept, ext, chosen, due, disturbed, gone>>

(* A setup that returns the address: the port chosen is the port in use. *)
SetupWorks ==
  /\ ext' = chosen /\ chosen' = NoPort
  /\ open' = TRUE /\ missed' = 0 /\ pc' = "idle"

(* Variant: the port the setup moves away from is forgotten. *)
MoveForgettingOld ==
  /\ pc = "moving" /\ ext \notin {NoPort, chosen}
  /\ UNCHANGED <<router, strays>>
  /\ SetupWorks
  /\ UNCHANGED <<permanentOnly, ip, todo, swept, due, refused, disturbed,
                 dropped, gone>>

(* The setup moved to another port: the mapping of the old one is deleted, *)
(* whosever it is by now; the delete may fail.                             *)
MoveDroppingOld ==
  /\ pc = "moving" /\ ext \notin {NoPort, chosen}
  /\ \/ RouterBecomes([router EXCEPT ![ext] = Unmapped], strays)
     \/ RouterBecomes(router, strays \cup {ext})
  /\ SetupWorks
  /\ UNCHANGED <<permanentOnly, ip, todo, swept, due, refused, disturbed,
                 dropped, gone>>

StayOnPort ==
  /\ pc = "moving" /\ ext \in {NoPort, chosen}
  /\ SetupWorks
  /\ UNCHANGED <<router, permanentOnly, ip, todo, swept, due, refused, strays,
                 disturbed, dropped, gone>>

(* cleanup(), at the end of the process: the pool is joined before, so no  *)
(* setup is in progress.                                                   *)
Exit ==
  /\ pc = "idle"
  /\ \/ /\ ext = NoPort
        /\ UNCHANGED <<router, strays>>
     \/ /\ ext # NoPort
        /\ \/ RouterBecomes([router EXCEPT ![ext] = Unmapped], strays)
           \/ RouterBecomes(router, strays \cup {ext})
  /\ pc' = "closed" /\ gone' = 0
  /\ UNCHANGED <<permanentOnly, ip, todo, swept, ext, chosen, open, due, missed,
                 refused, disturbed, dropped>>

(***************************************************************************)
(* The router, the other devices, time.                                    *)
(***************************************************************************)
OtherTakes(p) ==
  /\ router[p] = Unmapped
  /\ \E m \in {Foreign, Twin} :
       RouterBecomes([router EXCEPT ![p] = m], strays)
  /\ UNCHANGED <<permanentOnly, ip, pc, todo, swept, ext, chosen, open, due,
                 missed, refused, disturbed, dropped, gone>>

OtherLeaves(p) ==
  /\ router[p] \in {Foreign, Twin}
  /\ RouterBecomes([router EXCEPT ![p] = Unmapped], strays)
  /\ UNCHANGED <<permanentOnly, ip, pc, todo, swept, ext, chosen, open, due,
                 missed, refused, disturbed, dropped, gone>>

(* A mapping of ours goes by no step of ours: a restart of the router, a   *)
(* pinhole it loses, or the sweep of a twin; or a twin maps over it, as we *)
(* do over one of its own.                                                 *)
RouterLoses(p) ==
  /\ router[p].owner = "ours"
  /\ \E m \in {Unmapped, Twin} :
       RouterBecomes([router EXCEPT ![p] = m], strays)
  /\ disturbed' = (disturbed \/ p = InUse)
  /\ UNCHANGED <<permanentOnly, ip, pc, todo, swept, ext, chosen, open, due,
                 missed, refused, dropped, gone>>

Elapsed(m) ==
  IF m.owner # "ours" \/ m.left = Forever THEN m
  ELSE IF m.left = 1 THEN Unmapped ELSE [m EXCEPT !.left = @ - 1]

(* A period passes; the keepalive of a process that runs is then due. *)
Tick ==
  /\ pc \in {"off", "closed"} \/ (pc = "idle" /\ ~due)
  /\ RouterBecomes([p \in Ports |-> Elapsed(router[p])], strays)
  /\ due' = (pc = "idle")
  /\ gone' = IF pc # "idle" /\ gone < Lease THEN gone + 1 ELSE gone
  /\ UNCHANGED <<permanentOnly, ip, pc, todo, swept, ext, chosen, open, missed,
                 refused, disturbed, dropped>>

Mapper == Begin \/ DiscoveryFails \/ DiscoveryWorks \/ SweepPort \/ Map
          \/ NotMapped \/ MoveDroppingOld \/ StayOnPort

Next ==
  \/ Start \/ IpChange \/ Crash \/ Exit \/ Tick
  \/ Mapper
  \/ \E p \in Ports : OtherTakes(p) \/ OtherLeaves(p) \/ RouterLoses(p)

Spec == Init /\ [][Next]_vars

(***************************************************************************)
(* Properties.                                                             *)
(***************************************************************************)
TypeOK ==
  /\ router \in [Ports -> Mappings]
  /\ permanentOnly \in BOOLEAN /\ ip \in Hosts
  /\ pc \in {"off", "closed", "idle"} \cup InSetup
  /\ todo \in Seq(Ports)
  /\ pc \in {"sweeping", "trying"} => todo # <<>>
  /\ swept \in BOOLEAN /\ open \in BOOLEAN /\ due \in BOOLEAN
  /\ ext \in Ports \cup {NoPort} /\ chosen \in Ports \cup {NoPort}
  /\ pc = "moving" => chosen # NoPort
  /\ missed \in 0 .. Lease /\ gone \in 0 .. Lease
  /\ refused \subseteq Ports /\ strays \subseteq Ports
  /\ disturbed \in BOOLEAN /\ dropped \in BOOLEAN

(* Between two setups the process has at most one port open, the one it    *)
(* shows, and after cleanup() none: what an earlier process left, and the  *)
(* ports the renewals moved away from, are closed.  Excepted are the       *)
(* mappings whose answer or whose delete the router failed.  Upheld by the *)
(* sweep of the first setup, the drop of the old port, and the loop that   *)
(* stops at the first port mapped.                                         *)
NoStrayMapping ==
  swept => /\ pc = "idle" => Ours \subseteq {ext} \cup strays
           /\ pc = "closed" => Ours \subseteq strays

(* A process that ended, even by a kill in the middle of a setup, leaves   *)
(* nothing open for longer than a lease, if the router takes leases: why   *)
(* LEASE_SECS is not zero.                                                 *)
LeaseBoundsExposure ==
  pc \in {"off", "closed"} /\ gone = Lease /\ ~permanentOnly => Ours = {}

(* The port the process shows stays mapped while renewals fail, as long as *)
(* the lease outlives them, and it leads to this PC's address unless a     *)
(* renewal for a new address is still to succeed.  A renewal may give it   *)
(* up by itself, when its own delete is done and its second try is not:    *)
(* the port is then shown as closed.  Excepted is what no setup knows of:  *)
(* the router, or another PC, dropped the mapping (`disturbed`).           *)
OpenPortStays ==
  pc = "idle" /\ ext # NoPort /\ missed + 2 <= Lease /\ ~disturbed =>
    \/ /\ router[ext].owner = "ours"
       /\ router[ext].host # ip => due \/ missed > 0
    \/ dropped /\ ~open

(* The sweep and the tries never take a port mapped under another          *)
(* description, whoever maps or leaves it between any two of their steps;  *)
(* the description is all they go by, so the port of a twin is taken.      *)
TriesSpareOthers ==
  [][\A p \in Ports : router[p] = Foreign /\ pc \in {"sweeping", "trying"} =>
       router'[p] = Foreign \/ OtherLeaves(p)]_vars

(* The external port, which the QR already scanned carries, changes only   *)
(* when the router refused that very port in the same setup.               *)
PortChangesOnlyIfRefused ==
  [][ext # NoPort /\ ext' # ext => ext \in refused \/ Start]_vars

(* A setup disturbs no other application: ports mapped under another       *)
(* description are spared by the sweep and the tries, and the address      *)
(* already given out keeps its port unless the router refused it.          *)
SetupsDisturbNobody == TriesSpareOthers /\ PortChangesOnlyIfRefused

=============================================================================
