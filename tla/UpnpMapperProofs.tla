-------------------------- MODULE UpnpMapperProofs --------------------------
(***************************************************************************)
(* Proofs about UpnpMapper, for every number of ports, every set of        *)
(* addresses and every lease.                                              *)
(***************************************************************************)
EXTENDS UpnpMapper, TLAPS

USE DEF Ports, NoPort, Forever

(***************************************************************************)
(* The inductive invariant.                                                *)
(***************************************************************************)
(* Every mapping of ours is accounted for: by the port in use, by the port *)
(* just mapped, by the ports the sweep has still to see, or as a stray.    *)
Accounted ==
  /\ swept /\ pc \in {"idle", "discovering", "trying"} => Ours \subseteq {ext} \cup strays
  /\ swept /\ pc = "closed" => Ours \subseteq strays
  /\ pc = "sweeping" =>
       \A p \in Ours : p \in strays \/ \E i \in 1 .. Len(todo) : todo[i] = p
  /\ pc = "moving" => Ours \subseteq {ext, chosen} \cup strays
  /\ pc \in {"trying", "moving"} => swept
  /\ pc = "sweeping" => ~swept
  /\ ext # NoPort => swept

(* What is left of a mapping, and since when the process is gone. *)
Leased ==
  ~permanentOnly => \A p \in Ports : router[p].owner = "ours" =>
    /\ router[p].left <= Lease
    /\ pc \in {"off", "closed"} => router[p].left + gone <= Lease

(* How much of its lease the port in use has at least. *)
Held ==
  /\ pc \in {"idle", "discovering", "trying"} /\ ext # NoPort
     /\ missed + 2 <= Lease /\ ~disturbed /\ ~dropped =>
       /\ router[ext].owner = "ours"
       /\ router[ext].left + missed + 1 >= Lease
       /\ pc = "idle" /\ ~due => router[ext].left + missed >= Lease
       /\ pc = "idle" /\ ~due /\ missed = 0 => router[ext].host = ip
  /\ pc = "moving" /\ ~disturbed =>
       /\ router[chosen].owner = "ours"
       /\ router[chosen].left >= Lease
       /\ router[chosen].host = ip

(* A renewal that gave up the port in use shows it as closed. *)
Told ==
  /\ pc = "idle" /\ dropped => ~open
  /\ pc = "moving" => ~dropped

(* The port in use is tried before any other. *)
Preferred ==
  /\ pc = "trying" /\ ext # NoPort => todo[1] = ext \/ ext \in refused
  /\ pc = "moving" /\ ext # NoPort => chosen = ext \/ ext \in refused

MapperInv == TypeOK /\ Accounted /\ Leased /\ Held /\ Told /\ Preferred

(***************************************************************************)
(* Mappings.                                                               *)
(***************************************************************************)
(* What the entries of the router are made of. *)
LEMMA MappingFields ==
  /\ {Unmapped, Foreign, Twin} \subseteq Mappings
  /\ Unmapped.owner = "none" /\ Foreign.owner = "other" /\ Twin.owner = "twin"
  /\ Foreign # Unmapped /\ Foreign # Twin
  /\ \A h \in Hosts, t \in 1 .. Forever :
       /\ OurMapping(h, t) \in Mappings
       /\ OurMapping(h, t).owner = "ours"
       /\ OurMapping(h, t).host = h
       /\ OurMapping(h, t).left = t
  <1>1. {Unmapped, Foreign, Twin} \subseteq Mappings
    BY DEF Mappings
  <1>2. Unmapped.owner = "none" /\ Foreign.owner = "other" /\ Twin.owner = "twin"
    BY DEF Unmapped, Foreign, Twin
  <1>3. Foreign # Unmapped /\ Foreign # Twin
    BY <1>2
  <1>4. \A h \in Hosts, t \in 1 .. Forever : OurMapping(h, t) \in Mappings
    BY DEF Mappings
  <1>5. \A h \in Hosts, t \in 1 .. Forever :
          /\ OurMapping(h, t).owner = "ours"
          /\ OurMapping(h, t).host = h
          /\ OurMapping(h, t).left = t
    BY DEF OurMapping
  <1> QED
    BY <1>1, <1>2, <1>3, <1>4, <1>5

(* A mapping of ours is one to some address, for some time. *)
LEMMA OursIsOurMapping ==
  ASSUME NEW m \in Mappings, m.owner = "ours"
  PROVE  /\ m.host \in Hosts /\ m.left \in 1 .. Forever
         /\ m = OurMapping(m.host, m.left)
  BY DEF Mappings, Unmapped, Foreign, Twin, OurMapping

LEMMA GrantedIsALease ==
  TypeOK => /\ Granted \in 1 .. Forever /\ Granted >= Lease
            /\ ~permanentOnly => Granted = Lease
  BY UpnpAssumption DEF Granted, TypeOK

(* A period that passes takes one from a lease, and the mapping with the   *)
(* last one.                                                               *)
LEMMA ElapsedMapping ==
  ASSUME NEW m \in Mappings
  PROVE  /\ Elapsed(m) \in Mappings
         /\ Elapsed(m).owner = "ours" =>
              /\ m.owner = "ours"
              /\ Elapsed(m).host = m.host
              /\ Elapsed(m).left = IF m.left = Forever THEN Forever ELSE m.left - 1
         /\ m.owner = "ours" /\ m.left > 1 => Elapsed(m).owner = "ours"
  <1>1. CASE m.owner # "ours"
    BY <1>1 DEF Elapsed
  <1>2. CASE m.owner = "ours" /\ m.left = Forever
    BY <1>2, UpnpAssumption DEF Elapsed
  <1>3. CASE m.owner = "ours" /\ m.left = 1 /\ m.left # Forever
    BY <1>3, MappingFields DEF Elapsed
  <1>4. CASE m.owner = "ours" /\ m.left # 1 /\ m.left # Forever
    <2>1. m = OurMapping(m.host, m.left) /\ m.host \in Hosts /\ m.left \in 1 .. Forever
      BY <1>4, OursIsOurMapping
    <2>2. m.left - 1 \in 1 .. Forever
      BY <1>4, <2>1, UpnpAssumption
    <2>3. Elapsed(m) = [m EXCEPT !.left = @ - 1]
      BY <1>4 DEF Elapsed
    <2>4. [m EXCEPT !.left = @ - 1] = OurMapping(m.host, m.left - 1)
      BY <2>1 DEF OurMapping
    <2> QED
      BY <1>4, <2>1, <2>2, <2>3, <2>4, MappingFields
  <1> QED
    BY <1>1, <1>2, <1>3, <1>4

(***************************************************************************)
(* The types.                                                              *)
(***************************************************************************)
(* The ports to sweep and the ports to try are lists of all the ports.     *)
LEMMA AllPorts ==
  LET all == [p \in Ports |-> p]
  IN  /\ all \in Seq(Ports) /\ Len(all) = NPorts /\ all # <<>>
      /\ \A p \in Ports : all[p] = p
  <1> DEFINE all == [p \in Ports |-> p]
  <1>1. all \in Seq(Ports) /\ Len(all) = NPorts
    BY UpnpAssumption
  <1>2. all # <<>>
    BY <1>1, UpnpAssumption
  <1> QED
    BY <1>1, <1>2

LEMMA Candidates ==
  ASSUME ext \in Ports \cup {NoPort}
  PROVE  /\ CandidatePorts \in Seq(Ports) /\ CandidatePorts # <<>>
         /\ ext # NoPort => CandidatePorts[1] = ext
  <1> DEFINE port(i) == IF i > ext THEN i ELSE IF i = 1 THEN ext ELSE i - 1
  <1>1. \A i \in 1 .. NPorts : port(i) \in Ports
    BY UpnpAssumption
  <1>2. CandidatePorts = [i \in 1 .. NPorts |-> port(i)]
    BY DEF CandidatePorts
  <1>3. ext # NoPort => port(1) = ext
    BY UpnpAssumption
  <1> HIDE DEF port
  <1>4. CandidatePorts \in Seq(Ports) /\ Len(CandidatePorts) = NPorts
    BY <1>1, <1>2, UpnpAssumption
  <1>5. CandidatePorts # <<>>
    BY <1>4, UpnpAssumption
  <1> QED
    BY <1>2, <1>3, <1>4, <1>5, UpnpAssumption

(* Every step keeps the types of the router and of the history about it. *)
RouterTyped ==
  /\ router \in [Ports -> Mappings]
  /\ permanentOnly \in BOOLEAN /\ ip \in Hosts
  /\ strays \subseteq Ports

(* The router, the address and the strays keep their types. *)
LEMMA RouterTypeStep ==
  ASSUME TypeOK, [Next]_vars
  PROVE  RouterTyped'
  <1> USE UpnpAssumption DEF TypeOK, RouterTyped
  <1>1. CASE Start
    BY <1>1 DEF Start
  <1>2. CASE Begin
    BY <1>2 DEF Begin
  <1>3. CASE IpChange
    BY <1>3 DEF IpChange
  <1>4. CASE Crash
    BY <1>4 DEF Crash
  <1>5. CASE Exit
    <2>1. CASE ext = NoPort
      BY <1>5, <2>1 DEF Exit
    <2>2. CASE ext # NoPort
      <3>1. CASE RouterBecomes([router EXCEPT ![ext] = Unmapped], strays)
        BY <1>5, <2>2, <3>1, MappingFields DEF Exit, RouterBecomes, OursIn
      <3>2. CASE RouterBecomes(router, strays \cup {ext})
        BY <1>5, <2>2, <3>2 DEF Exit, RouterBecomes, OursIn
      <3> QED
        BY <1>5, <2>2, <3>1, <3>2 DEF Exit
    <2> QED
      BY <2>1, <2>2
  <1>6. CASE Tick
    BY <1>6, ElapsedMapping DEF Tick, RouterBecomes, OursIn
  <1>7. CASE DiscoveryFails
    BY <1>7 DEF DiscoveryFails
  <1>8. CASE DiscoveryWorks
    BY <1>8 DEF DiscoveryWorks
  <1>9. CASE SweepPort
    BY <1>9, MappingFields DEF SweepPort, RouterBecomes, OursIn
  <1>10. CASE Map
    BY <1>10, GrantedIsALease, MappingFields DEF Map, RouterBecomes, OursIn
  <1>11. CASE NotMapped
    <2> DEFINE p == Head(todo)
    <2>1. p \in Ports /\ permanentOnly' = permanentOnly /\ ip' = ip
      BY <1>11 DEF NotMapped
    <2>2. CASE RouterBecomes(router, strays)
      BY <2>1, <2>2 DEF RouterBecomes, OursIn
    <2>3. CASE RouterBecomes([router EXCEPT ![p] = Unmapped], strays)
      BY <2>1, <2>3, MappingFields DEF RouterBecomes, OursIn
    <2>4. CASE RouterBecomes([router EXCEPT ![p] = OurMapping(ip, Granted)],
                             strays \cup {p})
      BY <2>1, <2>4, GrantedIsALease, MappingFields DEF RouterBecomes, OursIn
    <2> QED
      BY <1>11, <2>2, <2>3, <2>4 DEF NotMapped
  <1>12. CASE MoveDroppingOld
    BY <1>12, MappingFields DEF MoveDroppingOld, RouterBecomes, OursIn
  <1>13. CASE StayOnPort
    BY <1>13 DEF StayOnPort
  <1>14. ASSUME NEW p \in Ports, OtherTakes(p) PROVE RouterTyped'
    <2>1. PICK m \in {Foreign, Twin} : RouterBecomes([router EXCEPT ![p] = m], strays)
      BY <1>14 DEF OtherTakes
    <2>2. m \in Mappings /\ UNCHANGED <<permanentOnly, ip>>
      BY <1>14, MappingFields DEF OtherTakes
    <2> QED
      BY <2>1, <2>2 DEF RouterBecomes, OursIn
  <1>15. ASSUME NEW p \in Ports, OtherLeaves(p) PROVE RouterTyped'
    BY <1>15, MappingFields DEF OtherLeaves, RouterBecomes, OursIn
  <1>16. ASSUME NEW p \in Ports, RouterLoses(p) PROVE RouterTyped'
    <2>1. PICK m \in {Unmapped, Twin} : RouterBecomes([router EXCEPT ![p] = m], strays)
      BY <1>16 DEF RouterLoses
    <2>2. m \in Mappings /\ UNCHANGED <<permanentOnly, ip>>
      BY <1>16, MappingFields DEF RouterLoses
    <2> QED
      BY <2>1, <2>2 DEF RouterBecomes, OursIn
  <1>17. CASE UNCHANGED vars
    BY <1>17 DEF vars
  <1> QED
    BY <1>1, <1>2, <1>3, <1>4, <1>5, <1>6, <1>7, <1>8, <1>9, <1>10, <1>11, <1>12, <1>13, <1>14, <1>15, <1>16, <1>17 DEF Next, Mapper

(* The rest of the types: where the setup stands, and what it keeps. *)
ControlTyped ==
  /\ pc \in {"off", "closed", "idle"} \cup InSetup
  /\ todo \in Seq(Ports)
  /\ pc \in {"sweeping", "trying"} => todo # <<>>
  /\ ext \in Ports \cup {NoPort} /\ chosen \in Ports \cup {NoPort}
  /\ pc = "moving" => chosen # NoPort
  /\ missed \in 0 .. Lease /\ gone \in 0 .. Lease
  /\ refused \subseteq Ports

(* What follows the first of several elements is a list of such elements. *)
LEMMA Following ==
  ASSUME NEW S, NEW l \in Seq(S), l # <<>>
  PROVE  /\ Head(l) \in S /\ Head(l) = l[1] /\ Len(l) > 0
         /\ Tail(l) \in Seq(S)
         /\ Len(l) > 1 => Tail(l) # <<>>
         /\ \A i \in 2 .. Len(l) : i - 1 \in 1 .. Len(Tail(l)) /\ Tail(l)[i - 1] = l[i]
  <1>1. Len(l) > 0 /\ Head(l) = l[1] /\ Tail(l) \in Seq(S) /\ Len(Tail(l)) = Len(l) - 1
    OBVIOUS
  <1>2. Len(l) > 1 => Tail(l) # <<>>
    <2>1. Len(<<>>) = 0
      OBVIOUS
    <2>2. Len(l) > 1 => Len(Tail(l)) # 0
      BY <1>1
    <2> QED
      BY <2>1, <2>2
  <1>3. \A i \in 1 .. Len(Tail(l)) : Tail(l)[i] = l[i + 1]
    OBVIOUS
  <1>4. ASSUME NEW i \in 2 .. Len(l)
        PROVE  i - 1 \in 1 .. Len(Tail(l)) /\ Tail(l)[i - 1] = l[i]
    <2>1. i - 1 \in 1 .. Len(Tail(l)) /\ (i - 1) + 1 = i
      BY <1>1
    <2> QED
      BY <1>3, <2>1
  <1>5. Head(l) \in S
    <2>1. 1 \in 1 .. Len(l)
      BY <1>1
    <2>2. l[1] \in S
      BY <2>1
    <2> QED
      BY <1>1, <2>2
  <1> QED
    BY <1>1, <1>2, <1>4, <1>5

FlagsTyped ==
  /\ swept \in BOOLEAN /\ open \in BOOLEAN /\ due \in BOOLEAN
  /\ disturbed \in BOOLEAN /\ dropped \in BOOLEAN

(* The flags keep their type. *)
LEMMA FlagsTypeStep ==
  ASSUME TypeOK, [Next]_vars
  PROVE  FlagsTyped'
  <1> USE DEF TypeOK, FlagsTyped
  <1>1. CASE Start
    BY <1>1 DEF Start
  <1>2. CASE Begin
    BY <1>2 DEF Begin
  <1>3. CASE IpChange
    BY <1>3 DEF IpChange
  <1>4. CASE Crash
    BY <1>4 DEF Crash
  <1>5. CASE Exit
    BY <1>5 DEF Exit
  <1>6. CASE Tick
    BY <1>6 DEF Tick
  <1>7. CASE DiscoveryFails
    BY <1>7 DEF DiscoveryFails, SetupFails
  <1>8. CASE DiscoveryWorks
    BY <1>8 DEF DiscoveryWorks
  <1>9. CASE SweepPort
    BY <1>9 DEF SweepPort
  <1>10. CASE Map
    BY <1>10 DEF Map
  <1>11. CASE NotMapped
    BY <1>11 DEF NotMapped, SetupFails
  <1>12. CASE MoveDroppingOld
    BY <1>12 DEF MoveDroppingOld, SetupWorks
  <1>13. CASE StayOnPort
    BY <1>13 DEF StayOnPort, SetupWorks
  <1>14. ASSUME NEW p \in Ports, OtherTakes(p) PROVE FlagsTyped'
    BY <1>14 DEF OtherTakes
  <1>15. ASSUME NEW p \in Ports, OtherLeaves(p) PROVE FlagsTyped'
    BY <1>15 DEF OtherLeaves
  <1>16. ASSUME NEW p \in Ports, RouterLoses(p) PROVE FlagsTyped'
    BY <1>16 DEF RouterLoses
  <1>17. CASE UNCHANGED vars
    BY <1>17 DEF vars
  <1> QED
    BY <1>1, <1>2, <1>3, <1>4, <1>5, <1>6, <1>7, <1>8, <1>9, <1>10, <1>11, <1>12, <1>13, <1>14, <1>15, <1>16, <1>17 DEF Next, Mapper

(* The other variables keep their types. *)
LEMMA ControlTypeStep ==
  ASSUME TypeOK, [Next]_vars
  PROVE  ControlTyped'
  <1> USE UpnpAssumption DEF TypeOK, ControlTyped, InSetup
  <1>1. CASE Start
    BY <1>1 DEF Start
  <1>2. CASE Begin
    BY <1>2 DEF Begin
  <1>3. CASE IpChange
    BY <1>3 DEF IpChange
  <1>4. CASE Crash
    BY <1>4 DEF Crash
  <1>5. CASE Exit
    BY <1>5 DEF Exit
  <1>6. CASE Tick
    BY <1>6 DEF Tick
  <1>7. CASE DiscoveryFails
    BY <1>7 DEF DiscoveryFails, SetupFails
  <1>8. CASE DiscoveryWorks
    BY <1>8, AllPorts, Candidates DEF DiscoveryWorks
  <1>9. CASE SweepPort
    <2>1. CASE Len(todo) > 1
      <3>1. Tail(todo) \in Seq(Ports) /\ Tail(todo) # <<>>
        BY <1>9, <2>1, Following DEF SweepPort
      <3> QED
        BY <1>9, <2>1, <3>1 DEF SweepPort
    <2>2. CASE ~(Len(todo) > 1)
      BY <1>9, <2>2, Candidates DEF SweepPort
    <2> QED
      BY <2>1, <2>2
  <1>10. CASE Map
    BY <1>10, Following DEF Map
  <1>11. CASE NotMapped
    <2>1. Head(todo) \in Ports /\ Tail(todo) \in Seq(Ports)
      BY <1>11, Following DEF NotMapped
    <2>2. CASE Len(todo) > 1
      BY <1>11, <2>1, <2>2, Following DEF NotMapped
    <2>3. CASE ~(Len(todo) > 1)
      <3>1. missed' \in 0 .. Lease
        BY <1>11, <2>3 DEF NotMapped, SetupFails
      <3>2. pc' = "idle" /\ todo' = <<>>
        BY <1>11, <2>3 DEF NotMapped, SetupFails
      <3>3. UNCHANGED <<ext, chosen, gone>> /\ refused' \subseteq Ports
        BY <1>11, <2>1 DEF NotMapped
      <3> QED
        BY <3>1, <3>2, <3>3
    <2> QED
      BY <2>2, <2>3
  <1>12. CASE MoveDroppingOld
    BY <1>12 DEF MoveDroppingOld, SetupWorks
  <1>13. CASE StayOnPort
    BY <1>13 DEF StayOnPort, SetupWorks
  <1>14. ASSUME NEW p \in Ports, OtherTakes(p) PROVE ControlTyped'
    BY <1>14 DEF OtherTakes
  <1>15. ASSUME NEW p \in Ports, OtherLeaves(p) PROVE ControlTyped'
    BY <1>15 DEF OtherLeaves
  <1>16. ASSUME NEW p \in Ports, RouterLoses(p) PROVE ControlTyped'
    BY <1>16 DEF RouterLoses
  <1>17. CASE UNCHANGED vars
    BY <1>17 DEF vars
  <1> QED
    BY <1>1, <1>2, <1>3, <1>4, <1>5, <1>6, <1>7, <1>8, <1>9, <1>10, <1>11, <1>12, <1>13, <1>14, <1>15, <1>16, <1>17 DEF Next, Mapper

(* Types are preserved by every step. *)
LEMMA TypeStep ==
  TypeOK /\ [Next]_vars => TypeOK'
  <1> SUFFICES ASSUME TypeOK, [Next]_vars PROVE TypeOK'
    OBVIOUS
  <1>1. RouterTyped' /\ ControlTyped' /\ FlagsTyped'
    BY RouterTypeStep, ControlTypeStep, FlagsTypeStep
  <1> QED
    BY <1>1 DEF RouterTyped, ControlTyped, FlagsTyped, TypeOK

LEMMA TypeInit == Init => TypeOK
  <1> SUFFICES ASSUME Init PROVE TypeOK
    OBVIOUS
  <1>1. RouterTyped
    BY MappingFields DEF Init, RouterTyped
  <1>2. ControlTyped
    BY UpnpAssumption DEF Init, ControlTyped
  <1>3. FlagsTyped
    BY DEF Init, FlagsTyped
  <1> QED
    BY <1>1, <1>2, <1>3 DEF RouterTyped, ControlTyped, FlagsTyped, TypeOK

(* The types hold in every reachable state. *)
THEOREM TypeCorrect == Spec => []TypeOK
  <1> QED
    BY TypeInit, TypeStep, PTL DEF Spec

(***************************************************************************)
(* What is open is accounted for.                                          *)
(***************************************************************************)
(* No step leaves a mapping of ours unaccounted for. *)
LEMMA AccountedStep ==
  ASSUME TypeOK, Accounted, [Next]_vars
  PROVE  Accounted'
  <1> USE UpnpAssumption DEF Accounted, Ours, OursIn, RouterBecomes
  <1>1. CASE Start
    BY <1>1 DEF Start
  <1>2. CASE Begin
    BY <1>2 DEF Begin
  <1>3. CASE IpChange
    BY <1>3 DEF IpChange
  <1>4. CASE Crash
    BY <1>4 DEF Crash
  <1>5. CASE Exit
    BY <1>5, MappingFields DEF Exit, TypeOK
  <1>6. CASE Tick
    <2>1. \A p \in Ports : router'[p].owner = "ours" => router[p].owner = "ours"
      BY <1>6, ElapsedMapping DEF Tick, TypeOK
    <2> QED
      BY <1>6, <2>1 DEF Tick
  <1>7. CASE DiscoveryFails
    BY <1>7 DEF DiscoveryFails, SetupFails
  <1>8. CASE DiscoveryWorks
    BY <1>8, AllPorts DEF DiscoveryWorks
  <1>9. CASE SweepPort
    <2> DEFINE p == Head(todo)
    <2>1. p \in Ports /\ p = todo[1] /\ todo \in Seq(Ports) /\ Len(todo) > 0
      BY <1>9, Following DEF SweepPort, TypeOK
    <2>2. /\ Ours' \subseteq Ours
          /\ strays \cap Ours' \subseteq strays'
          /\ p \in Ours' => p \in strays'
      <3>1. CASE RouterBecomes([router EXCEPT ![p] = Unmapped], strays)
        BY <2>1, <3>1, MappingFields DEF TypeOK
      <3>2. CASE RouterBecomes(router, strays \cup {p})
        BY <3>2
      <3> QED
        BY <1>9, <3>1, <3>2 DEF SweepPort
    <2>3. \A q \in Ours' : q \in strays' \/ \E i \in 2 .. Len(todo) : todo[i] = q
      <3>1. \A q \in Ours : q \in strays \/ \E i \in 1 .. Len(todo) : todo[i] = q
        BY <1>9 DEF SweepPort
      <3>2. \A i \in 1 .. Len(todo) : i = 1 \/ i \in 2 .. Len(todo)
        BY <2>1
      <3> HIDE DEF Accounted, Ours, OursIn, RouterBecomes, p
      <3> QED
        BY <2>1, <2>2, <3>1, <3>2
    <2>4. CASE Len(todo) > 1
      <3>1. \A q \in Ours' : q \in strays' \/ \E i \in 1 .. Len(Tail(todo)) : Tail(todo)[i] = q
        <4>1. \A i \in 2 .. Len(todo) :
                i - 1 \in 1 .. Len(Tail(todo)) /\ Tail(todo)[i - 1] = todo[i]
          BY <2>1, Following DEF TypeOK
        <4> QED
          BY <2>3, <4>1
      <3> QED
        BY <1>9, <2>4, <3>1 DEF SweepPort
    <2>5. CASE ~(Len(todo) > 1)
      <3>1. Ours' \subseteq strays'
        BY <2>1, <2>3, <2>5
      <3> QED
        BY <1>9, <2>5, <3>1 DEF SweepPort
    <2> QED
      BY <2>4, <2>5
  <1>10. CASE Map
    BY <1>10, MappingFields DEF Map, TypeOK
  <1>11. CASE NotMapped
    <2> DEFINE p == Head(todo)
    <2>1. /\ p \in Ports /\ swept /\ swept' /\ ext' = ext
          /\ pc' \in {"trying", "idle"}
      BY <1>11, Following DEF NotMapped, SetupFails, TypeOK
    <2>2. Ours' \subseteq {ext} \cup strays'
      <3>1. Ours \subseteq {ext} \cup strays
        BY <1>11, <2>1 DEF NotMapped
      <3>2. CASE RouterBecomes(router, strays)
        BY <3>1, <3>2
      <3>3. CASE RouterBecomes([router EXCEPT ![p] = Unmapped], strays)
        BY <2>1, <3>1, <3>3, MappingFields DEF TypeOK
      <3>4. CASE RouterBecomes([router EXCEPT ![p] = OurMapping(ip, Granted)],
                               strays \cup {p})
        BY <2>1, <3>1, <3>4, MappingFields DEF TypeOK
      <3> QED
        BY <1>11, <3>2, <3>3, <3>4 DEF NotMapped
    <2> QED
      BY <2>1, <2>2
  <1>12. CASE MoveDroppingOld
    BY <1>12, MappingFields DEF MoveDroppingOld, SetupWorks, TypeOK
  <1>13. CASE StayOnPort
    BY <1>13, MappingFields DEF StayOnPort, SetupWorks, TypeOK
  <1>14. ASSUME NEW p \in Ports, OtherTakes(p) PROVE Accounted'
    <2>1. PICK m \in {Foreign, Twin} : RouterBecomes([router EXCEPT ![p] = m], strays)
      BY <1>14 DEF OtherTakes
    <2>2. m.owner # "ours"
      BY MappingFields
    <2>3. UNCHANGED <<pc, todo, swept, ext, chosen>>
      BY <1>14 DEF OtherTakes
    <2>4. Ours' \subseteq Ours /\ strays' = strays \cap Ours'
      BY <2>1, <2>2 DEF TypeOK
    <2> QED
      BY <2>3, <2>4
  <1>15. ASSUME NEW p \in Ports, OtherLeaves(p) PROVE Accounted'
    BY <1>15, MappingFields DEF OtherLeaves, TypeOK
  <1>16. ASSUME NEW p \in Ports, RouterLoses(p) PROVE Accounted'
    <2>1. PICK m \in {Unmapped, Twin} : RouterBecomes([router EXCEPT ![p] = m], strays)
      BY <1>16 DEF RouterLoses
    <2>2. m.owner # "ours"
      BY MappingFields
    <2>3. UNCHANGED <<pc, todo, swept, ext, chosen>>
      BY <1>16 DEF RouterLoses
    <2>4. Ours' \subseteq Ours /\ strays' = strays \cap Ours'
      BY <2>1, <2>2 DEF TypeOK
    <2> QED
      BY <2>3, <2>4
  <1>17. CASE UNCHANGED vars
    BY <1>17 DEF vars
  <1> QED
    BY <1>1, <1>2, <1>3, <1>4, <1>5, <1>6, <1>7, <1>8, <1>9, <1>10, <1>11, <1>12, <1>13, <1>14, <1>15, <1>16, <1>17 DEF Next, Mapper

(***************************************************************************)
(* What is left of the leases.                                             *)
(***************************************************************************)
(* No step leaves a lease longer than what the code asked for. *)
LEMMA LeasedStep ==
  ASSUME TypeOK, Leased, [Next]_vars
  PROVE  Leased'
  <1> USE UpnpAssumption DEF TypeOK, Leased, RouterBecomes
  <1>1. CASE Start
    BY <1>1 DEF Start
  <1>2. CASE Begin
    BY <1>2 DEF Begin
  <1>3. CASE IpChange
    BY <1>3 DEF IpChange
  <1>4. CASE Crash
    <2>1. \A p \in Ports : router[p].owner = "ours" => router[p].left \in Nat
      BY OursIsOurMapping
    <2> QED
      BY <1>4, <2>1 DEF Crash
  <1>5. CASE Exit
    <2>1. \A p \in Ports : router'[p].owner = "ours" =>
            router[p].owner = "ours" /\ router'[p].left = router[p].left
      BY <1>5, MappingFields DEF Exit
    <2>2. \A p \in Ports : router[p].owner = "ours" => router[p].left \in Nat
      BY OursIsOurMapping
    <2> QED
      BY <1>5, <2>1, <2>2 DEF Exit
  <1>6. CASE Tick
    <2> SUFFICES ASSUME ~permanentOnly, NEW p \in Ports, router'[p].owner = "ours"
                 PROVE  /\ router'[p].left <= Lease
                        /\ pc' \in {"off", "closed"} => router'[p].left + gone' <= Lease
      BY <1>6 DEF Tick
    <2>1. router'[p] = Elapsed(router[p]) /\ pc' = pc
      BY <1>6 DEF Tick
    <2>2. /\ router[p].owner = "ours" /\ router[p].left \in Nat
          /\ router'[p].left = IF router[p].left = Forever THEN Forever ELSE router[p].left - 1
      BY <2>1, ElapsedMapping, OursIsOurMapping
    <2>3. /\ router[p].left <= Lease
          /\ pc \in {"off", "closed"} => router[p].left + gone <= Lease
      BY <1>6, <2>2 DEF Tick
    <2>4. router'[p].left = router[p].left - 1
      BY <2>2, <2>3
    <2>5. gone' = gone \/ gone' = gone + 1
      BY <1>6 DEF Tick
    <2> QED
      BY <2>1, <2>2, <2>3, <2>4, <2>5
  <1>7. CASE DiscoveryFails
    BY <1>7 DEF DiscoveryFails, SetupFails
  <1>8. CASE DiscoveryWorks
    BY <1>8 DEF DiscoveryWorks
  <1>9. CASE SweepPort
    <2>1. Head(todo) \in Ports /\ pc' \notin {"off", "closed"} /\ permanentOnly' = permanentOnly
      BY <1>9, Following DEF SweepPort
    <2>2. \A q \in Ports : router'[q].owner = "ours" => router'[q] = router[q]
      BY <1>9, <2>1, MappingFields DEF SweepPort
    <2> QED
      BY <2>1, <2>2
  <1>10. CASE Map
    BY <1>10, MappingFields, GrantedIsALease, Following DEF Map
  <1>11. CASE NotMapped
    <2> DEFINE p == Head(todo)
    <2>1. p \in Ports /\ pc' \notin {"off", "closed"} /\ permanentOnly' = permanentOnly
      BY <1>11, Following DEF NotMapped, SetupFails
    <2>2. CASE RouterBecomes(router, strays)
      BY <2>1, <2>2 DEF RouterBecomes
    <2>3. CASE RouterBecomes([router EXCEPT ![p] = Unmapped], strays)
      BY <2>1, <2>3, MappingFields DEF RouterBecomes
    <2>4. CASE RouterBecomes([router EXCEPT ![p] = OurMapping(ip, Granted)],
                             strays \cup {p})
      BY <2>1, <2>4, GrantedIsALease, MappingFields DEF RouterBecomes
    <2> QED
      BY <1>11, <2>2, <2>3, <2>4 DEF NotMapped
  <1>12. CASE MoveDroppingOld
    BY <1>12, MappingFields DEF MoveDroppingOld, SetupWorks
  <1>13. CASE StayOnPort
    BY <1>13 DEF StayOnPort, SetupWorks
  <1>14. ASSUME NEW p \in Ports, OtherTakes(p) PROVE Leased'
    <2>1. PICK m \in {Foreign, Twin} : RouterBecomes([router EXCEPT ![p] = m], strays)
      BY <1>14 DEF OtherTakes
    <2>2. \A q \in Ports : router'[q].owner = "ours" => router'[q] = router[q]
      BY <2>1, MappingFields
    <2>3. UNCHANGED <<permanentOnly, pc, gone>>
      BY <1>14 DEF OtherTakes
    <2> QED
      BY <2>2, <2>3
  <1>15. ASSUME NEW p \in Ports, OtherLeaves(p) PROVE Leased'
    BY <1>15, MappingFields DEF OtherLeaves
  <1>16. ASSUME NEW p \in Ports, RouterLoses(p) PROVE Leased'
    <2>1. PICK m \in {Unmapped, Twin} : RouterBecomes([router EXCEPT ![p] = m], strays)
      BY <1>16 DEF RouterLoses
    <2>2. \A q \in Ports : router'[q].owner = "ours" => router'[q] = router[q]
      BY <2>1, MappingFields
    <2>3. UNCHANGED <<permanentOnly, pc, gone>>
      BY <1>16 DEF RouterLoses
    <2> QED
      BY <2>2, <2>3
  <1>17. CASE UNCHANGED vars
    BY <1>17 DEF vars
  <1> QED
    BY <1>1, <1>2, <1>3, <1>4, <1>5, <1>6, <1>7, <1>8, <1>9, <1>10, <1>11, <1>12, <1>13, <1>14, <1>15, <1>16, <1>17 DEF Next, Mapper

(***************************************************************************)
(* The port in use stays mapped.                                           *)
(***************************************************************************)
(* No step but those of the router, of other PCs, and of a renewal that    *)
(* knows it gives up the port in use.                                      *)
LEMMA HeldStep ==
  ASSUME TypeOK, Accounted, Held, [Next]_vars
  PROVE  Held'
  <1> USE UpnpAssumption DEF TypeOK, Held, RouterBecomes
  <1>1. CASE Start
    BY <1>1 DEF Start
  <1>2. CASE Begin
    BY <1>2 DEF Begin
  <1>3. CASE IpChange
    BY <1>3 DEF IpChange
  <1>4. CASE Crash
    BY <1>4 DEF Crash
  <1>5. CASE Exit
    BY <1>5, MappingFields DEF Exit
  <1>6. CASE Tick
    <2>1. /\ pc' = pc /\ UNCHANGED <<ext, missed, disturbed, dropped, ip>>
          /\ pc # "idle" => pc \in {"off", "closed"}
          /\ pc = "idle" => ~due /\ due'
      BY <1>6 DEF Tick
    <2>2. SUFFICES ASSUME pc = "idle", ext # NoPort, missed + 2 <= Lease, ~disturbed,
                          ~dropped
                   PROVE  /\ router'[ext].owner = "ours"
                          /\ router'[ext].left + missed + 1 >= Lease
      BY <2>1
    <2>3. /\ router[ext].owner = "ours" /\ router[ext].left + missed >= Lease
          /\ router[ext] \in Mappings
      BY <2>1, <2>2
    <2>4. router'[ext] = Elapsed(router[ext])
      BY <1>6, <2>2 DEF Tick
    <2>5. router[ext].left \in 1 .. Forever
      BY <2>3, OursIsOurMapping
    <2>6. missed \in Nat /\ Lease \in Nat
      OBVIOUS
    <2> HIDE DEF TypeOK, Held, RouterBecomes
    <2>7. router[ext].left > 1
      BY <2>2, <2>3, <2>5, <2>6
    <2>8. /\ router'[ext].owner = "ours"
          /\ router'[ext].left >= router[ext].left - 1
      BY <2>3, <2>4, <2>5, <2>6, <2>7, ElapsedMapping
    <2>9. router'[ext].left \in Nat
      BY <2>3, <2>4, <2>5, <2>6, <2>7, ElapsedMapping
    <2> QED
      BY <2>3, <2>5, <2>6, <2>8, <2>9
  <1>7. CASE DiscoveryFails
    <2>1. UNCHANGED <<router, ext, disturbed, dropped, ip>> /\ pc' = "idle" /\ missed' \in 1 .. Lease
      BY <1>7 DEF DiscoveryFails, SetupFails
    <2>2. missed' + 2 <= Lease => missed' = missed + 1
      BY <1>7 DEF DiscoveryFails, SetupFails
    <2>3. ASSUME ext # NoPort, missed' + 2 <= Lease, ~disturbed, ~dropped
          PROVE  /\ router[ext].owner = "ours" /\ router[ext].left \in Nat
                 /\ router[ext].left + missed + 1 >= Lease
      BY <1>7, <2>2, <2>3, OursIsOurMapping DEF DiscoveryFails
    <2>4. ASSUME ext' # NoPort, missed' + 2 <= Lease, ~disturbed', ~dropped'
          PROVE  /\ router'[ext'].owner = "ours"
                 /\ router'[ext'].left + missed' + 1 >= Lease
                 /\ pc' = "idle" => router'[ext'].left + missed' >= Lease
                 /\ pc' = "idle" => missed' # 0
      <3>1. /\ router'[ext'].owner = "ours" /\ router'[ext'].left \in Nat
            /\ router'[ext'].left + missed + 1 >= Lease
        BY <2>1, <2>3, <2>4
      <3>2. missed \in Nat /\ Lease \in Nat
        OBVIOUS
      <3> HIDE DEF TypeOK, Held
      <3>3. missed' = missed \/ missed' = missed + 1
        BY <2>1, <2>2, <2>4
      <3>4. pc' = "idle" => missed' = missed + 1
        BY <2>2, <2>4
      <3> QED
        BY <3>1, <3>2, <3>3, <3>4
    <2>5. pc' # "moving"
      BY <2>1
    <2> HIDE DEF TypeOK
    <2> QED
      BY <2>4, <2>5
  <1>8. CASE DiscoveryWorks
    BY <1>8 DEF DiscoveryWorks
  <1>9. CASE SweepPort
    <2>1. ext = NoPort /\ ext' = NoPort /\ pc' # "moving"
      BY <1>9 DEF SweepPort, Accounted
    <2> QED
      BY <2>1
  <1>10. CASE Map
    <2> DEFINE p == Head(todo)
    <2>1. p \in Ports /\ pc' = "moving" /\ chosen' = p /\ ip' = ip
      BY <1>10, Following DEF Map
    <2>2. router'[p] = OurMapping(ip, Granted)
      BY <1>10, <2>1 DEF Map
    <2> QED
      BY <2>1, <2>2, GrantedIsALease, MappingFields
  <1>11. CASE NotMapped
    <2> DEFINE p == Head(todo)
    <2>1. /\ p \in Ports /\ UNCHANGED <<ext, ip, disturbed>> /\ pc' \in {"trying", "idle"}
          /\ missed' \in Nat /\ pc = "trying"
      BY <1>11, Following DEF NotMapped, SetupFails
    <2>2. /\ pc' = "trying" => missed' = missed
          /\ pc' = "idle" /\ missed' + 2 <= Lease => missed' = missed + 1
      BY <1>11 DEF NotMapped, SetupFails
    <2>3. ASSUME ext # NoPort, missed' + 2 <= Lease, ~disturbed', ~dropped'
          PROVE  /\ router'[ext].owner = "ours" /\ router'[ext].left \in Nat
                 /\ router'[ext].left + missed + 1 >= Lease
      <3>1. missed + 2 <= Lease
        <4>1. missed \in Nat /\ Lease \in Nat
          OBVIOUS
        <4>2. missed' = missed \/ missed' = missed + 1
          BY <2>1, <2>2, <2>3
        <4> HIDE DEF TypeOK, Held
        <4> QED
          BY <2>3, <4>1, <4>2
      <3>2. ~dropped => /\ router[ext].owner = "ours" /\ router[ext].left \in Nat
                        /\ router[ext].left + missed + 1 >= Lease
        BY <2>1, <2>3, <3>1, OursIsOurMapping
      <3>3. CASE RouterBecomes(router, strays) /\ UNCHANGED dropped
        BY <2>3, <3>2, <3>3
      <3>4. CASE /\ RouterBecomes([router EXCEPT ![p] = Unmapped], strays)
                 /\ dropped' = (dropped \/ p = ext)
        BY <2>1, <2>3, <3>2, <3>4
      <3>5. CASE /\ RouterBecomes([router EXCEPT ![p] = OurMapping(ip, Granted)],
                                  strays \cup {p})
                 /\ UNCHANGED dropped
        <4>1. CASE p = ext
          BY <2>1, <2>3, <3>5, <4>1, GrantedIsALease, MappingFields
        <4>2. CASE p # ext
          BY <2>1, <2>3, <3>2, <3>5, <4>2
        <4> QED
          BY <4>1, <4>2
      <3> QED
        BY <1>11, <3>3, <3>4, <3>5 DEF NotMapped
    <2>4. ASSUME ext' # NoPort, missed' + 2 <= Lease, ~disturbed', ~dropped'
          PROVE  /\ router'[ext'].owner = "ours"
                 /\ router'[ext'].left + missed' + 1 >= Lease
                 /\ pc' = "idle" => router'[ext'].left + missed' >= Lease
                 /\ pc' = "idle" => missed' # 0
      <3>1. /\ router'[ext'].owner = "ours" /\ router'[ext'].left \in Nat
            /\ router'[ext'].left + missed + 1 >= Lease
        BY <2>1, <2>3, <2>4
      <3>2. missed \in Nat /\ Lease \in Nat
        OBVIOUS
      <3> HIDE DEF TypeOK, Held
      <3>3. missed' = missed \/ missed' = missed + 1
        BY <2>1, <2>2, <2>4
      <3>4. pc' = "idle" => missed' = missed + 1
        BY <2>2, <2>4
      <3> QED
        BY <3>1, <3>2, <3>3, <3>4
    <2>5. pc' # "moving"
      BY <2>1
    <2> HIDE DEF TypeOK
    <2> QED
      BY <2>4, <2>5
  <1>12. CASE MoveDroppingOld
    <2>1. /\ chosen \in Ports /\ chosen # ext /\ UNCHANGED <<disturbed, ip, due>>
          /\ ext' = chosen /\ missed' = 0 /\ pc' = "idle"
      BY <1>12 DEF MoveDroppingOld, SetupWorks
    <2>2. router'[chosen] = router[chosen] /\ router[chosen] \in Mappings
      BY <1>12, <2>1 DEF MoveDroppingOld
    <2> QED
      BY <1>12, <2>1, <2>2, OursIsOurMapping DEF MoveDroppingOld
  <1>13. CASE StayOnPort
    <2>1. /\ chosen \in Ports /\ UNCHANGED <<disturbed, ip, due, router>>
          /\ ext' = chosen /\ missed' = 0 /\ pc' = "idle"
      BY <1>13 DEF StayOnPort, SetupWorks
    <2>2. router[chosen] \in Mappings
      BY <2>1
    <2> QED
      BY <1>13, <2>1, <2>2, OursIsOurMapping DEF StayOnPort
  <1>14. ASSUME NEW p \in Ports, OtherTakes(p) PROVE Held'
    BY <1>14, MappingFields DEF OtherTakes
  <1>15. ASSUME NEW p \in Ports, OtherLeaves(p) PROVE Held'
    BY <1>15, MappingFields DEF OtherLeaves
  <1>16. ASSUME NEW p \in Ports, RouterLoses(p) PROVE Held'
    <2>1. /\ UNCHANGED <<ext, chosen, pc, missed, due, ip, dropped>>
          /\ ~disturbed' => /\ ~disturbed
                            /\ pc = "moving" => p # chosen
                            /\ pc # "moving" => p # ext
          /\ \A q \in Ports \ {p} : router'[q] = router[q]
      BY <1>16 DEF RouterLoses, InUse
    <2>2. /\ pc = "moving" => chosen \in Ports
          /\ ext # NoPort => ext \in Ports
      OBVIOUS
    <2> QED
      BY <2>1, <2>2
  <1>17. CASE UNCHANGED vars
    BY <1>17 DEF vars
  <1> QED
    BY <1>1, <1>2, <1>3, <1>4, <1>5, <1>6, <1>7, <1>8, <1>9, <1>10, <1>11, <1>12, <1>13, <1>14, <1>15, <1>16, <1>17 DEF Next, Mapper

(* A renewal that gives up the port in use ends with the port shown as     *)
(* closed, or with another one.                                            *)
LEMMA ToldStep ==
  ASSUME TypeOK, Told, [Next]_vars
  PROVE  Told'
  <1> USE DEF Told
  <1>1. CASE Start
    BY <1>1 DEF Start
  <1>2. CASE Begin
    BY <1>2 DEF Begin
  <1>3. CASE IpChange
    BY <1>3 DEF IpChange
  <1>4. CASE Crash
    BY <1>4 DEF Crash
  <1>5. CASE Exit
    BY <1>5 DEF Exit
  <1>6. CASE Tick
    BY <1>6 DEF Tick
  <1>7. CASE DiscoveryFails
    BY <1>7 DEF DiscoveryFails, SetupFails
  <1>8. CASE DiscoveryWorks
    BY <1>8 DEF DiscoveryWorks
  <1>9. CASE SweepPort
    BY <1>9 DEF SweepPort
  <1>10. CASE Map
    BY <1>10 DEF Map
  <1>11. CASE NotMapped
    BY <1>11 DEF NotMapped, SetupFails
  <1>12. CASE MoveDroppingOld
    BY <1>12 DEF MoveDroppingOld, SetupWorks
  <1>13. CASE StayOnPort
    BY <1>13 DEF StayOnPort, SetupWorks
  <1>14. ASSUME NEW p \in Ports, OtherTakes(p) PROVE Told'
    BY <1>14 DEF OtherTakes
  <1>15. ASSUME NEW p \in Ports, OtherLeaves(p) PROVE Told'
    BY <1>15 DEF OtherLeaves
  <1>16. ASSUME NEW p \in Ports, RouterLoses(p) PROVE Told'
    BY <1>16 DEF RouterLoses
  <1>17. CASE UNCHANGED vars
    BY <1>17 DEF vars
  <1> QED
    BY <1>1, <1>2, <1>3, <1>4, <1>5, <1>6, <1>7, <1>8, <1>9, <1>10, <1>11, <1>12, <1>13, <1>14, <1>15, <1>16, <1>17 DEF Next, Mapper

(***************************************************************************)
(* The port in use comes first.                                            *)
(***************************************************************************)
(* The port in use has been refused before another one is mapped. *)
LEMMA PreferredStep ==
  ASSUME TypeOK, Preferred, [Next]_vars
  PROVE  Preferred'
  <1> USE UpnpAssumption DEF TypeOK, Preferred
  <1>1. CASE Start
    BY <1>1 DEF Start
  <1>2. CASE Begin
    BY <1>2 DEF Begin
  <1>3. CASE IpChange
    BY <1>3 DEF IpChange
  <1>4. CASE Crash
    BY <1>4 DEF Crash
  <1>5. CASE Exit
    BY <1>5 DEF Exit
  <1>6. CASE Tick
    BY <1>6 DEF Tick
  <1>7. CASE DiscoveryFails
    BY <1>7 DEF DiscoveryFails, SetupFails
  <1>8. CASE DiscoveryWorks
    BY <1>8, Candidates DEF DiscoveryWorks
  <1>9. CASE SweepPort
    BY <1>9, Candidates DEF SweepPort
  <1>10. CASE Map
    BY <1>10, Following DEF Map
  <1>11. CASE NotMapped
    <2>1. Head(todo) = todo[1] /\ pc = "trying" /\ ext' = ext
      BY <1>11, Following DEF NotMapped
    <2>2. ext # NoPort => ext \in refused'
      BY <1>11, <2>1 DEF NotMapped
    <2>3. pc' # "moving"
      BY <1>11 DEF NotMapped, SetupFails
    <2> QED
      BY <2>1, <2>2, <2>3
  <1>12. CASE MoveDroppingOld
    BY <1>12 DEF MoveDroppingOld, SetupWorks
  <1>13. CASE StayOnPort
    BY <1>13 DEF StayOnPort, SetupWorks
  <1>14. ASSUME NEW p \in Ports, OtherTakes(p) PROVE Preferred'
    BY <1>14 DEF OtherTakes
  <1>15. ASSUME NEW p \in Ports, OtherLeaves(p) PROVE Preferred'
    BY <1>15 DEF OtherLeaves
  <1>16. ASSUME NEW p \in Ports, RouterLoses(p) PROVE Preferred'
    BY <1>16 DEF RouterLoses
  <1>17. CASE UNCHANGED vars
    BY <1>17 DEF vars
  <1> QED
    BY <1>1, <1>2, <1>3, <1>4, <1>5, <1>6, <1>7, <1>8, <1>9, <1>10, <1>11, <1>12, <1>13, <1>14, <1>15, <1>16, <1>17 DEF Next, Mapper

(***************************************************************************)
(* The theorems.                                                           *)
(***************************************************************************)
LEMMA InvInit == Init => MapperInv
  <1> SUFFICES ASSUME Init PROVE MapperInv
    OBVIOUS
  <1>1. TypeOK
    BY TypeInit
  <1>2. Ours = {}
    BY MappingFields DEF Init, Ours, OursIn
  <1>3. Accounted /\ Held /\ Told /\ Preferred
    BY DEF Init, Accounted, Held, Told, Preferred
  <1>4. Leased
    BY <1>2 DEF Leased, Ours, OursIn
  <1> QED
    BY <1>1, <1>3, <1>4 DEF MapperInv

(* The invariant from which the properties follow. *)
THEOREM MapperInvariant == Spec => []MapperInv
  <1>1. MapperInv /\ [Next]_vars => MapperInv'
    BY TypeStep, AccountedStep, LeasedStep, HeldStep, ToldStep, PreferredStep DEF MapperInv
  <1> QED
    BY InvInit, <1>1, PTL DEF Spec

(* Nothing stays open that the process does not show: every mapping of     *)
(* ours is the port in use, or one whose answer or delete was lost.        *)
THEOREM NoStray == Spec => []NoStrayMapping
  <1>1. MapperInv => NoStrayMapping
    BY DEF MapperInv, Accounted, NoStrayMapping
  <1> QED
    BY MapperInvariant, <1>1, PTL

(* A lease after the end of the process nothing of ours is open. *)
THEOREM Bounded == Spec => []LeaseBoundsExposure
  <1>1. MapperInv => LeaseBoundsExposure
    <2> SUFFICES ASSUME MapperInv, pc \in {"off", "closed"}, gone = Lease, ~permanentOnly,
                        NEW p \in Ports, router[p].owner = "ours"
                 PROVE  FALSE
      BY DEF LeaseBoundsExposure, Ours, OursIn
    <2>1. router[p].left \in 1 .. Forever
      BY OursIsOurMapping DEF MapperInv, TypeOK
    <2>2. router[p].left + gone <= Lease
      BY DEF MapperInv, Leased
    <2> QED
      BY <2>1, <2>2, UpnpAssumption
  <1> QED
    BY MapperInvariant, <1>1, PTL

(* The port in use outlives the renewals that fail, as long as the lease   *)
(* does, or is shown as closed by the renewal that gave it up itself.      *)
THEOREM Stays == Spec => []OpenPortStays
  <1>1. MapperInv => OpenPortStays
    <2> SUFFICES ASSUME MapperInv PROVE OpenPortStays
      OBVIOUS
    <2>1. missed \in Nat /\ (missed > 0 \/ missed = 0)
      BY DEF MapperInv, TypeOK
    <2> QED
      BY <2>1 DEF MapperInv, Held, Told, OpenPortStays
  <1> QED
    BY MapperInvariant, <1>1, PTL

(* The port of the QR changes only when the router refused it. *)
THEOREM PortIsSticky == Spec => PortChangesOnlyIfRefused
  <1> DEFINE Sticky == ext # NoPort /\ ext' # ext => ext \in refused \/ Start
  <1>1. MapperInv /\ [Next]_vars => [Sticky]_vars
    <2> SUFFICES ASSUME MapperInv, Next, ext # NoPort, ext' # ext, ~Start
                 PROVE  ext \in refused
      BY DEF vars
    <2>1. MoveDroppingOld \/ StayOnPort
      BY DEF Next, Mapper, IpChange, Crash, Exit, Tick, Begin, DiscoveryFails,
             DiscoveryWorks, SweepPort, Map, NotMapped, OtherTakes, OtherLeaves,
             RouterLoses
    <2>2. pc = "moving" /\ ext' = chosen
      BY <2>1 DEF MoveDroppingOld, StayOnPort, SetupWorks
    <2> QED
      BY <2>2 DEF MapperInv, Preferred
  <1> QED
    BY MapperInvariant, <1>1, PTL DEF Spec, PortChangesOnlyIfRefused

(* The sweep and the tries leave alone what is mapped under another        *)
(* description.                                                            *)
THEOREM OthersSpared == Spec => TriesSpareOthers
  <1> DEFINE Spared ==
        \A p \in Ports : router[p] = Foreign /\ pc \in {"sweeping", "trying"} =>
          router'[p] = Foreign \/ OtherLeaves(p)
  <1>1. TypeOK /\ [Next]_vars => [Spared]_vars
    <2> SUFFICES ASSUME TypeOK, Next, NEW p \in Ports, router[p] = Foreign,
                        pc \in {"sweeping", "trying"}, ~OtherLeaves(p)
                 PROVE  router'[p] = router[p]
      BY DEF vars
    <2> USE MappingFields DEF TypeOK, RouterBecomes
    <2>1. CASE Crash \/ DiscoveryFails \/ DiscoveryWorks \/ Start \/ Begin \/ IpChange
      BY <2>1 DEF Crash, DiscoveryFails, DiscoveryWorks, Start, Begin, IpChange
    <2>2. CASE Exit \/ Tick \/ MoveDroppingOld \/ StayOnPort
      BY <2>2 DEF Exit, Tick, MoveDroppingOld, StayOnPort
    <2>3. CASE SweepPort
      BY <2>3 DEF SweepPort, Named
    <2>4. CASE Map
      <3>1. Head(todo) \in Ports
        BY <2>4, Following DEF Map
      <3>2. p # Head(todo)
        BY <2>4 DEF Map
      <3> QED
        BY <2>4, <3>1, <3>2 DEF Map
    <2>5. CASE NotMapped
      <3>1. Head(todo) \in Ports
        BY <2>5, Following DEF NotMapped
      <3>2. CASE p = Head(todo)
        BY <2>5, <3>2 DEF NotMapped, Named
      <3>3. CASE p # Head(todo)
        BY <2>5, <3>1, <3>3 DEF NotMapped
      <3> QED
        BY <3>2, <3>3
    <2>6. ASSUME NEW q \in Ports, OtherTakes(q) PROVE router'[p] = router[p]
      BY <2>6 DEF OtherTakes
    <2>7. ASSUME NEW q \in Ports, OtherLeaves(q) PROVE router'[p] = router[p]
      BY <2>7 DEF OtherLeaves
    <2>8. ASSUME NEW q \in Ports, RouterLoses(q) PROVE router'[p] = router[p]
      BY <2>8 DEF RouterLoses
    <2> QED
      BY <2>1, <2>2, <2>3, <2>4, <2>5, <2>6, <2>7, <2>8 DEF Next, Mapper
  <1> QED
    BY TypeCorrect, <1>1, PTL DEF Spec, TriesSpareOthers

(* setup_sync() takes no port mapped under another description, and does   *)
(* not move without need.                                                  *)
THEOREM DisturbsNobody == Spec => SetupsDisturbNobody
  BY OthersSpared, PortIsSticky, PTL DEF SetupsDisturbNobody
=============================================================================
