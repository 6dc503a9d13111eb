--------------------------- MODULE ConfigStoreProofs ---------------------------
(***************************************************************************)
(* Proofs about ConfigStore, for every set of workers, profiles, hosts and *)
(* users and every bound: the types, that the file catches up with memory, *)
(* that pairs match, that the PIN survives and that secrets stay home.     *)
(***************************************************************************)
EXTENDS ConfigStore, TLAPS

USE ConfigAssumption

(***************************************************************************)
(* The inductive invariant.                                                *)
(***************************************************************************)
(* A thread has changed the dictionary, or is changing it, and has not     *)
(* come back from its save: in general, and with a pair.                   *)
Working(t) == thread[t].at \in {"half", "save", "saving"}
WorksOn(t, p) == Working(t) /\ thread[t].pair = p

(* The threads run when the configuration is loaded, and only one while it *)
(* is being loaded.                                                        *)
Phased ==
  /\ phase \in {"down", "copying"} =>
       (\A t \in Threads : thread[t].at = "idle") /\ holder = Nothing /\ ~unsaved
  /\ phase = "loading" =>
       /\ \A t \in Threads \ {Gui} : thread[t].at = "idle"
       /\ thread[Gui].at \in {"save", "saving"}
  /\ phase = "copying" => owed = 1
  /\ foreign => phase = "down" /\ disk.state = "whole"

(* The lock is held by the thread that saves, and by no other. *)
Locked == \A t \in Threads : thread[t].at = "saving" <=> holder # Nothing /\ holder.thread = t

(* What a thread works with is there. *)
Shaped == \A t \in Threads :
  /\ thread[t].at = "half" => thread[t].pair \in Pairs
  /\ thread[t].at = "edit" => thread[t].name \in Names
  /\ thread[t].at \in {"dial", "trust"} => thread[t].seen \in Objects /\ obj[thread[t].seen] # Nothing
  /\ thread[t].at = "trust" => thread[t].key \in Keys /\ thread[t].key[1] = obj[thread[t].seen].dest[1]

(* A profile about to be given a key has none, unless two threads were     *)
(* both about to.                                                          *)
Lone == \A t \in Threads :
  thread[t].at = "trust" /\ thread[t].seen \notin raced => obj[thread[t].seen].hostkey = Nothing

(* A list of profiles names objects that are made. *)
Made(list) == \A n \in Names : list[n] # Nothing => obj[list[n]] # Nothing

Referred ==
  /\ Made(mem.profiles) /\ Made(disk.data.profiles)
  /\ \A t \in Threads : Made(thread[t].list)
  /\ holder # Nothing => Made(holder.copy.profiles)

(* The file has each object once, whatever the names that refer to it, and *)
(* after a start the objects are what the file has of them.                *)
Written ==
  /\ \A n \in Names : disk.data.profiles[n] = Nothing <=> disk.profiles[n] = Nothing
  /\ \A m, n \in Names : disk.data.profiles[m] = disk.data.profiles[n] =>
       disk.profiles[m] = disk.profiles[n]
  /\ phase = "down" => \A n \in Names : disk.data.profiles[n] # Nothing =>
       disk.profiles[n] = obj[disk.data.profiles[n]]

(* The secret and the host key of a profile are those of its destination.  *)
AtHome(o) ==
  o # Nothing =>
    /\ o.secret \in {Nothing, o.dest}
    /\ o.hostkey = Nothing \/ o.hostkey[1] = o.dest[1]

Homely ==
  /\ \A v \in Objects : AtHome(obj[v])
  /\ \A t \in Threads : AtHome(thread[t].new)
  /\ \A n \in Names : AtHome(disk.profiles[n])

(* The second of a pair is never without the first. *)
Ordered(data) == \A p \in Pairs : data.first[p] = 0 => data.second[p] = 0
InOrder == Ordered(mem) /\ Ordered(disk.data) /\ (holder # Nothing => Ordered(holder.copy))

(* A copy about to be written is overtaken only by a thread that will save *)
(* what it has changed.                                                    *)
Current ==
  holder # Nothing =>
    /\ (\A t \in Threads \ {holder.thread} : ~Working(t)) => holder.copy = mem
    /\ (\A t \in Threads \ {holder.thread} : ~WorksOn(t, "pin")) =>
         holder.copy.second["pin"] = mem.second["pin"]

(* A pair matches in memory, in the copy and in the file, unless a thread  *)
(* is between the two assignments, or that state of it is to be replaced.  *)
Matches(data, p) == p \in cut \/ data.first[p] = data.second[p]
Matched ==
  /\ phase \in {"loading", "up"} => \A p \in Pairs :
       Matches(mem, p) \/ \E t \in Threads : thread[t].at = "half" /\ thread[t].pair = p
  /\ holder # Nothing => \A p \in Pairs :
       Matches(holder.copy, p) \/ \E t \in Threads \ {holder.thread} : WorksOn(t, p)
  /\ \A p \in Pairs : Matches(disk.data, p) \/ unsaved \/ \E t \in Threads : WorksOn(t, p)

(* The PIN that a restart must bring back is in the file. *)
OnDisk(pin) == disk.state = "whole" /\ disk.data.second["pin"] = pin
Kept ==
  /\ phase \in {"down", "loading"} /\ owed # 0 => OnDisk(owed)
  /\ foreign => owed = 0
  /\ phase = "up" /\ ~unsaved /\ (\A t \in Threads : ~WorksOn(t, "pin")) => OnDisk(mem.second["pin"])

StoreInv ==
  /\ TypeOK /\ Phased /\ Locked /\ Shaped /\ Lone /\ Referred /\ Written /\ Homely /\ InOrder
  /\ Current /\ Matched /\ Kept /\ DiskCatchesUp

(***************************************************************************)
(* Records.                                                                *)
(***************************************************************************)
Half == 0 .. MaxMade
Lists == [Names -> Objects \cup {Nothing}]

(* The data, by its fields. *)
LEMMA DataFields ==
  /\ \A d \in DataType : d.first \in [Pairs -> Half] /\ d.second \in [Pairs -> Half] /\ d.profiles \in Lists
  /\ \A f, g \in [Pairs -> Half], list \in Lists :
       LET d == [first |-> f, second |-> g, profiles |-> list]
       IN  d \in DataType /\ d.first = f /\ d.second = g /\ d.profiles = list
  /\ \A d, e \in DataType : d.first = e.first /\ d.second = e.second /\ d.profiles = e.profiles => d = e
  BY DEF DataType, Half, Lists

(* One key of the data is set, or both keys of a pair. *)
WithFirst(d, p, k) == [d EXCEPT !.first[p] = k]
WithSecond(d, p, k) == [d EXCEPT !.second[p] = k]
WithList(d, list) == [d EXCEPT !.profiles = list]
WithPair(d, p, k) == [d EXCEPT !.first[p] = k, !.second[p] = k]

LEMMA DataUpdates ==
  ASSUME NEW d \in DataType, NEW p \in Pairs, NEW k \in Half
  PROVE  /\ LET e == WithFirst(d, p, k)
            IN  /\ e \in DataType /\ e.second = d.second /\ e.profiles = d.profiles
                /\ e.first[p] = k /\ \A q \in Pairs \ {p} : e.first[q] = d.first[q]
         /\ LET e == WithSecond(d, p, k)
            IN  /\ e \in DataType /\ e.first = d.first /\ e.profiles = d.profiles
                /\ e.second[p] = k /\ \A q \in Pairs \ {p} : e.second[q] = d.second[q]
  BY DEF DataType, Half, Lists, WithFirst, WithSecond

LEMMA ListUpdates ==
  ASSUME NEW d \in DataType, NEW list \in Lists
  PROVE  LET e == WithList(d, list)
         IN  e \in DataType /\ e.first = d.first /\ e.second = d.second /\ e.profiles = list
  BY DEF DataType, Half, Lists, WithList

LEMMA PairUpdates ==
  ASSUME NEW d \in DataType, NEW p \in Pairs, NEW k \in Half
  PROVE  LET e == WithPair(d, p, k)
         IN  /\ e \in DataType /\ e.profiles = d.profiles /\ e.first[p] = k /\ e.second[p] = k
             /\ \A q \in Pairs \ {p} : e.first[q] = d.first[q] /\ e.second[q] = d.second[q]
  <1>1. WithPair(d, p, k) = WithSecond(WithFirst(d, p, k), p, k)
    BY DEF WithPair, WithFirst, WithSecond
  <1>2. WithFirst(d, p, k) \in DataType
    BY DataUpdates
  <1> DEFINE c == WithFirst(d, p, k)
             e == WithSecond(c, p, k)
  <1>3. /\ c.second = d.second /\ c.profiles = d.profiles
        /\ c.first[p] = k /\ \A q \in Pairs \ {p} : c.first[q] = d.first[q]
    BY DataUpdates
  <1>4. /\ e \in DataType /\ e.first = c.first /\ e.profiles = c.profiles
        /\ e.second[p] = k /\ \A q \in Pairs \ {p} : e.second[q] = c.second[q]
    BY <1>2, DataUpdates
  <1> HIDE DEF c, e
  <1>5. WithPair(d, p, k) = e
    BY <1>1 DEF c, e
  <1> QED
    BY <1>3, <1>4, <1>5

(* Data without anything. *)
LEMMA NoDataFields ==
  /\ NoData \in DataType
  /\ \A p \in Pairs : NoData.first[p] = 0 /\ NoData.second[p] = 0
  /\ \A n \in Names : NoData.profiles[n] = Nothing
  BY DEF NoData, DataType

(* The file, by its fields. *)
LEMMA FileFields ==
  /\ \A f \in FileType :
       /\ f.state \in {"absent", "broken", "whole"} /\ f.data \in DataType
       /\ f.profiles \in [Names -> ProfileType \cup {Nothing}]
       /\ f = File(f.state, f.data, f.profiles)
  /\ \A s \in {"absent", "broken", "whole"}, d \in DataType, list \in [Names -> ProfileType \cup {Nothing}] :
       LET f == File(s, d, list)
       IN  f \in FileType /\ f.state = s /\ f.data = d /\ f.profiles = list
  BY DEF FileType, File

(* The file of an older version has a PIN with its hash, and no more. *)
LEMMA FirstFileFields ==
  LET f == FirstFile
      b(state) == [FirstFile EXCEPT !.state = state]
  IN  /\ f \in FileType /\ f.state = "whole"
      /\ \A state \in {"broken", "whole"} :
           /\ b(state) \in FileType /\ b(state).state = state
           /\ b(state).data = f.data /\ b(state).profiles = f.profiles
      /\ \A p \in Pairs : f.data.first[p] = f.data.second[p]
      /\ f.data.first["pin"] = 1 /\ f.data.second["pin"] = 1
      /\ \A n \in Names : f.data.profiles[n] = Nothing /\ f.profiles[n] = Nothing
  <1> DEFINE d == WithPair(NoData, "pin", 1)
             none == [n \in Names |-> Nothing]
  <1>1. /\ d \in DataType /\ d.first["pin"] = 1 /\ d.second["pin"] = 1
        /\ \A p \in Pairs : d.first[p] = d.second[p]
        /\ \A n \in Names : d.profiles[n] = Nothing
    <2>1. "pin" \in Pairs /\ 1 \in Half
      BY DEF Pairs, Half
    <2> QED
      BY <2>1, NoDataFields, PairUpdates
  <1>2. none \in [Names -> ProfileType \cup {Nothing}] /\ \A n \in Names : none[n] = Nothing
    OBVIOUS
  <1>3. FirstFile = File("whole", d, none)
    BY DEF FirstFile, WithPair
  <1> HIDE DEF d, none
  <1>4. FirstFile \in FileType /\ FirstFile.state = "whole" /\ FirstFile.data = d /\ FirstFile.profiles = none
    BY <1>1, <1>2, <1>3, FileFields
  <1> DEFINE b(state) == [FirstFile EXCEPT !.state = state]
  <1>5. \A state \in {"broken", "whole"} :
          /\ b(state) \in FileType /\ b(state).state = state
          /\ b(state).data = FirstFile.data /\ b(state).profiles = FirstFile.profiles
    BY <1>4 DEF FileType
  <1> HIDE DEF b
  <1>6. /\ \A p \in Pairs : FirstFile.data.first[p] = FirstFile.data.second[p]
        /\ FirstFile.data.first["pin"] = 1 /\ FirstFile.data.second["pin"] = 1
        /\ \A n \in Names : FirstFile.data.profiles[n] = Nothing /\ FirstFile.profiles[n] = Nothing
    BY <1>1, <1>2, <1>4
  <1> QED
    BY <1>4, <1>5, <1>6 DEF b

(* There was no file, and then nothing in it. *)
LEMMA NoFileFields ==
  /\ NoFile \in FileType /\ NoFile.state = "absent" /\ NoFile.data = NoData
  /\ \A n \in Names : NoFile.profiles[n] = Nothing
  <1>1. [n \in Names |-> Nothing] \in [Names -> ProfileType \cup {Nothing}]
    OBVIOUS
  <1> QED
    BY <1>1, NoDataFields, FileFields DEF NoFile

(* What a thread is doing, by its fields. *)
LEMMA ThreadFields ==
  /\ Idle \in ThreadType /\ Idle.at = "idle" /\ Idle.pair = "none" /\ Idle.new = Nothing
  /\ \A n \in Names : Idle.list[n] = Nothing
  /\ \A s \in ThreadType :
       /\ s.at \in {"idle", "half", "edit", "dial", "trust", "save", "saving"}
       /\ s.pair \in Pairs \cup {"none"} /\ s.seen \in Objects \cup {Nothing}
       /\ s.key \in Keys \cup {Nothing} /\ s.list \in Lists
       /\ s.name \in Names \cup {Nothing} /\ s.new \in ProfileType \cup {Nothing}
  BY DEF Idle, ThreadType, Lists

(* A thread goes on with what it has. *)
LEMMA ThreadGoesOn ==
  ASSUME NEW s \in ThreadType, NEW at \in {"save", "saving"}
  PROVE  LET r == [s EXCEPT !.at = at]
         IN  r \in ThreadType /\ r.at = at /\ r.pair = s.pair /\ r.list = s.list /\ r.new = s.new
  BY DEF ThreadType

(* A thread goes to its save. *)
LEMMA ThreadSaves ==
  LET r == [Idle EXCEPT !.at = "save"]
  IN  r \in ThreadType /\ r.at = "save" /\ r.pair = "none" /\ r.new = Nothing /\ r.list = Idle.list
  BY ThreadFields DEF ThreadType

(* A step of a thread leaves the others as they are. *)
LEMMA ThreadStep ==
  ASSUME TypeOK, NEW t \in Threads, NEW s \in ThreadType, Becomes(t, s)
  PROVE  /\ thread' \in [Threads -> ThreadType] /\ thread'[t] = s
         /\ \A u \in Threads \ {t} : thread'[u] = thread[u]
  BY DEF TypeOK, Becomes

(* The profiles the data name, as they are now. *)
LEMMA ContentFields ==
  ASSUME TypeOK, NEW d \in DataType, Made(d.profiles)
  PROVE  /\ Content(d) \in [Names -> ProfileType \cup {Nothing}]
         /\ \A n \in Names : d.profiles[n] = Nothing <=> Content(d)[n] = Nothing
         /\ \A n \in Names : d.profiles[n] # Nothing => Content(d)[n] = obj[d.profiles[n]]
  <1>1. d.profiles \in Lists
    BY DataFields
  <1> QED
    BY <1>1 DEF Content, Lists, TypeOK, Made

(***************************************************************************)
(* Each action keeps the invariant.                                        *)
(***************************************************************************)
(* The threads whose work is not saved, in the terms of the model. *)
LEMMA WorkingMeans ==
  /\ Busy <=> \E t \in Threads : Working(t)
  /\ \A p : Changing(p) <=> \E t \in Threads : WorksOn(t, p)
  BY DEF Busy, Changing, Working, WorksOn

(* The threads there are. *)
LEMMA ThreadKinds == Gui \in Threads /\ Tls \in Threads /\ Workers \subseteq Threads
  BY DEF Threads

LEMMA InitKeeps == Init => StoreInv
  <1> SUFFICES ASSUME Init PROVE StoreInv
    OBVIOUS
  <1>1. /\ disk \in FileType
        /\ \A p \in Pairs : disk.data.first[p] = disk.data.second[p]
        /\ \A n \in Names : disk.data.profiles[n] = Nothing /\ disk.profiles[n] = Nothing
        /\ owed # 0 => OnDisk(owed)
    BY NoFileFields, FirstFileFields, NoDataFields DEF Init, OnDisk
  <1>2. owed \in 0 .. MaxMade
    BY DEF Init
  <1>3. /\ mem = NoData /\ phase = "down" /\ holder = Nothing /\ \A t \in Threads : thread[t] = Idle
        /\ \A v \in Objects : obj[v] = Nothing
    BY DEF Init
  <1>4. TypeOK
    <2>1. made \in [Pairs -> 0 .. MaxMade]
      BY DEF Init
    <2>2. thread \in [Threads -> ThreadType] /\ obj \in [Objects -> ProfileType \cup {Nothing}]
      BY ThreadFields DEF Init
    <2>3. /\ foreign \in BOOLEAN /\ unsaved \in BOOLEAN /\ changed \subseteq Hosts /\ cut \subseteq Pairs
          /\ misread \in BOOLEAN /\ raced \subseteq Objects
      BY Zenon DEF Init
    <2>4. changes \in 0 .. MaxChanges /\ crashes \in 0 .. MaxCrashes
      BY DEF Init
    <2> QED
      BY <1>1, <1>2, <1>3, <2>1, <2>2, <2>3, <2>4, NoDataFields DEF TypeOK
  <1>5. Phased /\ Locked /\ Shaped /\ Lone
    BY <1>3, ThreadFields, ThreadKinds DEF Init, Phased, Locked, Shaped, Lone
  <1>6. Referred /\ Written
    BY <1>1, <1>3, ThreadFields, NoDataFields DEF Referred, Made, Written
  <1>7. Homely
    BY <1>1, <1>3, ThreadFields DEF Homely, AtHome
  <1>8. InOrder /\ Current
    BY <1>1, <1>3, NoDataFields DEF InOrder, Ordered, Current
  <1>9. Matched
    BY <1>1, <1>3 DEF Matched, Matches
  <1>10. Kept /\ DiskCatchesUp
    BY <1>1, <1>3 DEF Init, Kept, DiskCatchesUp
  <1> QED
    BY <1>4, <1>5, <1>6, <1>7, <1>8, <1>9, <1>10 DEF StoreInv

(* An older program's configuration is copied: there is nothing else yet. *)
LEMMA MigrationKeeps ==
  ASSUME StoreInv, MigrationBegins \/ MigrationEnds \/ MigrationFails
  PROVE  StoreInv'
  <1>1. /\ TypeOK /\ Phased /\ Locked /\ Shaped /\ Lone /\ Referred /\ Written
        /\ Homely /\ InOrder /\ Current /\ Matched /\ Kept
    BY DEF StoreInv
  <1>2. /\ phase \in {"down", "copying"} /\ phase' \in {"down", "copying"}
        /\ UNCHANGED <<mem, obj, made, raced, thread, holder, foreign, changed, misread, unsaved, cut,
                       changes, crashes>>
    BY DEF MigrationBegins, MigrationEnds, MigrationFails, store, history
  <1>3. /\ (\A t \in Threads : thread[t].at = "idle") /\ holder = Nothing /\ ~unsaved
    BY <1>1, <1>2 DEF Phased
  <1>4. /\ disk' \in FileType
        /\ \A p \in Pairs : disk'.data.first[p] = disk'.data.second[p]
        /\ \A n \in Names : disk'.data.profiles[n] = Nothing /\ disk'.profiles[n] = Nothing
        /\ phase' = "copying" => owed' = 1
        /\ phase' = "down" /\ owed' # 0 => OnDisk(owed)'
        /\ owed' \in 0 .. MaxMade
    <2>1. CASE MigrationBegins
      BY <2>1, FirstFileFields DEF MigrationBegins
    <2>2. CASE MigrationEnds
      BY <1>1, <2>2, FirstFileFields DEF MigrationEnds, history, Phased, OnDisk
    <2>3. CASE MigrationFails
      <3>1. PICK state \in {"absent", "broken", "whole"} :
              /\ disk' = IF state = "absent" THEN NoFile ELSE [FirstFile EXCEPT !.state = state]
              /\ owed' = IF state = "whole" THEN owed ELSE 0
        BY <2>3 DEF MigrationFails
      <3>2. phase' = "down" /\ owed = 1
        BY <1>1, <2>3 DEF MigrationFails, Phased
      <3>3. CASE state = "absent"
        BY <3>1, <3>2, <3>3, NoFileFields, NoDataFields
      <3>4. CASE state = "broken"
        BY <3>1, <3>2, <3>4, FirstFileFields
      <3>5. CASE state = "whole"
        BY <3>1, <3>2, <3>5, FirstFileFields DEF OnDisk
      <3> QED
        BY <3>1, <3>3, <3>4, <3>5
    <2> QED
      BY <2>1, <2>2, <2>3
  <1>5. ~foreign
    BY <1>1, <1>2, FileFields DEF MigrationBegins, MigrationEnds, MigrationFails, Phased
  <1>6. TypeOK'
    BY <1>1, <1>2, <1>4 DEF TypeOK
  <1>7. Phased' /\ Locked' /\ Shaped' /\ Lone'
    BY <1>1, <1>2, <1>3, <1>4, <1>5 DEF Phased, Locked, Shaped, Lone
  <1>8. Referred' /\ Written'
    BY <1>1, <1>2, <1>3, <1>4 DEF Referred, Made, Written
  <1>9. Homely'
    BY <1>1, <1>2, <1>4 DEF Homely, AtHome
  <1>10. InOrder' /\ Current'
    BY <1>1, <1>2, <1>3, <1>4 DEF InOrder, Ordered, Current
  <1>11. Matched'
    BY <1>1, <1>2, <1>3, <1>4 DEF Matched, Matches
  <1>12. Kept' /\ DiskCatchesUp'
    BY <1>2, <1>4, <1>5 DEF Kept, DiskCatchesUp
  <1> QED
    BY <1>6, <1>7, <1>8, <1>9, <1>10, <1>11, <1>12 DEF StoreInv

(* The file is found by another user. *)
LEMMA OtherUserKeeps ==
  ASSUME StoreInv, OtherUser
  PROVE  StoreInv'
  <1>1. /\ TypeOK /\ Phased /\ Locked /\ Shaped /\ Lone /\ Referred /\ Written
        /\ Homely /\ InOrder /\ Current /\ Matched /\ Kept
    BY DEF StoreInv
  <1>2. /\ phase = "down" /\ phase' = phase
        /\ UNCHANGED <<mem, obj, made, raced, thread, holder, disk, changed, misread, unsaved, cut,
                       changes, crashes>>
        /\ foreign' = TRUE /\ owed' = 0 /\ disk.state = "whole"
    BY DEF OtherUser, store
  <1>3. TypeOK' /\ Phased' /\ Locked' /\ Shaped' /\ Lone'
    <2>1. TypeOK'
      BY <1>1, <1>2 DEF TypeOK
    <2>2. Phased' /\ Locked' /\ Shaped' /\ Lone'
      BY <1>1, <1>2 DEF Phased, Locked, Shaped, Lone
    <2> QED
      BY <2>1, <2>2
  <1>4. Referred' /\ Written' /\ Homely' /\ InOrder' /\ Current'
    BY <1>1, <1>2 DEF Referred, Made, Written, Homely, AtHome, InOrder, Ordered, Current, Working, WorksOn
  <1>5. Matched' /\ Kept' /\ DiskCatchesUp'
    BY <1>1, <1>2 DEF Matched, Matches, WorksOn, Working, Kept, DiskCatchesUp
  <1> QED
    BY <1>3, <1>4, <1>5 DEF StoreInv

(* A host changes its key: nothing of the configuration does. *)
LEMMA KeyChangesKeeps ==
  ASSUME StoreInv, NEW h \in Hosts, KeyChanges(h)
  PROVE  StoreInv'
  <1>1. UNCHANGED <<phase, mem, obj, made, raced, thread, holder, disk, foreign, misread, unsaved, owed, cut,
                    changes, crashes>>
    BY DEF KeyChanges, store, history
  <1>2. changed' \subseteq Hosts
    BY DEF KeyChanges
  <1>3. TypeOK'
    BY <1>1, <1>2 DEF StoreInv, TypeOK
  <1>4. Phased' /\ Locked' /\ Shaped' /\ Lone' /\ Referred' /\ Written'
    BY <1>1 DEF StoreInv, Phased, Locked, Shaped, Lone, Referred, Made, Written
  <1>5. Homely' /\ InOrder' /\ Current' /\ Matched'
    BY <1>1 DEF StoreInv, Homely, AtHome, InOrder, Ordered, Current, Working, WorksOn, Matched, Matches
  <1>6. Kept' /\ DiskCatchesUp'
    BY <1>1 DEF StoreInv, Kept, OnDisk, WorksOn, Working, DiskCatchesUp, Busy, Content
  <1> QED
    BY <1>3, <1>4, <1>5, <1>6 DEF StoreInv

(* A step that changes nothing. *)
LEMMA StutterKeeps ==
  ASSUME StoreInv, UNCHANGED vars
  PROVE  StoreInv'
  <1>1. UNCHANGED <<phase, mem, obj, made, raced, thread, holder, disk, foreign, changed, misread, unsaved,
                    owed, cut, changes, crashes>>
    BY DEF vars, store, file, history
  <1>2. TypeOK' /\ Phased' /\ Locked' /\ Shaped' /\ Lone' /\ Referred' /\ Written'
    BY <1>1 DEF StoreInv, TypeOK, Phased, Locked, Shaped, Lone, Referred, Made, Written
  <1>3. Homely' /\ InOrder' /\ Current' /\ Matched'
    BY <1>1 DEF StoreInv, Homely, AtHome, InOrder, Ordered, Current, Working, WorksOn, Matched, Matches
  <1>4. Kept' /\ DiskCatchesUp'
    BY <1>1 DEF StoreInv, Kept, OnDisk, WorksOn, Working, DiskCatchesUp, Busy, Content
  <1> QED
    BY <1>2, <1>3, <1>4 DEF StoreInv

(* A profile made of a message is at home. *)
LEMMA ProfileAtHome ==
  ASSUME NEW d \in Dests, NEW typed \in BOOLEAN, NEW old \in ProfileType \cup {Nothing}, AtHome(old)
  PROVE  Profile(d, typed, old) \in ProfileType /\ AtHome(Profile(d, typed, old))
  <1> DEFINE kept == IF old # Nothing /\ old.dest = d THEN old.secret ELSE Nothing
             secret == IF typed THEN d ELSE kept
             key == IF old # Nothing /\ old.dest[1] = d[1] THEN old.hostkey ELSE Nothing
  <1>1. kept \in {Nothing, d}
    BY DEF AtHome
  <1>2. secret \in {Nothing, d}
    <2>1. CASE typed
      BY <2>1
    <2>2. CASE ~typed
      BY <1>1, <2>2
    <2> QED
      BY <2>1, <2>2
  <1>3. key \in Keys \cup {Nothing} /\ (key = Nothing \/ key[1] = d[1])
    BY DEF AtHome, ProfileType
  <1> HIDE DEF kept, secret, key
  <1>4. Profile(d, typed, old) = [dest |-> d, secret |-> secret, hostkey |-> key]
    BY DEF Profile, kept, secret, key
  <1> QED
    BY <1>2, <1>3, <1>4 DEF ProfileType, AtHome

(* A profile that is given a key of its host is at home. *)
Keyed(o, key) == [o EXCEPT !.hostkey = key]
LEMMA KeyAtHome ==
  ASSUME NEW o \in ProfileType, AtHome(o), NEW key \in Keys, key[1] = o.dest[1]
  PROVE  LET r == Keyed(o, key)
         IN  r \in ProfileType /\ r.dest = o.dest /\ r.hostkey = key /\ AtHome(r)
  <1> DEFINE r == Keyed(o, key)
  <1>1. r \in ProfileType /\ r.dest = o.dest /\ r.secret = o.secret /\ r.hostkey = key
    BY DEF ProfileType, Keyed
  <1>2. o # Nothing
    OBVIOUS
  <1> HIDE DEF r
  <1>3. AtHome(r)
    BY <1>1, <1>2 DEF AtHome
  <1> QED
    BY <1>1, <1>3 DEF r

(* What a host shows is a key of that host. *)
LEMMA FingerprintIsKey ==
  ASSUME NEW h \in Hosts
  PROVE  Fingerprint(h) \in Keys /\ Fingerprint(h)[1] = h
  <1> DEFINE new == h \in changed
  <1>1. new \in BOOLEAN
    OBVIOUS
  <1>2. Fingerprint(h) = <<h, new>>
    BY DEF Fingerprint
  <1> HIDE DEF new
  <1> QED
    BY <1>1, <1>2 DEF Keys

(* A step of thread t to s, and of no other. *)
Goes(t, s) ==
  /\ t \in Threads /\ s \in ThreadType
  /\ thread' \in [Threads -> ThreadType] /\ thread'[t] = s
  /\ \A u \in Threads \ {t} : thread'[u] = thread[u]

(* A thread that reads, or gives up what it read, disturbs nobody. *)
LEMMA AsideKeeps ==
  ASSUME StoreInv, NEW t, NEW s, Goes(t, s), phase = "up",
         UNCHANGED <<phase, mem, obj, made, raced, holder, disk, foreign, changed, misread, unsaved, owed,
                     cut, crashes>>,
         changes' \in 0 .. MaxChanges,
         thread[t].at \in {"idle", "edit", "dial"}, s.at \in {"idle", "edit", "dial", "trust"},
         s.at = "edit" => s.name \in Names,
         s.at \in {"dial", "trust"} => s.seen \in Objects /\ obj[s.seen] # Nothing,
         s.at = "trust" => /\ s.key \in Keys /\ s.key[1] = obj[s.seen].dest[1]
                           /\ obj[s.seen].hostkey = Nothing,
         Made(s.list), AtHome(s.new)
  PROVE  StoreInv'
  <1>1. /\ TypeOK /\ Phased /\ Locked /\ Shaped /\ Lone /\ Referred /\ Written
        /\ Homely /\ InOrder /\ Current /\ Matched /\ Kept /\ DiskCatchesUp
    BY DEF StoreInv
  <1>2. \A u \in Threads : Working(u)' <=> Working(u)
    BY DEF Goes, Working
  <1>3. \A u \in Threads, p \in Pairs : WorksOn(u, p)' <=> WorksOn(u, p)
    BY DEF Goes, Working, WorksOn
  <1>4. TypeOK'
    BY <1>1 DEF TypeOK, Goes
  <1>5. Phased' /\ Locked'
    BY <1>1 DEF Phased, Locked, Goes
  <1>6. Shaped' /\ Lone'
    <2>1. Shaped'
      BY <1>1 DEF Shaped, Goes
    <2>2. Lone'
      BY <1>1 DEF Lone, Goes
    <2> QED
      BY <2>1, <2>2
  <1>7. Referred'
    BY <1>1 DEF Referred, Made, Goes
  <1>8. Written' /\ InOrder'
    BY <1>1 DEF Written, InOrder, Ordered
  <1>9. Homely'
    BY <1>1 DEF Homely, AtHome, Goes
  <1>10. Current'
    BY <1>1, <1>2, <1>3 DEF Current, Pairs
  <1>11. Matched'
    <2>1. \A u \in Threads : thread[u].at = "half" => thread'[u].at = "half" /\ thread'[u].pair = thread[u].pair
      BY DEF Goes
    <2> QED
      BY <1>1, <1>3, <2>1 DEF Matched, Matches
  <1>12. Kept'
    BY <1>1, <1>3 DEF Kept, OnDisk, Pairs
  <1>13. DiskCatchesUp'
    BY <1>1, <1>2, WorkingMeans DEF DiskCatchesUp, Content, Busy, Working
  <1> QED
    BY <1>4, <1>5, <1>6, <1>7, <1>8, <1>9, <1>10, <1>11, <1>12, <1>13 DEF StoreInv

(* What takes the place of a profile is at home. *)
LEMMA EditedAtHome ==
  ASSUME TypeOK, Referred, Homely, NEW n \in Names, NEW new \in Edited(n)
  PROVE  new \in ProfileType \cup {Nothing} /\ AtHome(new)
  <1> DEFINE old == IF mem.profiles[n] = Nothing THEN Nothing ELSE obj[mem.profiles[n]]
  <1>1. old \in ProfileType \cup {Nothing} /\ AtHome(old)
    <2>1. mem.profiles \in Lists
      BY DataFields DEF TypeOK
    <2> QED
      BY <2>1 DEF TypeOK, Homely, Lists, AtHome
  <1>2. new = Nothing \/ \E d \in Dests, typed \in BOOLEAN : new = Profile(d, typed, old)
    BY DEF Edited
  <1> HIDE DEF old
  <1> QED
    BY <1>1, <1>2, ProfileAtHome DEF AtHome

(* A thread reads the list, and has what takes the place of a profile. *)
Editing(list, n, new) == [Idle EXCEPT !.at = "edit", !.list = list, !.name = n, !.new = new]
LEMMA ThreadEdits ==
  ASSUME NEW list \in Lists, NEW n \in Names, NEW new \in ProfileType \cup {Nothing}
  PROVE  LET s == Editing(list, n, new)
         IN  s \in ThreadType /\ s.at = "edit" /\ s.list = list /\ s.name = n /\ s.new = new
  <1> DEFINE s == Editing(list, n, new)
  <1>1. Idle \in ThreadType
    BY ThreadFields
  <1>2. [Idle EXCEPT !.at = "edit", !.list = list] \in ThreadType
    BY <1>1 DEF ThreadType, Lists
  <1>3. s = [[Idle EXCEPT !.at = "edit", !.list = list] EXCEPT !.name = n, !.new = new]
    BY Zenon DEF Editing
  <1>4. s \in ThreadType
    BY <1>2, <1>3 DEF ThreadType
  <1>5. s.at = "edit" /\ s.list = list /\ s.name = n /\ s.new = new
    BY DEF Idle, Editing
  <1> QED
    BY <1>4, <1>5

(* The list of the profiles is read, and a profile made. *)
LEMMA EditProfileKeeps ==
  ASSUME StoreInv, NEW t \in Workers, NEW n \in Names, EditProfile(t, n)
  PROVE  StoreInv'
  <1>1. TypeOK /\ Referred /\ Homely /\ t \in Threads
    BY ThreadKinds DEF StoreInv
  <1>2. mem.profiles \in Lists /\ Made(mem.profiles)
    BY <1>1, DataFields DEF TypeOK, Referred
  <1>3. PICK new \in Edited(n) :
          Becomes(t, [Idle EXCEPT !.at = "edit", !.list = mem.profiles, !.name = n, !.new = new])
    BY DEF EditProfile
  <1>4. new \in ProfileType \cup {Nothing} /\ AtHome(new)
    BY <1>1, EditedAtHome
  <1> DEFINE s == Editing(mem.profiles, n, new)
  <1>5. s \in ThreadType /\ s.at = "edit" /\ s.list = mem.profiles /\ s.name = n /\ s.new = new
    BY <1>2, <1>4, ThreadEdits
  <1>6. Becomes(t, s)
    BY <1>3 DEF Editing
  <1> HIDE DEF s
  <1>7. Goes(t, s)
    BY <1>1, <1>5, <1>6, ThreadStep DEF Goes
  <1>8. /\ phase = "up" /\ thread[t].at = "idle" /\ changes' \in 0 .. MaxChanges
        /\ UNCHANGED <<phase, mem, obj, made, raced, holder, disk, foreign, changed, misread, unsaved, owed,
                       cut, crashes>>
    BY <1>1, ThreadFields DEF EditProfile, Begins, store, file, TypeOK
  <1> QED
    BY <1>2, <1>4, <1>5, <1>7, <1>8, AsideKeeps

(* A profile is found. *)
LEMMA DialKeeps ==
  ASSUME StoreInv, NEW t \in Workers, NEW n \in Names, Dial(t, n)
  PROVE  StoreInv'
  <1>1. TypeOK /\ Referred /\ t \in Threads
    BY ThreadKinds DEF StoreInv
  <1>2. mem.profiles \in Lists /\ Made(mem.profiles)
    BY <1>1, DataFields DEF TypeOK, Referred
  <1>3. mem.profiles[n] \in Objects /\ obj[mem.profiles[n]] # Nothing
    BY <1>2 DEF Dial, Lists, Made
  <1> DEFINE v == mem.profiles[n]
             key == obj[v].hostkey
             s == [Idle EXCEPT !.at = "dial", !.seen = v, !.key = key, !.name = n]
  <1>0. key \in Keys \cup {Nothing}
    BY <1>1, <1>3 DEF TypeOK, ProfileType
  <1> HIDE DEF key
  <1>4. /\ s \in ThreadType /\ s.at = "dial" /\ s.seen = mem.profiles[n] /\ s.list = Idle.list /\ s.new = Nothing
    <2>1. Idle \in ThreadType /\ Idle.new = Nothing
      BY ThreadFields
    <2>2. [Idle EXCEPT !.at = "dial", !.seen = v] \in ThreadType
      BY <1>3, <2>1 DEF ThreadType
    <2>3. s = [[Idle EXCEPT !.at = "dial", !.seen = v] EXCEPT !.key = key, !.name = n]
      BY Zenon
    <2>4. s \in ThreadType
      BY <1>0, <2>2, <2>3 DEF ThreadType
    <2>5. s.at = "dial" /\ s.seen = v /\ s.list = Idle.list /\ s.new = Nothing
      BY <2>1 DEF Idle
    <2> QED
      BY <2>4, <2>5
  <1>5. Becomes(t, s)
    BY DEF Dial, key
  <1> HIDE DEF s
  <1>6. Goes(t, s)
    BY <1>1, <1>4, <1>5, ThreadStep DEF Goes
  <1>7. Made(s.list) /\ AtHome(s.new)
    BY <1>4, ThreadFields DEF Made, AtHome
  <1>8. /\ phase = "up" /\ thread[t].at = "idle" /\ changes' \in 0 .. MaxChanges
        /\ UNCHANGED <<phase, mem, obj, made, raced, holder, disk, foreign, changed, misread, unsaved, owed,
                       cut, crashes>>
    BY <1>1, ThreadFields DEF Dial, Begins, store, file, TypeOK
  <1> QED
    BY <1>3, <1>4, <1>6, <1>7, <1>8, AsideKeeps

(* The host has answered, and the profile still has no key. *)
LEMMA AnswersKeeps ==
  ASSUME StoreInv, NEW t \in Threads, Answers(t)
  PROVE  StoreInv'
  <1>1. TypeOK /\ Phased /\ Shaped /\ Referred /\ Homely
    BY DEF StoreInv
  <1> DEFINE r == thread[t]
             o == obj[r.seen]
             key == Fingerprint(o.dest[1])
             s == [r EXCEPT !.at = "trust", !.key = key]
  <1>2. /\ Becomes(t, s) /\ r.at = "dial" /\ o.hostkey = Nothing
        /\ UNCHANGED <<phase, mem, obj, made, raced, holder, disk, foreign, changed, misread, unsaved, owed,
                       cut, changes, crashes>>
    BY DEF Answers, store, file, history
  <1>3. phase = "up" /\ r \in ThreadType /\ r.seen \in Objects /\ o # Nothing
    BY <1>1, <1>2 DEF Phased, TypeOK, Shaped
  <1>4. o \in ProfileType /\ o.dest[1] \in Hosts
    BY <1>1, <1>3 DEF TypeOK, ProfileType, Dests
  <1>5. key \in Keys /\ key[1] = o.dest[1]
    BY <1>4, FingerprintIsKey
  <1> HIDE DEF key
  <1>6. /\ s \in ThreadType /\ s.at = "trust" /\ s.key = key /\ s.seen = r.seen
        /\ s.list = r.list /\ s.new = r.new
    BY <1>3, <1>5 DEF ThreadType
  <1> HIDE DEF s
  <1>7. Goes(t, s)
    BY <1>1, <1>2, <1>6, ThreadStep DEF Goes
  <1>8. Made(s.list) /\ AtHome(s.new)
    BY <1>1, <1>6 DEF Referred, Homely
  <1>9. changes' \in 0 .. MaxChanges
    BY <1>1, <1>2 DEF TypeOK
  <1> QED
    BY <1>2, <1>3, <1>5, <1>6, <1>7, <1>8, <1>9, AsideKeeps

(* There is no connection. *)
LEMMA DialEndsKeeps ==
  ASSUME StoreInv, NEW t \in Threads, DialEnds(t)
  PROVE  StoreInv'
  <1>1. TypeOK /\ Phased
    BY DEF StoreInv
  <1>2. /\ Becomes(t, Idle) /\ thread[t].at = "dial"
        /\ UNCHANGED <<phase, mem, obj, made, raced, holder, disk, foreign, changed, misread, unsaved, owed,
                       cut, changes, crashes>>
    BY DEF DialEnds, store, file, history
  <1>3. phase = "up"
    BY <1>1, <1>2 DEF Phased, TypeOK
  <1>4. Goes(t, Idle)
    BY <1>1, <1>2, ThreadFields, ThreadStep DEF Goes
  <1>5. Made(Idle.list) /\ AtHome(Idle.new)
    BY ThreadFields DEF Made, AtHome
  <1>6. changes' \in 0 .. MaxChanges
    BY <1>1, <1>2 DEF TypeOK
  <1> QED
    BY <1>2, <1>3, <1>4, <1>5, <1>6, ThreadFields, AsideKeeps

(* A profile stays, and for the same destination. *)
Stays(v) == obj[v] # Nothing => obj'[v] # Nothing /\ obj'[v].dest = obj[v].dest

(* A thread that changes the dictionary, or an object of it, goes to its   *)
(* save, or to the other half of its pair.                                 *)
Writes(t, s) ==
  /\ Goes(t, s) /\ phase = "up" /\ thread[t].at # "saving" /\ s.at \in {"half", "save"}
  /\ UNCHANGED <<phase, holder, disk, foreign, changed, misread, unsaved, owed, cut, crashes>>
  /\ made' \in [Pairs -> 0 .. MaxMade] /\ mem' \in DataType
  /\ obj' \in [Objects -> ProfileType \cup {Nothing}] /\ changes' \in 0 .. MaxChanges
  /\ raced' \subseteq Objects
  /\ \A u \in Threads \ {t} :
       thread[u].at = "trust" /\ thread[u].seen \notin raced' => obj'[thread[u].seen].hostkey = Nothing
  /\ s.at = "half" => s.pair \in Pairs
  /\ \A v \in Objects : Stays(v) /\ AtHome(obj'[v])
  /\ \A n \in Names : mem'.profiles[n] # Nothing => obj'[mem'.profiles[n]] # Nothing
  /\ Made(s.list) /\ AtHome(s.new) /\ Ordered(mem')
  /\ \A p \in Pairs :
       /\ WorksOn(t, p) => s.pair = p
       /\ s.pair # p => mem'.first[p] = mem.first[p] /\ mem'.second[p] = mem.second[p]
       /\ s.pair = p /\ s.at = "save" => mem'.first[p] = mem'.second[p]

(* What is in the lists is made, also afterwards. *)
LEMMA MadeStays ==
  ASSUME NEW list \in Lists, Made(list),
         \A v \in Objects : Stays(v)
  PROVE  \A n \in Names : list[n] # Nothing => obj'[list[n]] # Nothing
  BY DEF Made, Lists, Stays

LEMMA WriterKeeps ==
  ASSUME StoreInv, NEW t, NEW s, Writes(t, s)
  PROVE  StoreInv'
  <1>1. /\ TypeOK /\ Phased /\ Locked /\ Shaped /\ Lone /\ Referred /\ Written
        /\ Homely /\ InOrder /\ Current /\ Matched /\ Kept
    BY DEF StoreInv
  <1>2. /\ Goes(t, s) /\ phase = "up" /\ thread[t].at # "saving" /\ s.at \in {"half", "save"}
        /\ UNCHANGED <<phase, holder, disk, foreign, changed, misread, unsaved, owed, cut, crashes>>
    BY DEF Writes
  <1>3. t \in Threads /\ Working(t)'
    BY <1>2 DEF Goes, Working
  <1>4. holder # Nothing => holder.thread # t
    BY <1>1, <1>2, <1>3 DEF Locked
  <1>5. \A p \in Pairs :
          /\ s.pair # p => ~WorksOn(t, p) /\ mem'.first[p] = mem.first[p] /\ mem'.second[p] = mem.second[p]
          /\ \A u \in Threads : WorksOn(u, p) => WorksOn(u, p)'
          /\ \A u \in Threads \ {t} : WorksOn(u, p)' => WorksOn(u, p)
          /\ s.pair = p => WorksOn(t, p)'
    BY <1>2, <1>3 DEF Writes, Goes, WorksOn, Working
  <1>6. TypeOK'
    BY <1>1, <1>2 DEF TypeOK, Writes, Goes
  <1>7. Phased' /\ Locked'
    BY <1>1, <1>2, <1>4 DEF Phased, Locked, Goes
  <1>8. Shaped' /\ Lone'
    <2>1. \A u \in Threads : thread'[u] = s \/ (u # t /\ thread'[u] = thread[u])
      BY <1>2 DEF Goes
    <2>2. \A v \in Objects : Stays(v)
      BY DEF Writes
    <2>3. Shaped'
      BY <1>1, <1>2, <2>1, <2>2 DEF Shaped, Stays, Writes
    <2>4. Lone'
      BY <1>1, <1>2, <2>1 DEF Lone, Writes
    <2> QED
      BY <2>3, <2>4
  <1>9. Referred'
    <2>1. Made(mem.profiles)'
      BY DEF Writes, Made
    <2>2. Made(disk.data.profiles)'
      <3>1. disk.data.profiles \in Lists
        BY <1>1, FileFields, DataFields DEF TypeOK
      <3> QED
        BY <1>1, <1>2, <3>1, MadeStays DEF Referred, Writes, Made
    <2>3. ASSUME NEW u \in Threads PROVE Made(thread[u].list)'
      <3>1. thread[u].list \in Lists /\ Made(thread[u].list)
        BY <1>1, ThreadFields DEF TypeOK, Referred
      <3>2. s.list \in Lists /\ Made(s.list)
        BY <1>2, ThreadFields DEF Goes, Writes
      <3>3. thread'[u].list = s.list \/ thread'[u].list = thread[u].list
        BY <1>2 DEF Goes
      <3> QED
        BY <3>1, <3>2, <3>3, MadeStays DEF Writes, Made
    <2>4. holder # Nothing => Made(holder.copy.profiles)'
      <3>1. ASSUME holder # Nothing PROVE holder.copy.profiles \in Lists
        BY <1>1, <3>1, DataFields DEF TypeOK, HolderType
      <3> QED
        BY <1>1, <1>2, <3>1, MadeStays DEF Referred, Writes, Made
    <2> QED
      BY <1>2, <2>1, <2>2, <2>3, <2>4 DEF Referred
  <1>10. Written'
    BY <1>1, <1>2 DEF Written
  <1>11. Homely'
    BY <1>1, <1>2 DEF Homely, AtHome, Writes, Goes
  <1>12. InOrder'
    BY <1>1, <1>2 DEF InOrder, Ordered, Writes
  <1>13. Current'
    <2>1. ASSUME holder # Nothing, \A u \in Threads \ {holder.thread} : ~WorksOn(u, "pin")'
          PROVE  holder.copy.second["pin"] = mem'.second["pin"]
      <3>1. ~WorksOn(t, "pin")'
        BY <1>3, <1>4, <2>1
      <3>2. "pin" \in Pairs
        BY DEF Pairs
      <3> QED
        BY <1>1, <1>5, <2>1, <3>1, <3>2 DEF Current
    <2> QED
      BY <1>2, <1>3, <1>4, <2>1 DEF Current
  <1>14. Matched'
    <2>1. ASSUME NEW p \in Pairs
          PROVE  Matches(mem, p)' \/ \E u \in Threads : thread'[u].at = "half" /\ thread'[u].pair = p
      <3>1. CASE s.pair = p
        BY <1>2, <3>1 DEF Writes, Goes, Matches
      <3>2. CASE s.pair # p
        <4>1. \A u \in Threads : thread[u].at = "half" /\ thread[u].pair = p => thread'[u] = thread[u]
          BY <1>2, <1>5, <3>2 DEF Goes, WorksOn, Working
        <4> QED
          BY <1>1, <1>2, <1>5, <3>2, <4>1 DEF Matched, Matches
      <3> QED
        BY <3>1, <3>2
    <2>2. holder # Nothing => \A p \in Pairs :
            Matches(holder.copy, p)' \/ \E u \in Threads \ {holder.thread} : WorksOn(u, p)'
      BY <1>1, <1>2, <1>5 DEF Matched, Matches
    <2>3. \A p \in Pairs : Matches(disk.data, p)' \/ unsaved \/ \E u \in Threads : WorksOn(u, p)'
      BY <1>1, <1>2, <1>5 DEF Matched, Matches
    <2> QED
      BY <1>2, <2>1, <2>2, <2>3 DEF Matched
  <1>15. Kept'
    <2>1. "pin" \in Pairs
      BY DEF Pairs
    <2> QED
      BY <1>1, <1>2, <1>3, <1>5, <2>1 DEF Kept, OnDisk
  <1>16. DiskCatchesUp'
    <2>1. Busy'
      BY <1>3 DEF Busy, Working
    <2> QED
      BY <2>1 DEF DiskCatchesUp
  <1> QED
    BY <1>6, <1>7, <1>8, <1>9, <1>10, <1>11, <1>12, <1>13, <1>14, <1>15, <1>16 DEF StoreInv

(* The first half of a pair. *)
Halving(p) == [Idle EXCEPT !.at = "half", !.pair = p]
LEMMA ThreadHalves ==
  ASSUME NEW p \in Pairs
  PROVE  LET s == Halving(p)
         IN  s \in ThreadType /\ s.at = "half" /\ s.pair = p /\ s.list = Idle.list /\ s.new = Nothing
  BY ThreadFields DEF ThreadType, Halving

LEMMA MakePairKeeps ==
  ASSUME StoreInv, NEW t \in Threads, NEW p \in Pairs, MakePair(t, p)
  PROVE  StoreInv'
  <1>1. TypeOK /\ Lone /\ Referred /\ Homely /\ InOrder
    BY DEF StoreInv
  <1> DEFINE k == made[p] + 1
             s == Halving(p)
  <1>2. /\ phase = "up" /\ thread[t] = Idle /\ changes' \in 0 .. MaxChanges
        /\ UNCHANGED <<phase, obj, raced, holder, disk, foreign, changed, misread, unsaved, owed, cut, crashes>>
    BY <1>1 DEF MakePair, Begins, file, TypeOK
  <1>3. k \in Half /\ k # 0 /\ made' \in [Pairs -> 0 .. MaxMade]
    BY <1>1 DEF MakePair, TypeOK, Half
  <1>4. mem' = WithFirst(mem, p, k) /\ Becomes(t, s)
    BY DEF MakePair, WithFirst, Halving
  <1> HIDE DEF k
  <1>5. /\ mem' \in DataType /\ mem'.second = mem.second /\ mem'.profiles = mem.profiles
        /\ mem'.first[p] = k /\ \A q \in Pairs \ {p} : mem'.first[q] = mem.first[q]
    BY <1>1, <1>3, <1>4, DataUpdates DEF TypeOK
  <1>6. s \in ThreadType /\ s.at = "half" /\ s.pair = p /\ s.list = Idle.list /\ s.new = Nothing
    BY ThreadHalves
  <1> HIDE DEF s
  <1>7. Goes(t, s)
    BY <1>1, <1>4, <1>6, ThreadStep DEF Goes
  <1>8. \A q \in Pairs : ~WorksOn(t, q)
    BY <1>2, ThreadFields DEF WorksOn, Working
  <1>9. Made(s.list) /\ AtHome(s.new)
    BY <1>6, ThreadFields DEF Made, AtHome
  <1>10. Ordered(mem')
    BY <1>1, <1>3, <1>5 DEF InOrder, Ordered
  <1>11. \A v \in Objects : Stays(v) /\ AtHome(obj'[v])
    BY <1>1, <1>2 DEF Homely, Stays
  <1>12. \A n \in Names : mem'.profiles[n] # Nothing => obj'[mem'.profiles[n]] # Nothing
    BY <1>1, <1>2, <1>5 DEF Referred, Made
  <1>13. /\ obj' \in [Objects -> ProfileType \cup {Nothing}] /\ raced' \subseteq Objects
         /\ \A u \in Threads \ {t} :
              thread[u].at = "trust" /\ thread[u].seen \notin raced' => obj'[thread[u].seen].hostkey = Nothing
    BY <1>1, <1>2 DEF TypeOK, Lone
  <1>14. Writes(t, s)
    BY <1>2, <1>3, <1>5, <1>6, <1>7, <1>8, <1>9, <1>10, <1>11, <1>12, <1>13, ThreadFields DEF Writes
  <1> QED
    BY <1>14, WriterKeeps

(* ... and the second. *)
LEMMA EndPairKeeps ==
  ASSUME StoreInv, NEW t \in Threads, EndPair(t)
  PROVE  StoreInv'
  <1>1. TypeOK /\ Phased /\ Shaped /\ Lone /\ Referred /\ Homely /\ InOrder
    BY DEF StoreInv
  <1> DEFINE p == thread[t].pair
             k == mem.first[p]
             s == [thread[t] EXCEPT !.at = "save"]
  <1>2. /\ thread[t].at = "half"
        /\ UNCHANGED <<phase, obj, made, raced, holder, disk, foreign, changed, misread, unsaved, owed, cut,
                       changes, crashes>>
    BY DEF EndPair, file, history
  <1>3. phase = "up" /\ p \in Pairs /\ thread[t] \in ThreadType
    BY <1>1, <1>2 DEF Phased, TypeOK, Shaped
  <1>4. k \in Half
    BY <1>1, <1>3, DataFields DEF TypeOK
  <1>5. mem' = WithSecond(mem, p, k) /\ Becomes(t, s)
    BY DEF EndPair, WithSecond
  <1>6. s \in ThreadType /\ s.at = "save" /\ s.pair = p /\ s.list = thread[t].list /\ s.new = thread[t].new
    BY <1>3, ThreadGoesOn
  <1> HIDE DEF s, k
  <1>7. /\ mem' \in DataType /\ mem'.first = mem.first /\ mem'.profiles = mem.profiles
        /\ mem'.second[p] = k /\ \A q \in Pairs \ {p} : mem'.second[q] = mem.second[q]
    BY <1>1, <1>3, <1>4, <1>5, DataUpdates DEF TypeOK
  <1>8. Goes(t, s)
    BY <1>1, <1>5, <1>6, ThreadStep DEF Goes
  <1>9. Made(s.list) /\ AtHome(s.new)
    BY <1>1, <1>6 DEF Referred, Homely
  <1>10. Ordered(mem')
    BY <1>1, <1>7 DEF InOrder, Ordered, k
  <1>11. \A v \in Objects : Stays(v) /\ AtHome(obj'[v])
    BY <1>1, <1>2 DEF Homely, Stays
  <1>12. \A n \in Names : mem'.profiles[n] # Nothing => obj'[mem'.profiles[n]] # Nothing
    BY <1>1, <1>2, <1>7 DEF Referred, Made
  <1>13. /\ obj' \in [Objects -> ProfileType \cup {Nothing}] /\ made' \in [Pairs -> 0 .. MaxMade]
         /\ changes' \in 0 .. MaxChanges /\ raced' \subseteq Objects
         /\ \A u \in Threads \ {t} :
              thread[u].at = "trust" /\ thread[u].seen \notin raced' => obj'[thread[u].seen].hostkey = Nothing
    BY <1>1, <1>2 DEF TypeOK, Lone
  <1>14. \A q \in Pairs :
           /\ WorksOn(t, q) => s.pair = q
           /\ s.pair # q => mem'.first[q] = mem.first[q] /\ mem'.second[q] = mem.second[q]
           /\ s.pair = q /\ s.at = "save" => mem'.first[q] = mem'.second[q]
    BY <1>6, <1>7 DEF WorksOn, k
  <1>15. Writes(t, s)
    BY <1>2, <1>3, <1>6, <1>7, <1>8, <1>9, <1>10, <1>11, <1>12, <1>13, <1>14 DEF Writes
  <1> QED
    BY <1>15, WriterKeeps

(* A thread that goes to its save without a pair has changed none. *)
Saving == [Idle EXCEPT !.at = "save"]
LEMMA SavesNoPair ==
  ASSUME TypeOK, Phased, Referred, Homely, InOrder, NEW t \in Threads, Becomes(t, Saving),
         thread[t].at \in {"edit", "trust"},
         UNCHANGED <<phase, made, holder, disk, foreign, changed, misread, unsaved, owed, cut, changes, crashes>>,
         raced' \subseteq Objects,
         \A u \in Threads \ {t} :
           thread[u].at = "trust" /\ thread[u].seen \notin raced' => obj'[thread[u].seen].hostkey = Nothing,
         mem' \in DataType, mem'.first = mem.first, mem'.second = mem.second,
         obj' \in [Objects -> ProfileType \cup {Nothing}],
         \A v \in Objects : Stays(v) /\ AtHome(obj'[v]),
         \A n \in Names : mem'.profiles[n] # Nothing => obj'[mem'.profiles[n]] # Nothing
  PROVE  Writes(t, Saving)
  <1>1. /\ Saving \in ThreadType /\ Saving.at = "save" /\ Saving.pair = "none"
        /\ Saving.new = Nothing /\ Saving.list = Idle.list
    BY ThreadSaves DEF Saving
  <1>2. phase = "up"
    BY DEF Phased, TypeOK
  <1>3. Goes(t, Saving)
    BY <1>1, ThreadStep DEF Goes
  <1>4. Made(Saving.list) /\ AtHome(Saving.new)
    BY <1>1, ThreadFields DEF Made, AtHome
  <1>5. Ordered(mem')
    BY DEF InOrder, Ordered
  <1>6. made' \in [Pairs -> 0 .. MaxMade] /\ changes' \in 0 .. MaxChanges
    BY DEF TypeOK
  <1>7. \A q \in Pairs : ~WorksOn(t, q) /\ Saving.pair # q
    BY <1>1 DEF WorksOn, Working, Pairs
  <1> QED
    BY <1>1, <1>2, <1>3, <1>4, <1>5, <1>6, <1>7 DEF Writes

(* A list made from what was read takes the place of the list. *)
LEMMA ReplaceListKeeps ==
  ASSUME StoreInv, NEW t \in Threads, ReplaceList(t)
  PROVE  StoreInv'
  <1>1. TypeOK /\ Phased /\ Shaped /\ Lone /\ Referred /\ Homely /\ InOrder
    BY DEF StoreInv
  <1> DEFINE s == thread[t]
  <1>2. /\ s.at = "edit" /\ Becomes(t, Saving)
        /\ UNCHANGED <<phase, made, raced, holder, disk, foreign, changed, misread, unsaved, owed, cut,
                       changes, crashes>>
    BY DEF ReplaceList, file, history, Saving
  <1>3. s \in ThreadType /\ s.name \in Names /\ Made(s.list) /\ AtHome(s.new)
    BY <1>1, <1>2 DEF TypeOK, Shaped, Referred, Homely
  <1>4. s.list \in Lists /\ s.new \in ProfileType \cup {Nothing}
    BY <1>3, ThreadFields
  <1>5. CASE s.new = Nothing
    <2> DEFINE list == [s.list EXCEPT ![s.name] = Nothing]
    <2>1. list \in Lists /\ Made(list)
      BY <1>3, <1>4 DEF Lists, Made
    <2>2. mem' = WithList(mem, list) /\ obj' = obj
      BY <1>5 DEF ReplaceList, WithList
    <2> HIDE DEF list
    <2>3. mem' \in DataType /\ mem'.first = mem.first /\ mem'.second = mem.second /\ mem'.profiles = list
      BY <1>1, <2>1, <2>2, ListUpdates DEF TypeOK
    <2>4. \A n \in Names : mem'.profiles[n] # Nothing => obj'[mem'.profiles[n]] # Nothing
      BY <2>1, <2>2, <2>3 DEF Made
    <2>5. /\ obj' \in [Objects -> ProfileType \cup {Nothing}]
          /\ \A v \in Objects : Stays(v) /\ AtHome(obj'[v])
      BY <1>1, <2>2 DEF TypeOK, Homely, Stays
    <2>6. /\ raced' \subseteq Objects
          /\ \A u \in Threads \ {t} :
               thread[u].at = "trust" /\ thread[u].seen \notin raced' => obj'[thread[u].seen].hostkey = Nothing
      BY <1>1, <1>2, <2>2 DEF TypeOK, Lone
    <2>7. Writes(t, Saving)
      BY <1>1, <1>2, <2>3, <2>4, <2>5, <2>6, SavesNoPair
    <2> QED
      BY <2>7, WriterKeeps
  <1>6. CASE s.new # Nothing
    <2>1. PICK v \in Objects :
            /\ obj[v] = Nothing
            /\ obj' = [obj EXCEPT ![v] = s.new]
            /\ mem' = [mem EXCEPT !.profiles = [s.list EXCEPT ![s.name] = v]]
      BY <1>6 DEF ReplaceList
    <2> DEFINE list == [s.list EXCEPT ![s.name] = v]
    <2>2. mem' = WithList(mem, list)
      BY <2>1 DEF WithList
    <2>3. list \in Lists /\ \A n \in Names : list[n] = v \/ list[n] = s.list[n]
      BY <1>3, <1>4 DEF Lists
    <2> HIDE DEF list
    <2>4. mem' \in DataType /\ mem'.first = mem.first /\ mem'.second = mem.second /\ mem'.profiles = list
      BY <1>1, <2>2, <2>3, ListUpdates DEF TypeOK
    <2>5. /\ obj' \in [Objects -> ProfileType \cup {Nothing}] /\ obj'[v] = s.new
          /\ \A w \in Objects \ {v} : obj'[w] = obj[w]
      BY <1>1, <1>4, <2>1 DEF TypeOK
    <2>6. \A w \in Objects : Stays(w) /\ AtHome(obj'[w])
      BY <1>1, <1>3, <1>6, <2>1, <2>5 DEF Homely, Stays
    <2>7. \A n \in Names : mem'.profiles[n] # Nothing => obj'[mem'.profiles[n]] # Nothing
      BY <1>3, <1>4, <1>6, <2>3, <2>4, <2>5, <2>6, MadeStays
    <2>8. /\ raced' \subseteq Objects
          /\ \A u \in Threads \ {t} :
               thread[u].at = "trust" /\ thread[u].seen \notin raced' => obj'[thread[u].seen].hostkey = Nothing
      BY <1>1, <1>2, <2>1, <2>5 DEF TypeOK, Shaped, Lone
    <2>9. Writes(t, Saving)
      BY <1>1, <1>2, <2>4, <2>5, <2>6, <2>7, <2>8, SavesNoPair
    <2> QED
      BY <2>9, WriterKeeps
  <1> QED
    BY <1>5, <1>6

(* What a profile that is given a key becomes, and the others stay; and    *)
(* whoever else is about to give it one has been noted.                    *)
LEMMA TrustFacts ==
  ASSUME TypeOK, Shaped, Lone, Homely, NEW t \in Threads, Trust(t)
  PROVE  /\ thread[t].at = "trust" /\ thread[t].seen \in Objects /\ obj[thread[t].seen] # Nothing
         /\ thread[t].seen \notin raced => obj[thread[t].seen].hostkey = Nothing
         /\ obj' \in [Objects -> ProfileType \cup {Nothing}]
         /\ Stays(thread[t].seen) /\ AtHome(obj'[thread[t].seen])
         /\ \A w \in Objects \ {thread[t].seen} : obj'[w] = obj[w]
         /\ raced' \subseteq Objects /\ raced \subseteq raced'
         /\ \A u \in Threads \ {t} :
              thread[u].at = "trust" /\ thread[u].seen = thread[t].seen => thread[u].seen \in raced'
  <1> DEFINE v == thread[t].seen
             o == obj[v]
             r == Keyed(o, thread[t].key)
  <1>1. /\ thread[t].at = "trust" /\ v \in Objects /\ o # Nothing
        /\ thread[t].key \in Keys /\ thread[t].key[1] = o.dest[1]
    BY DEF Trust, Shaped
  <1>2. o \in ProfileType /\ AtHome(o)
    BY <1>1 DEF TypeOK, Homely
  <1>3. r \in ProfileType /\ r.dest = o.dest /\ AtHome(r)
    BY <1>1, <1>2, KeyAtHome
  <1>4. obj' = [obj EXCEPT ![v] = r]
    BY DEF Trust, WithKey, Keyed
  <1> HIDE DEF r
  <1>5. obj' \in [Objects -> ProfileType \cup {Nothing}] /\ obj'[v] = r /\ \A w \in Objects \ {v} : obj'[w] = obj[w]
    BY <1>1, <1>3, <1>4 DEF TypeOK
  <1>6. r # Nothing
    BY <1>3
  <1>7. Stays(v)
    BY <1>3, <1>5, <1>6 DEF Stays
  <1>8. /\ raced' \subseteq Objects /\ raced \subseteq raced'
        /\ \A u \in Threads \ {t} : thread[u].at = "trust" /\ thread[u].seen = v => v \in raced'
    <2>1. raced' = Raced(t) /\ raced \subseteq Objects
      BY DEF Trust, TypeOK
    <2> QED
      BY <1>1, <2>1 DEF Raced
  <1>9. v \notin raced => o.hostkey = Nothing
    BY <1>1 DEF Lone
  <1> QED
    BY <1>1, <1>3, <1>5, <1>7, <1>8, <1>9

LEMMA TrustKeeps ==
  ASSUME StoreInv, NEW t \in Threads, Trust(t)
  PROVE  StoreInv'
  <1>1. TypeOK /\ Phased /\ Shaped /\ Lone /\ Referred /\ Homely /\ InOrder
    BY DEF StoreInv
  <1>2. /\ Becomes(t, Saving) /\ mem' = mem
        /\ UNCHANGED <<phase, made, holder, disk, foreign, changed, misread, unsaved, owed, cut, changes, crashes>>
    BY DEF Trust, file, history, Saving
  <1> DEFINE v == thread[t].seen
  <1>3. /\ thread[t].at = "trust" /\ v \in Objects /\ obj' \in [Objects -> ProfileType \cup {Nothing}]
        /\ Stays(v) /\ AtHome(obj'[v]) /\ \A w \in Objects \ {v} : obj'[w] = obj[w]
        /\ raced' \subseteq Objects /\ raced \subseteq raced'
        /\ \A u \in Threads \ {t} : thread[u].at = "trust" /\ thread[u].seen = v => thread[u].seen \in raced'
    BY <1>1, TrustFacts
  <1>4. \A w \in Objects : Stays(w) /\ AtHome(obj'[w])
    BY <1>1, <1>3 DEF Stays, Homely
  <1>5. mem \in DataType /\ mem.profiles \in Lists /\ Made(mem.profiles)
    BY <1>1, DataFields DEF TypeOK, Referred
  <1>6. \A n \in Names : mem'.profiles[n] # Nothing => obj'[mem'.profiles[n]] # Nothing
    BY <1>2, <1>4, <1>5, MadeStays
  <1>7. \A u \in Threads \ {t} :
          thread[u].at = "trust" /\ thread[u].seen \notin raced' => obj'[thread[u].seen].hostkey = Nothing
    BY <1>1, <1>3 DEF Shaped, Lone
  <1>8. Writes(t, Saving)
    BY <1>1, <1>2, <1>3, <1>4, <1>5, <1>6, <1>7, SavesNoPair
  <1> QED
    BY <1>8, WriterKeeps

(* A save takes its copy. *)
LEMMA SaveBeginsKeeps ==
  ASSUME StoreInv, NEW t \in Threads, SaveBegins(t)
  PROVE  StoreInv'
  <1>1. /\ TypeOK /\ Phased /\ Locked /\ Shaped /\ Lone /\ Referred /\ Written
        /\ Homely /\ InOrder /\ Current /\ Matched /\ Kept /\ DiskCatchesUp
    BY DEF StoreInv
  <1> DEFINE s == [thread[t] EXCEPT !.at = "saving"]
  <1>2. /\ thread[t].at = "save" /\ holder = Nothing /\ holder' = [thread |-> t, copy |-> mem] /\ Becomes(t, s)
        /\ UNCHANGED <<phase, mem, obj, made, raced, disk, foreign, changed, misread, unsaved, owed, cut,
                       changes, crashes>>
    BY DEF SaveBegins, store, file, history
  <1>3. thread[t] \in ThreadType
    BY <1>1 DEF TypeOK
  <1>4. s \in ThreadType /\ s.at = "saving" /\ s.pair = thread[t].pair /\ s.list = thread[t].list /\ s.new = thread[t].new
    BY <1>3, ThreadGoesOn
  <1> HIDE DEF s
  <1>5. Goes(t, s)
    BY <1>1, <1>2, <1>4, ThreadStep DEF Goes
  <1>6. holder' \in HolderType /\ holder' # Nothing /\ holder'.thread = t /\ holder'.copy = mem
    BY <1>1, <1>2 DEF HolderType, TypeOK
  <1>7. \A u \in Threads :
          /\ Working(u)' <=> Working(u)
          /\ \A p : WorksOn(u, p)' <=> WorksOn(u, p)
    BY <1>2, <1>4, <1>5 DEF Goes, Working, WorksOn
  <1>8. phase \in {"loading", "up"}
    BY <1>1, <1>2 DEF Phased, TypeOK
  <1>9. TypeOK'
    BY <1>1, <1>2, <1>5, <1>6 DEF TypeOK, Goes
  <1>10. Phased'
    BY <1>1, <1>2, <1>4, <1>5, <1>8 DEF Phased, Goes
  <1>11. Locked'
    BY <1>1, <1>2, <1>4, <1>5, <1>6 DEF Locked, Goes
  <1>12. Shaped' /\ Lone'
    <2>1. Shaped'
      BY <1>1, <1>2, <1>4, <1>5 DEF Shaped, Goes
    <2>2. Lone'
      BY <1>1, <1>2, <1>4, <1>5 DEF Lone, Goes
    <2> QED
      BY <2>1, <2>2
  <1>13. Referred'
    BY <1>1, <1>2, <1>4, <1>5, <1>6 DEF Referred, Made, Goes
  <1>14. Written' /\ InOrder'
    BY <1>1, <1>2, <1>6 DEF Written, InOrder, Ordered
  <1>15. Homely'
    BY <1>1, <1>2, <1>4, <1>5 DEF Homely, AtHome, Goes
  <1>16. Current'
    BY <1>2, <1>6 DEF Current
  <1>17. Matched'
    <2>1. \A u \in Threads : thread[u].at = "half" =>
            u # t /\ thread'[u].at = "half" /\ thread'[u].pair = thread[u].pair
      BY <1>2, <1>5 DEF Goes
    <2>2. \A p \in Pairs : Matches(mem, p)' \/ \E u \in Threads \ {t} : thread'[u].at = "half" /\ thread'[u].pair = p
      BY <1>1, <1>2, <1>8, <2>1 DEF Matched, Matches
    <2>3. \A p \in Pairs : Matches(holder.copy, p)' \/ \E u \in Threads \ {t} : WorksOn(u, p)'
      BY <1>2, <1>6, <2>2 DEF Matches, WorksOn, Working
    <2> QED
      BY <1>1, <1>2, <1>6, <1>7, <2>2, <2>3 DEF Matched, Matches
  <1>18. Kept'
    BY <1>1, <1>2, <1>7 DEF Kept, OnDisk
  <1>19. DiskCatchesUp'
    BY <1>1, <1>2, <1>7 DEF DiskCatchesUp, Content, Busy, Working
  <1> QED
    BY <1>9, <1>10, <1>11, <1>12, <1>13, <1>14, <1>15, <1>16, <1>17, <1>18, <1>19 DEF StoreInv

(* What the end of a save does, whether it has worked or not. *)
LEMMA SaveOverFacts ==
  ASSUME StoreInv, NEW t \in Threads, SaveEnds(t) \/ SaveFails(t)
  PROVE  /\ Goes(t, Idle) /\ thread[t].at = "saving" /\ holder # Nothing /\ holder.thread = t
         /\ holder \in HolderType /\ holder.copy \in DataType
         /\ phase \in {"loading", "up"} /\ phase' = "up" /\ holder' = Nothing /\ ~foreign
         /\ UNCHANGED <<mem, obj, made, raced, foreign, changed, misread, owed, cut, changes, crashes>>
         /\ \A u \in Threads : /\ Working(u)' => u # t /\ Working(u)
                               /\ \A p : WorksOn(u, p)' <=> u # t /\ WorksOn(u, p)
                               /\ u # t => (Working(u)' <=> Working(u))
  <1>1. TypeOK /\ Phased /\ Locked
    BY DEF StoreInv
  <1>2. /\ holder # Nothing /\ holder.thread = t /\ holder' = Nothing /\ Becomes(t, Idle) /\ phase' = "up"
        /\ UNCHANGED <<mem, obj, made, raced, foreign, changed, misread, owed, cut, changes, crashes>>
    BY DEF SaveEnds, SaveFails, store, file
  <1>3. thread[t].at = "saving"
    BY <1>1, <1>2 DEF Locked
  <1>4. phase \in {"loading", "up"} /\ ~foreign
    BY <1>1, <1>2 DEF Phased, TypeOK
  <1>5. Goes(t, Idle)
    BY <1>1, <1>2, ThreadFields, ThreadStep DEF Goes
  <1>6. holder \in HolderType /\ holder.copy \in DataType
    BY <1>1, <1>2 DEF TypeOK, HolderType
  <1>7. \A u \in Threads : /\ Working(u)' => u # t /\ Working(u)
                           /\ \A p : WorksOn(u, p)' <=> u # t /\ WorksOn(u, p)
                           /\ u # t => (Working(u)' <=> Working(u))
    BY <1>5, ThreadFields DEF Goes, Working, WorksOn
  <1> QED
    BY <1>2, <1>3, <1>4, <1>5, <1>6, <1>7

(* What the end of a save leaves, whether it has worked or not. *)
LEMMA SaveOverKeeps ==
  ASSUME StoreInv, NEW t \in Threads, SaveEnds(t) \/ SaveFails(t)
  PROVE  /\ Phased' /\ Locked' /\ Shaped' /\ Lone' /\ Current'
         /\ \A u \in Threads : Made(thread[u].list)' /\ AtHome(thread'[u].new)
         /\ Made(mem.profiles)' /\ \A v \in Objects : AtHome(obj'[v])
         /\ \A p \in Pairs :
              Matches(mem, p)' \/ \E u \in Threads : thread'[u].at = "half" /\ thread'[u].pair = p
  <1>1. TypeOK /\ Phased /\ Locked /\ Shaped /\ Lone /\ Referred /\ Homely /\ Matched
    BY DEF StoreInv
  <1>2. /\ Goes(t, Idle) /\ thread[t].at = "saving" /\ holder # Nothing /\ holder.thread = t
        /\ phase \in {"loading", "up"} /\ phase' = "up" /\ holder' = Nothing /\ ~foreign
        /\ UNCHANGED <<mem, obj, made, raced, foreign, changed, misread, owed, cut, changes, crashes>>
    BY SaveOverFacts
  <1>3. Phased' /\ Current'
    BY <1>2 DEF Phased, Current
  <1>4. Locked'
    BY <1>1, <1>2, ThreadFields DEF Locked, Goes
  <1>5. Shaped' /\ Lone'
    <2>1. Shaped'
      BY <1>1, <1>2, ThreadFields DEF Shaped, Goes
    <2>2. Lone'
      BY <1>1, <1>2, ThreadFields DEF Lone, Goes
    <2> QED
      BY <2>1, <2>2
  <1>6. \A u \in Threads : Made(thread[u].list)' /\ AtHome(thread'[u].new)
    BY <1>1, <1>2, ThreadFields DEF Referred, Made, Homely, AtHome, Goes
  <1>7. Made(mem.profiles)' /\ \A v \in Objects : AtHome(obj'[v])
    BY <1>1, <1>2 DEF Referred, Made, Homely
  <1>8. \A p \in Pairs :
          Matches(mem, p)' \/ \E u \in Threads : thread'[u].at = "half" /\ thread'[u].pair = p
    BY <1>1, <1>2 DEF Matched, Matches, Goes
  <1> QED
    BY <1>3, <1>4, <1>5, <1>6, <1>7, <1>8

(* The copy of a save becomes the file. *)
LEMMA SaveEndsKeeps ==
  ASSUME StoreInv, NEW t \in Threads, SaveEnds(t)
  PROVE  StoreInv'
  <1>1. /\ TypeOK /\ Referred /\ Homely /\ InOrder /\ Current /\ Matched
    BY DEF StoreInv
  <1> DEFINE copy == holder.copy
  <1>2. /\ Goes(t, Idle) /\ thread[t].at = "saving" /\ holder # Nothing /\ holder.thread = t
        /\ copy \in DataType
        /\ phase \in {"loading", "up"} /\ phase' = "up" /\ holder' = Nothing /\ ~foreign
        /\ UNCHANGED <<mem, obj, made, raced, foreign, changed, misread, owed, cut, changes, crashes>>
    BY SaveOverFacts
  <1>3. \A u \in Threads : /\ \A p : WorksOn(u, p)' <=> u # t /\ WorksOn(u, p)
                           /\ u # t => (Working(u)' <=> Working(u))
    BY SaveOverFacts
  <1>4. disk' = File("whole", copy, Content(copy)) /\ unsaved' = FALSE
    BY DEF SaveEnds
  <1>5. Made(copy.profiles) /\ copy.profiles \in Lists
    BY <1>1, <1>2, DataFields DEF Referred
  <1>6. /\ Content(copy) \in [Names -> ProfileType \cup {Nothing}]
        /\ \A n \in Names : copy.profiles[n] = Nothing <=> Content(copy)[n] = Nothing
        /\ \A n \in Names : copy.profiles[n] # Nothing => Content(copy)[n] = obj[copy.profiles[n]]
    BY <1>1, <1>2, <1>5, ContentFields
  <1>7. disk' \in FileType /\ disk'.state = "whole" /\ disk'.data = copy /\ disk'.profiles = Content(copy)
    BY <1>2, <1>4, <1>6, FileFields
  <1>8. TypeOK'
    BY <1>1, <1>2, <1>4, <1>7 DEF TypeOK, Goes
  <1>9. /\ Phased' /\ Locked' /\ Shaped' /\ Lone' /\ Current'
        /\ \A u \in Threads : Made(thread[u].list)' /\ AtHome(thread'[u].new)
        /\ Made(mem.profiles)' /\ \A v \in Objects : AtHome(obj'[v])
        /\ \A p \in Pairs :
              Matches(mem, p)' \/ \E u \in Threads : thread'[u].at = "half" /\ thread'[u].pair = p
    BY SaveOverKeeps
  <1>10. Referred'
    BY <1>2, <1>5, <1>7, <1>9 DEF Referred, Made
  <1>11. Written'
    BY <1>2, <1>6, <1>7 DEF Written
  <1>12. Homely'
    <2>1. \A n \in Names : Content(copy)[n] # Nothing => copy.profiles[n] \in Objects
      BY <1>5, <1>6 DEF Lists
    <2>2. \A n \in Names : AtHome(Content(copy)[n])
      BY <1>1, <1>6, <2>1 DEF Homely, AtHome
    <2> QED
      BY <1>7, <1>9, <2>2 DEF Homely
  <1>13. InOrder'
    BY <1>1, <1>2, <1>7 DEF InOrder, Ordered
  <1>14. Matched'
    <2>1. \A p \in Pairs : Matches(disk.data, p)' \/ \E u \in Threads : WorksOn(u, p)'
      BY <1>1, <1>2, <1>3, <1>7 DEF Matched, Matches
    <2> QED
      BY <1>2, <1>9, <2>1 DEF Matched
  <1>15. Kept'
    <2>1. ASSUME \A u \in Threads : ~WorksOn(u, "pin")' PROVE copy.second["pin"] = mem.second["pin"]
      BY <1>1, <1>2, <1>3, <2>1 DEF Current
    <2> QED
      BY <1>2, <1>7, <2>1 DEF Kept, OnDisk
  <1>16. DiskCatchesUp'
    <2>1. ASSUME ~Busy' PROVE copy = mem
      <3>1. \A u \in Threads \ {t} : ~Working(u)
        BY <1>3, <2>1 DEF Busy, Working
      <3> QED
        BY <1>1, <1>2, <3>1 DEF Current
    <2>2. Content(mem)' = Content(mem)
      BY <1>2 DEF Content
    <2> QED
      BY <1>2, <1>4, <2>1, <2>2 DEF DiskCatchesUp
  <1> QED
    BY <1>8, <1>9, <1>10, <1>11, <1>12, <1>13, <1>14, <1>15, <1>16 DEF StoreInv

(* A save that fails leaves the file as it is. *)
LEMMA SaveFailsKeeps ==
  ASSUME StoreInv, NEW t \in Threads, SaveFails(t)
  PROVE  StoreInv'
  <1>1. /\ TypeOK /\ Referred /\ Written /\ Homely /\ InOrder
    BY DEF StoreInv
  <1>2. /\ Goes(t, Idle) /\ phase' = "up" /\ holder' = Nothing /\ ~foreign
        /\ UNCHANGED <<mem, obj, made, raced, foreign, changed, misread, owed, cut, changes, crashes>>
    BY SaveOverFacts
  <1>3. disk' = disk /\ unsaved' = TRUE
    BY DEF SaveFails, file
  <1>4. TypeOK'
    BY <1>1, <1>2, <1>3 DEF TypeOK, Goes
  <1>5. /\ Phased' /\ Locked' /\ Shaped' /\ Lone' /\ Current'
        /\ \A u \in Threads : Made(thread[u].list)' /\ AtHome(thread'[u].new)
        /\ Made(mem.profiles)' /\ \A v \in Objects : AtHome(obj'[v])
        /\ \A p \in Pairs :
              Matches(mem, p)' \/ \E u \in Threads : thread'[u].at = "half" /\ thread'[u].pair = p
    BY SaveOverKeeps
  <1>6. Referred'
    BY <1>1, <1>2, <1>3, <1>5 DEF Referred, Made
  <1>7. Written' /\ InOrder'
    BY <1>1, <1>2, <1>3 DEF Written, InOrder, Ordered
  <1>8. Homely'
    BY <1>1, <1>3, <1>5 DEF Homely
  <1>9. Matched' /\ Kept' /\ DiskCatchesUp'
    BY <1>2, <1>3, <1>5 DEF Matched, Kept, DiskCatchesUp
  <1> QED
    BY <1>4, <1>5, <1>6, <1>7, <1>8, <1>9 DEF StoreInv

(* What the start makes of the file, when it can read it and the secrets   *)
(* known in it.                                                            *)
Loaded(read, known) ==
  [first |-> [p \in Pairs |-> IF read /\ p \in known THEN disk.data.first[p] ELSE 0],
   second |-> [p \in Pairs |-> IF read /\ p \in known /\ disk.data.first[p] # 0
                               THEN disk.data.second[p] ELSE 0],
   profiles |-> IF read THEN disk.data.profiles ELSE NoData.profiles]

LoadedFrom(d, read, known) ==
  /\ d \in DataType
  /\ \A p \in Pairs :
       \/ d.first[p] = 0 /\ d.second[p] = 0
       \/ /\ read = TRUE /\ p \in known /\ disk.data.first[p] # 0
          /\ d.first[p] = disk.data.first[p] /\ d.second[p] = disk.data.second[p]
  /\ \A p \in Pairs : read = TRUE /\ p \in known => d.first[p] = disk.data.first[p]
  /\ d.profiles = disk.data.profiles \/ \A n \in Names : d.profiles[n] = Nothing
  /\ read = TRUE => d.profiles = disk.data.profiles

LEMMA LoadedFields ==
  ASSUME TypeOK, NEW read \in BOOLEAN, NEW known
  PROVE  LoadedFrom(Loaded(read, known), read, known)
  <1> DEFINE f == [p \in Pairs |-> IF read /\ p \in known THEN disk.data.first[p] ELSE 0]
             g == [p \in Pairs |-> IF read /\ p \in known /\ disk.data.first[p] # 0
                                   THEN disk.data.second[p] ELSE 0]
             list == IF read THEN disk.data.profiles ELSE NoData.profiles
             d == Loaded(read, known)
  <1>1. /\ disk.data \in DataType /\ disk.data.first \in [Pairs -> Half]
        /\ disk.data.second \in [Pairs -> Half] /\ disk.data.profiles \in Lists
    BY DataFields, FileFields DEF TypeOK
  <1>2. f \in [Pairs -> Half] /\ g \in [Pairs -> Half]
    BY <1>1 DEF Half
  <1>3. /\ list \in Lists /\ (list = disk.data.profiles \/ \A n \in Names : list[n] = Nothing)
        /\ read => list = disk.data.profiles
    BY <1>1, NoDataFields, DataFields
  <1>4. \A p \in Pairs :
          /\ f[p] = IF read /\ p \in known THEN disk.data.first[p] ELSE 0
          /\ g[p] = IF read /\ p \in known /\ disk.data.first[p] # 0 THEN disk.data.second[p] ELSE 0
    OBVIOUS
  <1>5. d = [first |-> f, second |-> g, profiles |-> list]
    BY DEF Loaded
  <1> HIDE DEF f, g, list, d
  <1>6. d \in DataType /\ d.first = f /\ d.second = g /\ d.profiles = list
    BY <1>2, <1>3, <1>5, DataFields
  <1>7. \A p \in Pairs :
          /\ \/ d.first[p] = 0 /\ d.second[p] = 0
             \/ /\ read /\ p \in known /\ disk.data.first[p] # 0
                /\ d.first[p] = disk.data.first[p] /\ d.second[p] = disk.data.second[p]
          /\ read /\ p \in known => d.first[p] = disk.data.first[p]
    BY <1>4, <1>6
  <1> QED
    BY <1>3, <1>6, <1>7 DEF d, LoadedFrom

(* A start that can read everything, or lacks nothing, has what the file   *)
(* has.                                                                    *)
LEMMA LoadedWhole ==
  ASSUME TypeOK, InOrder, NEW known, Loaded(TRUE, known).first = disk.data.first
  PROVE  Loaded(TRUE, known) = disk.data
  <1> DEFINE d == Loaded(TRUE, known)
  <1>0. LoadedFrom(d, TRUE, known)
    BY LoadedFields
  <1> HIDE DEF d
  <1>1. d \in DataType /\ disk.data \in DataType
    BY <1>0, FileFields DEF TypeOK, LoadedFrom
  <1>2. d.profiles = disk.data.profiles
    BY <1>0 DEF LoadedFrom
  <1>3. \A p \in Pairs : \/ d.first[p] = 0 /\ d.second[p] = 0
                         \/ d.second[p] = disk.data.second[p]
    BY <1>0 DEF LoadedFrom
  <1>4. d.first = disk.data.first
    BY DEF d
  <1>5. d.second \in [Pairs -> Half] /\ disk.data.second \in [Pairs -> Half]
    BY <1>1, DataFields
  <1>6. \A p \in Pairs : d.second[p] = disk.data.second[p]
    BY <1>3, <1>4 DEF InOrder, Ordered
  <1>7. d.second = disk.data.second
    BY <1>5, <1>6
  <1> QED
    BY <1>1, <1>2, <1>4, <1>7, DataFields DEF d

(* How the start goes on. *)
GoesOn(data) ==
  /\ phase = "down" /\ phase' \in {"loading", "up"} /\ foreign' = FALSE
  /\ unsaved' \in BOOLEAN /\ misread' \in BOOLEAN
  /\ mem' \in DataType /\ mem'.profiles = data.profiles
  /\ made' \in [Pairs -> 0 .. MaxMade]
  /\ UNCHANGED <<obj, raced, holder, disk, changed, owed, cut, changes, crashes>>
  /\ \A p \in Pairs :
       \/ mem'.first[p] = mem'.second[p]
       \/ mem'.first[p] = data.first[p] /\ mem'.second[p] = data.second[p]
  /\ data.second["pin"] # 0 => mem' = data
  /\ phase' = "up" => data.second["pin"] # 0 /\ thread' = thread
  /\ phase' = "loading" => Goes(Gui, Saving)

LEMMA LoadWithFacts ==
  ASSUME TypeOK, phase = "down", misread' \in BOOLEAN, NEW data \in DataType, LoadWith(data)
  PROVE  GoesOn(data) /\ unsaved' = (data.first["tls"] # disk.data.first["tls"])
  <1>1. /\ foreign' = FALSE /\ UNCHANGED <<obj, raced, holder, disk, changed, owed, cut, changes, crashes>>
        /\ unsaved' = (data.first["tls"] # disk.data.first["tls"])
    BY DEF LoadWith
  <1>2. unsaved' \in BOOLEAN
    BY <1>1
  <1>3. Becomes(Gui, Saving) => Goes(Gui, Saving)
    BY ThreadSaves, ThreadKinds, ThreadStep DEF Goes, Saving
  <1>4. CASE data.second["pin"] = 0
    <2> DEFINE k == NewPin
    <2>1. k <= MaxMade /\ made' = [made EXCEPT !["pin"] = k] /\ phase' = "loading" /\ Becomes(Gui, Saving)
      BY <1>4 DEF LoadWith, Saving
    <2>2. mem' = WithPair(data, "pin", k)
      BY <1>4 DEF LoadWith, WithPair
    <2>3. "pin" \in Pairs /\ k \in Half
      BY <2>1 DEF Pairs, Half, NewPin, TypeOK
    <2> HIDE DEF k
    <2>4. made' \in [Pairs -> 0 .. MaxMade]
      BY <2>1, <2>3 DEF TypeOK, Half
    <2>5. /\ mem' \in DataType /\ mem'.profiles = data.profiles /\ mem'.first["pin"] = mem'.second["pin"]
          /\ \A q \in Pairs \ {"pin"} : mem'.first[q] = data.first[q] /\ mem'.second[q] = data.second[q]
      BY <2>2, <2>3, PairUpdates
    <2>6. Goes(Gui, Saving)
      BY <1>3, <2>1
    <2> QED
      BY <1>1, <1>2, <1>4, <2>1, <2>4, <2>5, <2>6 DEF GoesOn
  <1>5. CASE data.second["pin"] # 0
    <2>1. /\ mem' = data /\ made' = made
          /\ \/ phase' = "up" /\ thread' = thread
             \/ phase' = "loading" /\ Becomes(Gui, Saving)
      BY <1>5 DEF LoadWith, Saving
    <2>2. made' \in [Pairs -> 0 .. MaxMade]
      BY <2>1 DEF TypeOK
    <2>3. phase' = "loading" => Goes(Gui, Saving)
      BY <1>3, <2>1
    <2> QED
      BY <1>1, <1>2, <1>5, <2>1, <2>2, <2>3 DEF GoesOn
  <1> QED
    BY <1>4, <1>5

(* What the start reads, knows and misses. *)
Starts(read, known) ==
  /\ GoesOn(Loaded(read, known))
  /\ read => disk.state = "whole"
  /\ unsaved' = (Loaded(read, known).first["tls"] # disk.data.first["tls"])
  /\ misread' = (disk.state = "whole" /\ ~(read /\ "pin" \in known))

LEMMA LoadFacts ==
  ASSUME TypeOK, Load
  PROVE  \E read \in BOOLEAN, known \in SUBSET Pairs : Starts(read, known)
  <1>1. PICK read \in {FALSE, disk.state = "whole"}, known \in Unprotected :
          /\ LoadWith(Loaded(read, known))
          /\ misread' = (disk.state = "whole" /\ ~(read /\ "pin" \in known))
    BY DEF Load, Loaded
  <1>2. read \in BOOLEAN /\ (read => disk.state = "whole") /\ known \in SUBSET Pairs
    BY DEF Unprotected
  <1>3. phase = "down" /\ misread' \in BOOLEAN
    BY <1>1 DEF Load
  <1>4. Loaded(read, known) \in DataType
    BY <1>2, LoadedFields DEF LoadedFrom
  <1>5. /\ GoesOn(Loaded(read, known))
        /\ unsaved' = (Loaded(read, known).first["tls"] # disk.data.first["tls"])
    BY <1>1, <1>3, <1>4, LoadWithFacts
  <1> QED
    BY <1>1, <1>2, <1>5 DEF Starts

(* A PIN that the file has is the one that is brought back, if it can be   *)
(* read.                                                                   *)
LEMMA LoadBringsBack ==
  ASSUME TypeOK, Kept, InOrder, Load, owed # 0
  PROVE  mem'.second["pin"] = owed \/ misread'
  <1>1. PICK read \in BOOLEAN, known \in SUBSET Pairs : Starts(read, known)
    BY LoadFacts
  <1> DEFINE d == Loaded(read, known)
  <1>2. /\ phase = "down" /\ (d.second["pin"] # 0 => mem' = d)
        /\ misread' = (disk.state = "whole" /\ ~(read /\ "pin" \in known))
    BY <1>1 DEF Starts, GoesOn
  <1>3. disk.state = "whole" /\ disk.data.second["pin"] = owed /\ "pin" \in Pairs
    BY <1>2 DEF Kept, OnDisk, Pairs
  <1>4. disk.data.first["pin"] # 0
    BY <1>3 DEF InOrder, Ordered
  <1>5. LoadedFrom(d, read, known)
    BY LoadedFields
  <1> HIDE DEF d
  <1> QED
    BY <1>2, <1>3, <1>4, <1>5 DEF LoadedFrom

LEMMA LoadKeeps ==
  ASSUME StoreInv, Load
  PROVE  StoreInv'
  <1>1. /\ TypeOK /\ Phased /\ Locked /\ Shaped /\ Lone /\ Referred /\ Written
        /\ Homely /\ InOrder /\ Current /\ Matched /\ Kept
    BY DEF StoreInv
  <1>2. PICK read \in BOOLEAN, known \in SUBSET Pairs : Starts(read, known)
    BY <1>1, LoadFacts
  <1> DEFINE d == Loaded(read, known)
  <1>3. /\ phase = "down" /\ phase' \in {"loading", "up"} /\ foreign' = FALSE
        /\ unsaved' \in BOOLEAN /\ misread' \in BOOLEAN
        /\ mem' \in DataType /\ mem'.profiles = d.profiles
        /\ made' \in [Pairs -> 0 .. MaxMade]
        /\ UNCHANGED <<obj, raced, holder, disk, changed, owed, cut, changes, crashes>>
        /\ \A p \in Pairs :
             \/ mem'.first[p] = mem'.second[p]
             \/ mem'.first[p] = d.first[p] /\ mem'.second[p] = d.second[p]
        /\ d.second["pin"] # 0 => mem' = d
        /\ phase' = "up" => d.second["pin"] # 0 /\ thread' = thread
        /\ phase' = "loading" => Goes(Gui, Saving)
        /\ read => disk.state = "whole"
        /\ unsaved' = (d.first["tls"] # disk.data.first["tls"])
    BY <1>2 DEF Starts, GoesOn
  <1>0. LoadedFrom(d, read, known)
    BY <1>1, LoadedFields
  <1> HIDE DEF d
  <1>4. /\ d \in DataType
        /\ \A p \in Pairs :
             \/ d.first[p] = 0 /\ d.second[p] = 0
             \/ /\ read = TRUE /\ disk.data.first[p] # 0
                /\ d.first[p] = disk.data.first[p] /\ d.second[p] = disk.data.second[p]
        /\ d.profiles = disk.data.profiles \/ \A n \in Names : d.profiles[n] = Nothing
    BY <1>0 DEF LoadedFrom
  <1>5. holder = Nothing /\ ~unsaved /\ \A t \in Threads : thread[t].at = "idle"
    BY <1>1, <1>3 DEF Phased
  <1>6. \A t \in Threads :
          \/ thread'[t] = thread[t]
          \/ t = Gui /\ thread'[t] = Saving /\ phase' = "loading"
    BY <1>3 DEF Goes
  <1>7. /\ Saving.at = "save" /\ Saving.pair = "none" /\ Saving.new = Nothing
        /\ \A n \in Names : Saving.list[n] = Nothing
    BY ThreadSaves, ThreadFields DEF Saving
  <1>8. \A t \in Threads, p \in Pairs : ~WorksOn(t, p)
    BY <1>5 DEF WorksOn, Working
  <1>9. ASSUME phase' = "up"
        PROVE  /\ disk.state = "whole" /\ mem'.second["pin"] = disk.data.second["pin"]
               /\ ~unsaved' => mem' = disk.data
    <2>1. "pin" \in Pairs /\ "tls" \in Pairs /\ Pairs = {"pin", "tls"}
      BY DEF Pairs
    <2>2. d.second["pin"] # 0 /\ mem' = d
      BY <1>3, <1>9
    <2>3. read = TRUE /\ d.first["pin"] = disk.data.first["pin"] /\ d.second["pin"] = disk.data.second["pin"]
      BY <1>4, <2>1, <2>2
    <2>4. ASSUME ~unsaved' PROVE d = disk.data
      <3>1. d.first \in [Pairs -> Half] /\ disk.data.first \in [Pairs -> Half]
        BY <1>1, <1>4, FileFields, DataFields DEF TypeOK
      <3>2. d.first["tls"] = disk.data.first["tls"]
        BY <1>3, <2>4
      <3>3. d.first = disk.data.first
        BY <2>1, <2>3, <3>1, <3>2
      <3> QED
        BY <1>1, <2>3, <3>3, LoadedWhole DEF d
    <2> QED
      BY <1>3, <2>2, <2>3, <2>4
  <1>10. TypeOK'
    <2>1. thread' \in [Threads -> ThreadType]
      BY <1>1, <1>3 DEF TypeOK, Goes
    <2> QED
      BY <1>1, <1>3, <2>1 DEF TypeOK
  <1>11. Phased'
    BY <1>3, <1>5, <1>6, <1>7, ThreadKinds DEF Phased, Goes
  <1>12. Locked' /\ Shaped' /\ Lone'
    BY <1>1, <1>3, <1>5, <1>6, <1>7 DEF Locked, Shaped, Lone
  <1>13. Referred'
    BY <1>1, <1>3, <1>4, <1>5, <1>6, <1>7 DEF Referred, Made
  <1>14. Written'
    BY <1>1, <1>3 DEF Written
  <1>15. Homely'
    BY <1>1, <1>3, <1>6, <1>7 DEF Homely, AtHome
  <1>16. InOrder' /\ Current'
    BY <1>1, <1>3, <1>4, <1>5 DEF InOrder, Ordered, Current
  <1>17. Matched'
    <2>1. \A p \in Pairs : Matches(disk.data, p)
      BY <1>1, <1>5, <1>8 DEF Matched
    <2>2. \A p \in Pairs : Matches(mem, p)' /\ Matches(disk.data, p)'
      BY <1>3, <1>4, <2>1 DEF Matches
    <2> QED
      BY <1>3, <1>5, <2>2 DEF Matched
  <1>18. Kept'
    <2>1. phase' = "up" => OnDisk(mem.second["pin"])'
      BY <1>3, <1>9 DEF OnDisk
    <2> QED
      BY <1>1, <1>3, <2>1 DEF Kept, OnDisk
  <1>19. DiskCatchesUp'
    <2>1. ASSUME phase' = "up", ~unsaved' PROVE disk' = File("whole", mem, Content(mem))'
      <3>1. disk.state = "whole" /\ mem' = disk.data
        BY <1>9, <2>1
      <3>2. disk \in FileType /\ disk = File(disk.state, disk.data, disk.profiles)
            /\ disk.profiles \in [Names -> ProfileType \cup {Nothing}]
        BY <1>1, FileFields DEF TypeOK
      <3>3. Made(disk.data.profiles) /\ disk.data \in DataType
        BY <1>1, <3>2, FileFields DEF Referred
      <3>4. /\ Content(disk.data) \in [Names -> ProfileType \cup {Nothing}]
            /\ \A n \in Names : disk.data.profiles[n] = Nothing <=> Content(disk.data)[n] = Nothing
            /\ \A n \in Names : disk.data.profiles[n] # Nothing =>
                 Content(disk.data)[n] = obj[disk.data.profiles[n]]
        BY <1>1, <3>3, ContentFields
      <3>5. \A n \in Names : Content(disk.data)[n] = disk.profiles[n]
        BY <1>1, <1>3, <3>4 DEF Written
      <3>6. Content(disk.data) = disk.profiles
        BY <3>2, <3>4, <3>5
      <3>7. Content(mem)' = Content(disk.data)
        BY <1>3, <3>1 DEF Content
      <3> QED
        BY <1>3, <3>1, <3>2, <3>6, <3>7
    <2> QED
      BY <2>1 DEF DiskCatchesUp
  <1> QED
    BY <1>10, <1>11, <1>12, <1>13, <1>14, <1>15, <1>16, <1>17, <1>18, <1>19 DEF StoreInv

(* After a crash the objects are what the file has of them. *)
LEMMA CrashFacts ==
  ASSUME TypeOK, Written, Homely, Crash
  PROVE  /\ obj' \in [Objects -> ProfileType \cup {Nothing}]
         /\ \A v \in Objects : AtHome(obj'[v])
         /\ \A n \in Names : disk.data.profiles[n] # Nothing => obj'[disk.data.profiles[n]] = disk.profiles[n]
  <1> DEFINE Has(v) == \E n \in Names : disk.data.profiles[n] = v
             name(v) == CHOOSE n \in Names : disk.data.profiles[n] = v
  <1>1. disk.data.profiles \in Lists /\ disk.profiles \in [Names -> ProfileType \cup {Nothing}]
    BY FileFields, DataFields DEF TypeOK
  <1>2. obj' = [v \in Objects |-> IF Has(v) THEN disk.profiles[name(v)] ELSE Nothing]
    BY DEF Crash
  <1>3. \A v : Has(v) => name(v) \in Names /\ disk.data.profiles[name(v)] = v
    OBVIOUS
  <1>4. \A n \in Names : Has(disk.data.profiles[n])
    OBVIOUS
  <1> HIDE DEF Has, name
  <1>5. \A v \in Objects : obj'[v] = IF Has(v) THEN disk.profiles[name(v)] ELSE Nothing
    BY <1>2
  <1>6. obj' \in [Objects -> ProfileType \cup {Nothing}]
    BY <1>1, <1>2, <1>3
  <1>7. \A v \in Objects : AtHome(obj'[v])
    BY <1>3, <1>5 DEF Homely, AtHome
  <1>8. ASSUME NEW n \in Names, disk.data.profiles[n] # Nothing
        PROVE  obj'[disk.data.profiles[n]] = disk.profiles[n]
    <2> DEFINE v == disk.data.profiles[n]
    <2>1. v \in Objects /\ Has(v)
      BY <1>1, <1>4, <1>8 DEF Lists
    <2>2. obj'[v] = disk.profiles[name(v)]
      BY <1>5, <2>1
    <2> QED
      BY <1>3, <2>1, <2>2 DEF Written
  <1> QED
    BY <1>6, <1>7, <1>8

(* The PIN that is owed after a crash is in the file. *)
LEMMA CrashOwes ==
  ASSUME StoreInv, Crash, owed' # 0
  PROVE  OnDisk(owed') /\ ~foreign
  <1>1. TypeOK /\ Phased /\ Kept
    BY DEF StoreInv
  <1>2. ~foreign /\ phase \in {"copying", "loading", "up"}
    BY <1>1 DEF Crash, Phased, TypeOK
  <1>3. CASE phase = "copying"
    BY <1>3 DEF Crash
  <1>4. CASE phase = "loading"
    <2>1. owed' = owed
      BY <1>4 DEF Crash
    <2> QED
      BY <1>1, <1>2, <1>4, <2>1 DEF Kept
  <1>5. CASE phase = "up"
    <2>1. owed' = IF Changing("pin") \/ unsaved THEN 0 ELSE mem.second["pin"]
      BY <1>5 DEF Crash
    <2>2. ~Changing("pin") /\ ~unsaved /\ owed' = mem.second["pin"]
      BY <2>1
    <2> QED
      BY <1>1, <1>2, <1>5, <2>2, WorkingMeans DEF Kept
  <1> QED
    BY <1>2, <1>3, <1>4, <1>5

LEMMA CrashKeeps ==
  ASSUME StoreInv, Crash
  PROVE  StoreInv'
  <1>1. /\ TypeOK /\ Phased /\ Locked /\ Shaped /\ Lone /\ Referred /\ Written
        /\ Homely /\ InOrder /\ Current /\ Matched /\ Kept
    BY DEF StoreInv
  <1>2. /\ phase # "down" /\ phase' = "down" /\ thread' = [t \in Threads |-> Idle] /\ holder' = Nothing
        /\ mem' = NoData /\ unsaved' = FALSE /\ crashes < MaxCrashes /\ crashes' = crashes + 1
        /\ cut' = cut \cup {p \in Pairs : Changing(p) \/ unsaved}
        /\ raced' = {} /\ UNCHANGED <<made, disk, foreign, changed, misread, changes>>
    BY DEF Crash, file
  <1>3. /\ obj' \in [Objects -> ProfileType \cup {Nothing}]
        /\ \A v \in Objects : AtHome(obj'[v])
        /\ \A n \in Names : disk.data.profiles[n] # Nothing => obj'[disk.data.profiles[n]] = disk.profiles[n]
    BY <1>1, CrashFacts
  <1>4. ~foreign
    BY <1>1, <1>2 DEF Phased
  <1>5. \A t \in Threads : thread'[t] = Idle
    BY <1>2
  <1>6. owed' \in 0 .. MaxMade
    <2>1. mem.second["pin"] \in 0 .. MaxMade
      BY <1>1, DataFields DEF TypeOK, Pairs, Half
    <2> QED
      BY <1>1, <2>1 DEF Crash, TypeOK
  <1>7. TypeOK'
    <2>1. thread' \in [Threads -> ThreadType] /\ mem' \in DataType
      BY <1>2, ThreadFields, NoDataFields
    <2>2. crashes' \in 0 .. MaxCrashes /\ cut' \subseteq Pairs
      BY <1>1, <1>2 DEF TypeOK
    <2>3. unsaved' \in BOOLEAN /\ foreign' \in BOOLEAN
      BY <1>1, <1>2 DEF TypeOK
    <2> QED
      BY <1>1, <1>2, <1>3, <1>6, <2>1, <2>2, <2>3 DEF TypeOK
  <1>8. Phased' /\ Locked' /\ Shaped' /\ Lone'
    BY <1>2, <1>4, <1>5, ThreadFields DEF Phased, Locked, Shaped, Lone
  <1>9. Referred'
    <2>1. Made(disk.data.profiles)'
      BY <1>1, <1>2, <1>3 DEF Made, Written
    <2> QED
      BY <1>2, <1>5, <2>1, ThreadFields, NoDataFields DEF Referred, Made
  <1>10. Written'
    BY <1>1, <1>2, <1>3 DEF Written
  <1>11. Homely'
    BY <1>1, <1>2, <1>3, <1>5, ThreadFields DEF Homely, AtHome
  <1>12. InOrder' /\ Current'
    BY <1>1, <1>2, NoDataFields DEF InOrder, Ordered, Current
  <1>13. Matched'
    <2>1. \A p \in Pairs : Matches(disk.data, p)'
      BY <1>1, <1>2, WorkingMeans DEF Matched, Matches
    <2> QED
      BY <1>2, <2>1 DEF Matched
  <1>14. Kept'
    <2>1. owed' # 0 => OnDisk(owed')
      BY CrashOwes
    <2> QED
      BY <1>2, <1>4, <2>1 DEF Kept, OnDisk
  <1>15. DiskCatchesUp'
    BY <1>2 DEF DiskCatchesUp
  <1> QED
    BY <1>7, <1>8, <1>9, <1>10, <1>11, <1>12, <1>13, <1>14, <1>15 DEF StoreInv

(***************************************************************************)
(* The theorems.                                                           *)
(***************************************************************************)
LEMMA NextKeeps ==
  ASSUME StoreInv, [Next]_vars
  PROVE  StoreInv'
  <1>1. CASE UNCHANGED vars
    BY <1>1, StutterKeeps
  <1>2. CASE MigrationBegins \/ MigrationEnds \/ MigrationFails
    BY <1>2, MigrationKeeps
  <1>3. CASE Load
    BY <1>3, LoadKeeps
  <1>4. CASE Crash
    BY <1>4, CrashKeeps
  <1>5. CASE OtherUser
    BY <1>5, OtherUserKeeps
  <1>6. ASSUME NEW h \in Hosts, KeyChanges(h) PROVE StoreInv'
    BY <1>6, KeyChangesKeeps
  <1>7. CASE MakePair(Gui, "pin") \/ MakePair(Tls, "tls")
    BY <1>7, ThreadKinds, MakePairKeeps DEF Pairs
  <1>8. ASSUME NEW t \in Workers, NEW n \in Names, EditProfile(t, n) PROVE StoreInv'
    BY <1>8, EditProfileKeeps
  <1>9. ASSUME NEW t \in Workers, NEW n \in Names, Dial(t, n) PROVE StoreInv'
    BY <1>9, DialKeeps
  <1>10. ASSUME NEW t \in Threads, EndPair(t) PROVE StoreInv'
    BY <1>10, EndPairKeeps
  <1>11. ASSUME NEW t \in Threads, ReplaceList(t) PROVE StoreInv'
    BY <1>11, ReplaceListKeeps
  <1>12. ASSUME NEW t \in Threads, Trust(t) PROVE StoreInv'
    BY <1>12, TrustKeeps
  <1>13. ASSUME NEW t \in Threads, Answers(t) \/ DialEnds(t) PROVE StoreInv'
    BY <1>13, AnswersKeeps, DialEndsKeeps
  <1>14. ASSUME NEW t \in Threads, SaveBegins(t) PROVE StoreInv'
    BY <1>14, SaveBeginsKeeps
  <1>15. ASSUME NEW t \in Threads, SaveEnds(t) PROVE StoreInv'
    BY <1>15, SaveEndsKeeps
  <1>16. ASSUME NEW t \in Threads, SaveFails(t) PROVE StoreInv'
    BY <1>16, SaveFailsKeeps
  <1> HIDE DEF StoreInv
  <1> QED
    BY <1>1, <1>2, <1>3, <1>4, <1>5, <1>6, <1>7, <1>8, <1>9, <1>10, <1>11, <1>12, <1>13, <1>14,
       <1>15, <1>16 DEF Next

(* The inductive invariant holds in every behaviour: what each thread, the *)
(* copy of a save and config.json have of the dictionary, at every step.   *)
THEOREM StoreInvariant == Spec => []StoreInv
  BY InitKeeps, NextKeeps, PTL DEF Spec

(* The dictionary, the threads that write it, the lock of the save and the *)
(* file are of their types.                                                *)
THEOREM TypeCorrect == Spec => []TypeOK
  <1>1. StoreInv => TypeOK
    BY DEF StoreInv
  <1> QED
    BY StoreInvariant, <1>1, PTL

(* Once every writer is back from its save, and none has failed,           *)
(* config.json says what the dictionary says: save() of config.py never    *)
(* leaves an overtaken copy as the last word.                              *)
THEOREM FileCatchesUp == Spec => []DiskCatchesUp
  <1>1. StoreInv => DiskCatchesUp
    BY DEF StoreInv
  <1> QED
    BY StoreInvariant, <1>1, PTL

(* The PIN goes with its hash and the certificate with its key, except     *)
(* while a thread is between the two assignments, or after a crash that    *)
(* has cut that pair.                                                      *)
THEOREM PairsStayTogether == Spec => []PairsMatch
  <1>1. StoreInv => PairsMatch
    BY DEF StoreInv, Matched, Matches, PairsMatch
  <1> QED
    BY StoreInvariant, <1>1, PTL

(* Nothing but the load makes a process that is down run. *)
LEMMA OnlyLoadStarts ==
  ASSUME StoreInv, [Next]_vars, phase = "down", phase' \in {"loading", "up"}
  PROVE  Load
  <1>1. (\A t \in Threads : thread[t].at = "idle") /\ holder = Nothing
    BY DEF StoreInv, Phased
  <1>2. phase' # phase
    OBVIOUS
  <1>3. CASE UNCHANGED vars
    BY <1>2, <1>3 DEF vars
  <1>4. CASE MigrationBegins \/ MigrationEnds \/ MigrationFails \/ Crash \/ OtherUser
    BY <1>4 DEF MigrationBegins, MigrationEnds, MigrationFails, Crash, OtherUser
  <1>5. ASSUME NEW h \in Hosts, KeyChanges(h) PROVE FALSE
    BY <1>5 DEF KeyChanges
  <1>6. CASE MakePair(Gui, "pin") \/ MakePair(Tls, "tls")
    BY <1>6 DEF MakePair, Begins
  <1>7. ASSUME NEW t \in Workers, NEW n \in Names, EditProfile(t, n) \/ Dial(t, n) PROVE FALSE
    BY <1>7 DEF EditProfile, Dial, Begins
  <1>8. ASSUME NEW t \in Threads,
               \/ EndPair(t) \/ ReplaceList(t) \/ Answers(t) \/ Trust(t) \/ DialEnds(t)
               \/ SaveBegins(t) \/ SaveEnds(t) \/ SaveFails(t)
        PROVE  FALSE
    BY <1>1, <1>8 DEF EndPair, ReplaceList, Answers, Trust, DialEnds, SaveBegins, SaveEnds, SaveFails
  <1> QED
    BY <1>3, <1>4, <1>5, <1>6, <1>7, <1>8 DEF Next

(* A restart brings back the PIN the phones know, whenever the process     *)
(* died: load() of config.py finds it in the file.  The one way to lose it *)
(* is that start itself, when it fails in reading the file or in           *)
(* deciphering the PIN in it.                                              *)
THEOREM PinComesBack == Spec => PinSurvives
  <1>1. ASSUME StoreInv, [Next]_vars
        PROVE  [\A pin \in 1 .. MaxMade :
                  phase = "down" /\ phase' \in {"loading", "up"} /\ owed = pin
                    => mem'.second["pin"] = pin \/ misread']_vars
    <2> SUFFICES ASSUME NEW pin \in 1 .. MaxMade,
                        phase = "down", phase' \in {"loading", "up"}, owed = pin
                 PROVE  mem'.second["pin"] = pin \/ misread'
      OBVIOUS
    <2>1. Load
      BY <1>1, OnlyLoadStarts
    <2>2. TypeOK /\ Kept /\ InOrder /\ owed # 0
      BY <1>1 DEF StoreInv
    <2> QED
      BY <2>1, <2>2, LoadBringsBack
  <1> QED
    BY StoreInvariant, <1>1, PTL DEF Spec, PinSurvives

(* The key of a profile that has one stays while the process runs, unless  *)
(* two first connections were both about to give it one.                   *)
LEMMA KeysStay ==
  ASSUME StoreInv, [Next]_vars, NEW v \in Objects, v \notin raced, phase' = "up",
         obj[v] # Nothing, obj'[v] # Nothing, obj[v].hostkey # Nothing
  PROVE  obj'[v].hostkey = obj[v].hostkey
  <1>1. CASE obj' = obj
    BY <1>1
  <1>2. ASSUME NEW t \in Threads, ReplaceList(t) PROVE obj'[v] = obj[v]
    <2>1. obj \in [Objects -> ProfileType \cup {Nothing}]
      BY DEF StoreInv, TypeOK
    <2>2. obj' = obj \/ \E w \in Objects : obj[w] = Nothing /\ obj' = [obj EXCEPT ![w] = thread[t].new]
      BY <1>2 DEF ReplaceList
    <2> QED
      BY <2>1, <2>2
  <1>3. ASSUME NEW t \in Threads, Trust(t) PROVE obj'[v] = obj[v]
    BY <1>3, TrustFacts DEF StoreInv
  <1>4. CASE Crash
    BY <1>4 DEF Crash
  <1>5. CASE UNCHANGED vars \/ MigrationBegins \/ MigrationEnds \/ MigrationFails \/ OtherUser
    BY <1>1, <1>5 DEF vars, store, MigrationBegins, MigrationEnds, MigrationFails, OtherUser
  <1>6. CASE Load
    BY <1>1, <1>6 DEF Load, LoadWith
  <1>7. ASSUME NEW h \in Hosts, KeyChanges(h) PROVE obj' = obj
    BY <1>7 DEF KeyChanges, store
  <1>8. CASE MakePair(Gui, "pin") \/ MakePair(Tls, "tls")
    BY <1>1, <1>8 DEF MakePair
  <1>9. ASSUME NEW t \in Workers, NEW n \in Names, EditProfile(t, n) \/ Dial(t, n) PROVE obj' = obj
    BY <1>9 DEF EditProfile, Dial, store
  <1>10. ASSUME NEW t \in Threads,
                EndPair(t) \/ Answers(t) \/ DialEnds(t) \/ SaveBegins(t) \/ SaveEnds(t) \/ SaveFails(t)
         PROVE  obj' = obj
    BY <1>10 DEF EndPair, Answers, DialEnds, SaveBegins, SaveEnds, SaveFails, store
  <1> QED
    BY <1>1, <1>2, <1>3, <1>4, <1>5, <1>6, <1>7, <1>8, <1>9, <1>10 DEF Next

(* A saved password is for the host, port and user it was typed for, a     *)
(* host key for the host that showed it, and the first key stays: whatever *)
(* save_profile(), delete_profile() and connect() of sftp.py do at once.   *)
(* Only two connections that both find no key, each before the other has   *)
(* written its own, can replace it: the profile is then in raced.          *)
THEOREM SecretsAtHome == Spec => SecretsStayHome
  <1>1. StoreInv => \A v \in Objects : obj[v] # Nothing =>
          /\ obj[v].secret \in {Nothing, obj[v].dest}
          /\ obj[v].hostkey = Nothing \/ obj[v].hostkey[1] = obj[v].dest[1]
    BY DEF StoreInv, Homely, AtHome
  <1>2. ASSUME StoreInv, [Next]_vars
        PROVE  [\A v \in Objects \ raced :
                  phase' = "up" /\ obj[v] # Nothing /\ obj'[v] # Nothing /\ obj[v].hostkey # Nothing
                    => obj'[v].hostkey = obj[v].hostkey]_vars
    BY <1>2, KeysStay
  <1> QED
    BY StoreInvariant, <1>1, <1>2, PTL DEF Spec, SecretsStayHome
=============================================================================
