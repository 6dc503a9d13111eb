------------------------------ MODULE ConfigStore ------------------------------
(***************************************************************************)
(* config.json: the dictionary every thread reads and writes (config.py),  *)
(* the save to disk, and what its writers keep in it - the PIN and its     *)
(* hash (config.py), the certificate and its key (tls.py), the profiles of *)
(* the file manager with their secrets (sftp.py).                          *)
(*                                                                         *)
(* A writer changes the dictionary first, one key at a time, and saves it  *)
(* afterwards; only the saves exclude each other.  PINs and certificates   *)
(* are numbered as they are made, 0 is none.  Profiles are objects: a      *)
(* thread that has found one keeps it, whatever takes its place.           *)
(***************************************************************************)
EXTENDS Integers, FiniteSets

CONSTANTS
  Gui,       (* main() until the services run, then the tray's thread      *)
  Tls,       (* the thread that looks for a certificate                    *)
  Workers,   (* threads of the SFTP pool                                   *)
  Names,     (* of profiles                                                *)
  Hosts,     (* host and port of a profile                                 *)
  Users,
  Nothing,
  MaxMade,   (* bound: PINs, and certificates, made                        *)
  Objects,   (* bound: the profile objects that can be made                *)
  MaxChanges,(* bound: changes begun                                       *)
  MaxCrashes (* bound                                                      *)

Threads == {Gui, Tls} \cup Workers
Pairs == {"pin", "tls"}
Dests == Hosts \X Users
Keys == Hosts \X BOOLEAN
ProfileType == [dest : Dests, secret : Dests \cup {Nothing}, hostkey : Keys \cup {Nothing}]
DataType == [first : [Pairs -> 0 .. MaxMade], second : [Pairs -> 0 .. MaxMade],
             profiles : [Names -> Objects \cup {Nothing}]]
ThreadType == [at : {"idle", "half", "edit", "dial", "trust", "save", "saving"},
               pair : Pairs \cup {"none"},
               seen : Objects \cup {Nothing}, key : Keys \cup {Nothing},
               list : [Names -> Objects \cup {Nothing}],
               name : Names \cup {Nothing}, new : ProfileType \cup {Nothing}]
HolderType == [thread : Threads, copy : DataType]
FileType == [state : {"absent", "broken", "whole"}, data : DataType,
             profiles : [Names -> ProfileType \cup {Nothing}]]

ASSUME ConfigAssumption ==
  /\ Gui # Tls /\ {Gui, Tls} \cap Workers = {} /\ Nothing \notin Threads
  /\ Nothing \notin Hosts \cup Objects \cup Keys \cup ProfileType \cup HolderType
  /\ MaxMade \in Nat \ {0} /\ MaxChanges \in Nat /\ MaxCrashes \in Nat

VARIABLES
  phase,    (* of the process: "down", "copying", "loading" or "up"        *)
  made,     (* the PINs and certificates made so far                       *)
  mem,      (* Config.data                                                 *)
  obj,      (* the profile objects, Nothing when not made yet              *)
  thread,   (* what each thread is doing                                   *)
  holder,   (* who holds Config._lock, with its shallow copy of the data   *)
  disk,     (* config.json: absent, broken or what was saved last          *)
  foreign,  (* DPAPI has another user's key since the file was written     *)
  changed,  (* the hosts that show another key than they used to           *)
  misread,  (* history: the last start could not read a whole file, or the *)
            (* PIN in it                                                   *)
  raced,    (* history: the profiles two first connections were both about *)
            (* to give a key                                               *)
  unsaved,  (* history: the last save failed, or a secret was dropped      *)
  owed,     (* history: the PIN a restart must bring back, or 0            *)
  cut,      (* history: the pairs whose last change was not saved at a crash *)
  changes,
  crashes

store == <<mem, obj, made, raced>>
file == <<disk, foreign, changed, misread>>
history == <<unsaved, owed, cut, changes, crashes>>
vars == <<phase, store, thread, holder, file, history>>

Idle == [at |-> "idle", pair |-> "none", seen |-> Nothing, key |-> Nothing,
         list |-> [n \in Names |-> Nothing], name |-> Nothing, new |-> Nothing]
NoData == [first |-> [p \in Pairs |-> 0], second |-> [p \in Pairs |-> 0],
           profiles |-> [n \in Names |-> Nothing]]
File(state, data, profiles) == [state |-> state, data |-> data, profiles |-> profiles]
NoFile == File("absent", NoData, [n \in Names |-> Nothing])

(* The file an older version, or a run under the old name, has left.       *)
FirstFile == File("whole", [NoData EXCEPT !.first["pin"] = 1, !.second["pin"] = 1],
                  [n \in Names |-> Nothing])

Init ==
  /\ phase = "down" /\ made = [p \in Pairs |-> IF p = "pin" THEN 1 ELSE 0]
  /\ mem = NoData /\ obj = [v \in Objects |-> Nothing]
  /\ thread = [t \in Threads |-> Idle] /\ holder = Nothing
  /\ disk \in {NoFile, FirstFile} /\ foreign = FALSE /\ changed = {}
  /\ misread = FALSE /\ raced = {}
  /\ unsaved = FALSE /\ owed = (IF disk = NoFile THEN 0 ELSE 1) /\ cut = {}
  /\ changes = 0 /\ crashes = 0

Begins(t) ==
  /\ phase = "up" /\ thread[t] = Idle
  /\ changes < MaxChanges /\ changes' = changes + 1
Becomes(t, s) == thread' = [thread EXCEPT ![t] = s]

-----------------------------------------------------------------------------
(* Start.                                                                  *)

(* migrate_legacy(): there is no config.json, an older program's is copied *)
(* over it, which a crash can leave half done.                             *)
MigrationBegins ==
  /\ phase = "down" /\ disk.state = "absent"
  /\ phase' = "copying"
  /\ disk' = [FirstFile EXCEPT !.state = "broken"]
  /\ owed' = 1
  /\ UNCHANGED <<store, thread, holder, foreign, changed, misread, unsaved, cut, changes, crashes>>

MigrationEnds ==
  /\ phase = "copying"
  /\ phase' = "down"
  /\ disk' = FirstFile
  /\ UNCHANGED <<store, thread, holder, foreign, changed, misread, history>>

(* The copy fails, with nothing, a part or all of the file written: the    *)
(* process goes on to load() all the same.                                 *)
MigrationFails ==
  /\ phase = "copying"
  /\ phase' = "down"
  /\ \E state \in {"absent", "broken", "whole"} :
       /\ disk' = IF state = "absent" THEN NoFile ELSE [FirstFile EXCEPT !.state = state]
       /\ owed' = IF state = "whole" THEN owed ELSE 0
  /\ UNCHANGED <<store, thread, holder, foreign, changed, misread, unsaved, cut, changes, crashes>>

NewPin == made["pin"] + 1

(* Where load() goes on: a PIN is missing and made, or everything is here. *)
LoadWith(data) ==
  /\ foreign' = FALSE
  /\ IF data.second["pin"] = 0
     THEN /\ NewPin <= MaxMade
          /\ made' = [made EXCEPT !["pin"] = NewPin]
          /\ mem' = [data EXCEPT !.first["pin"] = NewPin, !.second["pin"] = NewPin]
          /\ phase' = "loading" /\ Becomes(Gui, [Idle EXCEPT !.at = "save"])
     ELSE /\ mem' = data /\ UNCHANGED made
          /\ \/ phase' = "up" /\ UNCHANGED thread
             \/ phase' = "loading" /\ Becomes(Gui, [Idle EXCEPT !.at = "save"])
  /\ unsaved' = (data.first["tls"] # disk.data.first["tls"])
  /\ UNCHANGED <<obj, raced, holder, disk, changed, owed, cut, changes, crashes>>

(* The secrets DPAPI gives back: those of another user it never does, its  *)
(* own user's it may fail to.                                              *)
Unprotected == IF foreign THEN {{}} ELSE SUBSET Pairs

(* Variant: of a secret that cannot be deciphered only the secret goes. *)
LoadKeepsHash ==
  /\ phase = "down"
  /\ \E read \in {FALSE, disk.state = "whole"}, known \in Unprotected :
       /\ LoadWith([first |-> [p \in Pairs |-> IF read /\ p \in known THEN disk.data.first[p] ELSE 0],
                    second |-> IF read THEN disk.data.second ELSE NoData.second,
                    profiles |-> IF read THEN disk.data.profiles ELSE NoData.profiles])
       /\ misread' = (disk.state = "whole" /\ ~(read /\ "pin" \in known))

(* Config.load(): whatever goes wrong in reading the file, there is none;  *)
(* a secret that cannot be deciphered takes its hash, or its certificate,  *)
(* with it; secrets found in clear are saved again.                        *)
Load ==
  /\ phase = "down"
  /\ \E read \in {FALSE, disk.state = "whole"}, known \in Unprotected :
       /\ LoadWith([first |-> [p \in Pairs |-> IF read /\ p \in known THEN disk.data.first[p] ELSE 0],
                    second |-> [p \in Pairs |-> IF read /\ p \in known /\ disk.data.first[p] # 0
                                                THEN disk.data.second[p] ELSE 0],
                    profiles |-> IF read THEN disk.data.profiles ELSE NoData.profiles])
       /\ misread' = (disk.state = "whole" /\ ~(read /\ "pin" \in known))

-----------------------------------------------------------------------------
(* The writers.                                                            *)

(* set_pin() of the tray, _genera() of a certificate: the first half ...   *)
MakePair(t, p) ==
  /\ Begins(t) /\ made[p] < MaxMade
  /\ made' = [made EXCEPT ![p] = @ + 1]
  /\ mem' = [mem EXCEPT !.first[p] = made[p] + 1]
  /\ Becomes(t, [Idle EXCEPT !.at = "half", !.pair = p])
  /\ UNCHANGED <<phase, obj, raced, holder, file, unsaved, owed, cut, crashes>>

(* ... and the second. *)
EndPair(t) ==
  /\ thread[t].at = "half"
  /\ mem' = [mem EXCEPT !.second[thread[t].pair] = mem.first[thread[t].pair]]
  /\ Becomes(t, [thread[t] EXCEPT !.at = "save"])
  /\ UNCHANGED <<phase, obj, made, raced, holder, file, history>>

(* Variant: a password is kept for the host, whoever the user is. *)
ProfileOfHost(d, typed, old) ==
  [dest |-> d, secret |-> IF typed THEN d[1] ELSE IF old # Nothing THEN old.secret ELSE Nothing,
   hostkey |-> IF old # Nothing /\ old.dest[1] = d[1] THEN old.hostkey ELSE Nothing]

(* Profile of a message: its password, if one was typed, is for its        *)
(* destination; without one the saved secret is kept if it is for that     *)
(* destination, and the host key if it is of that host.                    *)
Profile(d, typed, old) ==
  [dest |-> d,
   secret |-> IF typed THEN d ELSE IF old # Nothing /\ old.dest = d THEN old.secret ELSE Nothing,
   hostkey |-> IF old # Nothing /\ old.dest[1] = d[1] THEN old.hostkey ELSE Nothing]

(* What can take the place of a profile: nothing, or what a message makes  *)
(* of it.                                                                  *)
Edited(n) ==
  LET old == IF mem.profiles[n] = Nothing THEN Nothing ELSE obj[mem.profiles[n]]
  IN  {Profile(d, typed, old) : d \in Dests, typed \in BOOLEAN} \cup {Nothing}

(* save_profile() and delete_profile(): the list is read ... *)
EditProfile(t, n) ==
  /\ Begins(t)
  /\ \E new \in Edited(n) :
       Becomes(t, [Idle EXCEPT !.at = "edit", !.list = mem.profiles, !.name = n, !.new = new])
  /\ UNCHANGED <<phase, store, holder, file, unsaved, owed, cut, crashes>>

(* ... and a list made from what was read takes its place. *)
ReplaceList(t) ==
  /\ thread[t].at = "edit"
  /\ LET s == thread[t]
     IN  IF s.new = Nothing
         THEN mem' = [mem EXCEPT !.profiles = [s.list EXCEPT ![s.name] = Nothing]] /\ UNCHANGED obj
         ELSE \E v \in Objects :
                /\ obj[v] = Nothing /\ v = CHOOSE u \in Objects : obj[u] = Nothing
                /\ obj' = [obj EXCEPT ![v] = s.new]
                /\ mem' = [mem EXCEPT !.profiles = [s.list EXCEPT ![s.name] = v]]
  /\ Becomes(t, [Idle EXCEPT !.at = "save"])
  /\ UNCHANGED <<phase, made, raced, holder, file, history>>

(* What the connector reports of the host it has reached. *)
Fingerprint(h) == <<h, h \in changed>>

(* connect(): the profile is found, with the key the host must show, if it *)
(* is known ...                                                            *)
Dial(t, n) ==
  /\ Begins(t) /\ mem.profiles[n] # Nothing
  /\ LET v == mem.profiles[n]
     IN  Becomes(t, [Idle EXCEPT !.at = "dial", !.seen = v, !.key = obj[v].hostkey, !.name = n])
  /\ UNCHANGED <<phase, store, holder, file, unsaved, owed, cut, crashes>>

(* Variant: whether a key is known is what was read before the connection. *)
AnswersLastSeen(t) ==
  /\ thread[t].at = "dial" /\ thread[t].key = Nothing
  /\ Becomes(t, [thread[t] EXCEPT !.at = "trust", !.key = Fingerprint(obj[thread[t].seen].dest[1])])
  /\ UNCHANGED <<phase, store, holder, file, history>>

(* ... the host answers, and the profile that was found still has no key   *)
(* ...                                                                     *)
Answers(t) ==
  /\ thread[t].at = "dial" /\ obj[thread[t].seen].hostkey = Nothing
  /\ Becomes(t, [thread[t] EXCEPT !.at = "trust", !.key = Fingerprint(obj[thread[t].seen].dest[1])])
  /\ UNCHANGED <<phase, store, holder, file, history>>

WithKey(t) == [obj EXCEPT ![thread[t].seen].hostkey = thread[t].key]
Raced(t) == raced \cup {v \in {thread[t].seen} :
                          \E u \in Threads \ {t} : thread[u].at = "trust" /\ thread[u].seen = v}

(* Variant: the key goes into the profile that has the name by now. *)
TrustByName(t) ==
  /\ thread[t].at = "trust"
  /\ LET v == mem.profiles[thread[t].name]
     IN  v # Nothing /\ obj' = [obj EXCEPT ![v].hostkey = thread[t].key]
  /\ raced' = Raced(t)
  /\ Becomes(t, [Idle EXCEPT !.at = "save"])
  /\ UNCHANGED <<phase, mem, made, holder, file, history>>

(* Variant: the key is kept, but not saved. *)
TrustUnsaved(t) ==
  /\ thread[t].at = "trust"
  /\ obj' = WithKey(t) /\ raced' = Raced(t)
  /\ Becomes(t, Idle)
  /\ UNCHANGED <<phase, mem, made, holder, file, history>>

(* ... and is given the one the host has shown.  Nothing keeps another     *)
(* thread from having come as far by then.                                 *)
Trust(t) ==
  /\ thread[t].at = "trust"
  /\ obj' = WithKey(t) /\ raced' = Raced(t)
  /\ Becomes(t, [Idle EXCEPT !.at = "save"])
  /\ UNCHANGED <<phase, mem, made, holder, file, history>>

(* There is no connection - no answer, another key than the known one, a   *)
(* password that is not accepted - or the host was known.                  *)
DialEnds(t) ==
  /\ thread[t].at = "dial"
  /\ Becomes(t, Idle)
  /\ UNCHANGED <<phase, store, holder, file, history>>

-----------------------------------------------------------------------------
(* Config.save().                                                          *)

Content(data) == [n \in Names |-> IF data.profiles[n] = Nothing THEN Nothing
                                  ELSE obj[data.profiles[n]]]

(* Variant: config.json itself is opened for writing. *)
SaveBeginsInPlace(t) ==
  /\ thread[t].at = "save" /\ holder = Nothing
  /\ holder' = [thread |-> t, copy |-> mem]
  /\ Becomes(t, [thread[t] EXCEPT !.at = "saving"])
  /\ disk' = [disk EXCEPT !.state = "broken"]
  /\ UNCHANGED <<phase, store, foreign, changed, misread, history>>

(* The lock is taken, the temporary file opened, the dictionary copied.    *)
SaveBegins(t) ==
  /\ thread[t].at = "save" /\ holder = Nothing
  /\ holder' = [thread |-> t, copy |-> mem]
  /\ Becomes(t, [thread[t] EXCEPT !.at = "saving"])
  /\ UNCHANGED <<phase, store, file, history>>

(* The copy is written and replaces config.json.  The profiles in it are   *)
(* the objects themselves, and are written as they are by then.            *)
SaveEnds(t) ==
  /\ holder # Nothing /\ holder.thread = t
  /\ disk' = File("whole", holder.copy, Content(holder.copy))
  /\ holder' = Nothing /\ Becomes(t, Idle) /\ phase' = "up"
  /\ unsaved' = FALSE
  /\ UNCHANGED <<store, foreign, changed, misread, owed, cut, changes, crashes>>

(* A save never raises: what went wrong is logged. *)
SaveFails(t) ==
  /\ holder # Nothing /\ holder.thread = t
  /\ holder' = Nothing /\ Becomes(t, Idle) /\ phase' = "up"
  /\ unsaved' = TRUE
  /\ UNCHANGED <<store, file, owed, cut, changes, crashes>>

-----------------------------------------------------------------------------
Changing(p) == \E t \in Threads : thread[t].at \in {"half", "save", "saving"} /\ thread[t].pair = p
Busy == \E t \in Threads : thread[t].at \in {"half", "save", "saving"}

(* The process dies: the profiles become what the file has of them.        *)
Crash ==
  /\ phase # "down" /\ crashes < MaxCrashes
  /\ phase' = "down" /\ crashes' = crashes + 1
  /\ owed' = CASE phase = "copying" -> 0
               [] phase = "loading" -> owed
               [] OTHER -> IF Changing("pin") \/ unsaved THEN 0 ELSE mem.second["pin"]
  /\ cut' = cut \cup {p \in Pairs : Changing(p) \/ unsaved}
  /\ thread' = [t \in Threads |-> Idle] /\ holder' = Nothing /\ mem' = NoData
  /\ unsaved' = FALSE /\ raced' = {}
  /\ obj' = [v \in Objects |-> IF \E n \in Names : disk.data.profiles[n] = v
                              THEN disk.profiles[CHOOSE n \in Names : disk.data.profiles[n] = v]
                              ELSE Nothing]
  /\ UNCHANGED <<made, file, changes>>

(* The file is found by another user, or on another PC. *)
OtherUser ==
  /\ phase = "down" /\ disk.state = "whole" /\ ~foreign
  /\ foreign' = TRUE /\ owed' = 0
  /\ UNCHANGED <<phase, store, thread, holder, disk, changed, misread, unsaved, cut, changes, crashes>>

(* A host is set up anew, or somebody else answers in its place. *)
KeyChanges(h) ==
  /\ changed = {} /\ phase = "up"
  /\ changed' = {h}
  /\ UNCHANGED <<phase, store, thread, holder, disk, foreign, misread, history>>

Next ==
  \/ MigrationBegins \/ MigrationEnds \/ MigrationFails \/ Load \/ Crash \/ OtherUser
  \/ \E h \in Hosts : KeyChanges(h)
  \/ MakePair(Gui, "pin") \/ MakePair(Tls, "tls")
  \/ \E t \in Workers, n \in Names : EditProfile(t, n) \/ Dial(t, n)
  \/ \E t \in Threads :
       \/ EndPair(t) \/ ReplaceList(t) \/ Answers(t) \/ Trust(t) \/ DialEnds(t)
       \/ SaveBegins(t) \/ SaveEnds(t) \/ SaveFails(t)

Spec == Init /\ [][Next]_vars

-----------------------------------------------------------------------------
(* Types. *)
TypeOK ==
  /\ phase \in {"down", "copying", "loading", "up"}
  /\ made \in [Pairs -> 0 .. MaxMade]
  /\ mem \in DataType
  /\ obj \in [Objects -> ProfileType \cup {Nothing}]
  /\ thread \in [Threads -> ThreadType]
  /\ holder \in HolderType \cup {Nothing}
  /\ disk \in FileType
  /\ foreign \in BOOLEAN /\ changed \subseteq Hosts /\ unsaved \in BOOLEAN
  /\ misread \in BOOLEAN /\ raced \subseteq Objects
  /\ owed \in 0 .. MaxMade /\ cut \subseteq Pairs /\ changes \in 0 .. MaxChanges /\ crashes \in 0 .. MaxCrashes

(* Once every thread that changed something has come back from its save,   *)
(* and none has failed, the file says what memory says: no save takes a    *)
(* copy that another has overtaken.                                        *)
DiskCatchesUp ==
  phase = "up" /\ ~Busy /\ ~unsaved =>
    disk = File("whole", mem, Content(mem))

(* The PIN shown is the PIN accepted, and the certificate goes with the    *)
(* key, whenever nobody is between the two assignments: also after a       *)
(* restart, unless the process died before that pair had been saved.       *)
PairsMatch ==
  phase = "up" => \A p \in Pairs :
    p \in cut \/ mem.first[p] = mem.second[p]
    \/ \E t \in Threads : thread[t].at = "half" /\ thread[t].pair = p

(* A restart brings back the PIN the phones know ("un crash a meta'        *)
(* lasciava un file vuoto (PIN dei telefoni perso)"), whenever the process *)
(* died: in the middle of a save, of a load or of a change of the rest.    *)
(* What it does not survive is a start that fails in reading a file that   *)
(* is whole, or the PIN in it: load() makes a new PIN and saves it over    *)
(* the old one.  And that of an older program is lost if its file cannot   *)
(* be copied.                                                              *)
PinSurvives ==
  [][\A pin \in 1 .. MaxMade :
       phase = "down" /\ phase' \in {"loading", "up"} /\ owed = pin
         => mem'.second["pin"] = pin \/ misread']_vars

(* A saved password is only ever sent to the host, port and user it was    *)
(* typed for, and a key is only trusted for the host that showed it, also  *)
(* when the profile is changed while a connection is being made.  And the  *)
(* first key stays, unless two connections of one profile had both been    *)
(* answered, and found none, before either had written its own: otherwise  *)
(* the one that ends last does not put the key of a host that has changed  *)
(* in its place.                                                           *)
SecretsStayHome ==
  /\ [](\A v \in Objects : obj[v] # Nothing =>
           /\ obj[v].secret \in {Nothing, obj[v].dest}
           /\ obj[v].hostkey = Nothing \/ obj[v].hostkey[1] = obj[v].dest[1])
  /\ [][\A v \in Objects \ raced :
          phase' = "up" /\ obj[v] # Nothing /\ obj'[v] # Nothing /\ obj[v].hostkey # Nothing
            => obj'[v].hostkey = obj[v].hostkey]_vars

=============================================================================
