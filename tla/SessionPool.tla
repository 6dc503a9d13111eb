------------------------------ MODULE SessionPool ------------------------------
(***************************************************************************)
(* The pool of terminal sessions (SessionManager.create, kill and the ends *)
(* of _read_loop in sessions.py), the pseudoconsole under each of them     *)
(* (ConPTY in conpty.py) and the threads that read them (executors.py).    *)
(*                                                                         *)
(* Four parties share a ConPTY: the event loop, which creates and closes   *)
(* it; a worker of PTY_READ, blocked in ReadFile as long as the shell is   *)
(* silent; the thread that waits for the process to exit; and the process. *)
(* Conhost keeps the output pipe open after the process has exited: only   *)
(* closing the pseudoconsole ends the read.                                *)
(***************************************************************************)
EXTENDS Naturals, Sequences, FiniteSets

CONSTANTS
  Sids,         (* bound: sessions under way at a time, ended ones too     *)
  MaxSessions,  (* MAX_SESSIONS                                            *)
  ReadWorkers,  (* PTY_READ_WORKERS                                        *)
  Drains,       (* a Windows whose ClosePseudoConsole waits for the output *)
                (* to be read                                              *)
  NoSid

ASSUME PoolAssumption ==
  /\ MaxSessions \in Nat \ {0} /\ ReadWorkers \in Nat /\ ReadWorkers >= MaxSessions
  /\ Drains \in BOOLEAN /\ NoSid \notin Sids

VARIABLES
  dict,     (* SessionManager._sessions                                    *)
  alive,    (* PTYSession.alive                                            *)
  process,  (* "none", "running" or "exited"                               *)
  hpc,      (* self._hpc is set                                            *)
  console,  (* the pseudoconsole: "none", "open", "closed" or "twice"      *)
  pipes,    (* stdin, stdout and process handles: "none", "open", "closed" *)
  output,   (* there is output nobody has read                             *)
  task,     (* where the read loop of the session is                       *)
  queue,    (* reads that wait for a worker                                *)
  waiter,   (* the thread that waits for the process                       *)
  loop      (* the call to close() the event loop is in, if any            *)

pty == <<process, hpc, console, pipes, output>>
vars == <<dict, alive, pty, task, queue, waiter, loop>>

Free == [op |-> "none", sid |-> NoSid, at |-> "none"]

Init ==
  /\ dict = {} /\ alive = [s \in Sids |-> FALSE]
  /\ process = [s \in Sids |-> "none"] /\ hpc = [s \in Sids |-> FALSE]
  /\ console = [s \in Sids |-> "none"] /\ pipes = [s \in Sids |-> "none"]
  /\ output = [s \in Sids |-> FALSE]
  /\ task = [s \in Sids |-> "none"] /\ queue = <<>>
  /\ waiter = [s \in Sids |-> "none"] /\ loop = Free

Over(s) == task[s] \in {"none", "done"} /\ waiter[s] \in {"none", "ended"}

-----------------------------------------------------------------------------
(* The event loop: one callback at a time.                                 *)

(* create(): there is room, the pty starts, and its read loop is a task.   *)
(* Without a duplicate of the process handle nobody waits for the process. *)
Create(s) ==
  /\ loop = Free /\ Cardinality(dict) < MaxSessions /\ Over(s)
  /\ dict' = dict \cup {s} /\ alive' = [alive EXCEPT ![s] = TRUE]
  /\ process' = [process EXCEPT ![s] = "running"] /\ hpc' = [hpc EXCEPT ![s] = TRUE]
  /\ console' = [console EXCEPT ![s] = "open"] /\ pipes' = [pipes EXCEPT ![s] = "open"]
  /\ output' = [output EXCEPT ![s] = FALSE]
  /\ \E w \in {"waiting", "none"} : waiter' = [waiter EXCEPT ![s] = w]
  /\ task' = [task EXCEPT ![s] = "new"]
  /\ UNCHANGED <<queue, loop>>

Submit(s) ==
  /\ task' = [task EXCEPT ![s] = "queued"] /\ queue' = Append(queue, s)

(* close() begins: the process is terminated. *)
CloseBegins(s, op) ==
  /\ alive' = [alive EXCEPT ![s] = FALSE]
  /\ loop' = [op |-> op, sid |-> s, at |-> "console"]
  /\ process' = [process EXCEPT ![s] = IF pipes[s] = "open" THEN "exited" ELSE @]

(* Variant: the session is dropped and its pty left to the read loop. *)
KillLeavesPty(s) ==
  /\ loop = Free /\ s \in dict
  /\ alive' = [alive EXCEPT ![s] = FALSE] /\ dict' = dict \ {s}
  /\ UNCHANGED <<pty, task, queue, waiter, loop>>

Kill(s) ==
  /\ loop = Free /\ s \in dict
  /\ CloseBegins(s, "kill")
  /\ UNCHANGED <<dict, hpc, console, pipes, output, task, queue, waiter>>

(* A turn of _read_loop: at first, or when a read has come back. *)
ReadLoopGoesOn(s) ==
  /\ loop = Free /\ task[s] \in {"new", "data"} /\ alive[s]
  /\ Submit(s)
  /\ UNCHANGED <<dict, alive, pty, waiter, loop>>

ReadLoopEnds(s) ==
  /\ loop = Free
  /\ task[s] = "eof" \/ (task[s] \in {"new", "data"} /\ ~alive[s])
  /\ CloseBegins(s, "end")
  /\ task' = [task EXCEPT ![s] = "ending"]
  /\ UNCHANGED <<dict, hpc, console, pipes, output, queue, waiter>>

(* Variant: the handle is not cleared by who takes it. *)
TakenNotCleared(s) == UNCHANGED hpc

(* The handle of the pseudoconsole is taken and cleared under the lock,    *)
(* and closed outside it.                                                  *)
Taken(s) == hpc' = [hpc EXCEPT ![s] = FALSE]

LoopTakesConsole(s) ==
  /\ loop.sid = s /\ loop.at = "console"
  /\ Taken(s)
  /\ loop' = [loop EXCEPT !.at = IF hpc[s] THEN "closing" ELSE "pipes"]
  /\ UNCHANGED <<dict, alive, process, console, pipes, output, task, queue, waiter>>

MayClose(s) == Drains => ~output[s] \/ pipes[s] = "closed"
ConsoleClosed(s) == console' = [console EXCEPT ![s] = IF @ = "open" THEN "closed" ELSE "twice"]

LoopClosesConsole(s) ==
  /\ loop.sid = s /\ loop.at = "closing" /\ MayClose(s)
  /\ ConsoleClosed(s)
  /\ loop' = [loop EXCEPT !.at = "pipes"]
  /\ UNCHANGED <<dict, alive, process, hpc, pipes, output, task, queue, waiter>>

(* _cleanup() closes the rest, and the session leaves the dictionary. *)
CloseEnds(s) ==
  /\ loop.sid = s /\ loop.at = "pipes"
  /\ pipes' = [pipes EXCEPT ![s] = "closed"]
  /\ dict' = dict \ {s} /\ loop' = Free
  /\ task' = [task EXCEPT ![s] = IF loop.op = "end" THEN "done" ELSE @]
  /\ UNCHANGED <<alive, process, hpc, console, output, queue, waiter>>

-----------------------------------------------------------------------------
(* The workers of PTY_READ.                                                *)

Reading == {s \in Sids : task[s] = "reading"}

WorkerTakes ==
  /\ queue # <<>> /\ Cardinality(Reading) < ReadWorkers
  /\ task' = [task EXCEPT ![Head(queue)] = "reading"] /\ queue' = Tail(queue)
  /\ UNCHANGED <<dict, alive, pty, waiter, loop>>

ReadReturns(s) ==
  /\ task[s] = "reading" /\ pipes[s] = "open" /\ output[s]
  /\ task' = [task EXCEPT ![s] = "data"] /\ output' = [output EXCEPT ![s] = FALSE]
  /\ UNCHANGED <<dict, alive, process, hpc, console, pipes, queue, waiter, loop>>

ReadEof(s) ==
  /\ task[s] = "reading"
  /\ pipes[s] = "closed" \/ (console[s] # "open" /\ ~output[s])
  /\ task' = [task EXCEPT ![s] = "eof"]
  /\ UNCHANGED <<dict, alive, pty, queue, waiter, loop>>

-----------------------------------------------------------------------------
(* The process, and the thread that waits for it.                          *)

(* Conhost has something to show, also after the process has exited. *)
Output(s) ==
  /\ console[s] = "open" /\ ~output[s]
  /\ output' = [output EXCEPT ![s] = TRUE]
  /\ UNCHANGED <<dict, alive, process, hpc, console, pipes, task, queue, waiter, loop>>

Exit(s) ==
  /\ process[s] = "running"
  /\ process' = [process EXCEPT ![s] = "exited"]
  /\ UNCHANGED <<dict, alive, hpc, console, pipes, output, task, queue, waiter, loop>>

(* Variant: the read is left to notice the exit by itself. *)
WaiterOnlyWaits(s) ==
  /\ waiter[s] = "waiting" /\ process[s] = "exited"
  /\ waiter' = [waiter EXCEPT ![s] = "ended"]
  /\ UNCHANGED <<dict, alive, pty, task, queue, loop>>

WaiterWakes(s) ==
  /\ waiter[s] = "waiting" /\ process[s] = "exited"
  /\ Taken(s)
  /\ waiter' = [waiter EXCEPT ![s] = IF hpc[s] THEN "closing" ELSE "ended"]
  /\ UNCHANGED <<dict, alive, process, console, pipes, output, task, queue, loop>>

WaiterCloses(s) ==
  /\ waiter[s] = "closing" /\ MayClose(s)
  /\ ConsoleClosed(s)
  /\ waiter' = [waiter EXCEPT ![s] = "ended"]
  /\ UNCHANGED <<dict, alive, process, hpc, pipes, output, task, queue, loop>>

-----------------------------------------------------------------------------
Closing(s) == LoopTakesConsole(s) \/ LoopClosesConsole(s) \/ CloseEnds(s)

Next ==
  \/ WorkerTakes
  \/ \E s \in Sids :
       \/ Create(s) \/ Kill(s) \/ ReadLoopGoesOn(s) \/ ReadLoopEnds(s) \/ Closing(s)
       \/ ReadReturns(s) \/ ReadEof(s) \/ Output(s) \/ Exit(s)
       \/ WaiterWakes(s) \/ WaiterCloses(s)

Spec == Init /\ [][Next]_vars

(* Threads go on; callbacks that are ready run, each in its turn: that     *)
(* others are ready as often does not hold one back.  What a user or a     *)
(* shell does need not happen.                                             *)
Fairness ==
  /\ WF_vars(WorkerTakes)
  /\ \A s \in Sids :
       /\ WF_vars(Closing(s)) /\ SF_vars(ReadLoopGoesOn(s) \/ ReadLoopEnds(s))
       /\ WF_vars(ReadReturns(s) \/ ReadEof(s))
       /\ WF_vars(WaiterWakes(s) \/ WaiterCloses(s))

FairSpec == Spec /\ Fairness

-----------------------------------------------------------------------------
(* Types. *)
TypeOK ==
  /\ dict \subseteq Sids /\ alive \in [Sids -> BOOLEAN]
  /\ process \in [Sids -> {"none", "running", "exited"}]
  /\ hpc \in [Sids -> BOOLEAN]
  /\ console \in [Sids -> {"none", "open", "closed", "twice"}]
  /\ pipes \in [Sids -> {"none", "open", "closed"}]
  /\ output \in [Sids -> BOOLEAN]
  /\ task \in [Sids -> {"none", "new", "queued", "reading", "data", "eof", "ending", "done"}]
  /\ queue \in Seq(Sids)
  /\ waiter \in [Sids -> {"none", "waiting", "closing", "ended"}]
  /\ loop \in [op : {"none", "kill", "end"}, sid : Sids \cup {NoSid},
               at : {"none", "console", "closing", "pipes"}]

(* "Ognuno va chiuso una volta sola, da chi lo toglie per primo": whatever *)
(* the order of the exit, a kill and the end of the read loop, a           *)
(* pseudoconsole is never closed twice, and when all three are over        *)
(* nothing of the pty is still open.                                       *)
HandlesReturned ==
  \A s \in Sids :
    /\ console[s] # "twice"
    /\ task[s] = "done" /\ Over(s) => console[s] = "closed" /\ pipes[s] = "closed" /\ s \notin dict

(* A shell that exits ends its session ("il read loop della sessione       *)
(* restava bloccato per sempre"), when there is a thread to notice it: the *)
(* session leaves the pool and gives back its place and its worker.        *)
ExitEndsSession ==
  \A s \in Sids : process[s] = "exited" /\ waiter[s] # "none" ~> task[s] = "done"

(* "Servono almeno tanti thread quante sessioni": the read of a session    *)
(* always gets a worker in the end, however many sessions were killed just *)
(* before and still hold theirs.                                           *)
ReadsAreServed ==
  \A s \in Sids : task[s] = "queued" ~> task[s] # "queued"

=============================================================================
