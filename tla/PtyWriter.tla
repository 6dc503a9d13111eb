------------------------------ MODULE PtyWriter ------------------------------
(***************************************************************************)
(* The input side of a terminal session (terminal/sessions.py): send()     *)
(* queues what the clients type without ever blocking the event loop, and  *)
(* one task per session, started on demand, hands the queue to the PTY in  *)
(* a thread of the PTY_WRITE pool.                                         *)
(*                                                                         *)
(* The characters accepted are numbered in the order of acceptance.  An    *)
(* action is the code of the event loop between two awaits; the end of a   *)
(* write, which happens in the pool, is an action of its own.              *)
(***************************************************************************)
EXTENDS Naturals, Sequences

CONSTANTS
  MaxPending,  (* MAX_PENDING_WRITE                                        *)
  MaxInput,    (* TERM_INPUT_MAX: the most one term_input carries          *)
  MaxTyped     (* bound of the exploration: characters accepted            *)

ASSUME WriterAssumption ==
  MaxPending \in Nat /\ MaxInput \in Nat /\ MaxTyped \in Nat

VARIABLES
  alive,     (* session.alive                                              *)
  pending,   (* session.pending_write, joined                              *)
  bytes,     (* session.pending_write_bytes                                *)
  writer,    (* session.writer: "none" or done; "ready" to run its loop;   *)
             (* "writing": awaits the thread                               *)
  chunk,     (* the characters the thread is writing                       *)
  accepted,  (* history: how many characters were accepted                 *)
  received,  (* what the PTY has received                                  *)
  failed     (* history: a write has raised                                *)

writerVars == <<alive, pending, bytes, writer, chunk, accepted, received, failed>>

Typed(n) == [i \in 1 .. n |-> accepted + i]

WriterInit ==
  /\ alive = TRUE
  /\ pending = <<>> /\ bytes = 0
  /\ writer = "none" /\ chunk = <<>>
  /\ accepted = 0 /\ received = <<>> /\ failed = FALSE

(* Variant: the task of the first write is taken for one that still runs. *)
StartedOnce == IF accepted = 0 THEN "ready" ELSE writer

(* A task is started when there is none or the last one is done. *)
Started == IF writer = "none" THEN "ready" ELSE writer

(* send() and _queue_write(): refused when the session is dead or when the *)
(* queue would exceed its limit, and then nothing of the input is kept.    *)
Send(n) ==
  /\ alive
  /\ bytes + n <= MaxPending
  /\ accepted + n <= MaxTyped
  /\ pending' = pending \o Typed(n)
  /\ bytes' = bytes + n
  /\ writer' = Started
  /\ accepted' = accepted + n
  /\ UNCHANGED <<alive, chunk, received, failed>>

(* Variant: a second thread may be given a chunk while one is writing. *)
WriterTakesWhileWriting ==
  /\ writer # "none" /\ pending # <<>> /\ alive
  /\ chunk' = pending /\ pending' = <<>> /\ bytes' = 0
  /\ writer' = "writing"
  /\ UNCHANGED <<alive, accepted, received, failed>>

(* _write_loop(): everything queued goes to the thread as one string. *)
WriterTakes ==
  /\ writer = "ready" /\ pending # <<>> /\ alive
  /\ chunk' = pending /\ pending' = <<>> /\ bytes' = 0
  /\ writer' = "writing"
  /\ UNCHANGED <<alive, accepted, received, failed>>

(* The loop ends because the queue is empty or the session is dead; the    *)
(* final clear and the end of the task leave no room for a send().         *)
WriterEnds ==
  /\ writer = "ready" /\ (pending = <<>> \/ ~alive)
  /\ pending' = <<>> /\ bytes' = 0
  /\ writer' = "none"
  /\ UNCHANGED <<alive, chunk, accepted, received, failed>>

WriteReturns ==
  /\ writer = "writing"
  /\ received' = received \o chunk
  /\ chunk' = <<>>
  /\ writer' = "ready"
  /\ UNCHANGED <<alive, pending, bytes, accepted, failed>>

(* The write raises, possibly after the PTY took a part of the chunk: the  *)
(* loop is left, and what was queued meanwhile is dropped with the rest.   *)
WriteRaises ==
  /\ writer = "writing"
  /\ \E n \in 0 .. Len(chunk) : received' = received \o SubSeq(chunk, 1, n)
  /\ chunk' = <<>> /\ failed' = TRUE
  /\ pending' = <<>> /\ bytes' = 0
  /\ writer' = "none"
  /\ UNCHANGED <<alive, accepted>>

(* kill(), or the end of the read loop. *)
Die ==
  /\ alive
  /\ alive' = FALSE
  /\ UNCHANGED <<pending, bytes, writer, chunk, accepted, received, failed>>

WriterNext ==
  \/ \E n \in 1 .. MaxInput : Send(n)
  \/ WriterTakes \/ WriterEnds \/ WriteReturns \/ WriteRaises \/ Die

(* The event loop runs a task that is ready.  A write may block for as     *)
(* long as the shell does not read.                                        *)
Fairness == WF_writerVars(WriterTakes) /\ WF_writerVars(WriterEnds)
ShellReads == WF_writerVars(WriteReturns)
WriterSpec == WriterInit /\ [][WriterNext]_writerVars /\ Fairness /\ ShellReads

-----------------------------------------------------------------------------
(* Types. *)
WriterTypeOK ==
  /\ alive \in BOOLEAN /\ failed \in BOOLEAN
  /\ pending \in Seq(1 .. MaxTyped)
  /\ chunk \in Seq(1 .. MaxTyped)
  /\ received \in Seq(1 .. MaxTyped)
  /\ bytes \in 0 .. MaxPending
  /\ writer \in {"none", "ready", "writing"}
  /\ accepted \in 0 .. MaxTyped

(* "L'ordine dei tasti resta quello di arrivo": the PTY receives the       *)
(* characters in the order in which they were accepted, each at most once, *)
(* and as long as the session lives and no write has raised, what it has   *)
(* received, the chunk being written and the queue are together exactly    *)
(* what was accepted.                                                      *)
KeysInOrder ==
  LET all == received \o chunk \o pending
  IN  /\ \A i, j \in 1 .. Len(all) : i < j => all[i] < all[j]
      /\ (alive /\ ~failed) => all = [i \in 1 .. accepted |-> i]

(* Nothing waits in a queue that no task will empty, the count against     *)
(* which the limit is checked is that of the queue, and only the task      *)
(* that is writing has a chunk: never two writes of one session at once.   *)
QueueIsServed ==
  /\ pending # <<>> => writer # "none"
  /\ bytes = Len(pending)
  /\ chunk # <<>> <=> writer = "writing"

(* If the shell reads, every accepted character reaches it, unless the     *)
(* session dies or a write raises.                                         *)
KeysReachTheShell ==
  \A k \in 1 .. MaxTyped :
    (accepted >= k) ~> (failed \/ ~alive \/ \E i \in DOMAIN received : received[i] = k)
=============================================================================
