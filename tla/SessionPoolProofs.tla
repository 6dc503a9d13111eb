--------------------------- MODULE SessionPoolProofs ---------------------------
(***************************************************************************)
(* Proofs about SessionPool, for every set of sessions, every size of the  *)
(* pool and both kinds of Windows: the types, and that each pseudoconsole  *)
(* is closed by exactly one of those who can.                              *)
(***************************************************************************)
EXTENDS SessionPool, TLAPS

(* The kinds of state a step can disturb, each with its types. *)
FlagsTyped == alive \in [Sids -> BOOLEAN] /\ hpc \in [Sids -> BOOLEAN] /\ output \in [Sids -> BOOLEAN]
QueueTyped == dict \subseteq Sids /\ queue \in Seq(Sids)
StagesTyped ==
  /\ process \in [Sids -> {"none", "running", "exited"}]
  /\ console \in [Sids -> {"none", "open", "closed", "twice"}]
  /\ pipes \in [Sids -> {"none", "open", "closed"}]
  /\ task \in [Sids -> {"none", "new", "queued", "reading", "data", "eof", "ending", "done"}]
  /\ waiter \in [Sids -> {"none", "waiting", "closing", "ended"}]
  /\ loop \in [op : {"none", "kill", "end"}, sid : Sids \cup {NoSid},
               at : {"none", "console", "closing", "pipes"}]

LEMMA TypeParts == TypeOK <=> FlagsTyped /\ QueueTyped /\ StagesTyped
  BY DEF TypeOK, FlagsTyped, QueueTyped, StagesTyped

(* The flags of the sessions stay flags. *)
LEMMA FlagsStep ==
  ASSUME TypeOK, [Next]_vars
  PROVE  FlagsTyped'
  <1> USE DEF TypeOK, FlagsTyped
  <1>1. CASE WorkerTakes
    BY <1>1 DEF WorkerTakes, pty
  <1>2. CASE UNCHANGED vars
    BY <1>2 DEF vars, pty
  <1>3. ASSUME NEW s \in Sids, Create(s) PROVE FlagsTyped'
    BY <1>3, Zenon DEF Create
  <1>4. ASSUME NEW s \in Sids, Kill(s) \/ ReadLoopEnds(s) PROVE FlagsTyped'
    BY <1>4, Zenon DEF Kill, ReadLoopEnds, CloseBegins
  <1>5. ASSUME NEW s \in Sids, ReadLoopGoesOn(s) \/ ReadEof(s) PROVE FlagsTyped'
    BY <1>5, Zenon DEF ReadLoopGoesOn, ReadEof, pty
  <1>6. ASSUME NEW s \in Sids, Closing(s) PROVE FlagsTyped'
    BY <1>6, Zenon DEF Closing, LoopTakesConsole, LoopClosesConsole, CloseEnds, Taken
  <1>7. ASSUME NEW s \in Sids, ReadReturns(s) \/ Output(s) \/ Exit(s) PROVE FlagsTyped'
    BY <1>7, Zenon DEF ReadReturns, Output, Exit
  <1>8. ASSUME NEW s \in Sids, WaiterWakes(s) \/ WaiterCloses(s) PROVE FlagsTyped'
    BY <1>8, Zenon DEF WaiterWakes, WaiterCloses, Taken
  <1> QED
    BY <1>1, <1>2, <1>3, <1>4, <1>5, <1>6, <1>7, <1>8, Zenon DEF Next

(* Only sessions are in the dictionary and in the queue of PTY_READ. *)
LEMMA QueueStep ==
  ASSUME TypeOK, [Next]_vars
  PROVE  QueueTyped'
  <1> USE DEF TypeOK, QueueTyped
  <1>1. CASE WorkerTakes
    BY <1>1 DEF WorkerTakes
  <1>2. CASE UNCHANGED vars
    BY <1>2 DEF vars
  <1>3. ASSUME NEW s \in Sids, Create(s) \/ Kill(s) \/ ReadLoopEnds(s) PROVE QueueTyped'
    BY <1>3 DEF Create, Kill, ReadLoopEnds
  <1>4. ASSUME NEW s \in Sids, ReadLoopGoesOn(s) PROVE QueueTyped'
    BY <1>4 DEF ReadLoopGoesOn, Submit
  <1>5. ASSUME NEW s \in Sids, Closing(s) PROVE QueueTyped'
    BY <1>5 DEF Closing, LoopTakesConsole, LoopClosesConsole, CloseEnds
  <1>6. ASSUME NEW s \in Sids, ReadReturns(s) \/ ReadEof(s) \/ Output(s) \/ Exit(s)
        PROVE  QueueTyped'
    BY <1>6 DEF ReadReturns, ReadEof, Output, Exit
  <1>7. ASSUME NEW s \in Sids, WaiterWakes(s) \/ WaiterCloses(s) PROVE QueueTyped'
    BY <1>7 DEF WaiterWakes, WaiterCloses
  <1> QED
    BY <1>1, <1>2, <1>3, <1>4, <1>5, <1>6, <1>7 DEF Next

(* Everybody stays where the program has a place for him. *)
LEMMA StagesStep ==
  ASSUME TypeOK, [Next]_vars
  PROVE  StagesTyped'
  <1> USE DEF TypeOK, StagesTyped
  <1>1. CASE WorkerTakes
    BY <1>1 DEF WorkerTakes, pty
  <1>2. CASE UNCHANGED vars
    BY <1>2 DEF vars, pty
  <1>3. ASSUME NEW s \in Sids, Create(s) PROVE StagesTyped'
    BY <1>3 DEF Create
  <1>4. ASSUME NEW s \in Sids, Kill(s) \/ ReadLoopEnds(s) PROVE StagesTyped'
    BY <1>4 DEF Kill, ReadLoopEnds, CloseBegins
  <1>5. ASSUME NEW s \in Sids, ReadLoopGoesOn(s) \/ ReadEof(s) PROVE StagesTyped'
    BY <1>5 DEF ReadLoopGoesOn, ReadEof, Submit, pty
  <1>6. ASSUME NEW s \in Sids, LoopTakesConsole(s) \/ LoopClosesConsole(s) PROVE StagesTyped'
    BY <1>6 DEF LoopTakesConsole, LoopClosesConsole, ConsoleClosed
  <1>7. ASSUME NEW s \in Sids, CloseEnds(s) PROVE StagesTyped'
    BY <1>7 DEF CloseEnds, Free
  <1>8. ASSUME NEW s \in Sids, ReadReturns(s) \/ Output(s) \/ Exit(s) PROVE StagesTyped'
    BY <1>8 DEF ReadReturns, Output, Exit
  <1>9. ASSUME NEW s \in Sids, WaiterWakes(s) \/ WaiterCloses(s) PROVE StagesTyped'
    BY <1>9 DEF WaiterWakes, WaiterCloses, ConsoleClosed
  <1> QED
    BY <1>1, <1>2, <1>3, <1>4, <1>5, <1>6, <1>7, <1>8, <1>9 DEF Next, Closing

-----------------------------------------------------------------------------
(* Who still has the pseudoconsole of s to close: the handle itself, the   *)
(* event loop, the waiting thread - one of them while it is open, nobody   *)
(* afterwards.                                                             *)
LoopHas(s) == loop.sid = s /\ loop.at = "closing"
WaiterHas(s) == waiter[s] = "closing"
OneCloser(s) ==
  /\ hpc[s] => ~LoopHas(s) /\ ~WaiterHas(s)
  /\ LoopHas(s) => ~WaiterHas(s)
  /\ console[s] = "open" <=> (hpc[s] \/ LoopHas(s) \/ WaiterHas(s))
  /\ console[s] # "twice"

(* How far the end of a session has come, as close() and the read loop     *)
(* leave it.                                                               *)
EndInOrder(s) ==
  /\ task[s] = "none" => console[s] = "none" /\ s \notin dict
  /\ task[s] # "none" => console[s] # "none"
  /\ task[s] = "done" => ~hpc[s] /\ pipes[s] = "closed" /\ s \notin dict
  /\ loop.sid = s => /\ task[s] \notin {"none", "done"} /\ loop # Free
                     /\ loop.at = "pipes" => ~hpc[s]
                     /\ loop.op = "end" => task[s] = "ending"
  /\ loop.at = "none" => loop = Free

(* Whoever waits for a worker of PTY_READ waits once, and for that only.   *)
QueueInOrder ==
  /\ \A n \in 1 .. Len(queue) : task[queue[n]] = "queued"
  /\ \A m, n \in 1 .. Len(queue) : queue[m] = queue[n] => m = n

PoolInv == TypeOK /\ QueueInOrder /\ \A s \in Sids : OneCloser(s) /\ EndInOrder(s)

(* Only ReadLoopGoesOn puts a session in the queue, and only a worker takes *)
(* one out; nobody else touches a session that waits.                      *)
LEMMA QueueInOrderStep ==
  ASSUME PoolInv, [Next]_vars
  PROVE  QueueInOrder'
  <1> USE DEF PoolInv, TypeOK, QueueInOrder
  <1>1. CASE WorkerTakes
    <2>1. /\ queue' = Tail(queue) /\ queue # <<>>
          /\ task' = [task EXCEPT ![queue[1]] = "reading"]
      BY <1>1 DEF WorkerTakes
    <2>2. /\ Len(queue') = Len(queue) - 1 /\ Len(queue) \in Nat
          /\ \A n \in 1 .. Len(queue') : queue'[n] = queue[n + 1]
      BY <2>1
    <2>3. ASSUME NEW n \in 1 .. Len(queue') PROVE task'[queue'[n]] = "queued"
      <3>1. n + 1 \in 1 .. Len(queue) /\ 1 \in 1 .. Len(queue) /\ n + 1 # 1
        BY <2>2
      <3>2. queue[n + 1] # queue[1] /\ queue[n + 1] \in Sids /\ task[queue[n + 1]] = "queued"
        BY <3>1
      <3> QED
        BY <2>1, <2>2, <3>2
    <2>4. ASSUME NEW m \in 1 .. Len(queue'), NEW n \in 1 .. Len(queue'), queue'[m] = queue'[n]
          PROVE  m = n
      <3>1. m + 1 \in 1 .. Len(queue) /\ n + 1 \in 1 .. Len(queue) /\ queue[m + 1] = queue[n + 1]
        BY <2>2, <2>4
      <3>2. m + 1 = n + 1
        BY <3>1
      <3> QED
        BY <3>2
    <2> QED
      BY <2>3, <2>4
  <1>2. ASSUME UNCHANGED <<task, queue>> PROVE QueueInOrder'
    BY <1>2
  <1>3. ASSUME NEW s \in Sids, task[s] # "queued",
               NEW stage, task' = [task EXCEPT ![s] = stage], UNCHANGED queue
        PROVE  QueueInOrder'
    <2>1. \A n \in 1 .. Len(queue) : queue[n] \in Sids /\ queue[n] # s
      BY <1>3
    <2> QED
      BY <1>3, <2>1
  <1>4. ASSUME NEW s \in Sids, ReadLoopGoesOn(s) PROVE QueueInOrder'
    <2>1. task[s] # "queued" /\ queue' = Append(queue, s) /\ task' = [task EXCEPT ![s] = "queued"]
      BY <1>4 DEF ReadLoopGoesOn, Submit
    <2>2. /\ Len(queue') = Len(queue) + 1 /\ queue'[Len(queue) + 1] = s /\ Len(queue) \in Nat
          /\ \A n \in 1 .. Len(queue) : queue'[n] = queue[n]
          /\ \A n \in 1 .. Len(queue') : n \in 1 .. Len(queue) \/ n = Len(queue) + 1
      BY <2>1
    <2>3. \A n \in 1 .. Len(queue) : queue[n] \in Sids /\ queue[n] # s
      BY <2>1
    <2>4. \A n \in 1 .. Len(queue') : task'[queue'[n]] = "queued"
      BY <2>1, <2>2, <2>3
    <2>5. \A m, n \in 1 .. Len(queue') : queue'[m] = queue'[n] => m = n
      BY <2>2, <2>3
    <2> QED
      BY <2>4, <2>5
  <1>5. ASSUME NEW s \in Sids, Create(s) PROVE QueueInOrder'
    BY <1>5, <1>3 DEF Create, Over
  <1>6. ASSUME NEW s \in Sids, ReadLoopEnds(s) PROVE QueueInOrder'
    BY <1>6, <1>3 DEF ReadLoopEnds
  <1>7. ASSUME NEW s \in Sids, CloseEnds(s) PROVE QueueInOrder'
    <2>1. CASE loop.op = "end"
      <3>1. task[s] = "ending" /\ task' = [task EXCEPT ![s] = "done"] /\ UNCHANGED queue
        BY <1>7, <2>1 DEF CloseEnds, EndInOrder
      <3> QED
        BY <3>1, <1>3
    <2>2. CASE loop.op # "end"
      BY <1>7, <2>2, <1>2 DEF CloseEnds
    <2> QED
      BY <2>1, <2>2
  <1>8. ASSUME NEW s \in Sids, ReadReturns(s) \/ ReadEof(s) PROVE QueueInOrder'
    BY <1>8, <1>3 DEF ReadReturns, ReadEof
  <1>9. ASSUME NEW s \in Sids, Kill(s) \/ LoopTakesConsole(s) \/ LoopClosesConsole(s)
                               \/ Output(s) \/ Exit(s) \/ WaiterWakes(s) \/ WaiterCloses(s)
        PROVE  QueueInOrder'
    BY <1>9, <1>2 DEF Kill, LoopTakesConsole, LoopClosesConsole, Output, Exit, WaiterWakes,
                      WaiterCloses
  <1>10. CASE UNCHANGED vars
    BY <1>10, <1>2 DEF vars
  <1> QED
    BY <1>1, <1>4, <1>5, <1>6, <1>7, <1>8, <1>9, <1>10 DEF Next, Closing

(* Each action keeps both, for the session it is about and for any other.  *)
LEMMA OwnedStep ==
  ASSUME PoolInv, [Next]_vars, NEW r \in Sids
  PROVE  OneCloser(r)' /\ EndInOrder(r)'
  <1> USE PoolAssumption
      DEF PoolInv, TypeOK, OneCloser, EndInOrder, LoopHas, WaiterHas, Free
  <1>1. CASE WorkerTakes
    <2>1. queue[1] \in Sids /\ task[queue[1]] = "queued"
      BY <1>1 DEF WorkerTakes, QueueInOrder
    <2>2. task' = [task EXCEPT ![queue[1]] = "reading"] /\ UNCHANGED <<dict, pty, waiter, loop>>
      BY <1>1 DEF WorkerTakes
    <2> QED
      BY <2>1, <2>2 DEF pty
  <1>2. CASE UNCHANGED vars
    BY <1>2 DEF vars, pty
  <1>3. ASSUME NEW s \in Sids, Create(s) PROVE OneCloser(r)' /\ EndInOrder(r)'
    BY <1>3 DEF Create, Over
  <1>4. ASSUME NEW s \in Sids, Kill(s) PROVE OneCloser(r)' /\ EndInOrder(r)'
    BY <1>4 DEF Kill, CloseBegins
  <1>5. ASSUME NEW s \in Sids, ReadLoopEnds(s) PROVE OneCloser(r)' /\ EndInOrder(r)'
    BY <1>5 DEF ReadLoopEnds, CloseBegins
  <1>6. ASSUME NEW s \in Sids, ReadLoopGoesOn(s) PROVE OneCloser(r)' /\ EndInOrder(r)'
    BY <1>6 DEF ReadLoopGoesOn, Submit, pty
  <1>7. ASSUME NEW s \in Sids, LoopTakesConsole(s) PROVE OneCloser(r)' /\ EndInOrder(r)'
    BY <1>7 DEF LoopTakesConsole, Taken
  <1>8. ASSUME NEW s \in Sids, LoopClosesConsole(s) PROVE OneCloser(r)' /\ EndInOrder(r)'
    BY <1>8 DEF LoopClosesConsole, ConsoleClosed
  <1>9. ASSUME NEW s \in Sids, CloseEnds(s) PROVE OneCloser(r)' /\ EndInOrder(r)'
    BY <1>9 DEF CloseEnds
  <1>10. ASSUME NEW s \in Sids, ReadReturns(s) \/ Output(s) \/ Exit(s)
         PROVE  OneCloser(r)' /\ EndInOrder(r)'
    BY <1>10 DEF ReadReturns, Output, Exit
  <1>11. ASSUME NEW s \in Sids, ReadEof(s) PROVE OneCloser(r)' /\ EndInOrder(r)'
    BY <1>11 DEF ReadEof, pty
  <1>12. ASSUME NEW s \in Sids, WaiterWakes(s) PROVE OneCloser(r)' /\ EndInOrder(r)'
    BY <1>12 DEF WaiterWakes, Taken
  <1>13. ASSUME NEW s \in Sids, WaiterCloses(s) PROVE OneCloser(r)' /\ EndInOrder(r)'
    BY <1>13 DEF WaiterCloses, ConsoleClosed
  <1> QED
    BY <1>1, <1>2, <1>3, <1>4, <1>5, <1>6, <1>7, <1>8, <1>9, <1>10, <1>11, <1>12, <1>13
       DEF Next, Closing

-----------------------------------------------------------------------------
(* The pool starts with neither sessions nor handles. *)
LEMMA Initially == Init => PoolInv
  <1>1. Init => FlagsTyped
    BY Zenon DEF Init, FlagsTyped
  <1>2. Init => QueueTyped /\ StagesTyped
    BY DEF Init, QueueTyped, StagesTyped, Free
  <1>3. Init => QueueInOrder
    BY DEF Init, QueueInOrder
  <1>4. ASSUME Init, NEW s \in Sids PROVE OneCloser(s) /\ EndInOrder(s)
    BY <1>4, PoolAssumption DEF Init, OneCloser, EndInOrder, LoopHas, WaiterHas, Free
  <1> QED
    BY <1>1, <1>2, <1>3, <1>4, TypeParts DEF PoolInv

(* Whatever users, shells and threads do, the invariant holds. *)
THEOREM PoolInvariant == Spec => []PoolInv
  <1>1. PoolInv /\ [Next]_vars => PoolInv'
    <2> SUFFICES ASSUME PoolInv, [Next]_vars PROVE PoolInv'
      OBVIOUS
    <2>1. FlagsTyped' /\ QueueTyped' /\ StagesTyped'
      BY FlagsStep, QueueStep, StagesStep DEF PoolInv
    <2>2. TypeOK'
      BY <2>1 DEF TypeOK, FlagsTyped, QueueTyped, StagesTyped
    <2> QED
      BY <2>2, OwnedStep, QueueInOrderStep DEF PoolInv
  <1> QED
    BY <1>1, Initially, PTL DEF Spec

(* The types of the sessions, their handles and the threads around them. *)
THEOREM TypeCorrect == Spec => []TypeOK
  <1>1. PoolInv => TypeOK
    BY DEF PoolInv
  <1> QED
    BY <1>1, PoolInvariant, PTL

(* close(), the waiting thread and the read loop never close a             *)
(* pseudoconsole twice, and leave none open when they are through.         *)
THEOREM Returned == Spec => []HandlesReturned
  <1>1. PoolInv => HandlesReturned
    <2> SUFFICES ASSUME PoolInv, NEW s \in Sids
                 PROVE  /\ console[s] # "twice"
                        /\ task[s] = "done" /\ Over(s) =>
                             console[s] = "closed" /\ pipes[s] = "closed" /\ s \notin dict
      BY DEF HandlesReturned
    <2> QED
      BY DEF PoolInv, TypeOK, OneCloser, EndInOrder, LoopHas, WaiterHas, Over
  <1> QED
    BY <1>1, PoolInvariant, PTL
=============================================================================
