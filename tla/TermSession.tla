----------------------------- MODULE TermSession -----------------------------
(***************************************************************************)
(* One terminal session of terminal/sessions.py and the websockets that    *)
(* view it: the read loop, attach() with its replay of the ring buffer,    *)
(* the fan-out to one bounded queue per viewer, the pump task that empties *)
(* it, the eviction of slow viewers, kill, detach and the final flush.     *)
(*                                                                         *)
(* The asyncio loop is single threaded: an action is the code between two  *)
(* awaits.  A byte of output is its position in the stream, so the ring    *)
(* buffer, whose content is the last RingSize of them (RingBuffer.tla),    *)
(* is the interval that ends at `total`.  A viewer is one websocket; a     *)
(* phone that reconnects is another viewer.                                *)
(***************************************************************************)
EXTENDS Naturals, SequencesExt

CONSTANTS
  Viewers,    (* the websockets                                            *)
  RingSize,   (* bytes the ring buffer keeps                               *)
  MaxChunk,   (* READ_SIZE: the most one read of the PTY returns           *)
  MaxQueued,  (* MAX_QUEUED_BYTES                                          *)
  MaxBytes,   (* bound of the exploration: bytes the process outputs       *)
  MaxAttach   (* bound of the exploration: term_attach sent by a client    *)

ASSUME SizesAssumption ==
  /\ RingSize \in Nat \ {0}
  /\ MaxChunk \in Nat \ {0}
  /\ MaxQueued \in Nat /\ MaxQueued >= MaxChunk
  /\ MaxBytes \in Nat
  /\ MaxAttach \in Nat

VARIABLES
  total,       (* output.total: bytes read from the PTY so far             *)
  process,     (* the process behind the PTY is "running" or "exited"      *)
  alive,       (* session.alive                                            *)
  listed,      (* the session is in SessionManager._sessions               *)
  reader,      (* _read_loop: "reading", "flushing" (_flush_pumps), "done" *)
  subscribers, (* session.subscribers                                      *)
  catchingUp,  (* session.catching_up: attach() is awaiting a send         *)
  offset,      (* the local `offset` of the attach() of each viewer        *)
  pump,        (* session.pumps: the queue and task of each viewer         *)
  conn,        (* "open", "closing" (evicted), "lost", "gone" (released)   *)
  wire,        (* frames handed to ws.send and not yet read by the client  *)
  request,     (* a term_attach of the client waits to be dispatched       *)
  attaches,    (* term_attach sent by each client                          *)
  screen,      (* what the client shows: positions written to xterm        *)
  toldClosed,  (* the client has received term_closed                      *)
  overran,     (* history: the ring dropped bytes this viewer waited for   *)
  abandoned    (* history: the final flush gave this viewer up             *)

client == <<request, attaches, screen, toldClosed>>
session == <<total, process, alive, listed, reader>>
vars == <<session, subscribers, catchingUp, offset, pump, conn, wire, client,
          overran, abandoned>>

-----------------------------------------------------------------------------
(* Frames.  The length of an output frame is that of its payload: the few  *)
(* bytes of header and the length of term_closed count as nothing and one. *)
Output(lo, hi) == [kind |-> "output", lo |-> lo, hi |-> hi]
TermClosed == [kind |-> "closed", lo |-> 0, hi |-> 0]
Frames == [kind : {"output", "closed"}, lo : 0 .. MaxBytes, hi : 0 .. MaxBytes]

Size(frame) == IF frame.kind = "output" THEN frame.hi - frame.lo + 1 ELSE 1
Positions(frame) ==
  IF frame.kind = "output"
  THEN [i \in 1 .. Size(frame) |-> frame.lo + i - 1] ELSE <<>>

(* Variant: since() hands out again the byte at its offset. *)
RingSinceInclusive(n) ==
  Output(IF total - n <= RingSize /\ n > 0 THEN n
         ELSE IF total <= RingSize THEN 1 ELSE total - RingSize + 1, total)

(* snapshot() and since(n) as intervals: the newest bytes after position n *)
(* that the ring still holds; empty when lo > hi.                          *)
RingSince(n) ==
  Output(IF total - n <= RingSize THEN n + 1 ELSE total - RingSize + 1, total)
IsEmpty(frame) == frame.lo > frame.hi

(* _Pump.  task: "run" is runnable, "sending" awaits ws.send, "waiting"    *)
(* awaits the event `wake`, "finished" has returned.                       *)
NoPump == [task |-> "none", queue |-> <<>>, queued |-> 0,
           wake |-> FALSE, closing |-> FALSE]
HasPump(v) == pump[v].task # "none"
Sent(v, frame) == wire' = [wire EXCEPT ![v] = Append(@, frame)]
Dropped(vs) == [v \in Viewers |-> IF v \in vs THEN NoPump ELSE pump[v]]

-----------------------------------------------------------------------------
Init ==
  /\ total = 0 /\ process = "running" /\ alive = TRUE /\ listed = TRUE
  /\ reader = "reading"
  /\ subscribers = {} /\ catchingUp = {}
  /\ offset = [v \in Viewers |-> 0]
  /\ pump = [v \in Viewers |-> NoPump]
  /\ conn = [v \in Viewers |-> "open"]
  /\ wire = [v \in Viewers |-> <<>>]
  /\ request = [v \in Viewers |-> FALSE]
  /\ attaches = [v \in Viewers |-> 0]
  /\ screen = [v \in Viewers |-> <<>>]
  /\ toldClosed = [v \in Viewers |-> FALSE]
  /\ overran = [v \in Viewers |-> FALSE]
  /\ abandoned = [v \in Viewers |-> FALSE]

-----------------------------------------------------------------------------
(* The client.  attachSession() of app-terminal.js resets xterm and asks   *)
(* for the replay; handleBinaryFrame() writes every frame as it comes.     *)
ClientAttach(v) ==
  /\ conn[v] \in {"open", "closing"}
  /\ ~request[v] /\ attaches[v] < MaxAttach
  /\ request' = [request EXCEPT ![v] = TRUE]
  /\ attaches' = [attaches EXCEPT ![v] = @ + 1]
  /\ screen' = [screen EXCEPT ![v] = <<>>]
  /\ UNCHANGED <<session, subscribers, catchingUp, offset, pump, conn, wire,
                 toldClosed, overran, abandoned>>

ClientReceive(v) ==
  /\ conn[v] \in {"open", "closing"}
  /\ wire[v] # <<>>
  /\ wire' = [wire EXCEPT ![v] = Tail(@)]
  /\ screen' = [screen EXCEPT ![v] = @ \o Positions(Head(wire[v]))]
  /\ toldClosed' = [toldClosed EXCEPT ![v] = @ \/ Head(wire[v]) = TermClosed]
  /\ UNCHANGED <<session, subscribers, catchingUp, offset, pump, conn,
                 request, attaches, overran, abandoned>>

(* The connection drops: the phone leaves, the keepalive gives up, or the  *)
(* close(1013) scheduled by an eviction runs.                              *)
Disconnect(v) ==
  /\ conn[v] \in {"open", "closing"}
  /\ conn' = [conn EXCEPT ![v] = "lost"]
  /\ wire' = [wire EXCEPT ![v] = <<>>]
  /\ UNCHANGED <<session, subscribers, catchingUp, offset, pump, client,
                 overran, abandoned>>

-----------------------------------------------------------------------------
(* attach().  The request is dispatched by the connection's own task, one  *)
(* at a time, so nothing else from that client runs before attach() ends.  *)
AttachUnknown(v) ==
  /\ request[v] /\ ~listed /\ v \notin catchingUp
  /\ request' = [request EXCEPT ![v] = FALSE]
  /\ UNCHANGED <<session, subscribers, catchingUp, offset, pump, conn, wire,
                 attaches, screen, toldClosed, overran, abandoned>>

(* Snapshot, counter and registration are taken together, then the replay  *)
(* is sent; an empty buffer leaves nothing to wait for.                    *)
AttachBegin(v) ==
  /\ request[v] /\ listed /\ v \notin catchingUp /\ conn[v] # "gone"
  /\ request' = [request EXCEPT ![v] = FALSE]
  /\ subscribers' = subscribers \cup {v}
  /\ overran' = [overran EXCEPT ![v] = FALSE]
  /\ IF IsEmpty(RingSince(0))
     THEN UNCHANGED <<catchingUp, offset, wire>>
     ELSE /\ catchingUp' = catchingUp \cup {v}
          /\ offset' = [offset EXCEPT ![v] = total]
          /\ Sent(v, RingSince(0))
  /\ UNCHANGED <<session, pump, conn, attaches, screen, toldClosed, abandoned>>

(* A send has completed and output came meanwhile: the delta is sent.      *)
AttachDelta(v) ==
  /\ v \in catchingUp /\ conn[v] # "lost"
  /\ ~IsEmpty(RingSince(offset[v]))
  /\ Sent(v, RingSince(offset[v]))
  /\ offset' = [offset EXCEPT ![v] = total]
  /\ overran' = [overran EXCEPT ![v] = @ \/ total - offset[v] > RingSize]
  /\ UNCHANGED <<session, subscribers, catchingUp, pump, conn, client, abandoned>>

(* Variant: the viewer goes live without looking for a delta. *)
AttachLiveUnchecked(v) ==
  /\ v \in catchingUp
  /\ catchingUp' = catchingUp \ {v}
  /\ UNCHANGED <<session, subscribers, offset, pump, conn, wire, client,
                 overran, abandoned>>

(* A send has completed and there is no delta: the viewer goes live.       *)
AttachLive(v) ==
  /\ v \in catchingUp
  /\ IsEmpty(RingSince(offset[v]))
  /\ catchingUp' = catchingUp \ {v}
  /\ UNCHANGED <<session, subscribers, offset, pump, conn, wire, client,
                 overran, abandoned>>

(* The send raises: the viewer is taken out again. *)
AttachFails(v) ==
  /\ v \in catchingUp /\ conn[v] = "lost"
  /\ subscribers' = subscribers \ {v}
  /\ catchingUp' = catchingUp \ {v}
  /\ pump' = Dropped({v})
  /\ UNCHANGED <<session, offset, conn, wire, client, overran, abandoned>>

(* term_detach, and detach_ws() when the connection's task ends: sessions  *)
(* no longer listed are not looked at.                                     *)
Unsubscribe(v) ==
  IF listed
  THEN subscribers' = subscribers \ {v} /\ pump' = Dropped({v})
  ELSE UNCHANGED <<subscribers, pump>>

Detach(v) ==
  /\ conn[v] # "gone" /\ v \notin catchingUp
  /\ Unsubscribe(v)
  /\ UNCHANGED <<session, catchingUp, offset, conn, wire, client, overran, abandoned>>

Release(v) ==
  /\ conn[v] = "lost" /\ v \notin catchingUp
  /\ conn' = [conn EXCEPT ![v] = "gone"]
  /\ request' = [request EXCEPT ![v] = FALSE]
  /\ Unsubscribe(v)
  /\ UNCHANGED <<session, catchingUp, offset, wire, attaches, screen, toldClosed,
                 overran, abandoned>>

-----------------------------------------------------------------------------
(* _fan_out() and _enqueue(): every viewer that is not catching up gets    *)
(* the frame in its queue; one whose queue is full is evicted.             *)
Live == subscribers \ catchingUp
Overflowing(frame) == {v \in Live : pump[v].queued + Size(frame) > MaxQueued}

(* Variants: the event is not set; the bytes are not counted. *)
EnqueuedSilently(p, frame) ==
  [p EXCEPT !.task = IF @ = "none" THEN "run" ELSE @,
            !.queue = Append(@, frame),
            !.queued = @ + Size(frame)]
EnqueuedUncounted(p, frame) ==
  [p EXCEPT !.task = IF @ = "none" THEN "run" ELSE @,
            !.queue = Append(@, frame),
            !.wake = TRUE]

Enqueued(p, frame) ==
  [p EXCEPT !.task = IF @ = "none" THEN "run" ELSE @,
            !.queue = Append(@, frame),
            !.queued = @ + Size(frame),
            !.wake = TRUE]

FannedOut(frame) ==
  [v \in Viewers |-> IF v \in Overflowing(frame) THEN NoPump
                     ELSE IF v \in Live THEN Enqueued(pump[v], frame)
                     ELSE pump[v]]

Evict(vs) ==
  /\ subscribers' = subscribers \ vs
  /\ conn' = [v \in Viewers |-> IF v \in vs /\ conn[v] = "open" THEN "closing"
                                ELSE conn[v]]

(* _read_loop(): a read returns n bytes. *)
ReadOutput(n) ==
  /\ reader = "reading" /\ alive
  /\ total + n <= MaxBytes
  /\ total' = total + n
  /\ pump' = FannedOut(Output(total + 1, total + n))
  /\ Evict(Overflowing(Output(total + 1, total + n)))
  /\ UNCHANGED <<process, alive, listed, reader, catchingUp, offset, wire, client,
                 overran, abandoned>>

(* The loop is left: the session dies and leaves the dictionary, its       *)
(* viewers are told, and _flush_pumps() asks every pump to finish.         *)
LeaveLoop ==
  /\ reader = "reading"
  /\ alive' = FALSE /\ listed' = FALSE
  /\ LET told == FannedOut(TermClosed)
     IN  /\ pump' = [v \in Viewers |->
                       IF told[v].task = "none" THEN NoPump
                       ELSE [told[v] EXCEPT !.closing = TRUE, !.wake = TRUE]]
         /\ reader' = IF \E v \in Viewers : told[v].task # "none"
                      THEN "flushing" ELSE "done"
  /\ Evict(Overflowing(TermClosed))
  /\ UNCHANGED <<total, process, catchingUp, offset, wire, client, overran, abandoned>>

(* The read finds the end of the output, or returns after a kill().  A     *)
(* viewer that attach() is replaying to then gets no term_closed, neither  *)
(* now nor later.                                                          *)
ReadEnd == (process = "exited" \/ ~alive) /\ LeaveLoop

(* The read raises. *)
ReadError == alive /\ LeaveLoop

FlushDone ==
  /\ reader = "flushing"
  /\ \A v \in Viewers : pump[v].task \in {"none", "finished"}
  /\ reader' = "done"
  /\ pump' = [v \in Viewers |-> NoPump]
  /\ UNCHANGED <<total, process, alive, listed, subscribers, catchingUp, offset,
                 conn, wire, client, overran, abandoned>>

(* Variant: the flush waits for every viewer, however long it takes. *)
NoFlushTimeout == FALSE /\ UNCHANGED vars

(* FLUSH_TIMEOUT_SECS have passed: who is still blocked is given up. *)
FlushTimeout ==
  /\ reader = "flushing"
  /\ reader' = "done"
  /\ pump' = [v \in Viewers |-> NoPump]
  /\ abandoned' = [v \in Viewers |->
                     abandoned[v] \/ pump[v].task \notin {"none", "finished"}]
  /\ UNCHANGED <<total, process, alive, listed, subscribers, catchingUp, offset,
                 conn, wire, client, overran>>

-----------------------------------------------------------------------------
(* Variant: the newest frame of the queue is sent first. *)
PumpSendsNewest(v) ==
  LET newest == pump[v].queue[Len(pump[v].queue)]
  IN  /\ pump[v].task = "run" /\ pump[v].queue # <<>>
      /\ conn[v] \in {"open", "closing"}
      /\ Sent(v, newest)
      /\ pump' = [pump EXCEPT ![v].task = "sending",
                              ![v].queue = Front(@),
                              ![v].queued = @ - Size(newest)]
      /\ UNCHANGED <<session, subscribers, catchingUp, offset, conn, client,
                     overran, abandoned>>

(* _pump_loop() *)
PumpSends(v) ==
  /\ pump[v].task = "run" /\ pump[v].queue # <<>>
  /\ conn[v] \in {"open", "closing"}
  /\ Sent(v, Head(pump[v].queue))
  /\ pump' = [pump EXCEPT ![v].task = "sending",
                          ![v].queue = Tail(@),
                          ![v].queued = @ - Size(Head(pump[v].queue))]
  /\ UNCHANGED <<session, subscribers, catchingUp, offset, conn, client,
                 overran, abandoned>>

PumpSent(v) ==
  /\ pump[v].task = "sending" /\ conn[v] \in {"open", "closing"}
  /\ pump' = [pump EXCEPT ![v].task = "run"]
  /\ UNCHANGED <<session, subscribers, catchingUp, offset, conn, wire, client,
                 overran, abandoned>>

(* The queue is empty: the task returns, or clears the event and waits. *)
PumpIdles(v) ==
  /\ pump[v].task = "run" /\ pump[v].queue = <<>>
  /\ pump' = IF pump[v].closing THEN [pump EXCEPT ![v].task = "finished"]
             ELSE [pump EXCEPT ![v].task = "waiting", ![v].wake = FALSE]
  /\ UNCHANGED <<session, subscribers, catchingUp, offset, conn, wire, client,
                 overran, abandoned>>

PumpWakes(v) ==
  /\ pump[v].task = "waiting" /\ pump[v].wake
  /\ pump' = [pump EXCEPT ![v].task = "run"]
  /\ UNCHANGED <<session, subscribers, catchingUp, offset, conn, wire, client,
                 overran, abandoned>>

(* ws.send raises: the viewer is no longer a subscriber. *)
PumpFails(v) ==
  /\ conn[v] \in {"lost", "gone"}
  /\ \/ pump[v].task = "sending"
     \/ pump[v].task = "run" /\ pump[v].queue # <<>>
  /\ subscribers' = subscribers \ {v}
  /\ pump' = Dropped({v})
  /\ UNCHANGED <<session, catchingUp, offset, conn, wire, client, overran, abandoned>>

-----------------------------------------------------------------------------
(* kill(): from any client's list of sessions, or from the GUI. *)
Kill ==
  /\ listed
  /\ alive' = FALSE /\ listed' = FALSE
  /\ UNCHANGED <<total, process, reader, subscribers, catchingUp, offset, pump,
                 conn, wire, client, overran, abandoned>>

ProcessExits ==
  /\ process = "running"
  /\ process' = "exited"
  /\ UNCHANGED <<total, alive, listed, reader, subscribers, catchingUp, offset,
                 pump, conn, wire, client, overran, abandoned>>

PumpStep(v) == PumpSends(v) \/ PumpSent(v) \/ PumpIdles(v) \/ PumpWakes(v) \/ PumpFails(v)
AttachStep(v) == AttachUnknown(v) \/ AttachBegin(v) \/ AttachDelta(v) \/ AttachLive(v)
                 \/ AttachFails(v)

Next ==
  \/ \E n \in 1 .. MaxChunk : ReadOutput(n)
  \/ ReadEnd \/ ReadError \/ FlushDone \/ FlushTimeout \/ Kill \/ ProcessExits
  \/ \E v \in Viewers :
       \/ ClientAttach(v) \/ ClientReceive(v) \/ Disconnect(v)
       \/ AttachUnknown(v) \/ AttachBegin(v) \/ AttachDelta(v) \/ AttachLive(v)
       \/ AttachFails(v)
       \/ Detach(v) \/ Release(v)
       \/ PumpSends(v) \/ PumpSent(v) \/ PumpIdles(v) \/ PumpWakes(v) \/ PumpFails(v)

Spec == Init /\ [][Next]_vars

(* The event loop runs what is runnable and a blocked PTY read returns     *)
(* once the process is gone; a timer fires.  Nothing is assumed of a       *)
(* client, except of the Responsive ones, which read what they are sent.   *)
CONSTANT Responsive
Fairness ==
  /\ WF_vars(ReadEnd) /\ WF_vars(FlushDone \/ FlushTimeout)
  /\ \A v \in Responsive : /\ WF_vars(PumpStep(v))
                           /\ WF_vars(AttachStep(v))
                           /\ WF_vars(ClientReceive(v))
FairSpec == Spec /\ Fairness

-----------------------------------------------------------------------------
(* Types. *)
TypeOK ==
  /\ total \in 0 .. MaxBytes
  /\ process \in {"running", "exited"}
  /\ alive \in BOOLEAN /\ listed \in BOOLEAN
  /\ reader \in {"reading", "flushing", "done"}
  /\ subscribers \subseteq Viewers /\ catchingUp \subseteq Viewers
  /\ offset \in [Viewers -> 0 .. MaxBytes]
  /\ pump \in [Viewers -> [task : {"none", "run", "sending", "waiting", "finished"},
                           queue : Seq(Frames), queued : Nat,
                           wake : BOOLEAN, closing : BOOLEAN]]
  /\ conn \in [Viewers -> {"open", "closing", "lost", "gone"}]
  /\ wire \in [Viewers -> Seq(Frames)]
  /\ request \in [Viewers -> BOOLEAN]
  /\ attaches \in [Viewers -> 0 .. MaxAttach]
  /\ screen \in [Viewers -> Seq(1 .. MaxBytes)]
  /\ toldClosed \in [Viewers -> BOOLEAN]
  /\ overran \in [Viewers -> BOOLEAN]
  /\ abandoned \in [Viewers -> BOOLEAN]

Up(v) == conn[v] \in {"open", "closing"}

(* What is on its way to viewer v, on the wire and in its queue; how much  *)
(* of the output it has been shown, and will have with the first i frames. *)
OnTheWay(v) == wire[v] \o pump[v].queue
Shown(v) == IF screen[v] = <<>> THEN 0 ELSE screen[v][Len(screen[v])]
Reached(v, i) == IF i = 0 THEN Shown(v) ELSE OnTheWay(v)[i].hi

(* A frame goes on where the one before it ends; the first one of a replay *)
(* starts with what the ring still has.                                    *)
GoesOn(v, i) ==
  LET f == OnTheWay(v)[i]
  IN  f.kind = "output" =>
        /\ f.lo <= f.hi
        /\ \/ f.lo = Reached(v, i - 1) + 1
           \/ overran[v] /\ f.lo > Reached(v, i - 1)
           \/ i = 1 /\ screen[v] = <<>>

(* The frames on their way, but for a term_closed at their end. *)
Outputs(v) ==
  LET n == Len(OnTheWay(v))
  IN  IF n > 0 /\ OnTheWay(v)[n].kind = "closed" THEN n - 1 ELSE n
Served(v) == IF v \in catchingUp THEN offset[v] ELSE total

(* "Nessun byte cade fra i due": a viewer that attached once gets the      *)
(* output in order and without repetitions, has no hole unless the ring    *)
(* dropped bytes while it was catching up, and at every moment what it has *)
(* been shown, what is on the wire and what is queued for it end exactly   *)
(* at the point the read loop (or its own replay) has reached.             *)
StreamIsComplete ==
  \A v \in subscribers :
    (Up(v) /\ attaches[v] = 1 /\ ~abandoned[v]) =>
      /\ \A i \in 1 .. Len(OnTheWay(v)) : GoesOn(v, i)
      /\ Reached(v, Outputs(v)) = Served(v)

(* A pump exists only for a subscriber, and a task that sleeps has nothing *)
(* to do: no wake-up is lost.                                              *)
SleepIsSound ==
  \A v \in Viewers :
    /\ HasPump(v) => v \in subscribers
    /\ (pump[v].task = "waiting" /\ ~pump[v].wake)
          => (pump[v].queue = <<>> /\ ~pump[v].closing)

(* The bytes of a queue: `left[i]` of them in the frames from the i-th on. *)
Holds(queue, n) ==
  \E left \in [1 .. Len(queue) + 1 -> 0 .. n] :
    /\ left[1] = n /\ left[Len(queue) + 1] = 0
    /\ \A i \in 1 .. Len(queue) : left[i] = Size(queue[i]) + left[i + 1]

(* The byte count of a pump is that of its queue and within the limit. *)
BytesAreCounted ==
  \A v \in Viewers :
    pump[v].queued <= MaxQueued /\ Holds(pump[v].queue, pump[v].queued)

(* The bookkeeping of the pumps. *)
PumpsAreSound == SleepIsSound /\ BytesAreCounted

(* A connection that has been released is in no listed session. *)
ReleasedIsForgotten ==
  \A v \in Viewers :
    (conn[v] = "gone" /\ listed)
      => (v \notin subscribers /\ v \notin catchingUp /\ ~HasPump(v))

(* The session keeps nothing of a viewer it should not: together, the      *)
(* pumps that fan-out, eviction and flush leave, and what a disconnection  *)
(* takes away.                                                             *)
ViewersAreAccounted == PumpsAreSound /\ ReleasedIsForgotten

(* term_closed is the last thing a viewer is sent. *)
NothingAfterClosed ==
  [][\A v \in Viewers : toldClosed[v] => (screen'[v] = screen[v] \/ screen'[v] = <<>>)]_vars

(* Through all this a client's screen is the stream of ViewerStream.  No   *)
(* promise is made once it attaches again while still attached.            *)
Stream(v) == INSTANCE ViewerStream WITH
  produced <- total,
  shown <- IF attaches[v] <= 1 THEN screen[v] ELSE <<>>,
  overran <- overran[v]
ScreensAreStreams ==
  /\ \A v \in Viewers : Stream(v)!Init
  /\ [][\A v \in Viewers : [Stream(v)!Next]_(Stream(v)!vars)]_vars

(* When the process ends or somebody kills it the session is closed and    *)
(* forgotten, even if no client reads what it is sent.                     *)
SessionEnds == (process = "exited" \/ ~alive) ~> (reader = "done" /\ ~listed)

(* A client that reads sees every byte the read loop has read, whatever    *)
(* the other viewers do, unless it or the session goes away.               *)
ResponsiveSeesAll ==
  \A v \in Responsive : \A n \in 1 .. MaxBytes :
    (v \in subscribers /\ total >= n) ~>
      \/ screen[v] # <<>> /\ screen[v][Len(screen[v])] >= n
      \/ v \notin subscribers \/ conn[v] # "open" \/ abandoned[v]

=============================================================================
