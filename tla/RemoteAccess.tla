----------------------------- MODULE RemoteAccess -----------------------------
(***************************************************************************)
(* The road a phone outside the LAN takes: the router's port when UPnP     *)
(* opens it, the Cloudflare tunnel otherwise.  _refresh_remote() of the    *)
(* server (net/server.py) decides at the start and at every keepalive; the *)
(* thread of CloudflareTunnel (net/tunnel.py) runs cloudflared, and calls  *)
(* back into the server whenever its url or status changes.                *)
(*                                                                         *)
(* A step is what one thread does between two reads or writes of what the  *)
(* other one shares: the stop flag, the process, the url and the mode.     *)
(* What UPnP does to answer is UpnpMapper's; here it works or does not.    *)
(*                                                                         *)
(* The program itself is started, is closed and crashes; what then becomes *)
(* of cloudflared, which is not to outlive it, depends on the job object   *)
(* and on the sweep of net/procguard.py.                                   *)
(***************************************************************************)
EXTENDS Naturals

CONSTANTS
  MaxFlips,     (* bound: how often UPnP starts or stops working           *)
  MaxFailures,  (* bound: failures of the sweep, the download, the start,  *)
                (* the job and the run of cloudflared                      *)
  MaxLives      (* bound: how often the program is started; the last time  *)
                (* it stays                                                *)

ASSUME RemoteAssumption ==
  MaxFlips \in Nat /\ MaxFailures \in Nat /\ MaxLives \in Nat

VARIABLES
  upnp,      (* a setup would open the port                                *)
  ssl,       (* the server has a certificate                               *)
  mode,      (* remote_mode                                                *)
  url,       (* the tunnel has published its url                           *)
  status,    (* "none", "starting", "downloading" or "failed"              *)
  stop,      (* _stop                                                      *)
  thread,    (* where the tunnel's thread is; "dead": not running          *)
  held,      (* _proc is set                                               *)
  proc,      (* cloudflared: "none", "alive", "dying" (terminated), "dead" *)
  said,      (* this cloudflared has printed its url                       *)
  callback,  (* for each thread, where it is in _on_tunnel_change          *)
  refresh,   (* where _refresh_remote is; "idle": waiting for the timer    *)
  before,    (* precedente: the mode when the refresh began                *)
  fresh,     (* nuovo: the mode it is about to set                         *)
  first,     (* primo                                                      *)
  opened,    (* history: the last setup worked, with a certificate         *)
  life,      (* of the program: "down", "up", "terminate" (atexit has      *)
             (* begun stop()) or "final"                                   *)
  registered,(* _atexit_registered                                         *)
  binary,    (* cloudflared is "ours" (in bin), in the "path" or "missing" *)
  swept,     (* _residui_chiusi                                            *)
  spared,    (* history: the sweep of this process failed                  *)
  job,       (* the job object: "unmade", "made" or "broken"               *)
  bound,     (* cloudflared is in it                                       *)
  orphans,   (* the images of cloudflareds that outlived the program       *)
  flips, failures, lives

tunnelVars == <<stop, thread, held, proc, said>>
serverVars == <<refresh, before, fresh, first, opened>>
lifeVars == <<life, registered, orphans, lives>>
imageVars == <<binary, swept, spared, job, bound>>
bounds == <<flips, failures, lifeVars, imageVars>>
vars == <<upnp, ssl, mode, url, status, callback, tunnelVars, serverVars, bounds>>

Threads == {"server", "tunnel"}

TunnelMode == IF url THEN "tunnel" ELSE "none"

Init ==
  /\ mode = "none" /\ url = FALSE /\ status = "none"
  /\ stop = FALSE /\ thread = "dead" /\ held = FALSE
  /\ proc = "none" /\ said = FALSE
  /\ callback = [t \in Threads |-> "no"]
  /\ refresh = "idle" /\ before = "none" /\ fresh = "none"
  /\ first = TRUE /\ opened = FALSE
  /\ registered = FALSE /\ swept = FALSE /\ spared = FALSE
  /\ job = "unmade" /\ bound = FALSE
  /\ life = "down" /\ orphans = {} /\ binary \in {"ours", "path", "missing"}
  /\ upnp \in BOOLEAN /\ ssl = FALSE
  /\ flips = 0 /\ failures = 0 /\ lives = 0

(***************************************************************************)
(* The url and the callback.                                               *)
(***************************************************************************)
(* _set(): nothing happens when nothing changes; otherwise thread t goes   *)
(* through the callback before it does anything else.                      *)
Set(t, u, s) ==
  /\ url' = u /\ status' = s
  /\ callback' = IF <<u, s>> = <<url, status>> THEN callback
                 ELSE [callback EXCEPT ![t] = "read"]

(* _on_tunnel_change(): with UPnP in use nothing is to be done. *)
CallbackReads(t) ==
  /\ callback[t] = "read"
  /\ callback' = [callback EXCEPT ![t] = IF mode = "upnp" THEN "no" ELSE "evaluate"]
  /\ UNCHANGED <<upnp, ssl, mode, url, status, tunnelVars, serverVars, bounds>>

CallbackEvaluates(t) ==
  /\ callback[t] = "evaluate"
  /\ callback' = [callback EXCEPT ![t] = TunnelMode]
  /\ UNCHANGED <<upnp, ssl, mode, url, status, tunnelVars, serverVars, bounds>>

CallbackWrites(t) ==
  /\ callback[t] \in {"tunnel", "none"}
  /\ mode' = callback[t]
  /\ callback' = [callback EXCEPT ![t] = "no"]
  /\ UNCHANGED <<upnp, ssl, url, status, tunnelVars, serverVars, bounds>>

Callback(t) == CallbackReads(t) \/ CallbackEvaluates(t) \/ CallbackWrites(t)

(***************************************************************************)
(* The refresh, on the event loop.                                         *)
(***************************************************************************)
(* The mode is noted before setup() is awaited, in the pool that the end   *)
(* of the program shuts first.                                             *)
RefreshBegins ==
  /\ refresh = "idle" /\ life = "up"
  /\ before' = mode /\ refresh' = "setup"
  /\ UNCHANGED <<upnp, ssl, mode, url, status, callback, tunnelVars, fresh,
                 first, opened, bounds>>

(* Variant: the tunnel is left running beside UPnP. *)
SetupWorksBesideTunnel ==
  /\ refresh = "setup" /\ upnp /\ ssl
  /\ opened' = TRUE
  /\ refresh' = "publish"
  /\ UNCHANGED <<upnp, ssl, mode, url, status, callback, tunnelVars, before,
                 fresh, first, bounds>>

(* setup() returns an address and there is a certificate. *)
SetupWorks ==
  /\ refresh = "setup" /\ upnp /\ ssl
  /\ opened' = TRUE
  /\ refresh' = IF thread # "dead" THEN "stopping" ELSE "publish"
  /\ UNCHANGED <<upnp, ssl, mode, url, status, callback, tunnelVars, before,
                 fresh, first, bounds>>

SetupFails ==
  /\ refresh = "setup" /\ ~(upnp /\ ssl)
  /\ opened' = FALSE
  /\ refresh' = "start"
  /\ UNCHANGED <<upnp, ssl, mode, url, status, callback, tunnelVars, before,
                 fresh, first, bounds>>

(* stop(): the flag first, then the process that is known, then the url. *)
StopSetsFlag ==
  /\ refresh = "stopping"
  /\ stop' = TRUE /\ refresh' = "terminate"
  /\ UNCHANGED <<upnp, ssl, mode, url, status, callback, thread, held, proc,
                 said, before, fresh, first, opened, bounds>>

Terminated == IF proc = "alive" THEN "dying" ELSE proc

StopTerminates ==
  /\ refresh = "terminate"
  /\ proc' = IF held THEN Terminated ELSE proc
  /\ refresh' = "clear"
  /\ UNCHANGED <<upnp, ssl, mode, url, status, callback, stop, thread, held,
                 said, before, fresh, first, opened, bounds>>

StopClearsUrl ==
  /\ refresh = "clear"
  /\ Set("server", FALSE, "none")
  /\ refresh' = "publish"
  /\ UNCHANGED <<upnp, ssl, mode, tunnelVars, before, fresh, first, opened, bounds>>

(* The mode is set to UPnP, unless it was noted as such and the address    *)
(* and port are as before too.                                             *)
PublishUpnp ==
  /\ refresh = "publish" /\ callback["server"] = "no"
  /\ \/ mode' = "upnp"
     \/ before = "upnp" /\ mode' = mode
  /\ refresh' = "idle" /\ before' = "none" /\ first' = FALSE
  /\ UNCHANGED <<upnp, ssl, url, status, callback, tunnelVars, fresh, opened,
                 bounds>>

(* start(): nothing when a thread is still running, be it about to end. *)
StartTunnel ==
  /\ refresh = "start"
  /\ IF thread = "dead" THEN stop' = FALSE /\ thread' = "sweep"
                        ELSE UNCHANGED <<stop, thread>>
  /\ refresh' = "evaluate"
  /\ UNCHANGED <<upnp, ssl, mode, url, status, callback, held, proc, said,
                 before, fresh, first, opened, bounds>>

(* start() registers stop() with atexit once the thread runs. *)
EvaluateMode ==
  /\ refresh = "evaluate"
  /\ registered' = TRUE
  /\ fresh' = TunnelMode /\ refresh' = "set"
  /\ UNCHANGED <<upnp, ssl, mode, url, status, callback, tunnelVars, before,
                 first, opened, flips, failures, life, orphans, lives, imageVars>>

(* Variant: only the first refresh reports a tunnel. *)
PublishFirstModeOnly ==
  /\ refresh = "set"
  /\ mode' = IF first \/ before = "upnp" THEN fresh ELSE mode
  /\ refresh' = "idle" /\ before' = "none" /\ fresh' = "none" /\ first' = FALSE
  /\ UNCHANGED <<upnp, ssl, url, status, callback, tunnelVars, opened, bounds>>

PublishMode ==
  /\ refresh = "set"
  /\ mode' = IF first \/ fresh # before THEN fresh ELSE mode
  /\ refresh' = "idle" /\ before' = "none" /\ fresh' = "none" /\ first' = FALSE
  /\ UNCHANGED <<upnp, ssl, url, status, callback, tunnelVars, opened, bounds>>

Refresh ==
  RefreshBegins \/ SetupWorks \/ SetupFails \/ StopSetsFlag \/ StopTerminates
  \/ StopClearsUrl \/ PublishUpnp \/ StartTunnel \/ EvaluateMode \/ PublishMode

(***************************************************************************)
(* The thread of the tunnel, and cloudflared.                              *)
(***************************************************************************)
At(place) == thread = place /\ callback["tunnel"] = "no"

(* Variant: what an earlier run left is not closed. *)
CloseNothing ==
  /\ At("sweep")
  /\ swept' = TRUE /\ thread' = "loop"
  /\ UNCHANGED <<upnp, ssl, mode, url, status, callback, stop, held, proc,
                 said, serverVars, flips, failures, lifeVars, binary, spared,
                 job, bound>>

(* The processes whose image is the one in bin: another cloudflared is the *)
(* user's own.                                                             *)
Matching == {image \in orphans : image = "ours"}

TerminateStale == orphans \ Matching

(* Once in a process, if there is a cloudflared in bin. *)
CloseStale ==
  /\ At("sweep")
  /\ swept' = TRUE /\ thread' = "loop"
  /\ orphans' = IF ~swept /\ binary = "ours" THEN TerminateStale ELSE orphans
  /\ UNCHANGED <<upnp, ssl, mode, url, status, callback, stop, held, proc,
                 said, serverVars, flips, failures, life, registered, lives,
                 binary, spared, job, bound>>

(* No list of processes, no handle or no right: _stale_killer() closes     *)
(* none, or not all, and says nothing of it.                               *)
SweepFails ==
  /\ At("sweep") /\ ~swept /\ binary = "ours" /\ failures < MaxFailures
  /\ swept' = TRUE /\ spared' = TRUE /\ thread' = "loop"
  /\ failures' = failures + 1
  /\ UNCHANGED <<upnp, ssl, mode, url, status, callback, stop, held, proc,
                 said, serverVars, flips, lifeVars, binary, job, bound>>

LoopOrEnd ==
  /\ At("loop")
  /\ thread' = IF stop THEN "dead" ELSE "binary"
  /\ UNCHANGED <<upnp, ssl, mode, url, status, callback, stop, held, proc,
                 said, serverVars, bounds>>

(* binary() has found cloudflared, and _run_once() begins. *)
BinaryFound ==
  /\ At("binary") /\ binary # "missing"
  /\ Set("tunnel", FALSE, "starting")
  /\ thread' = "popen"
  /\ UNCHANGED <<upnp, ssl, mode, stop, held, proc, said, serverVars, bounds>>

BinaryMissing ==
  /\ At("binary") /\ binary = "missing"
  /\ Set("tunnel", FALSE, "downloading")
  /\ thread' = "download"
  /\ UNCHANGED <<upnp, ssl, mode, stop, held, proc, said, serverVars, bounds>>

(* The file takes its name only when it is whole and its hash is right. *)
DownloadWorks ==
  /\ At("download")
  /\ binary' = "ours" /\ thread' = "binary"
  /\ UNCHANGED <<upnp, ssl, mode, url, status, callback, stop, held, proc,
                 said, serverVars, flips, failures, lifeVars, swept,
                 spared, job, bound>>

DownloadFails ==
  /\ At("download") /\ failures < MaxFailures
  /\ Set("tunnel", FALSE, "failed")
  /\ thread' = "wait" /\ failures' = failures + 1
  /\ UNCHANGED <<upnp, ssl, mode, stop, held, proc, said, serverVars, flips,
                 lifeVars, imageVars>>

PopenWorks ==
  /\ At("popen")
  /\ proc' = "alive" /\ said' = FALSE
  /\ thread' = "assign"
  /\ UNCHANGED <<upnp, ssl, mode, url, status, callback, stop, held, serverVars,
                 bounds>>

PopenFails ==
  /\ At("popen") /\ failures < MaxFailures
  /\ Set("tunnel", FALSE, "failed")
  /\ thread' = "wait" /\ failures' = failures + 1
  /\ UNCHANGED <<upnp, ssl, mode, stop, held, proc, said, serverVars, flips,
                 lifeVars, imageVars>>

ProcKnown ==
  /\ At("assign")
  /\ held' = TRUE /\ thread' = "bind"
  /\ UNCHANGED <<upnp, ssl, mode, url, status, callback, stop, proc, said,
                 serverVars, bounds>>

(* The job object is made for the first process, and kills what is in it   *)
(* when the program ends.                                                  *)
BindToJob ==
  /\ At("bind") /\ job # "broken"
  /\ job' = "made" /\ bound' = TRUE
  /\ thread' = "check"
  /\ UNCHANGED <<upnp, ssl, mode, url, status, callback, stop, held, proc, said,
                 serverVars, flips, failures, lifeVars, binary, swept, spared>>

(* A job that could not be made is not tried again; one that refuses a     *)
(* process is.                                                             *)
JobAfterFailure == IF job = "unmade" THEN {"made", "broken"} ELSE {job}

BindFails ==
  /\ At("bind")
  /\ IF job = "broken" THEN UNCHANGED <<job, failures>>
     ELSE /\ failures < MaxFailures /\ failures' = failures + 1
          /\ job' \in JobAfterFailure
  /\ thread' = "check"
  /\ UNCHANGED <<upnp, ssl, mode, url, status, callback, stop, held, proc, said,
                 serverVars, flips, lifeVars, binary, swept, spared, bound>>

(* Variant: a stop() that came before the process was known is missed. *)
CheckNothing ==
  /\ At("check")
  /\ thread' = "read"
  /\ UNCHANGED <<upnp, ssl, mode, url, status, callback, stop, held, proc, said,
                 serverVars, bounds>>

CheckStop ==
  /\ At("check")
  /\ proc' = IF stop THEN Terminated ELSE proc
  /\ thread' = "read"
  /\ UNCHANGED <<upnp, ssl, mode, url, status, callback, stop, held, said,
                 serverVars, bounds>>

(* The line with the url, which may still be read after a stop(). *)
ReadUrl ==
  /\ At("read") /\ ~said
  /\ said' = TRUE
  /\ IF url THEN UNCHANGED <<url, status, callback>> ELSE Set("tunnel", TRUE, "none")
  /\ UNCHANGED <<upnp, ssl, mode, stop, thread, held, proc, serverVars, bounds>>

(* The output ends with the process. *)
ReadEnds ==
  /\ At("read") /\ proc = "dead"
  /\ held' = FALSE /\ proc' = "none" /\ said' = FALSE /\ bound' = FALSE
  /\ thread' = "ended"
  /\ UNCHANGED <<upnp, ssl, mode, url, status, callback, stop, serverVars,
                 flips, failures, lifeVars, binary, swept, spared, job>>

RunEnds ==
  /\ At("ended")
  /\ IF stop THEN UNCHANGED <<url, status, callback>> ELSE Set("tunnel", FALSE, "failed")
  /\ thread' = "wait"
  /\ UNCHANGED <<upnp, ssl, mode, stop, held, proc, said, serverVars, bounds>>

(* The end of the thread, or the end of the growing wait before a new run. *)
WaitEnds ==
  /\ At("wait")
  /\ thread' = IF stop THEN "dead" ELSE "loop"
  /\ UNCHANGED <<upnp, ssl, mode, url, status, callback, stop, held, proc,
                 said, serverVars, bounds>>

Tunnel ==
  CloseStale \/ SweepFails \/ LoopOrEnd \/ BinaryFound \/ BinaryMissing
  \/ DownloadWorks \/ DownloadFails \/ PopenWorks \/ PopenFails \/ ProcKnown \/ BindToJob
  \/ BindFails \/ CheckStop \/ ReadUrl \/ ReadEnds \/ RunEnds \/ WaitEnds

ProcDies ==
  /\ proc = "dying"
  /\ proc' = "dead"
  /\ UNCHANGED <<upnp, ssl, mode, url, status, callback, stop, thread, held,
                 said, serverVars, bounds>>

ProcCrashes ==
  /\ proc = "alive" /\ failures < MaxFailures
  /\ proc' = "dead" /\ failures' = failures + 1
  /\ UNCHANGED <<upnp, ssl, mode, url, status, callback, stop, thread, held,
                 said, serverVars, flips, lifeVars, imageVars>>

(* The router starts or stops doing UPnP. *)
UpnpFlips ==
  /\ flips < MaxFlips
  /\ upnp' = ~upnp /\ flips' = flips + 1
  /\ UNCHANGED <<ssl, mode, url, status, callback, tunnelVars, serverVars,
                 failures, lifeVars, imageVars>>

(***************************************************************************)
(* The life of the program.                                                *)
(***************************************************************************)
(* The services start, with a certificate or without.  When no port could  *)
(* be bound there is no road to choose: the thread of the services ends.   *)
Start ==
  /\ life = "down"
  /\ life' = "up" /\ lives' = lives + 1 /\ ssl' \in BOOLEAN
  /\ \/ UNCHANGED <<stop, refresh>>
     \/ stop' = TRUE /\ refresh' = "ended"
  /\ UNCHANGED <<upnp, mode, url, status, callback, thread, held, proc, said,
                 before, fresh, first, opened, flips, failures, registered,
                 orphans, imageVars>>

(* The window is closed.  The pool is shut, and atexit calls stop(), if    *)
(* the tunnel was ever started; the other threads go on meanwhile, as they *)
(* are daemons.                                                            *)
ExitBegins ==
  /\ life = "up" /\ lives < MaxLives
  /\ IF registered THEN life' = "terminate" /\ stop' = TRUE
                   ELSE life' = "final" /\ UNCHANGED stop
  /\ UNCHANGED <<upnp, ssl, mode, url, status, callback, thread, held, proc,
                 said, serverVars, flips, failures, registered, orphans, lives,
                 imageVars>>

(* The rest of stop(); its callback concerns a window that is gone. *)
ExitStops ==
  /\ life = "terminate"
  /\ proc' = IF held THEN Terminated ELSE proc
  /\ url' = FALSE /\ status' = "none"
  /\ life' = "final"
  /\ UNCHANGED <<upnp, ssl, mode, callback, stop, thread, held, said, serverVars,
                 flips, failures, registered, orphans, lives, imageVars>>

(* The process is gone, its threads wherever they were; a cloudflared that *)
(* runs outside the job goes on running.                                   *)
Gone ==
  /\ life' = "down" /\ ssl' = FALSE
  /\ mode' = "none" /\ url' = FALSE /\ status' = "none"
  /\ stop' = FALSE /\ thread' = "dead" /\ held' = FALSE
  /\ proc' = "none" /\ said' = FALSE
  /\ callback' = [t \in Threads |-> "no"]
  /\ refresh' = "idle" /\ before' = "none" /\ fresh' = "none"
  /\ first' = TRUE /\ opened' = FALSE
  /\ registered' = FALSE /\ swept' = FALSE /\ spared' = FALSE
  /\ job' = "unmade" /\ bound' = FALSE
  /\ orphans' = IF proc = "alive" /\ ~bound THEN orphans \cup {binary} ELSE orphans
  /\ UNCHANGED <<upnp, binary, flips, failures, lives>>

ExitEnds == life = "final" /\ Gone

Crash == life # "down" /\ lives < MaxLives /\ Gone

Exit == ExitStops \/ ExitEnds

Next ==
  \/ Refresh \/ Tunnel \/ ProcDies \/ ProcCrashes \/ UpnpFlips
  \/ Start \/ ExitBegins \/ Exit \/ Crash
  \/ \E t \in Threads : Callback(t)

Spec == Init /\ [][Next]_vars

(* The timer of the keepalive fires, the threads run, cloudflared prints   *)
(* its url and ends when terminated, an exit that has begun goes on.       *)
(* Nothing is assumed of failures.                                         *)
Fairness ==
  /\ WF_vars(Refresh)
  /\ WF_vars(CloseStale \/ LoopOrEnd \/ BinaryFound \/ BinaryMissing
             \/ DownloadWorks \/ PopenWorks \/ ProcKnown \/ BindToJob \/ BindFails
             \/ CheckStop \/ ReadEnds \/ RunEnds \/ WaitEnds)
  /\ WF_vars(ReadUrl)
  /\ WF_vars(ProcDies)
  /\ WF_vars(Exit)
  /\ \A t \in Threads : WF_vars(Callback(t))

FairSpec == Spec /\ Fairness

(***************************************************************************)
(* Properties.                                                             *)
(***************************************************************************)
Places == {"dead", "sweep", "loop", "binary", "download", "popen", "assign",
           "bind", "check", "read", "ended", "wait"}
Stages == {"idle", "setup", "stopping", "terminate", "clear", "publish",
           "start", "evaluate", "set", "ended"}
Lives == {"down", "up", "terminate", "final"}
Images == {"ours", "path", "missing"}
Modes == {"upnp", "tunnel", "none"}

TypeOK ==
  /\ upnp \in BOOLEAN /\ ssl \in BOOLEAN /\ mode \in Modes
  /\ url \in BOOLEAN /\ status \in {"none", "starting", "downloading", "failed"}
  /\ stop \in BOOLEAN /\ thread \in Places /\ held \in BOOLEAN
  /\ proc \in {"none", "alive", "dying", "dead"} /\ said \in BOOLEAN
  /\ callback \in [Threads -> {"no", "read", "evaluate", "tunnel", "none"}]
  /\ refresh \in Stages /\ before \in Modes /\ fresh \in {"tunnel", "none"}
  /\ first \in BOOLEAN /\ opened \in BOOLEAN
  /\ life \in Lives /\ registered \in BOOLEAN /\ binary \in Images
  /\ swept \in BOOLEAN /\ spared \in BOOLEAN
  /\ job \in {"unmade", "made", "broken"} /\ bound \in BOOLEAN
  /\ orphans \subseteq {"ours", "path"}
  /\ flips \in 0 .. MaxFlips /\ failures \in 0 .. MaxFailures /\ lives \in Nat

(* Between two refreshes, when the panel shows UPnP, the last setup opened *)
(* the port with a certificate behind it, and the tunnel, which would be a *)
(* second public address, has ended or has been told to: the one place     *)
(* that decides, _refresh_remote(), stops it before it shows UPnP, and its *)
(* thread's callbacks never bring UPnP back.                               *)
OneRoad ==
  mode = "upnp" /\ refresh = "idle" => opened /\ (thread = "dead" \/ stop)

(* A tunnel told to stop ends, process included, whatever it was doing,    *)
(* the start of cloudflared included.                                      *)
StopEndsTunnel ==
  stop ~> (thread = "dead" /\ proc # "alive") \/ ~stop

(* Once the router and cloudflared stop changing their minds the mode is   *)
(* the road that works, for good: whatever the callbacks of the two        *)
(* threads and the refreshes overwrote is repaired by a later keepalive.   *)
ModeBecomesRight ==
  <>[](life = "up" /\ refresh # "ended"
       => mode = IF upnp /\ ssl THEN "upnp" ELSE "tunnel")

(* No cloudflared of ours keeps a public address open for a program that   *)
(* is gone, beside the one that runs: what outlived a crash is closed      *)
(* before a new one is started, unless the sweep, which is done once and   *)
(* fails in silence, failed.  And an orderly end leaves one running only   *)
(* in two cases: it was just being started, or the server had started the  *)
(* tunnel anew after stop().                                               *)
FewOrphans ==
  /\ [](proc = "alive" /\ binary = "ours" /\ "ours" \in orphans => spared)
  /\ [][ExitEnds /\ orphans' # orphans => ~stop \/ thread \in {"assign", "bind", "check"}]_vars
=============================================================================
