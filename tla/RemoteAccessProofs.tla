-------------------------- MODULE RemoteAccessProofs --------------------------
(***************************************************************************)
(* Proofs about RemoteAccess, however often UPnP changes, cloudflared      *)
(* fails and the program is closed, crashes and is started again.          *)
(***************************************************************************)
EXTENDS RemoteAccess, TLAPS

(* That the server shows UPnP says something of the tunnel only because of *)
(* what the refresh in progress has already done: at each of its stages.   *)
RoadInv ==
  /\ refresh # "idle" /\ mode = "upnp" => before = "upnp"
  /\ refresh \in {"idle", "setup"} /\ mode = "upnp" => opened /\ (thread = "dead" \/ stop)
  /\ refresh = "stopping" => opened
  /\ refresh \in {"terminate", "clear", "publish"} => opened /\ (thread = "dead" \/ stop)
  /\ fresh # "upnp"
  /\ life = "down" => mode # "upnp" /\ refresh = "idle"
  /\ \A t \in Threads : callback[t] # "upnp"

(* The flags, and the other variables. *)
FlagsTyped ==
  /\ upnp \in BOOLEAN /\ ssl \in BOOLEAN /\ url \in BOOLEAN /\ stop \in BOOLEAN
  /\ held \in BOOLEAN /\ said \in BOOLEAN /\ first \in BOOLEAN /\ opened \in BOOLEAN
  /\ registered \in BOOLEAN /\ swept \in BOOLEAN /\ spared \in BOOLEAN
  /\ bound \in BOOLEAN

StagesTyped ==
  /\ mode \in Modes /\ status \in {"none", "starting", "downloading", "failed"}
  /\ thread \in Places /\ proc \in {"none", "alive", "dying", "dead"}
  /\ callback \in [Threads -> {"no", "read", "evaluate", "tunnel", "none"}]
  /\ refresh \in Stages /\ before \in Modes /\ fresh \in {"tunnel", "none"}
  /\ life \in Lives /\ binary \in Images /\ job \in {"unmade", "made", "broken"}
  /\ flips \in 0 .. MaxFlips /\ failures \in 0 .. MaxFailures /\ lives \in Nat

(* What outlives the program is a cloudflared that was found: the images   *)
(* of the orphans, and that cloudflared runs only where the thread is past *)
(* its start.                                                              *)
ImagesTyped ==
  /\ orphans \subseteq {"ours", "path"}
  /\ proc = "alive" => thread \in {"assign", "bind", "check", "read"}
  /\ thread \in {"popen", "assign", "bind", "check", "read"} => binary # "missing"

LEMMA TypeParts == TypeOK <=> FlagsTyped /\ StagesTyped /\ orphans \subseteq {"ours", "path"}
  BY DEF TypeOK, FlagsTyped, StagesTyped

(* Every step keeps the flags boolean. *)
LEMMA FlagsStep ==
  ASSUME FlagsTyped, [Next]_vars
  PROVE  FlagsTyped'
  <1> USE DEF FlagsTyped, tunnelVars, serverVars, bounds, lifeVars, imageVars, Set
  <1>1. CASE RefreshBegins
    BY <1>1 DEF RefreshBegins
  <1>2. CASE SetupWorks
    BY <1>2 DEF SetupWorks
  <1>3. CASE SetupFails
    BY <1>3 DEF SetupFails
  <1>4. CASE StopSetsFlag
    BY <1>4 DEF StopSetsFlag
  <1>5. CASE StopTerminates
    BY <1>5 DEF StopTerminates
  <1>6. CASE StopClearsUrl
    BY <1>6 DEF StopClearsUrl
  <1>7. CASE PublishUpnp
    BY <1>7 DEF PublishUpnp
  <1>8. CASE StartTunnel
    BY <1>8 DEF StartTunnel
  <1>9. CASE EvaluateMode
    BY <1>9 DEF EvaluateMode
  <1>10. CASE PublishMode
    BY <1>10 DEF PublishMode
  <1>11. CASE CloseStale
    BY <1>11 DEF At, CloseStale
  <1>11a. CASE SweepFails
    BY <1>11a DEF At, SweepFails
  <1>12. CASE LoopOrEnd
    BY <1>12 DEF At, LoopOrEnd
  <1>13. CASE BinaryFound
    BY <1>13 DEF At, BinaryFound
  <1>14. CASE BinaryMissing
    BY <1>14 DEF At, BinaryMissing
  <1>15. CASE DownloadWorks
    BY <1>15 DEF At, DownloadWorks
  <1>16. CASE DownloadFails
    BY <1>16 DEF At, DownloadFails
  <1>17. CASE PopenWorks
    BY <1>17 DEF At, PopenWorks
  <1>18. CASE PopenFails
    BY <1>18 DEF At, PopenFails
  <1>19. CASE ProcKnown
    BY <1>19 DEF At, ProcKnown
  <1>20. CASE BindToJob
    BY <1>20 DEF At, BindToJob
  <1>21. CASE BindFails
    BY <1>21 DEF At, BindFails
  <1>22. CASE CheckStop
    BY <1>22 DEF At, CheckStop
  <1>23. CASE ReadUrl
    BY <1>23 DEF At, ReadUrl
  <1>24. CASE ReadEnds
    BY <1>24 DEF At, ReadEnds
  <1>25. CASE RunEnds
    BY <1>25 DEF At, RunEnds
  <1>26. CASE WaitEnds
    BY <1>26 DEF At, WaitEnds
  <1>27. CASE ProcDies
    BY <1>27 DEF ProcDies
  <1>28. CASE ProcCrashes
    BY <1>28 DEF ProcCrashes
  <1>29. CASE UpnpFlips
    BY <1>29 DEF UpnpFlips
  <1>30. CASE Start
    BY <1>30 DEF Start
  <1>31. CASE ExitBegins
    BY <1>31 DEF ExitBegins
  <1>32. CASE ExitStops
    BY <1>32 DEF ExitStops
  <1>33. CASE ExitEnds
    BY <1>33 DEF ExitEnds, Gone
  <1>34. CASE Crash
    BY <1>34 DEF Crash, Gone
  <1>35. ASSUME NEW t \in Threads, CallbackReads(t) PROVE FlagsTyped'
    BY <1>35 DEF CallbackReads
  <1>36. ASSUME NEW t \in Threads, CallbackEvaluates(t) PROVE FlagsTyped'
    BY <1>36 DEF CallbackEvaluates
  <1>37. ASSUME NEW t \in Threads, CallbackWrites(t) PROVE FlagsTyped'
    BY <1>37 DEF CallbackWrites
  <1>38. CASE UNCHANGED vars
    BY <1>38 DEF vars
  <1> QED
    BY <1>1, <1>2, <1>3, <1>4, <1>5, <1>6, <1>7, <1>8, <1>9, <1>10, <1>11, <1>11a, <1>12,
       <1>13, <1>14, <1>15, <1>16, <1>17, <1>18, <1>19, <1>20, <1>21, <1>22, <1>23, <1>24,
       <1>25, <1>26, <1>27, <1>28, <1>29, <1>30, <1>31, <1>32, <1>33, <1>34, <1>35, <1>36,
       <1>37, <1>38
       DEF Next, Refresh, Tunnel, Exit, Callback

(* _set() keeps the types of what it writes. *)
LEMMA SetTyped ==
  ASSUME NEW t \in Threads, NEW u \in BOOLEAN,
         NEW s \in {"none", "starting", "downloading", "failed"}, Set(t, u, s),
         callback \in [Threads -> {"no", "read", "evaluate", "tunnel", "none"}]
  PROVE  /\ status' \in {"none", "starting", "downloading", "failed"}
         /\ callback' \in [Threads -> {"no", "read", "evaluate", "tunnel", "none"}]
  BY DEF Set

(* Every step keeps the other types. *)
LEMMA StagesStep ==
  ASSUME StagesTyped, [Next]_vars
  PROVE  StagesTyped'
  <1> USE RemoteAssumption DEF JobAfterFailure, StagesTyped,
        tunnelVars, serverVars, bounds, lifeVars, imageVars,
        Places, Stages, Modes, Threads, Lives, Images, TunnelMode, Terminated
  <1>1. CASE RefreshBegins
    BY <1>1 DEF RefreshBegins
  <1>2. CASE SetupWorks
    BY <1>2 DEF SetupWorks
  <1>3. CASE SetupFails
    BY <1>3 DEF SetupFails
  <1>4. CASE StopSetsFlag
    BY <1>4 DEF StopSetsFlag
  <1>5. CASE StopTerminates
    BY <1>5 DEF StopTerminates
  <1>6. CASE StopClearsUrl
    <2>1. Set("server", FALSE, "none")
      BY <1>6 DEF StopClearsUrl
    <2>2. /\ status' \in {"none", "starting", "downloading", "failed"}
          /\ callback' \in [Threads -> {"no", "read", "evaluate", "tunnel", "none"}]
      BY <2>1, SetTyped
    <2> QED
      BY <1>6, <2>2 DEF StopClearsUrl
  <1>7. CASE PublishUpnp
    BY <1>7 DEF PublishUpnp
  <1>8. CASE StartTunnel
    BY <1>8 DEF StartTunnel
  <1>9. CASE EvaluateMode
    BY <1>9 DEF EvaluateMode
  <1>10. CASE PublishMode
    BY <1>10 DEF PublishMode
  <1>11. CASE CloseStale
    BY <1>11 DEF At, CloseStale
  <1>11a. CASE SweepFails
    BY <1>11a DEF At, SweepFails
  <1>12. CASE LoopOrEnd
    BY <1>12 DEF At, LoopOrEnd
  <1>13. CASE BinaryFound
    <2>1. Set("tunnel", FALSE, "starting")
      BY <1>13 DEF BinaryFound
    <2>2. /\ status' \in {"none", "starting", "downloading", "failed"}
          /\ callback' \in [Threads -> {"no", "read", "evaluate", "tunnel", "none"}]
      BY <2>1, SetTyped
    <2> QED
      BY <1>13, <2>2 DEF At, BinaryFound
  <1>14. CASE BinaryMissing
    <2>1. Set("tunnel", FALSE, "downloading")
      BY <1>14 DEF BinaryMissing
    <2>2. /\ status' \in {"none", "starting", "downloading", "failed"}
          /\ callback' \in [Threads -> {"no", "read", "evaluate", "tunnel", "none"}]
      BY <2>1, SetTyped
    <2> QED
      BY <1>14, <2>2 DEF At, BinaryMissing
  <1>15. CASE DownloadWorks
    BY <1>15 DEF At, DownloadWorks
  <1>16. CASE DownloadFails
    <2>0. failures' \in 0 .. MaxFailures
      BY <1>16 DEF DownloadFails
    <2>1. Set("tunnel", FALSE, "failed")
      BY <1>16 DEF DownloadFails
    <2>2. /\ status' \in {"none", "starting", "downloading", "failed"}
          /\ callback' \in [Threads -> {"no", "read", "evaluate", "tunnel", "none"}]
      BY <2>1, SetTyped
    <2> QED
      BY <1>16, <2>0, <2>2 DEF At, DownloadFails
  <1>17. CASE PopenWorks
    BY <1>17 DEF At, PopenWorks
  <1>18. CASE PopenFails
    <2>0. failures' \in 0 .. MaxFailures
      BY <1>18 DEF PopenFails
    <2>1. Set("tunnel", FALSE, "failed")
      BY <1>18 DEF PopenFails
    <2>2. /\ status' \in {"none", "starting", "downloading", "failed"}
          /\ callback' \in [Threads -> {"no", "read", "evaluate", "tunnel", "none"}]
      BY <2>1, SetTyped
    <2> QED
      BY <1>18, <2>0, <2>2 DEF At, PopenFails
  <1>19. CASE ProcKnown
    BY <1>19 DEF At, ProcKnown
  <1>20. CASE BindToJob
    BY <1>20 DEF At, BindToJob
  <1>21. CASE BindFails
    <2>1. failures' \in 0 .. MaxFailures
      BY <1>21 DEF BindFails
    <2> QED
      BY <1>21, <2>1 DEF At, BindFails
  <1>22. CASE CheckStop
    BY <1>22 DEF At, CheckStop
  <1>23. CASE ReadUrl
    <2>1. CASE url
      BY <1>23, <2>1 DEF At, ReadUrl
    <2>2. CASE ~(url)
      <3>1. Set("tunnel", TRUE, "none")
        BY <1>23, <2>2 DEF ReadUrl
      <3>2. /\ status' \in {"none", "starting", "downloading", "failed"}
            /\ callback' \in [Threads -> {"no", "read", "evaluate", "tunnel", "none"}]
        BY <3>1, SetTyped
      <3> QED
        BY <1>23, <3>2 DEF At, ReadUrl
    <2> QED
      BY <2>1, <2>2
  <1>24. CASE ReadEnds
    BY <1>24 DEF At, ReadEnds
  <1>25. CASE RunEnds
    <2>1. CASE stop
      BY <1>25, <2>1 DEF At, RunEnds
    <2>2. CASE ~(stop)
      <3>1. Set("tunnel", FALSE, "failed")
        BY <1>25, <2>2 DEF RunEnds
      <3>2. /\ status' \in {"none", "starting", "downloading", "failed"}
            /\ callback' \in [Threads -> {"no", "read", "evaluate", "tunnel", "none"}]
        BY <3>1, SetTyped
      <3> QED
        BY <1>25, <3>2 DEF At, RunEnds
    <2> QED
      BY <2>1, <2>2
  <1>26. CASE WaitEnds
    BY <1>26 DEF At, WaitEnds
  <1>27. CASE ProcDies
    BY <1>27 DEF ProcDies
  <1>28. CASE ProcCrashes
    BY <1>28 DEF ProcCrashes
  <1>29. CASE UpnpFlips
    BY <1>29 DEF UpnpFlips
  <1>30. CASE Start
    BY <1>30 DEF Start
  <1>31. CASE ExitBegins
    BY <1>31 DEF ExitBegins
  <1>32. CASE ExitStops
    BY <1>32 DEF ExitStops
  <1>33. CASE ExitEnds
    BY <1>33 DEF ExitEnds, Gone
  <1>34. CASE Crash
    BY <1>34 DEF Crash, Gone
  <1>35. ASSUME NEW t \in Threads, CallbackReads(t) PROVE StagesTyped'
    BY <1>35 DEF CallbackReads
  <1>36. ASSUME NEW t \in Threads, CallbackEvaluates(t) PROVE StagesTyped'
    BY <1>36 DEF CallbackEvaluates
  <1>37. ASSUME NEW t \in Threads, CallbackWrites(t) PROVE StagesTyped'
    BY <1>37 DEF CallbackWrites
  <1>38. CASE UNCHANGED vars
    BY <1>38 DEF vars
  <1> QED
    BY <1>1, <1>2, <1>3, <1>4, <1>5, <1>6, <1>7, <1>8, <1>9, <1>10, <1>11, <1>11a, <1>12,
       <1>13, <1>14, <1>15, <1>16, <1>17, <1>18, <1>19, <1>20, <1>21, <1>22, <1>23, <1>24,
       <1>25, <1>26, <1>27, <1>28, <1>29, <1>30, <1>31, <1>32, <1>33, <1>34, <1>35, <1>36,
       <1>37, <1>38
       DEF Next, Refresh, Tunnel, Exit, Callback

(* Every step keeps the images. *)
LEMMA ImagesStep ==
  ASSUME StagesTyped, ImagesTyped, [Next]_vars
  PROVE  ImagesTyped'
  <1> USE DEF StagesTyped, ImagesTyped, tunnelVars, serverVars, bounds, lifeVars, imageVars,
        Images, Matching, TerminateStale, Terminated
  <1>1. CASE RefreshBegins
    BY <1>1 DEF RefreshBegins
  <1>2. CASE SetupWorks
    BY <1>2 DEF SetupWorks
  <1>3. CASE SetupFails
    BY <1>3 DEF SetupFails
  <1>4. CASE StopSetsFlag
    BY <1>4 DEF StopSetsFlag
  <1>5. CASE StopTerminates
    BY <1>5 DEF StopTerminates
  <1>6. CASE StopClearsUrl
    BY <1>6 DEF StopClearsUrl
  <1>7. CASE PublishUpnp
    BY <1>7 DEF PublishUpnp
  <1>8. CASE StartTunnel
    BY <1>8 DEF StartTunnel
  <1>9. CASE EvaluateMode
    BY <1>9 DEF EvaluateMode
  <1>10. CASE PublishMode
    BY <1>10 DEF PublishMode
  <1>11. CASE CloseStale
    BY <1>11 DEF At, CloseStale
  <1>11a. CASE SweepFails
    BY <1>11a DEF At, SweepFails
  <1>12. CASE LoopOrEnd
    BY <1>12 DEF At, LoopOrEnd
  <1>13. CASE BinaryFound
    BY <1>13 DEF At, BinaryFound
  <1>14. CASE BinaryMissing
    BY <1>14 DEF At, BinaryMissing
  <1>15. CASE DownloadWorks
    BY <1>15 DEF At, DownloadWorks
  <1>16. CASE DownloadFails
    BY <1>16 DEF At, DownloadFails
  <1>17. CASE PopenWorks
    BY <1>17 DEF At, PopenWorks
  <1>18. CASE PopenFails
    BY <1>18 DEF At, PopenFails
  <1>19. CASE ProcKnown
    BY <1>19 DEF At, ProcKnown
  <1>20. CASE BindToJob
    BY <1>20 DEF At, BindToJob
  <1>21. CASE BindFails
    BY <1>21 DEF At, BindFails
  <1>22. CASE CheckStop
    BY <1>22 DEF At, CheckStop
  <1>23. CASE ReadUrl
    BY <1>23 DEF At, ReadUrl
  <1>24. CASE ReadEnds
    BY <1>24 DEF At, ReadEnds
  <1>25. CASE RunEnds
    BY <1>25 DEF At, RunEnds
  <1>26. CASE WaitEnds
    BY <1>26 DEF At, WaitEnds
  <1>27. CASE ProcDies
    BY <1>27 DEF ProcDies
  <1>28. CASE ProcCrashes
    BY <1>28 DEF ProcCrashes
  <1>29. CASE UpnpFlips
    BY <1>29 DEF UpnpFlips
  <1>30. CASE Start
    BY <1>30 DEF Start
  <1>31. CASE ExitBegins
    BY <1>31 DEF ExitBegins
  <1>32. CASE ExitStops
    BY <1>32 DEF ExitStops
  <1>33. CASE ExitEnds
    BY <1>33 DEF ExitEnds, Gone
  <1>34. CASE Crash
    BY <1>34 DEF Crash, Gone
  <1>35. ASSUME NEW t \in Threads, CallbackReads(t) PROVE ImagesTyped'
    BY <1>35 DEF CallbackReads
  <1>36. ASSUME NEW t \in Threads, CallbackEvaluates(t) PROVE ImagesTyped'
    BY <1>36 DEF CallbackEvaluates
  <1>37. ASSUME NEW t \in Threads, CallbackWrites(t) PROVE ImagesTyped'
    BY <1>37 DEF CallbackWrites
  <1>38. CASE UNCHANGED vars
    BY <1>38 DEF vars
  <1> QED
    BY <1>1, <1>2, <1>3, <1>4, <1>5, <1>6, <1>7, <1>8, <1>9, <1>10, <1>11, <1>11a, <1>12,
       <1>13, <1>14, <1>15, <1>16, <1>17, <1>18, <1>19, <1>20, <1>21, <1>22, <1>23, <1>24,
       <1>25, <1>26, <1>27, <1>28, <1>29, <1>30, <1>31, <1>32, <1>33, <1>34, <1>35, <1>36,
       <1>37, <1>38
       DEF Next, Refresh, Tunnel, Exit, Callback

(* The types hold in every reachable state, the images with them. *)
LEMMA TypesAlways == Spec => [](TypeOK /\ ImagesTyped)
  <1>1. Init => TypeOK /\ ImagesTyped
    <2>1. Init => FlagsTyped
      BY DEF Init, FlagsTyped
    <2>2. Init => StagesTyped
      BY RemoteAssumption
      DEF Init, StagesTyped, Places, Stages, Modes, Threads, Lives, Images
    <2>3. Init => ImagesTyped
      BY DEF Init, ImagesTyped
    <2> QED
      BY <2>1, <2>2, <2>3, TypeParts DEF ImagesTyped
  <1>2. TypeOK /\ ImagesTyped /\ [Next]_vars => (TypeOK /\ ImagesTyped)'
    <2> SUFFICES ASSUME FlagsTyped, StagesTyped, ImagesTyped, [Next]_vars
                 PROVE  FlagsTyped' /\ StagesTyped' /\ ImagesTyped'
      BY DEF TypeOK, FlagsTyped, StagesTyped, ImagesTyped
    <2> QED
      BY FlagsStep, StagesStep, ImagesStep
  <1> QED
    BY <1>1, <1>2, PTL DEF Spec

(* The types hold in every reachable state. *)
THEOREM TypeCorrect == Spec => []TypeOK
  BY TypesAlways, PTL

(* Every step of the refresh, of the thread, of the callbacks and of the   *)
(* life of the program keeps it.                                           *)
LEMMA RoadStep ==
  ASSUME TypeOK, RoadInv, [Next]_vars
  PROVE  RoadInv'
  <1> USE DEF TypeOK, RoadInv, tunnelVars, serverVars, bounds, lifeVars, imageVars,
        Threads, TunnelMode, Set
  <1>1. CASE RefreshBegins
    BY <1>1 DEF RefreshBegins
  <1>2. CASE SetupWorks
    BY <1>2 DEF SetupWorks
  <1>3. CASE SetupFails
    BY <1>3 DEF SetupFails
  <1>4. CASE StopSetsFlag
    BY <1>4 DEF StopSetsFlag
  <1>5. CASE StopTerminates
    BY <1>5 DEF StopTerminates
  <1>6. CASE StopClearsUrl
    BY <1>6 DEF StopClearsUrl
  <1>7. CASE PublishUpnp
    BY <1>7 DEF PublishUpnp
  <1>8. CASE StartTunnel
    BY <1>8 DEF StartTunnel
  <1>9. CASE EvaluateMode
    BY <1>9 DEF EvaluateMode
  <1>10. CASE PublishMode
    BY <1>10 DEF PublishMode
  <1>11. CASE CloseStale
    BY <1>11 DEF At, CloseStale
  <1>11a. CASE SweepFails
    BY <1>11a DEF At, SweepFails
  <1>12. CASE LoopOrEnd
    BY <1>12 DEF At, LoopOrEnd
  <1>13. CASE BinaryFound
    BY <1>13 DEF At, BinaryFound
  <1>14. CASE BinaryMissing
    BY <1>14 DEF At, BinaryMissing
  <1>15. CASE DownloadWorks
    BY <1>15 DEF At, DownloadWorks
  <1>16. CASE DownloadFails
    BY <1>16 DEF At, DownloadFails
  <1>17. CASE PopenWorks
    BY <1>17 DEF At, PopenWorks
  <1>18. CASE PopenFails
    BY <1>18 DEF At, PopenFails
  <1>19. CASE ProcKnown
    BY <1>19 DEF At, ProcKnown
  <1>20. CASE BindToJob
    BY <1>20 DEF At, BindToJob
  <1>21. CASE BindFails
    BY <1>21 DEF At, BindFails
  <1>22. CASE CheckStop
    BY <1>22 DEF At, CheckStop
  <1>23. CASE ReadUrl
    BY <1>23 DEF At, ReadUrl
  <1>24. CASE ReadEnds
    BY <1>24 DEF At, ReadEnds
  <1>25. CASE RunEnds
    BY <1>25 DEF At, RunEnds
  <1>26. CASE WaitEnds
    BY <1>26 DEF At, WaitEnds
  <1>27. CASE ProcDies
    BY <1>27 DEF ProcDies
  <1>28. CASE ProcCrashes
    BY <1>28 DEF ProcCrashes
  <1>29. CASE UpnpFlips
    BY <1>29 DEF UpnpFlips
  <1>30. CASE Start
    BY <1>30 DEF Start
  <1>31. CASE ExitBegins
    BY <1>31 DEF ExitBegins
  <1>32. CASE ExitStops
    BY <1>32 DEF ExitStops
  <1>33. CASE ExitEnds
    BY <1>33 DEF ExitEnds, Gone
  <1>34. CASE Crash
    BY <1>34 DEF Crash, Gone
  <1>35. ASSUME NEW t \in Threads, CallbackReads(t) PROVE RoadInv'
    BY <1>35 DEF CallbackReads
  <1>36. ASSUME NEW t \in Threads, CallbackEvaluates(t) PROVE RoadInv'
    BY <1>36 DEF CallbackEvaluates
  <1>37. ASSUME NEW t \in Threads, CallbackWrites(t) PROVE RoadInv'
    BY <1>37 DEF CallbackWrites
  <1>38. CASE UNCHANGED vars
    BY <1>38 DEF vars
  <1> QED
    BY <1>1, <1>2, <1>3, <1>4, <1>5, <1>6, <1>7, <1>8, <1>9, <1>10, <1>11, <1>11a, <1>12,
       <1>13, <1>14, <1>15, <1>16, <1>17, <1>18, <1>19, <1>20, <1>21, <1>22, <1>23, <1>24,
       <1>25, <1>26, <1>27, <1>28, <1>29, <1>30, <1>31, <1>32, <1>33, <1>34, <1>35, <1>36,
       <1>37, <1>38
       DEF Next, Refresh, Tunnel, Exit, Callback

(* While UPnP is shown the port is open and the tunnel has ended or has    *)
(* been told to.                                                           *)
THEOREM OneRoadAtATime == Spec => []OneRoad
  <1>1. Init => RoadInv
    BY DEF Init, RoadInv, Threads
  <1>2. TypeOK /\ RoadInv /\ [Next]_vars => RoadInv'
    BY RoadStep
  <1>3. RoadInv => OneRoad
    BY DEF RoadInv, OneRoad
  <1> QED
    BY TypeCorrect, <1>1, <1>2, <1>3, PTL DEF Spec

(* Why no second cloudflared of ours runs: the thread sweeps before it     *)
(* starts one.  Why an exit leaves none: once atexit has stopped the       *)
(* tunnel, one that is being read from has been terminated as long as the  *)
(* flag is up, and only a refresh already under way takes the flag down.   *)
OrphanInv ==
  /\ life = "down" => thread = "dead" /\ refresh = "idle"
  /\ "ours" \in orphans => binary = "ours"
  /\ swept /\ "ours" \in orphans => spared
  /\ thread \notin {"dead", "sweep"} => swept
  /\ thread \in {"bind", "check", "read"} => held
  /\ ~registered /\ thread # "dead" => refresh = "evaluate" /\ ~stop
  /\ life \in {"terminate", "final"} /\ thread # "dead"
     /\ refresh \in {"setup", "stopping", "terminate", "clear", "publish", "start"} => stop
  /\ life = "final" /\ stop /\ thread = "read" => proc # "alive"

(* Every step keeps it. *)
LEMMA OrphanStep ==
  ASSUME TypeOK, ImagesTyped, OrphanInv, [Next]_vars
  PROVE  OrphanInv'
  <1> USE DEF TypeOK, ImagesTyped, OrphanInv, tunnelVars, serverVars, bounds, lifeVars, imageVars,
        Matching, TerminateStale, Terminated
  <1>1. CASE RefreshBegins
    BY <1>1 DEF RefreshBegins
  <1>2. CASE SetupWorks
    BY <1>2 DEF SetupWorks
  <1>3. CASE SetupFails
    BY <1>3 DEF SetupFails
  <1>4. CASE StopSetsFlag
    BY <1>4 DEF StopSetsFlag
  <1>5. CASE StopTerminates
    BY <1>5 DEF StopTerminates
  <1>6. CASE StopClearsUrl
    BY <1>6 DEF StopClearsUrl
  <1>7. CASE PublishUpnp
    BY <1>7 DEF PublishUpnp
  <1>8. CASE StartTunnel
    BY <1>8 DEF StartTunnel
  <1>9. CASE EvaluateMode
    BY <1>9 DEF EvaluateMode
  <1>10. CASE PublishMode
    BY <1>10 DEF PublishMode
  <1>11. CASE CloseStale
    BY <1>11 DEF At, CloseStale
  <1>11a. CASE SweepFails
    BY <1>11a DEF At, SweepFails
  <1>12. CASE LoopOrEnd
    BY <1>12 DEF At, LoopOrEnd
  <1>13. CASE BinaryFound
    BY <1>13 DEF At, BinaryFound
  <1>14. CASE BinaryMissing
    BY <1>14 DEF At, BinaryMissing
  <1>15. CASE DownloadWorks
    BY <1>15 DEF At, DownloadWorks
  <1>16. CASE DownloadFails
    BY <1>16 DEF At, DownloadFails
  <1>17. CASE PopenWorks
    BY <1>17 DEF At, PopenWorks
  <1>18. CASE PopenFails
    BY <1>18 DEF At, PopenFails
  <1>19. CASE ProcKnown
    BY <1>19 DEF At, ProcKnown
  <1>20. CASE BindToJob
    BY <1>20 DEF At, BindToJob
  <1>21. CASE BindFails
    BY <1>21 DEF At, BindFails
  <1>22. CASE CheckStop
    BY <1>22 DEF At, CheckStop
  <1>23. CASE ReadUrl
    BY <1>23 DEF At, ReadUrl
  <1>24. CASE ReadEnds
    BY <1>24 DEF At, ReadEnds
  <1>25. CASE RunEnds
    BY <1>25 DEF At, RunEnds
  <1>26. CASE WaitEnds
    BY <1>26 DEF At, WaitEnds
  <1>27. CASE ProcDies
    BY <1>27 DEF ProcDies
  <1>28. CASE ProcCrashes
    BY <1>28 DEF ProcCrashes
  <1>29. CASE UpnpFlips
    BY <1>29 DEF UpnpFlips
  <1>30. CASE Start
    BY <1>30 DEF Start
  <1>31. CASE ExitBegins
    BY <1>31 DEF ExitBegins
  <1>32. CASE ExitStops
    BY <1>32 DEF ExitStops
  <1>33. CASE ExitEnds
    BY <1>33 DEF ExitEnds, Gone
  <1>34. CASE Crash
    BY <1>34 DEF Crash, Gone
  <1>35. ASSUME NEW t \in Threads, CallbackReads(t) PROVE OrphanInv'
    BY <1>35 DEF CallbackReads
  <1>36. ASSUME NEW t \in Threads, CallbackEvaluates(t) PROVE OrphanInv'
    BY <1>36 DEF CallbackEvaluates
  <1>37. ASSUME NEW t \in Threads, CallbackWrites(t) PROVE OrphanInv'
    BY <1>37 DEF CallbackWrites
  <1>38. CASE UNCHANGED vars
    BY <1>38 DEF vars
  <1> QED
    BY <1>1, <1>2, <1>3, <1>4, <1>5, <1>6, <1>7, <1>8, <1>9, <1>10, <1>11, <1>11a, <1>12,
       <1>13, <1>14, <1>15, <1>16, <1>17, <1>18, <1>19, <1>20, <1>21, <1>22, <1>23, <1>24,
       <1>25, <1>26, <1>27, <1>28, <1>29, <1>30, <1>31, <1>32, <1>33, <1>34, <1>35, <1>36,
       <1>37, <1>38
       DEF Next, Refresh, Tunnel, Exit, Callback

(* However the program ends, no cloudflared of an earlier life runs beside *)
(* the present one unless the sweep of this one failed, and an orderly end *)
(* leaves one running only when it was being started or had been started   *)
(* anew.                                                                   *)
THEOREM OrphansAreFew == Spec => FewOrphans
  <1>1. Init => OrphanInv
    BY DEF Init, OrphanInv
  <1>2. TypeOK /\ ImagesTyped /\ OrphanInv /\ [Next]_vars => OrphanInv'
    BY OrphanStep
  <1>3. ImagesTyped /\ OrphanInv => (proc = "alive" /\ binary = "ours" /\ "ours" \in orphans => spared)
    BY DEF ImagesTyped, OrphanInv
  <1>4. TypeOK /\ ImagesTyped /\ OrphanInv /\ [Next]_vars
        => [ExitEnds /\ orphans' # orphans
            => ~stop \/ thread \in {"assign", "bind", "check"}]_vars
    <2> SUFFICES ASSUME TypeOK, ImagesTyped, OrphanInv, ExitEnds, orphans' # orphans, stop
                 PROVE  thread \in {"assign", "bind", "check"}
      BY DEF TypeOK
    <2>1. proc = "alive"
      BY DEF ExitEnds, Gone
    <2>2. thread # "read"
      BY <2>1 DEF ExitEnds, OrphanInv
    <2> QED
      BY <2>1, <2>2 DEF ImagesTyped
  <1> QED
    BY TypesAlways, <1>1, <1>2, <1>3, <1>4, PTL DEF Spec, FewOrphans
==============================================================================
