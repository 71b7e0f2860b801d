------------------------------ MODULE VideoCore ------------------------------
(***************************************************************************)
(* Nodalia Video Core: the per-camera watchdog loops (app/watchdog.py,     *)
(* app/health.py), the reconnect and reload routes of the API (app/api.py) *)
(* and start-up and shutdown (app/main.py), composed with the go2rtc       *)
(* manager they share.                                                     *)
(*                                                                         *)
(* Time is discrete.  A deadline is kept as the ticks left until it, which *)
(* saturate at 0: a cooldown that has run out and one never started allow  *)
(* a reconnect alike.  The environment's misbehaviour (go2rtc crashing, a  *)
(* camera failing, an answer timing out, an API call) is drawn from the    *)
(* budget `faults`.                                                        *)
(***************************************************************************)
EXTENDS Go2RTC

CONSTANTS
    Api,          \* asyncio tasks of HTTP requests in flight
    Routes,       \* what they ask for: "hard" or "soft" reconnects, "reload"
    Main,         \* the task of async_main
    Sources,      \* what a camera may deliver: "ok", "mute" or "down"
    MaxAttempts,  \* health.max_reconnect_attempts
    Cooldown,     \* health.reconnect_cooldown, in ticks
    Interval,     \* health.check_interval, in ticks
    SlowRestart,  \* TRUE iff replacing go2rtc may take longer than a tick
    MaxFaults     \* bound on the misbehaviour of the environment

ASSUME TasksAssumption ==
    /\ Tasks = Cameras \cup Api \cup {Main}
    /\ Main \notin Cameras \cup Api
    /\ Cameras \cap Api = {}
ASSUME RoutesAssumption == Routes \subseteq {"hard", "soft", "reload"}
ASSUME SourcesAssumption == Sources \subseteq {"ok", "mute", "down"}
ASSUME LimitsAssumption ==
    /\ MaxAttempts \in Nat \ {0}
    /\ Cooldown \in Nat \ {0}
    /\ Interval \in Nat \ {0}
    /\ MaxFaults \in Nat
    /\ SlowRestart \in BOOLEAN

VARIABLES
    state,      \* state[c]: CameraHealth.state
    count,      \* count[c]: CameraHealth.reconnect_count
    cool,       \* cool[c]: ticks until last_reconnect + reconnect_cooldown
    loop,       \* loop[c]: where _camera_loop(c) is
    wake,       \* wake[c]: ticks left of asyncio.sleep(check_interval)
    probe,      \* probe[c]: the ProbeResult _check_camera(c) holds
    main,       \* where async_main is
    source,     \* source[c]: what camera c delivers (external)
    faults      \* budget left for the environment's misbehaviour

healthVars == <<state, count, cool>>
loopVars == <<loop, wake, probe>>
envVars == <<source, faults>>
vars == <<mgrVars, healthVars, loopVars, main, envVars>>

CameraState == {"starting", "healthy", "degraded", "reconnecting", "offline", "error"}
LoopState == {"none", "check", "probe", "apply", "reconnect", "sleep", "dead"}
MainState == {"starting", "running", "cancelled", "stopping", "exited", "failed"}

(***************************************************************************)
(* "ok": video, and audio that is present, disabled or not expected;       *)
(* "mute": video without the audio that is expected; "missing": go2rtc     *)
(* answered 404; "novideo": any other failure of ffprobe; "none": no probe *)
(* is being examined.                                                      *)
(***************************************************************************)
ProbeOutcome == {"none", "ok", "mute", "missing", "novideo"}

HasVideo(r) == r \in {"ok", "mute"}

Min0(n) == IF n > 0 THEN n - 1 ELSE 0

Misbehave == faults > 0 /\ faults' = faults - 1

-----------------------------------------------------------------------------

Init ==
    /\ MgrInit
    /\ state = [c \in Cameras |-> "starting"]
    /\ count = [c \in Cameras |-> 0]
    /\ cool = [c \in Cameras |-> 0]
    /\ loop = [c \in Cameras |-> "none"]
    /\ wake = [c \in Cameras |-> 0]
    /\ probe = [c \in Cameras |-> "none"]
    /\ main = "starting"
    /\ source \in [Cameras -> Sources]
    /\ faults = MaxFaults

-----------------------------------------------------------------------------
(* async_main *)

\* await go2rtc.start(), then watchdog.start() and the server.
MainStart ==
    /\ main = "starting"
    /\ call[Main] = "idle"
    /\ IF process = "none"
         THEN /\ GoTo(Main, "start_wait")
              /\ UNCHANGED <<loop, main>>
         ELSE /\ main' = "running"
              /\ loop' = [c \in Cameras |-> "check"]
              /\ UNCHANGED call
    /\ UNCHANGED <<process, orphans, streams, holder, arg, generation>>
    /\ UNCHANGED <<healthVars, wake, probe, envVars>>

\* go2rtc.start() raised: asyncio.run propagates the exception.
MainFails ==
    /\ main = "starting"
    /\ call[Main] = "raised"
    /\ main' = "exited"
    /\ UNCHANGED <<mgrVars, healthVars, loopVars, envVars>>

\* The server task raised, or a signal came before its handler was installed:
\* asyncio.run cancels every task, and nobody stops go2rtc.
MainDies ==
    /\ main \in {"starting", "running"}
    /\ Misbehave
    /\ main' = "failed"
    /\ loop' = [c \in Cameras |-> "dead"]
    /\ wake' = [c \in Cameras |-> 0]
    /\ probe' = [c \in Cameras |-> "none"]
    /\ Cancelled(Tasks)
    /\ UNCHANGED <<process, orphans, streams, generation>>
    /\ UNCHANGED <<healthVars, source>>

\* SIGTERM, SIGINT or the server's return: Watchdog.stop() cancels the loops ...
MainStop ==
    /\ main = "running"
    /\ main' = "cancelled"
    /\ loop' = [c \in Cameras |-> "dead"]
    /\ wake' = [c \in Cameras |-> 0]
    /\ probe' = [c \in Cameras |-> "none"]
    /\ Cancelled(Cameras)
    /\ UNCHANGED <<process, orphans, streams, generation>>
    /\ UNCHANGED <<healthVars, envVars>>

\* ... and awaits go2rtc.stop().
MainStopGo2RTC ==
    /\ main = "cancelled"
    /\ main' = "stopping"
    /\ CallStop(Main)
    /\ UNCHANGED <<process, orphans, streams, holder, generation>>
    /\ UNCHANGED <<healthVars, loopVars, envVars>>

\* Mutant: go2rtc.stop() is not awaited.
StoppedAtOnce == main = "stopping"

\* go2rtc.stop() returned to async_main.
Stopped == main = "stopping" /\ call[Main] = "idle"

\* asyncio.run cancels the requests still in flight.
MainExit ==
    /\ Stopped
    /\ main' = "exited"
    /\ Cancelled(Api)
    /\ UNCHANGED <<process, orphans, streams, generation>>
    /\ UNCHANGED <<healthVars, loopVars, envVars>>

-----------------------------------------------------------------------------
(***************************************************************************)
(* _reconnect(c) as task t calls it, up to the await of the manager.       *)
(* `how` is "hard" or "soft", `before` the counter after a force has reset *)
(* it, `otherwise` the state the caller has set before it calls.           *)
(***************************************************************************)
Attempt(t, c, how, before) ==
    /\ state' = [state EXCEPT ![c] = "reconnecting"]
    /\ count' = [count EXCEPT ![c] = before + 1]
    /\ cool' = [cool EXCEPT ![c] = Cooldown]
    /\ IF how = "soft" THEN CallSoft(t, c) ELSE CallRestart(t)

Forced(t, c, how) == Attempt(t, c, how, 0)

\* Mutant: the attempts are checked before the cooldown.
UnforcedSwapped(c, how, otherwise) ==
    \/ /\ count[c] >= MaxAttempts
       /\ state' = [state EXCEPT ![c] = "offline"]
       /\ UNCHANGED <<count, cool, call, arg>>
    \/ /\ count[c] < MaxAttempts
       /\ cool[c] > 0
       /\ state' = [state EXCEPT ![c] = otherwise]
       /\ UNCHANGED <<count, cool, call, arg>>
    \/ /\ cool[c] = 0
       /\ count[c] < MaxAttempts
       /\ Attempt(c, c, how, count[c])

Unforced(c, how, otherwise) ==
    \/ /\ cool[c] > 0
       /\ state' = [state EXCEPT ![c] = otherwise]
       /\ UNCHANGED <<count, cool, call, arg>>
    \/ /\ cool[c] = 0
       /\ count[c] >= MaxAttempts
       /\ state' = [state EXCEPT ![c] = "offline"]
       /\ UNCHANGED <<count, cool, call, arg>>
    \/ /\ cool[c] = 0
       /\ count[c] < MaxAttempts
       /\ Attempt(c, c, how, count[c])

\* _check_camera returned without awaiting the manager, or awaits it.
NextLoop(c) ==
    IF call'[c] = "idle"
      THEN loop' = [loop EXCEPT ![c] = "sleep"] /\ wake' = [wake EXCEPT ![c] = Interval]
      ELSE loop' = [loop EXCEPT ![c] = "reconnect"] /\ UNCHANGED wake

\* is_responding() was true; get_streams() only refreshes the consumer count.
CheckUp(c) ==
    /\ loop[c] = "check"
    /\ Responding
    /\ loop' = [loop EXCEPT ![c] = "probe"]
    /\ UNCHANGED <<mgrVars, healthVars, wake, probe, main, envVars>>

\* Mutant: ERROR is only reported.
CheckDownReports(c) ==
    /\ loop[c] = "check"
    /\ IF Responding THEN Misbehave ELSE UNCHANGED faults
    /\ state' = [state EXCEPT ![c] = "error"]
    /\ UNCHANGED <<count, cool, call, arg>>
    /\ NextLoop(c)
    /\ UNCHANGED <<process, orphans, streams, holder, generation, probe, main, source>>

\* is_responding() was false, or timed out: ERROR, then a hard reconnect.
CheckDown(c) ==
    /\ loop[c] = "check"
    /\ IF Responding THEN Misbehave ELSE UNCHANGED faults
    /\ Unforced(c, "hard", "error")
    /\ NextLoop(c)
    /\ UNCHANGED <<process, orphans, streams, holder, generation, probe, main, source>>

\* What ffprobe finds at rtsp://127.0.0.1:8554/<c> now.
Findings(c) ==
    IF ~Responding THEN {"novideo"}
    ELSE IF c \notin streams THEN {"missing"}
    ELSE IF source[c] = "down" THEN {"novideo", "missing"}
    ELSE {source[c]}

\* ffprobe ends; the loop has not run yet.
Probe(c) ==
    /\ loop[c] = "probe"
    /\ \/ \E r \in Findings(c) : probe' = [probe EXCEPT ![c] = r] /\ UNCHANGED faults
       \/ probe' = [probe EXCEPT ![c] = "novideo"] /\ Misbehave
    /\ loop' = [loop EXCEPT ![c] = "apply"]
    /\ UNCHANGED <<mgrVars, healthVars, wake, main, source>>

\* Mutant: video does not reset the attempts.
ApplyVideoNoReset(c) ==
    /\ HasVideo(probe[c])
    /\ state' = [state EXCEPT ![c] = IF probe[c] = "ok" THEN "healthy" ELSE "degraded"]
    /\ UNCHANGED <<count, cool, call, arg>>

\* apply_probe with video: HEALTHY or, with expected audio missing, DEGRADED.
ApplyVideo(c) ==
    /\ HasVideo(probe[c])
    /\ state' = [state EXCEPT ![c] = IF probe[c] = "ok" THEN "healthy" ELSE "degraded"]
    /\ count' = [count EXCEPT ![c] = 0]
    /\ UNCHANGED <<cool, call, arg>>

\* _is_local_stream_missing: forced hard reconnect.
ApplyMissing(c) ==
    /\ probe[c] = "missing"
    /\ Forced(c, c, "hard")

\* apply_probe without video: DEGRADED, then a soft reconnect.
ApplyNoVideo(c) ==
    /\ probe[c] = "novideo"
    /\ Unforced(c, "soft", "degraded")

(***************************************************************************)
(* The rest of _check_camera, with the probe result it awaited.  The       *)
(* frame_timeout branch changes nothing: with video last_frame_age is 0,   *)
(* without video the state is DEGRADED already.                            *)
(***************************************************************************)
Apply(c) ==
    /\ loop[c] = "apply"
    /\ ApplyVideo(c) \/ ApplyMissing(c) \/ ApplyNoVideo(c)
    /\ NextLoop(c)
    /\ probe' = [probe EXCEPT ![c] = "none"]
    /\ UNCHANGED <<process, orphans, streams, holder, generation, main, envVars>>

\* The manager returned: sleep(check_interval).  An exception ends the loop task.
Reconnected(c) ==
    /\ loop[c] = "reconnect"
    /\ \/ /\ call[c] = "idle"
          /\ loop' = [loop EXCEPT ![c] = "sleep"]
          /\ wake' = [wake EXCEPT ![c] = Interval]
       \/ /\ call[c] = "raised"
          /\ loop' = [loop EXCEPT ![c] = "dead"]
          /\ UNCHANGED wake
    /\ UNCHANGED <<mgrVars, healthVars, probe, main, envVars>>

Wake(c) ==
    /\ loop[c] = "sleep"
    /\ wake[c] = 0
    /\ loop' = [loop EXCEPT ![c] = "check"]
    /\ UNCHANGED <<mgrVars, healthVars, wake, probe, main, envVars>>

LoopStep(c) ==
    CheckUp(c) \/ CheckDown(c) \/ Probe(c) \/ Apply(c) \/ Reconnected(c) \/ Wake(c)

-----------------------------------------------------------------------------
(* The API *)

\* uvicorn's sockets stay open when its task is cancelled.
Serving == main \in {"running", "cancelled", "stopping"}

\* POST /cameras/{c}/reconnect?hard=...: Watchdog.reconnect_camera, force=True.
ApiReconnect(t, c, how) ==
    /\ Serving
    /\ Misbehave
    /\ Forced(t, c, how)
    /\ UNCHANGED <<process, orphans, streams, holder, generation, loopVars, main, source>>

\* POST /go2rtc/reload
ApiReload(t) ==
    /\ Serving
    /\ Misbehave
    /\ CallReload(t)
    /\ UNCHANGED <<process, orphans, streams, holder, generation>>
    /\ UNCHANGED <<healthVars, loopVars, main, source>>

\* The exception becomes HTTP 500.
ApiRaised(t) == Handled(t) /\ UNCHANGED <<healthVars, loopVars, main, envVars>>

ApiStep(t) ==
    \/ \E c \in Cameras, how \in Routes \ {"reload"} : ApiReconnect(t, c, how)
    \/ "reload" \in Routes /\ ApiReload(t)
    \/ ApiRaised(t)

-----------------------------------------------------------------------------
(* Composition *)

OnlyManager == UNCHANGED <<healthVars, loopVars, main, source>>

LoopAlive == main \notin {"exited", "failed"}

\* Mutant: async_main awaits something after go2rtc.stop().
HasTimeLonger(t) == TRUE

\* Once go2rtc.stop() has returned, async_main ends, and the event loop with it at
\* the end of its next iteration: a request in flight may still take the lock, but
\* a process it spawns then is killed when the request is cancelled.
HasTime(t) == ~(Stopped /\ call[t] \in InSpawn)

ManagerAcquires(t) == LoopAlive /\ Acquire(t) /\ OnlyManager /\ UNCHANGED faults
ManagerRuns(t) == LoopAlive /\ HasTime(t) /\ MgrStep(t) /\ OnlyManager /\ UNCHANGED faults
\* A request has already been drawn from the budget.
ManagerRaises(t) ==
    /\ LoopAlive /\ Raise(t) /\ OnlyManager
    /\ IF t \in Api THEN UNCHANGED faults ELSE Misbehave

ProcessCrash ==
    /\ Misbehave
    /\ CrashProc
    /\ OnlyManager

ProcessMovesOn(A) == A /\ OnlyManager /\ UNCHANGED faults

SourceChange(c) ==
    /\ Misbehave
    /\ \E s \in Sources \ {source[c]} : source' = [source EXCEPT ![c] = s]
    /\ UNCHANGED <<mgrVars, healthVars, loopVars, main>>

\* Somebody is inside the manager, or go2rtc is on its way up or down.
Replacing ==
    \/ \E t \in Tasks : call[t] \notin {"idle", "raised"}
    \/ process \in {"boot", "term", "kill", "dead"}

\* One tick; only while a deadline is pending.
Tick ==
    /\ main = "running"
    /\ SlowRestart \/ ~Replacing
    /\ \E c \in Cameras : cool[c] > 0 \/ wake[c] > 0
    /\ cool' = [c \in Cameras |-> Min0(cool[c])]
    /\ wake' = [c \in Cameras |-> Min0(wake[c])]
    /\ UNCHANGED <<mgrVars, state, count, loop, probe, main, envVars>>

Done == ~LoopAlive /\ UNCHANGED vars

Next ==
    \/ MainStart \/ MainFails \/ MainDies \/ MainStop \/ MainStopGo2RTC \/ MainExit
    \/ \E c \in Cameras : LoopStep(c) \/ SourceChange(c)
    \/ \E t \in Api : ApiStep(t)
    \/ \E t \in Tasks : ManagerRuns(t) \/ ManagerRaises(t)
    \/ ProcessMovesOn(Boot) \/ ProcessMovesOn(ExitTerm)
    \/ ProcessMovesOn(ExitKill) \/ ProcessMovesOn(Reap)
    \/ ProcessCrash
    \/ Tick
    \/ Done

Spec == Init /\ [][Next]_vars

(***************************************************************************)
(* The event loop runs every task that is ready and grants the lock in     *)
(* FIFO order, time passes, go2rtc comes up, a killed process exits and    *)
(* its status is collected.  Shutting down, API calls and faults are not   *)
(* owed to anybody.                                                        *)
(***************************************************************************)
MainGoesOn == MainStart \/ MainFails \/ MainStopGo2RTC \/ MainExit
ProcessGoesOn == ProcessMovesOn(Boot) \/ ProcessMovesOn(ExitKill) \/ ProcessMovesOn(Reap)

Fairness ==
    /\ WF_vars(MainGoesOn)
    /\ \A c \in Cameras : WF_vars(LoopStep(c))
    /\ \A t \in Tasks : SF_vars(ManagerAcquires(t)) /\ WF_vars(ManagerRuns(t))
    /\ \A t \in Api : WF_vars(ApiRaised(t))
    /\ WF_vars(ProcessGoesOn)
    /\ WF_vars(Tick)

FairSpec == Spec /\ Fairness

-----------------------------------------------------------------------------
TypeOK ==
    /\ MgrTypeOK
    /\ state \in [Cameras -> CameraState]
    /\ count \in [Cameras -> 0 .. MaxAttempts]
    /\ cool \in [Cameras -> 0 .. Cooldown]
    /\ loop \in [Cameras -> LoopState]
    /\ wake \in [Cameras -> 0 .. Interval]
    /\ probe \in [Cameras -> ProbeOutcome]
    /\ main \in MainState
    /\ source \in [Cameras -> Sources]
    /\ faults \in 0 .. MaxFaults

-----------------------------------------------------------------------------
(***************************************************************************)
(* Safety.                                                                 *)
(***************************************************************************)

(***************************************************************************)
(* A camera is OFFLINE only while every attempt it is allowed has been     *)
(* spent since video was last seen, and no cooldown is running that would  *)
(* hold the next attempt back (watchdog.py:227-241; README "offline:       *)
(* maximum reconnect attempts were exceeded").                             *)
(***************************************************************************)
OfflineMeansExhausted ==
    \A c \in Cameras : state[c] = "offline" => count[c] = MaxAttempts /\ cool[c] = 0

(***************************************************************************)
(* OFFLINE is not lost by accident: whatever the loops, the API and go2rtc *)
(* do meanwhile, the camera leaves it only because its probe found video,  *)
(* or by a reconnect that was forced and so counts from one again          *)
(* (watchdog.py:46-51, 83-105, 227-228).                                   *)
(***************************************************************************)
LeavesOffline(c) == state[c] = "offline" /\ state'[c] # "offline"
LeavesForAReason(c) ==
    \/ HasVideo(probe[c]) /\ count'[c] = 0
    \/ state'[c] = "reconnecting" /\ count'[c] = 1
OfflineStep == \A c \in Cameras : LeavesOffline(c) => LeavesForAReason(c)
OfflineHolds == [][OfflineStep]_vars

(***************************************************************************)
(* Whichever loop or request was inside the manager when SIGTERM arrived,  *)
(* the program that shuts down does not leave a go2rtc running             *)
(* (main.py:60-62, watchdog.py:31-35, go2rtc.py:69-80).  It does when it   *)
(* dies instead (MainDies): main.py:56-58 raises what the server raised,   *)
(* and before lines 44-45 no signal is handled; nobody calls stop() then.  *)
(***************************************************************************)
NothingLeftRunning == main = "exited" => LiveProcesses = 0

(***************************************************************************)
(* Why: until the loops start only async_main is in the manager; once it   *)
(* stops go2rtc it waits in stop() for nothing else, and when it returns   *)
(* no process is left and none is spawned any more (main.py:25-26, 61-62). *)
(***************************************************************************)
StartsAlone ==
    main = "starting" =>
      /\ \A t \in Cameras \cup Api : call[t] = "idle"
      /\ \A c \in Cameras : loop[c] = "none"
      /\ call[Main] \in {"idle", "start_wait", "start_spawn", "raised"}
      /\ call[Main] # "idle" => process = "none"
MainCalls ==
    /\ main \in {"running", "cancelled"} => call[Main] = "idle"
    /\ main = "stopping" => call[Main] \in {"idle", "stop_wait", "stop_stop"}
StopsLast == Stopped \/ main = "exited" => ~Running

Inv ==
    /\ TypeOK
    /\ MgrInv
    /\ OfflineMeansExhausted
    /\ StartsAlone
    /\ MainCalls
    /\ StopsLast

(***************************************************************************)
(* Liveness.                                                               *)
(***************************************************************************)

(***************************************************************************)
(* When the faults are over and every camera delivers, either every camera *)
(* ends up healthy for good, or go2rtc is down for good and every camera   *)
(* says offline: nobody stays degraded, reconnecting or in error           *)
(* (watchdog.py:53-121, 218-251).                                          *)
(***************************************************************************)
AllCamerasAre(s) == \A c \in Cameras : state[c] = s
Settles ==
    <>[](main = "running" /\ \A c \in Cameras : source[c] = "ok" /\ loop[c] # "dead") =>
       <>[]AllCamerasAre("healthy") \/ <>[]AllCamerasAre("offline")

(***************************************************************************)
(* A go2rtc that died while a camera has an attempt left is replaced,      *)
(* unless the program is told to stop or an exception ends a loop: no      *)
(* attempt is spent without a new process (watchdog.py:66-70, 235-251,     *)
(* go2rtc.py:82-118).                                                      *)
(***************************************************************************)
DeadIsReplaced ==
    process = "reaped" /\ (\E c \in Cameras : count[c] < MaxAttempts /\ loop[c] # "dead") ~>
        process = "boot" \/ main # "running" \/ \E c \in Cameras : loop[c] = "dead"

(***************************************************************************)
(* Once async_main has left the server the program ends, even if go2rtc    *)
(* ignores SIGTERM, and a loop or a request was holding the manager's lock *)
(* or is waiting for it (main.py:49-62, watchdog.py:31-35, go2rtc.py:69).  *)
(***************************************************************************)
StopEnds == main = "cancelled" ~> main = "exited"

=============================================================================
