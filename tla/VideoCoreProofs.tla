--------------------------- MODULE VideoCoreProofs ---------------------------
(***************************************************************************)
(* Proofs about Nodalia Video Core, for any number of cameras, tasks and   *)
(* API requests, any limits, any budget of faults and whatever go2rtc does *)
(* on SIGHUP: the manager by itself first, then the whole program.         *)
(***************************************************************************)
EXTENDS VideoCore, TLAPS

-----------------------------------------------------------------------------
(* The generation counter stays in its range. *)
LEMMA BumpInRange ==
  ASSUME generation \in 0 .. GenMod - 1, Bump
  PROVE  generation' \in 0 .. GenMod - 1
  <1>1. GenMod \in Nat /\ GenMod > 0
    BY GenModAssumption
  <1>2. (generation + 1) % GenMod \in 0 .. GenMod - 1
    BY <1>1
  <1> QED BY <1>2 DEF Bump

(* At the start nothing runs and nobody is in the manager. *)
LEMMA InitInv == MgrInit => MgrInv
  BY NoTaskAssumption, GenModAssumption
  DEF MgrInit, MgrInv, MgrTypeOK, OneProcess, HolderReplaces, SpawnAfterExit,
      ProcessState, CallState, InStop, InSpawn

(***************************************************************************)
(* Entering a coroutine takes no lock and touches no process.              *)
(***************************************************************************)
LEMMA CallInv ==
  ASSUME MgrInv, NEW t \in Tasks,
         CallStart(t) \/ CallStop(t) \/ CallRestart(t) \/ CallReload(t)
           \/ \E c \in Cameras : CallSoft(t, c),
         UNCHANGED <<process, orphans, streams, holder, generation>>
  PROVE  MgrInv'
  <1> USE DEF CallStart, CallStop, CallRestart, CallReload, CallSoft, GoTo
  <1>1. call[t] = "idle"
    OBVIOUS
  <1>2. PICK where \in {"start_wait", "stop_wait", "restart_wait", "reload", "soft"} :
          call' = [call EXCEPT ![t] = where]
    OBVIOUS
  <1>3. MgrTypeOK'
    <2>1. call' \in [Tasks -> CallState]
      BY <1>2 DEF MgrInv, MgrTypeOK, CallState, Waiting
    <2>2. arg' \in [Tasks -> Cameras \cup {NoTask}]
      BY DEF MgrInv, MgrTypeOK
    <2> QED BY <2>1, <2>2 DEF MgrInv, MgrTypeOK
  <1>4. call \in [Tasks -> CallState]
    BY DEF MgrInv, MgrTypeOK
  <1>5. HolderReplaces'
    BY <1>1, <1>2, <1>4 DEF MgrInv, HolderReplaces, InStop, InSpawn
  <1>6. SpawnAfterExit'
    BY <1>2, <1>4 DEF MgrInv, SpawnAfterExit, InSpawn, Running
  <1>7. OneProcess'
    BY DEF MgrInv, OneProcess
  <1> QED BY <1>3, <1>5, <1>6, <1>7 DEF MgrInv

(***************************************************************************)
(* A step of a task inside the manager.  Only Spawn could lose a process;  *)
(* SpawnAfterExit says that there is none to lose.                         *)
(***************************************************************************)
LEMMA StepInv ==
  ASSUME MgrInv, NEW t \in Tasks, MgrStep(t)
  PROVE  MgrInv'
  <1> USE NoTaskAssumption DEF MgrInv, MgrTypeOK, OneProcess, HolderReplaces,
        SpawnAfterExit, CallState, ProcessState, Waiting, InStop, InSpawn, Running, GoTo
  <1>1. CASE AcquireStart(t)
    BY <1>1 DEF AcquireStart
  <1>2. CASE AcquireStop(t)
    BY <1>2 DEF AcquireStop, Terminated
  <1>3. CASE KillStep(t)
    BY <1>3 DEF KillStep
  <1>4. CASE StopDone(t)
    BY <1>4 DEF StopDone, Release
  <1>5. CASE Spawn(t)
    <2>1. LiveProcesses = 0
      BY <1>5 DEF Spawn, LiveProcesses, OsAlive
    <2>2. generation' \in 0 .. GenMod - 1
      BY <1>5, BumpInRange DEF Spawn
    <2>3. /\ holder = t
          /\ holder' = NoTask
      BY <1>5 DEF Spawn, Release
    <2> QED BY <1>5, <2>1, <2>2, <2>3 DEF Spawn
  <1>6. CASE SoftDelete(t)
    BY <1>6 DEF SoftDelete
  <1>7. CASE Reload(t)
    <2>1. generation' \in 0 .. GenMod - 1
      BY <1>7, BumpInRange DEF Reload
    <2>2. /\ process' \in ProcessState
          /\ streams' \subseteq Cameras
          /\ ~Running => ~Running'
      BY <1>7 DEF Reload, HupEffect
    <2> QED BY <1>7, <2>1, <2>2 DEF Reload
  <1> QED BY <1>1, <1>2, <1>3, <1>4, <1>5, <1>6, <1>7 DEF MgrStep, Acquire

(* An exception frees the lock and leaves the process alone. *)
LEMMA RaiseInv ==
  ASSUME MgrInv, NEW t \in Tasks, Raise(t) \/ Handled(t)
  PROVE  MgrInv'
  BY NoTaskAssumption
  DEF MgrInv, MgrTypeOK, OneProcess, HolderReplaces, SpawnAfterExit, CallState,
      InStop, InSpawn, Waiting, Running, GoTo, Raise, Handled, Release

(* go2rtc moves only from a state in which no spawn is pending. *)
LEMMA ProcessInv ==
  ASSUME MgrInv, ProcessStep
  PROVE  MgrInv'
  BY DEF MgrInv, MgrTypeOK, OneProcess, HolderReplaces, SpawnAfterExit,
         ProcessState, InSpawn, Running, ProcessStep, ProcessMoves, Boot,
         CrashProc, ExitTerm, ExitKill, Reap

(* Cancelling tasks frees the lock if one of them holds it. *)
LEMMA CancelInv ==
  ASSUME MgrInv, NEW S \in SUBSET Tasks, Cancelled(S),
         UNCHANGED <<process, orphans, streams, generation>>
  PROVE  MgrInv'
  BY NoTaskAssumption
  DEF MgrInv, MgrTypeOK, OneProcess, HolderReplaces, SpawnAfterExit, CallState,
      InStop, InSpawn, Waiting, Running, Cancelled

(* Nothing happens to the manager. *)
LEMMA StutterInv ==
  ASSUME MgrInv, UNCHANGED mgrVars
  PROVE  MgrInv'
  BY DEF MgrInv, MgrTypeOK, OneProcess, HolderReplaces, SpawnAfterExit, Running, mgrVars

(***************************************************************************)
(* The inductive invariant holds in every behaviour of the manager, for    *)
(* any number of tasks calling start, stop, restart, reload and            *)
(* soft_reconnect (go2rtc.py:53-134).                                      *)
(***************************************************************************)
THEOREM MgrInvariant == MgrSpec => []MgrInv
  <1>1. MgrInit => MgrInv
    BY InitInv
  <1>2. MgrInv /\ [MgrNext]_mgrVars => MgrInv'
    <2> SUFFICES ASSUME MgrInv, [MgrNext]_mgrVars PROVE MgrInv'
      OBVIOUS
    <2>1. ASSUME NEW t \in Tasks, Call(t) PROVE MgrInv'
      BY <2>1, CallInv DEF Call
    <2>2. ASSUME NEW t \in Tasks, MgrStep(t) PROVE MgrInv'
      BY <2>2, StepInv
    <2>3. ASSUME NEW t \in Tasks, Raise(t) \/ Handled(t) PROVE MgrInv'
      BY <2>3, RaiseInv
    <2>4. CASE ProcessStep
      BY <2>4, ProcessInv
    <2>5. CASE UNCHANGED mgrVars
      BY <2>5, StutterInv
    <2> QED BY <2>1, <2>2, <2>3, <2>4, <2>5 DEF MgrNext
  <1> QED BY <1>1, <1>2, PTL DEF MgrSpec

(* The manager's variables keep their types. *)
THEOREM MgrTypeCorrect == MgrSpec => []MgrTypeOK
  <1>1. MgrInv => MgrTypeOK
    BY DEF MgrInv
  <1> QED BY <1>1, MgrInvariant, PTL

(***************************************************************************)
(* However many tasks call the manager, it never loses a go2rtc that is    *)
(* still running (go2rtc.py:53-105).                                       *)
(***************************************************************************)
THEOREM MgrOneProcess == MgrSpec => []OneProcess
  <1>1. MgrInv => OneProcess
    BY DEF MgrInv
  <1> QED BY <1>1, MgrInvariant, PTL

-----------------------------------------------------------------------------
(* A step of the manager starts one go2rtc, ends one, or does neither. *)
LEMMA StepRefines ==
  ASSUME MgrInv, MgrInv', [MgrNext]_mgrVars
  PROVE  [Abstract!Next]_LiveProcesses
  <1> USE DEF MgrInv, MgrTypeOK, OneProcess, SpawnAfterExit, Running,
        LiveProcesses, OsAlive, ProcessState, Abstract!Next, Abstract!Start, Abstract!Exit
  <1>1. ASSUME NEW t \in Tasks, Spawn(t) PROVE Abstract!Start
    BY <1>1 DEF Spawn, InSpawn
  <1>2. ASSUME NEW t \in Tasks, Reload(t) PROVE [Abstract!Next]_LiveProcesses
    BY <1>2 DEF Reload, HupEffect
  <1>3. ASSUME NEW t \in Tasks,
               \/ Call(t) \/ Raise(t) \/ Handled(t) \/ StopDone(t) \/ SoftDelete(t)
               \/ AcquireStart(t)
        PROVE  UNCHANGED LiveProcesses
    BY <1>3 DEF Call, Raise, Handled, StopDone, SoftDelete, AcquireStart
  <1>4. ASSUME NEW t \in Tasks, KillStep(t) \/ AcquireStop(t)
        PROVE  UNCHANGED LiveProcesses
    BY <1>4 DEF KillStep, AcquireStop, Terminated
  <1>5. ASSUME ProcessStep PROVE [Abstract!Next]_LiveProcesses
    BY <1>5 DEF ProcessStep, ProcessMoves, Boot, CrashProc, ExitTerm, ExitKill, Reap
  <1>6. ASSUME UNCHANGED mgrVars PROVE UNCHANGED LiveProcesses
    BY <1>6 DEF mgrVars
  <1> QED BY <1>1, <1>2, <1>3, <1>4, <1>5, <1>6 DEF MgrNext, MgrStep, Acquire

(***************************************************************************)
(* The manager implements SingleProcess: a go2rtc is started only when the *)
(* one before has left the system (go2rtc.py:82-105).                      *)
(***************************************************************************)
THEOREM MgrRefinesSingleProcess == MgrSpec => ImplementsSingleProcess
  <1>1. MgrInit => Abstract!Init
    BY DEF MgrInit, Abstract!Init, LiveProcesses, OsAlive
  <1>2. MgrInv /\ MgrInv' /\ [MgrNext]_mgrVars => [Abstract!Next]_LiveProcesses
    BY StepRefines
  <1> QED BY <1>1, <1>2, MgrInvariant, PTL DEF MgrSpec, ImplementsSingleProcess, Abstract!Spec

-----------------------------------------------------------------------------
(***************************************************************************)
(* The whole program.                                                      *)
(***************************************************************************)

\* The part of TypeOK that is not the manager's.
OwnTypeOK ==
    /\ state \in [Cameras -> CameraState]
    /\ count \in [Cameras -> 0 .. MaxAttempts]
    /\ cool \in [Cameras -> 0 .. Cooldown]
    /\ loop \in [Cameras -> LoopState]
    /\ wake \in [Cameras -> 0 .. Interval]
    /\ probe \in [Cameras -> ProbeOutcome]
    /\ main \in MainState
    /\ source \in [Cameras -> Sources]
    /\ faults \in 0 .. MaxFaults

HealthOK ==
    /\ state \in [Cameras -> CameraState]
    /\ count \in [Cameras -> 0 .. MaxAttempts]
    /\ cool \in [Cameras -> 0 .. Cooldown]
    /\ OfflineMeansExhausted

MainOK == StartsAlone /\ MainCalls /\ StopsLast

-----------------------------------------------------------------------------
(* Inv, cut into the parts that a step disturbs separately. *)
LEMMA InvParts == Inv <=> MgrInv /\ OwnTypeOK /\ OfflineMeansExhausted /\ MainOK
  BY DEF Inv, TypeOK, MgrInv, OwnTypeOK, MainOK

(* The same parts in the next state give Inv there. *)
LEMMA NextParts == MgrInv' /\ OwnTypeOK' /\ OfflineMeansExhausted' /\ MainOK' => Inv'
  BY DEF Inv, TypeOK, MgrInv, OwnTypeOK, MainOK

(* Every task of the composition is a task of the manager. *)
LEMMA TasksContain ==
  /\ Cameras \subseteq Tasks /\ Api \subseteq Tasks /\ Main \in Tasks
  /\ Main \notin Cameras /\ Main \notin Api
  BY TasksAssumption

(* At the start no loop runs and nobody is in the manager. *)
LEMMA InitOK == Init => Inv
  <1> SUFFICES ASSUME Init PROVE Inv
    OBVIOUS
  <1>1. MgrInv
    BY InitInv DEF Init
  <1>2. OwnTypeOK
    BY LimitsAssumption
    DEF Init, OwnTypeOK, CameraState, LoopState, ProbeOutcome, MainState
  <1>3. OfflineMeansExhausted
    BY DEF Init, OfflineMeansExhausted
  <1>4. MainOK
    BY TasksContain DEF Init, MgrInit, MainOK, StartsAlone, MainCalls, StopsLast, Stopped, Running
  <1> QED BY <1>1, <1>2, <1>3, <1>4, InvParts

-----------------------------------------------------------------------------
(***************************************************************************)
(* _reconnect: a camera goes offline only at the limit and with no         *)
(* cooldown left, and no attempt exceeds the limit (watchdog.py:218-251).  *)
(***************************************************************************)
LEMMA ForcedHealth ==
  ASSUME HealthOK, NEW t, NEW c \in Cameras, NEW how, Forced(t, c, how)
  PROVE  HealthOK' /\ (CallSoft(t, c) \/ CallRestart(t))
  BY LimitsAssumption DEF HealthOK, OfflineMeansExhausted, Forced, Attempt, CameraState

(* An attempt nobody forced is counted, or leaves the counter alone. *)
LEMMA UnforcedHealth ==
  ASSUME HealthOK, NEW c \in Cameras, NEW how,
         NEW otherwise \in {"error", "degraded"}, Unforced(c, how, otherwise)
  PROVE  HealthOK' /\ (UNCHANGED <<call, arg>> \/ CallSoft(c, c) \/ CallRestart(c))
  <1> USE LimitsAssumption DEF HealthOK, OfflineMeansExhausted, CameraState
  <1>1. CASE /\ cool[c] > 0
             /\ state' = [state EXCEPT ![c] = otherwise]
             /\ UNCHANGED <<count, cool, call, arg>>
    BY <1>1
  <1>2. CASE /\ cool[c] = 0
             /\ count[c] >= MaxAttempts
             /\ state' = [state EXCEPT ![c] = "offline"]
             /\ UNCHANGED <<count, cool, call, arg>>
    BY <1>2
  <1>3. CASE cool[c] = 0 /\ count[c] < MaxAttempts /\ Attempt(c, c, how, count[c])
    BY <1>3 DEF Attempt
  <1> QED BY <1>1, <1>2, <1>3 DEF Unforced

(* What the manager sees of a loop step or a request: nothing, or a call. *)
LEMMA CallerInv ==
  ASSUME MgrInv, NEW t \in Tasks, NEW c \in Cameras,
         UNCHANGED <<call, arg>> \/ CallSoft(t, c) \/ CallRestart(t),
         UNCHANGED <<process, orphans, streams, holder, generation>>
  PROVE  MgrInv'
  <1>1. CASE UNCHANGED <<call, arg>>
    BY <1>1, StutterInv DEF mgrVars
  <1>2. CASE CallSoft(t, c) \/ CallRestart(t)
    BY <1>2, CallInv
  <1> QED BY <1>1, <1>2

(* A call by another task than async_main while the program runs. *)
LEMMA CallerMain ==
  ASSUME MainOK, MgrInv, NEW t \in Tasks \ {Main}, NEW c \in Cameras,
         main # "starting", UNCHANGED <<main, process>>,
         UNCHANGED <<call, arg>> \/ CallSoft(t, c) \/ CallRestart(t) \/ CallReload(t)
  PROVE  MainOK'
  BY TasksContain
  DEF MainOK, MgrInv, MgrTypeOK, StartsAlone, MainCalls, StopsLast, Stopped, Running,
      CallSoft, CallRestart, CallReload, GoTo

-----------------------------------------------------------------------------
(* async_main *)
LEMMA MainPart ==
  ASSUME Inv, MainStart \/ MainFails \/ MainDies \/ MainStop \/ MainStopGo2RTC \/ MainExit
  PROVE  Inv'
  <1> USE TasksContain, InvParts, NextParts
  <1>a. MgrInv /\ OwnTypeOK /\ OfflineMeansExhausted /\ MainOK
    OBVIOUS
  <1>b. call \in [Tasks -> CallState]
    BY <1>a DEF MgrInv, MgrTypeOK
  <1>1. CASE MainStart
    <2>1. MgrInv'
      <3>1. CASE process = "none"
        BY <1>1, <1>a, <3>1, CallInv DEF MainStart, CallStart
      <3>2. CASE process # "none"
        BY <1>1, <1>a, <3>2, StutterInv DEF MainStart, mgrVars
      <3> QED BY <3>1, <3>2
    <2>2. OwnTypeOK' /\ OfflineMeansExhausted'
      BY <1>1, <1>a DEF MainStart, OwnTypeOK, LoopState, MainState, OfflineMeansExhausted,
                        healthVars, envVars
    <2>3. MainOK'
      BY <1>1, <1>a, <1>b DEF MainStart, MainOK, StartsAlone, MainCalls, StopsLast, Stopped,
                              Running, GoTo
    <2> QED BY <2>1, <2>2, <2>3
  <1>2. CASE MainFails
    <2>1. MgrInv'
      BY <1>2, <1>a, StutterInv DEF MainFails
    <2>2. OwnTypeOK' /\ OfflineMeansExhausted'
      BY <1>2, <1>a DEF MainFails, OwnTypeOK, MainState, OfflineMeansExhausted,
                        healthVars, loopVars, envVars
    <2>3. MainOK'
      BY <1>2, <1>a DEF MainFails, MainOK, StartsAlone, MainCalls, StopsLast, Stopped,
                        Running, mgrVars
    <2> QED BY <2>1, <2>2, <2>3
  <1>3. CASE MainStop
    <2>1. MgrInv'
      BY <1>3, <1>a, CancelInv DEF MainStop
    <2>2. OwnTypeOK' /\ OfflineMeansExhausted'
      BY <1>3, <1>a, LimitsAssumption
      DEF MainStop, OwnTypeOK, LoopState, ProbeOutcome, MainState, OfflineMeansExhausted,
          healthVars, envVars
    <2>3. MainOK'
      BY <1>3, <1>a, <1>b DEF MainStop, Cancelled, MainOK, StartsAlone, MainCalls, StopsLast,
                              Stopped, Running
    <2> QED BY <2>1, <2>2, <2>3
  <1>4. CASE MainStopGo2RTC
    <2>1. MgrInv'
      BY <1>4, <1>a, CallInv DEF MainStopGo2RTC
    <2>2. OwnTypeOK' /\ OfflineMeansExhausted'
      BY <1>4, <1>a DEF MainStopGo2RTC, OwnTypeOK, MainState, OfflineMeansExhausted,
                        healthVars, loopVars, envVars
    <2>3. MainOK'
      BY <1>4, <1>a, <1>b DEF MainStopGo2RTC, CallStop, GoTo, MainOK, StartsAlone, MainCalls,
                              StopsLast, Stopped, Running
    <2> QED BY <2>1, <2>2, <2>3
  <1>5. CASE MainExit
    <2>1. MgrInv'
      BY <1>5, <1>a, CancelInv DEF MainExit
    <2>2. OwnTypeOK' /\ OfflineMeansExhausted'
      BY <1>5, <1>a DEF MainExit, OwnTypeOK, MainState, OfflineMeansExhausted,
                        healthVars, loopVars, envVars
    <2>3. MainOK'
      BY <1>5, <1>a, <1>b DEF MainExit, Cancelled, MainOK, StartsAlone, MainCalls, StopsLast,
                              Stopped, Running
    <2> QED BY <2>1, <2>2, <2>3
  <1>6. CASE MainDies
    <2>1. MgrInv'
      BY <1>6, <1>a, CancelInv DEF MainDies
    <2>2. OwnTypeOK' /\ OfflineMeansExhausted'
      BY <1>6, <1>a, LimitsAssumption
      DEF MainDies, Misbehave, OwnTypeOK, LoopState, ProbeOutcome, MainState,
          OfflineMeansExhausted, healthVars
    <2>3. MainOK'
      BY <1>6 DEF MainDies, MainOK, StartsAlone, MainCalls, StopsLast, Stopped
    <2> QED BY <2>1, <2>2, <2>3
  <1> QED BY <1>1, <1>2, <1>3, <1>4, <1>5, <1>6

-----------------------------------------------------------------------------
(* _camera_loop: a loop step happens only while the program runs. *)
LEMMA NextLoopType ==
  ASSUME OwnTypeOK, NEW c \in Cameras, NextLoop(c)
  PROVE  loop' \in [Cameras -> LoopState] /\ wake' \in [Cameras -> 0 .. Interval]
  BY LimitsAssumption DEF OwnTypeOK, NextLoop, LoopState

(* A loop runs only after async_main has started it. *)
LEMMA LoopRuns ==
  ASSUME MainOK, NEW c \in Cameras, loop[c] # "none"
  PROVE  main # "starting"
  BY DEF MainOK, StartsAlone

(* What a loop step that calls the manager, or does not, leaves to prove. *)
LEMMA LoopCaller ==
  ASSUME Inv, NEW c \in Cameras, loop[c] # "none",
         UNCHANGED <<call, arg>> \/ CallSoft(c, c) \/ CallRestart(c),
         UNCHANGED <<process, orphans, streams, holder, generation, main>>
  PROVE  MgrInv' /\ MainOK'
  <1>1. MgrInv /\ MainOK /\ main # "starting"
    BY InvParts, LoopRuns
  <1>2. c \in Tasks \ {Main}
    BY TasksContain
  <1> QED BY <1>1, <1>2, CallerInv, CallerMain

(* A loop step preserves the invariant, one case for each place of the loop. *)
LEMMA LoopPart ==
  ASSUME Inv, NEW c \in Cameras, LoopStep(c)
  PROVE  Inv'
  <1> USE InvParts, NextParts
  <1>a. OwnTypeOK /\ OfflineMeansExhausted /\ HealthOK
    BY DEF OwnTypeOK, HealthOK
  <1>1. CASE CheckDown(c)
    <2>1. HealthOK' /\ (UNCHANGED <<call, arg>> \/ CallSoft(c, c) \/ CallRestart(c))
      BY <1>1, <1>a, UnforcedHealth DEF CheckDown
    <2>2. MgrInv' /\ MainOK'
      BY <1>1, <2>1, LoopCaller DEF CheckDown
    <2>3. loop' \in [Cameras -> LoopState] /\ wake' \in [Cameras -> 0 .. Interval]
      BY <1>1, <1>a, NextLoopType DEF CheckDown
    <2>4. faults' \in 0 .. MaxFaults
      BY <1>1, <1>a, LimitsAssumption DEF CheckDown, OwnTypeOK, Misbehave
    <2> QED BY <1>1, <1>a, <2>1, <2>2, <2>3, <2>4 DEF CheckDown, OwnTypeOK, HealthOK
  <1>2. CASE Apply(c)
    <2>1. HealthOK' /\ (UNCHANGED <<call, arg>> \/ CallSoft(c, c) \/ CallRestart(c))
      <3>1. CASE ApplyVideo(c)
        BY <1>a, <3>1, LimitsAssumption
        DEF ApplyVideo, HealthOK, OfflineMeansExhausted, CameraState
      <3>2. CASE ApplyMissing(c)
        BY <1>a, <3>2, ForcedHealth DEF ApplyMissing
      <3>3. CASE ApplyNoVideo(c)
        BY <1>a, <3>3, UnforcedHealth DEF ApplyNoVideo
      <3> QED BY <1>2, <3>1, <3>2, <3>3 DEF Apply
    <2>2. MgrInv' /\ MainOK'
      BY <1>2, <2>1, LoopCaller DEF Apply
    <2>3. loop' \in [Cameras -> LoopState] /\ wake' \in [Cameras -> 0 .. Interval]
      BY <1>2, <1>a, NextLoopType DEF Apply
    <2>4. OwnTypeOK'
      BY <1>2, <1>a, <2>1, <2>3 DEF Apply, OwnTypeOK, HealthOK, envVars, ProbeOutcome
    <2> QED BY <2>1, <2>2, <2>4 DEF HealthOK
  <1>3. CASE CheckUp(c) \/ Probe(c) \/ Reconnected(c) \/ Wake(c)
    <2>1. UNCHANGED <<call, arg, process, orphans, streams, holder, generation, main>>
      BY <1>3 DEF CheckUp, Probe, Reconnected, Wake, mgrVars
    <2>2. MgrInv' /\ MainOK'
      BY <1>3, <2>1, LoopCaller DEF CheckUp, Probe, Reconnected, Wake
    <2>3. UNCHANGED healthVars
      BY <1>3 DEF CheckUp, Probe, Reconnected, Wake
    <2>4. faults' \in 0 .. MaxFaults
      BY <1>3, <1>a, LimitsAssumption
      DEF CheckUp, Probe, Reconnected, Wake, OwnTypeOK, Misbehave, envVars
    <2>5. probe' \in [Cameras -> ProbeOutcome]
      <3>1. Findings(c) \subseteq ProbeOutcome
        BY <1>a, SourcesAssumption DEF Findings, OwnTypeOK, ProbeOutcome
      <3> QED BY <1>3, <1>a, <3>1
              DEF CheckUp, Probe, Reconnected, Wake, OwnTypeOK, ProbeOutcome
    <2>6. loop' \in [Cameras -> LoopState] /\ wake' \in [Cameras -> 0 .. Interval]
      BY <1>3, <1>a, LimitsAssumption
      DEF CheckUp, Probe, Reconnected, Wake, OwnTypeOK, LoopState
    <2>7. UNCHANGED source
      BY <1>3 DEF CheckUp, Probe, Reconnected, Wake, envVars
    <2>8. OwnTypeOK' /\ OfflineMeansExhausted'
      BY <1>a, <2>1, <2>3, <2>4, <2>5, <2>6, <2>7
      DEF OwnTypeOK, healthVars, OfflineMeansExhausted
    <2> QED BY <2>2, <2>8
  <1> QED BY <1>1, <1>2, <1>3 DEF LoopStep

-----------------------------------------------------------------------------
(* The API: a request calls the manager only after the loops have started. *)
LEMMA ApiPart ==
  ASSUME Inv, NEW t \in Api, ApiStep(t)
  PROVE  Inv'
  <1> USE TasksContain, InvParts, NextParts
  <1>a. MgrInv /\ MainOK /\ OwnTypeOK /\ OfflineMeansExhausted /\ HealthOK
    BY DEF OwnTypeOK, HealthOK
  <1>1. ASSUME NEW c \in Cameras, NEW how, ApiReconnect(t, c, how)
        PROVE  Inv'
    <2>1. HealthOK' /\ (CallSoft(t, c) \/ CallRestart(t))
      BY <1>1, <1>a, ForcedHealth DEF ApiReconnect
    <2>2. MgrInv'
      BY <1>1, <1>a, <2>1, CallInv DEF ApiReconnect
    <2>3. MainOK'
      BY <1>1, <1>a, <2>1, CallerMain DEF ApiReconnect, Serving
    <2>4. OwnTypeOK'
      BY <1>1, <1>a, <2>1, LimitsAssumption
      DEF ApiReconnect, OwnTypeOK, HealthOK, Misbehave, loopVars
    <2> QED BY <2>1, <2>2, <2>3, <2>4 DEF HealthOK
  <1>2. CASE ApiReload(t)
    <2>1. MgrInv'
      BY <1>2, <1>a, CallInv DEF ApiReload
    <2>2. MainOK'
      BY <1>2, <1>a
      DEF ApiReload, Serving, CallReload, GoTo, MgrInv, MgrTypeOK, MainOK, StartsAlone, MainCalls,
          StopsLast, Stopped, Running
    <2>3. OwnTypeOK' /\ OfflineMeansExhausted'
      BY <1>2, <1>a, LimitsAssumption
      DEF ApiReload, OwnTypeOK, OfflineMeansExhausted, Misbehave, loopVars, healthVars
    <2> QED BY <2>1, <2>2, <2>3
  <1>3. CASE ApiRaised(t)
    <2>1. MgrInv'
      BY <1>3, <1>a, RaiseInv DEF ApiRaised
    <2>2. MainOK'
      BY <1>3, <1>a
      DEF ApiRaised, Handled, GoTo, MgrInv, MgrTypeOK, MainOK, StartsAlone, MainCalls,
          StopsLast, Stopped, Running
    <2>3. OwnTypeOK' /\ OfflineMeansExhausted'
      BY <1>3, <1>a
      DEF ApiRaised, OwnTypeOK, OfflineMeansExhausted, loopVars, healthVars, envVars
    <2> QED BY <2>1, <2>2, <2>3
  <1> QED BY <1>1, <1>2, <1>3 DEF ApiStep

-----------------------------------------------------------------------------
(* The manager's own steps, and go2rtc's. *)

(* Only the task that steps changes where it is. *)
LEMMA StepMoves ==
  ASSUME MgrInv, NEW t \in Tasks, MgrStep(t) \/ Raise(t)
  PROVE  /\ call[t] # "idle"
         /\ \A u \in Tasks : u # t => call'[u] = call[u]
  <1>1. CASE Acquire(t) \/ KillStep(t) \/ StopDone(t)
    BY <1>1 DEF MgrInv, MgrTypeOK, Acquire, AcquireStart, AcquireStop, KillStep, StopDone,
                GoTo, InStop
  <1>2. CASE Spawn(t) \/ SoftDelete(t) \/ Reload(t) \/ Raise(t)
    BY <1>2 DEF MgrInv, MgrTypeOK, Spawn, SoftDelete, Reload, Raise, GoTo, InSpawn
  <1> QED BY <1>1, <1>2 DEF MgrStep

(* What start() and stop() leave behind when async_main runs them. *)
LEMMA MainSteps ==
  ASSUME MgrInv, NEW t \in Tasks, MgrStep(t) \/ Raise(t)
  PROVE  /\ call[t] \in {"start_wait", "start_spawn"} /\ process = "none" =>
              /\ call'[t] \in {"idle", "start_wait", "start_spawn", "raised"}
              /\ call'[t] # "idle" => process' = "none"
         /\ call[t] # "raised"
         /\ call[t] \in {"stop_wait", "stop_stop"} =>
              /\ call'[t] \in {"idle", "stop_wait", "stop_stop"}
              /\ call'[t] = "idle" => ~Running'
  <1> USE DEF MgrInv, MgrTypeOK, GoTo, InStop, InSpawn, Running
  <1>1. CASE AcquireStart(t) \/ KillStep(t) \/ StopDone(t)
    BY <1>1 DEF AcquireStart, KillStep, StopDone
  <1>2. CASE AcquireStop(t)
    BY <1>2 DEF AcquireStop, Terminated
  <1>3. CASE Spawn(t) \/ SoftDelete(t) \/ Reload(t) \/ Raise(t)
    BY <1>3 DEF Spawn, SoftDelete, Reload, Raise
  <1> QED BY <1>1, <1>2, <1>3 DEF MgrStep, Acquire

(* Where nothing runs, only a task that was about to spawn changes that. *)
LEMMA DownStays ==
  ASSUME NEW t \in Tasks, ~Running,
         Raise(t) \/ (MgrStep(t) /\ call[t] \notin InSpawn)
  PROVE  ~Running'
  <1> USE DEF Running
  <1>1. CASE Acquire(t) \/ KillStep(t) \/ StopDone(t)
    BY <1>1 DEF Acquire, AcquireStart, AcquireStop, KillStep, StopDone
  <1>2. CASE SoftDelete(t) \/ Reload(t) \/ Raise(t)
    BY <1>2 DEF SoftDelete, Reload, Raise
  <1>3. CASE Spawn(t) /\ call[t] \notin InSpawn
    BY <1>3 DEF Spawn
  <1> QED BY <1>1, <1>2, <1>3 DEF MgrStep

(* A step inside the manager preserves the invariant. *)
LEMMA ManagerPart ==
  ASSUME Inv, NEW t \in Tasks, ManagerRuns(t) \/ ManagerRaises(t)
  PROVE  Inv'
  <1> USE TasksContain, InvParts, NextParts
  <1>a. MgrInv /\ MainOK /\ OwnTypeOK /\ OfflineMeansExhausted
    OBVIOUS
  <1>b. /\ MgrStep(t) \/ Raise(t)
        /\ LoopAlive /\ OnlyManager
        /\ Stopped => Raise(t) \/ (MgrStep(t) /\ call[t] \notin InSpawn)
        /\ UNCHANGED faults \/ Misbehave
    BY DEF ManagerRuns, ManagerRaises, HasTime
  <1>1. MgrInv'
    BY <1>a, <1>b, StepInv, RaiseInv
  <1>2. OwnTypeOK' /\ OfflineMeansExhausted'
    BY <1>a, <1>b, LimitsAssumption
    DEF OnlyManager, Misbehave, OwnTypeOK, OfflineMeansExhausted, healthVars, loopVars
  <1>3. MainOK'
    <2>1. /\ call[t] # "idle"
          /\ \A u \in Tasks : u # t => call'[u] = call[u]
      BY <1>a, <1>b, StepMoves
    <2>2. UNCHANGED <<main, loop>> /\ main # "exited"
      BY <1>b DEF OnlyManager, LoopAlive, loopVars
    <2>3. CASE t = Main
      BY <1>a, <1>b, <2>1, <2>2, <2>3, MainSteps
      DEF MainOK, StartsAlone, MainCalls, StopsLast, Stopped
    <2>4. CASE t # Main
      <3>1. main # "starting" /\ call'[Main] = call[Main]
        BY <1>a, <2>1, <2>4, TasksAssumption DEF MainOK, StartsAlone
      <3>2. Stopped => ~Running'
        BY <1>a, <1>b, DownStays DEF MainOK, StopsLast
      <3> QED BY <1>a, <2>2, <3>1, <3>2
              DEF MainOK, StartsAlone, MainCalls, StopsLast, Stopped
    <2> QED BY <2>3, <2>4
  <1> QED BY <1>1, <1>2, <1>3

(* A step of go2rtc itself preserves the invariant. *)
LEMMA ProcessPart ==
  ASSUME Inv,
         \/ ProcessMovesOn(Boot) \/ ProcessMovesOn(ExitTerm)
         \/ ProcessMovesOn(ExitKill) \/ ProcessMovesOn(Reap)
         \/ ProcessCrash
  PROVE  Inv'
  <1> USE InvParts, NextParts
  <1>a. MgrInv /\ MainOK /\ OwnTypeOK /\ OfflineMeansExhausted
    OBVIOUS
  <1>b. /\ ProcessStep
        /\ OnlyManager
        /\ UNCHANGED faults \/ Misbehave
    BY DEF ProcessMovesOn, ProcessCrash, ProcessStep
  <1>1. MgrInv'
    BY <1>a, <1>b, ProcessInv
  <1>2. OwnTypeOK' /\ OfflineMeansExhausted'
    BY <1>a, <1>b, LimitsAssumption
    DEF OnlyManager, Misbehave, OwnTypeOK, OfflineMeansExhausted, healthVars, loopVars
  <1>3. MainOK'
    BY <1>a, <1>b
    DEF OnlyManager, loopVars, ProcessStep, ProcessMoves, Boot, CrashProc, ExitTerm, ExitKill,
        Reap, MainOK, StartsAlone, MainCalls, StopsLast, Stopped, Running
  <1> QED BY <1>1, <1>2, <1>3

(* A tick, a camera that changes, or nothing. *)
LEMMA RestPart ==
  ASSUME Inv, Tick \/ (\E c \in Cameras : SourceChange(c)) \/ UNCHANGED vars
  PROVE  Inv'
  <1> USE InvParts, NextParts
  <1>a. MgrInv /\ MainOK /\ OwnTypeOK /\ OfflineMeansExhausted
    OBVIOUS
  <1>1. UNCHANGED mgrVars /\ UNCHANGED <<state, count, loop, probe, main>>
    BY DEF Tick, SourceChange, vars, healthVars, loopVars
  <1>2. MgrInv' /\ MainOK'
    BY <1>a, <1>1, StutterInv
    DEF mgrVars, MainOK, StartsAlone, MainCalls, StopsLast, Stopped, Running
  <1>3. CASE Tick
    BY <1>a, <1>2, <1>3, LimitsAssumption
    DEF Tick, Min0, OwnTypeOK, OfflineMeansExhausted, envVars
  <1>4. CASE \E c \in Cameras : SourceChange(c)
    BY <1>a, <1>2, <1>4, LimitsAssumption
    DEF SourceChange, Misbehave, OwnTypeOK, OfflineMeansExhausted, healthVars, loopVars
  <1>5. CASE UNCHANGED vars
    BY <1>a, <1>2, <1>5
    DEF vars, OwnTypeOK, OfflineMeansExhausted, healthVars, loopVars, envVars
  <1> QED BY <1>3, <1>4, <1>5

-----------------------------------------------------------------------------
(***************************************************************************)
(* The inductive invariant of the composition: the manager's, the health   *)
(* of the cameras, and where async_main is while go2rtc starts and stops.  *)
(***************************************************************************)
THEOREM Invariant == Spec => []Inv
  <1>1. Init => Inv
    BY InitOK
  <1>2. Inv /\ [Next]_vars => Inv'
    <2> SUFFICES ASSUME Inv, [Next]_vars PROVE Inv'
      OBVIOUS
    <2>1. CASE MainStart \/ MainFails \/ MainDies \/ MainStop \/ MainStopGo2RTC \/ MainExit
      BY <2>1, MainPart
    <2>2. ASSUME NEW c \in Cameras, LoopStep(c) PROVE Inv'
      BY <2>2, LoopPart
    <2>3. ASSUME NEW t \in Api, ApiStep(t) PROVE Inv'
      BY <2>3, ApiPart
    <2>4. ASSUME NEW t \in Tasks, ManagerRuns(t) \/ ManagerRaises(t) PROVE Inv'
      BY <2>4, ManagerPart
    <2>5. CASE \/ ProcessMovesOn(Boot) \/ ProcessMovesOn(ExitTerm)
               \/ ProcessMovesOn(ExitKill) \/ ProcessMovesOn(Reap)
               \/ ProcessCrash
      BY <2>5, ProcessPart
    <2>6. CASE Tick \/ (\E c \in Cameras : SourceChange(c)) \/ Done \/ UNCHANGED vars
      BY <2>6, RestPart DEF Done
    <2> QED BY <2>1, <2>2, <2>3, <2>4, <2>5, <2>6 DEF Next
  <1> QED BY <1>1, <1>2, PTL DEF Spec

(* Every variable of the composition keeps its type. *)
THEOREM TypeCorrect == Spec => []TypeOK
  <1>1. Inv => TypeOK
    BY DEF Inv
  <1> QED BY <1>1, Invariant, PTL

(***************************************************************************)
(* The cameras' loops, the API and shutdown together never make the        *)
(* manager lose a go2rtc that is still running (go2rtc.py:53-105,          *)
(* watchdog.py:31-35, 243-251).                                            *)
(***************************************************************************)
THEOREM OneProcessEver == Spec => []OneProcess
  <1>1. Inv => OneProcess
    BY DEF Inv, MgrInv
  <1> QED BY <1>1, Invariant, PTL

(***************************************************************************)
(* And so does the whole program, which is more than its manager: a loop   *)
(* or a request that is cancelled leaves the manager at whatever await it  *)
(* is in and gives the lock up with a go2rtc on its way down, and still    *)
(* the next one is started only when that one has left the system          *)
(* (main.py:54-62, watchdog.py:31-35, go2rtc.py:69-105).                   *)
(***************************************************************************)
THEOREM ProgramRefinesSingleProcess == Spec => ImplementsSingleProcess
  <1>1. Init => Abstract!Init
    BY DEF Init, MgrInit, Abstract!Init, LiveProcesses, OsAlive
  <1>2. Inv /\ Inv' /\ [Next]_vars => [Abstract!Next]_LiveProcesses
    <2> SUFFICES ASSUME Inv, Inv', [Next]_vars
                 PROVE  [Abstract!Next]_LiveProcesses
      OBVIOUS
    <2>1. [MgrNext]_mgrVars => [Abstract!Next]_LiveProcesses
      BY StepRefines DEF Inv
    <2>2. UNCHANGED <<process, orphans>> => UNCHANGED LiveProcesses
      BY DEF LiveProcesses, OsAlive
    <2>3. CASE \E t \in Tasks : ManagerRuns(t) \/ ManagerRaises(t)
      BY <2>1, <2>3 DEF ManagerRuns, ManagerRaises, MgrNext
    <2>4. CASE \/ ProcessMovesOn(Boot) \/ ProcessMovesOn(ExitTerm)
               \/ ProcessMovesOn(ExitKill) \/ ProcessMovesOn(Reap)
               \/ ProcessCrash
      BY <2>1, <2>4 DEF ProcessMovesOn, ProcessCrash, MgrNext, ProcessStep
    <2>5. CASE MainStart \/ MainFails \/ MainDies \/ MainStop \/ MainStopGo2RTC \/ MainExit
      BY <2>2, <2>5 DEF MainStart, MainFails, MainDies, MainStop, MainStopGo2RTC, MainExit, mgrVars
    <2>6. ASSUME NEW c \in Cameras, LoopStep(c)
          PROVE  UNCHANGED LiveProcesses
      BY <2>2, <2>6 DEF LoopStep, CheckUp, CheckDown, Probe, Apply, Reconnected, Wake, mgrVars
    <2>7. ASSUME NEW t \in Api, ApiStep(t)
          PROVE  UNCHANGED LiveProcesses
      BY <2>2, <2>7 DEF ApiStep, ApiReconnect, ApiReload, ApiRaised, Handled
    <2>8. CASE Tick \/ (\E c \in Cameras : SourceChange(c)) \/ Done \/ UNCHANGED vars
      BY <2>2, <2>8 DEF Tick, SourceChange, Done, vars, mgrVars
    <2> QED BY <2>3, <2>4, <2>5, <2>6, <2>7, <2>8 DEF Next
  <1> QED BY <1>1, <1>2, Invariant, PTL DEF Spec, ImplementsSingleProcess, Abstract!Spec

(***************************************************************************)
(* A camera is offline only with every attempt spent and no cooldown       *)
(* running, for any number of cameras and any limits                       *)
(* (watchdog.py:227-241).                                                  *)
(***************************************************************************)
THEOREM OfflineExhausted == Spec => []OfflineMeansExhausted
  <1>1. Inv => OfflineMeansExhausted
    BY DEF Inv
  <1> QED BY <1>1, Invariant, PTL

(***************************************************************************)
(* A shutdown never leaves a go2rtc running, whoever was inside the        *)
(* manager when it began (main.py:60-62); an exit by the server's          *)
(* exception or a signal nobody handles (MainDies) is not a shutdown.      *)
(***************************************************************************)
THEOREM ExitsClean == Spec => []NothingLeftRunning
  <1>1. Inv => NothingLeftRunning
    BY DEF Inv, MgrInv, MgrTypeOK, OneProcess, StopsLast, NothingLeftRunning, Running,
           LiveProcesses, OsAlive
  <1> QED BY <1>1, Invariant, PTL

-----------------------------------------------------------------------------
(* A camera leaves offline by a loop step of its own or a forced request. *)
LEMMA LoopHolds ==
  ASSUME Inv, NEW c \in Cameras, LoopStep(c), NEW d \in Cameras, LeavesOffline(d)
  PROVE  LeavesForAReason(d)
  <1> USE DEF LeavesOffline, LeavesForAReason
  <1>a. /\ state \in [Cameras -> CameraState] /\ count \in [Cameras -> 0 .. MaxAttempts]
        /\ count[d] = MaxAttempts /\ cool[d] = 0
    BY DEF Inv, TypeOK, OfflineMeansExhausted
  <1>1. ASSUME NEW how, NEW otherwise, Unforced(c, how, otherwise) PROVE FALSE
    BY <1>1, <1>a, LimitsAssumption DEF Unforced, Attempt
  <1>2. ~CheckDown(c) /\ ~ApplyNoVideo(c)
    BY <1>1 DEF CheckDown, ApplyNoVideo
  <1>3. CASE Apply(c) /\ ApplyVideo(c)
    BY <1>3, <1>a DEF ApplyVideo
  <1>4. CASE Apply(c) /\ ApplyMissing(c)
    BY <1>4, <1>a DEF ApplyMissing, Forced, Attempt
  <1>5. ~(CheckUp(c) \/ Probe(c) \/ Reconnected(c) \/ Wake(c))
    BY DEF CheckUp, Probe, Reconnected, Wake, healthVars
  <1> QED BY <1>2, <1>3, <1>4, <1>5 DEF LoopStep, Apply

(* A request takes a camera out of offline only as a forced reconnect. *)
LEMMA ApiHolds ==
  ASSUME Inv, NEW t \in Api, ApiStep(t), NEW d \in Cameras, LeavesOffline(d)
  PROVE  LeavesForAReason(d)
  <1>a. state \in [Cameras -> CameraState] /\ count \in [Cameras -> 0 .. MaxAttempts]
    BY DEF Inv, TypeOK
  <1>1. ~ApiReload(t) /\ ~ApiRaised(t)
    BY DEF ApiReload, ApiRaised, healthVars, LeavesOffline
  <1>2. ASSUME NEW c \in Cameras, NEW how, ApiReconnect(t, c, how)
        PROVE  LeavesForAReason(d)
    BY <1>2, <1>a DEF ApiReconnect, Forced, Attempt, LeavesOffline, LeavesForAReason
  <1> QED BY <1>1, <1>2 DEF ApiStep

(***************************************************************************)
(* Offline is left only because the probe found video or by a forced       *)
(* reconnect that counts from one again (watchdog.py:46-51, 83-105).       *)
(***************************************************************************)
THEOREM OfflineHeld == Spec => OfflineHolds
  <1>1. Inv /\ [Next]_vars => [OfflineStep]_vars
    <2> SUFFICES ASSUME Inv, Next, NEW d \in Cameras, LeavesOffline(d)
                 PROVE  LeavesForAReason(d)
      BY DEF OfflineStep
    <2>1. CASE \E c \in Cameras : LoopStep(c)
      BY <2>1, LoopHolds
    <2>2. CASE \E t \in Api : ApiStep(t)
      BY <2>2, ApiHolds
    <2>3. CASE MainStart \/ MainFails \/ MainDies \/ MainStop \/ MainStopGo2RTC \/ MainExit
      BY <2>3 DEF MainStart, MainFails, MainDies, MainStop, MainStopGo2RTC, MainExit, healthVars,
                  LeavesOffline
    <2>4. CASE \/ \E t \in Tasks : ManagerRuns(t) \/ ManagerRaises(t)
               \/ ProcessMovesOn(Boot) \/ ProcessMovesOn(ExitTerm)
               \/ ProcessMovesOn(ExitKill) \/ ProcessMovesOn(Reap)
               \/ ProcessCrash
      BY <2>4 DEF ManagerRuns, ManagerRaises, ProcessMovesOn, ProcessCrash, OnlyManager,
                  healthVars, LeavesOffline
    <2>5. CASE Tick \/ (\E c \in Cameras : SourceChange(c)) \/ Done
      BY <2>5 DEF Tick, SourceChange, Done, vars, healthVars, LeavesOffline
    <2> QED BY <2>1, <2>2, <2>3, <2>4, <2>5 DEF Next
  <1> QED BY <1>1, Invariant, PTL DEF Spec, OfflineHolds
=============================================================================
