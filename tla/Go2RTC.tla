------------------------------- MODULE Go2RTC -------------------------------
(***************************************************************************)
(* The go2rtc process manager of Nodalia Video Core                        *)
(* (nodalia_video_core/app/go2rtc.py, class Go2RTCManager).                *)
(*                                                                         *)
(* Tasks are asyncio tasks that call the manager's coroutines.  A step is  *)
(* the code a task runs between two awaits.  The asyncio lock is `holder`; *)
(* asyncio.Lock wakes its waiters in FIFO order, which is kept only as     *)
(* the strong fairness of Acquire.                                         *)
(***************************************************************************)
EXTENDS Integers

CONSTANTS
    Cameras,     \* the camera ids of the add-on configuration
    Tasks,       \* asyncio tasks that may call the manager
    NoTask,      \* value of `holder` while the asyncio lock is free
    HupEffects,  \* what go2rtc may do on SIGHUP: "reload", "ignore", "exit"
    GenMod,      \* bound: `generation` is counted modulo GenMod (1: not at all)
    CanFail      \* TRUE iff write_config and spawning may raise OSError

ASSUME NoTaskAssumption == NoTask \notin Tasks
ASSUME HupAssumption == HupEffects \subseteq {"reload", "ignore", "exit"}
ASSUME GenModAssumption == GenMod \in Nat \ {0}
ASSUME CanFailAssumption == CanFail \in BOOLEAN

VARIABLES
    process,     \* the process self.process refers to
    orphans,     \* go2rtc processes alive that self.process no longer names
    streams,     \* streams registered in the running go2rtc
    holder,      \* the task inside self._lock
    call,        \* call[t]: where task t is inside a manager coroutine
    arg,         \* arg[t]: the camera while t is in soft_reconnect
    generation   \* self.generation

mgrVars == <<process, orphans, streams, holder, call, arg, generation>>

(***************************************************************************)
(* "none": never started; "boot": spawned, its API not listening yet;      *)
(* "term": SIGTERM sent; "kill": SIGKILL sent; "dead": exited but asyncio  *)
(* has not collected the exit status yet; "reaped": returncode is set.     *)
(***************************************************************************)
ProcessState == {"none", "boot", "live", "term", "kill", "dead", "reaped"}

InStop == {"restart_stop", "stop_stop"}
InSpawn == {"start_spawn", "restart_spawn"}
Waiting == {"start_wait", "restart_wait", "stop_wait"}
CallState == {"idle", "raised", "soft", "reload"} \cup Waiting \cup InStop \cup InSpawn

\* self.process and self.process.returncode is None
Running == process \notin {"none", "reaped"}

\* the operating system still runs the process self.process names
OsAlive == process \in {"boot", "live", "term", "kill"}

\* is_responding(): GET /api/streams is answered
Responding == process = "live"

LiveProcesses == orphans + IF OsAlive THEN 1 ELSE 0

Release(t) == holder' = IF holder = t THEN NoTask ELSE holder

Bump == generation' = (generation + 1) % GenMod

GoTo(t, where) == call' = [call EXCEPT ![t] = where]

-----------------------------------------------------------------------------

MgrInit ==
    /\ process = "none"
    /\ orphans = 0
    /\ streams = {}
    /\ holder = NoTask
    /\ call = [t \in Tasks |-> "idle"]
    /\ arg = [t \in Tasks |-> NoTask]
    /\ generation = 0

(***************************************************************************)
(* Entering a coroutine.  reload() takes no lock and does not await before *)
(* its signal; it has a step of its own because soft_reconnect awaits the  *)
(* DELETE requests before it calls reload().                               *)
(***************************************************************************)
CallStart(t)   == call[t] = "idle" /\ GoTo(t, "start_wait") /\ UNCHANGED arg
CallStop(t)    == call[t] = "idle" /\ GoTo(t, "stop_wait") /\ UNCHANGED arg
CallRestart(t) == call[t] = "idle" /\ GoTo(t, "restart_wait") /\ UNCHANGED arg
CallReload(t)  == call[t] = "idle" /\ GoTo(t, "reload") /\ UNCHANGED arg
CallSoft(t, c) ==
    /\ call[t] = "idle"
    /\ GoTo(t, "soft")
    /\ arg' = [arg EXCEPT ![t] = c]

\* `async with self._lock`, up to the next await of start().
AcquireStart(t) ==
    /\ call[t] = "start_wait"
    /\ holder = NoTask
    /\ \/ Running /\ GoTo(t, "idle") /\ UNCHANGED holder
       \/ ~Running /\ GoTo(t, "start_spawn") /\ holder' = t
    /\ UNCHANGED <<process, orphans, streams, arg, generation>>

Terminated == IF process \in {"boot", "live"} THEN "term" ELSE process

\* Mutant: restart() returns, as stop() does, when nothing runs.
AcquireStopReturns(t) ==
    /\ call[t] \in {"restart_wait", "stop_wait"}
    /\ holder = NoTask
    /\ IF Running
         THEN /\ process' = Terminated
              /\ GoTo(t, IF call[t] = "restart_wait" THEN "restart_stop" ELSE "stop_stop")
              /\ holder' = t
         ELSE /\ GoTo(t, "idle")
              /\ UNCHANGED <<process, holder>>
    /\ UNCHANGED <<orphans, streams, arg, generation>>

\* `async with self._lock`, terminate() and the wait of restart() and stop().
AcquireStop(t) ==
    /\ call[t] \in {"restart_wait", "stop_wait"}
    /\ holder = NoTask
    /\ IF Running
         THEN /\ process' = Terminated
              /\ GoTo(t, IF call[t] = "restart_wait" THEN "restart_stop" ELSE "stop_stop")
              /\ holder' = t
         ELSE /\ UNCHANGED process
              /\ GoTo(t, IF call[t] = "restart_wait" THEN "restart_spawn" ELSE "idle")
              /\ holder' = IF call[t] = "restart_wait" THEN t ELSE holder
    /\ UNCHANGED <<orphans, streams, arg, generation>>

Acquire(t) == AcquireStart(t) \/ AcquireStop(t)

\* Mutant: process.wait() without a timeout.
KillNever(t) == call[t] = "killed" /\ UNCHANGED mgrVars

\* wait_for(self.process.wait(), timeout=8) expired: SIGKILL.
KillStep(t) ==
    /\ call[t] \in InStop
    /\ process = "term"
    /\ process' = "kill"
    /\ UNCHANGED <<orphans, streams, holder, call, arg, generation>>

\* Mutant: no wait() after kill().
StopDoneEarly(t) ==
    /\ call[t] \in InStop
    /\ process \in {"kill", "reaped"}
    /\ IF call[t] = "restart_stop"
         THEN GoTo(t, "restart_spawn") /\ UNCHANGED holder
         ELSE GoTo(t, "idle") /\ Release(t)
    /\ UNCHANGED <<process, orphans, streams, arg, generation>>

\* self.process.wait() returned.
StopDone(t) ==
    /\ call[t] \in InStop
    /\ process = "reaped"
    /\ IF call[t] = "restart_stop"
         THEN GoTo(t, "restart_spawn") /\ UNCHANGED holder
         ELSE GoTo(t, "idle") /\ Release(t)
    /\ UNCHANGED <<process, orphans, streams, arg, generation>>

\* create_subprocess_exec returned; the new go2rtc reads the config just written.
Spawn(t) ==
    /\ call[t] \in InSpawn
    /\ orphans' = LiveProcesses
    /\ process' = "boot"
    /\ streams' = Cameras
    /\ Bump
    /\ GoTo(t, "idle")
    /\ Release(t)
    /\ UNCHANGED arg

\* The two DELETE requests of soft_reconnect; errors are only logged.
SoftDelete(t) ==
    /\ call[t] = "soft"
    /\ \/ Responding /\ streams' = streams \ {arg[t]}
       \/ UNCHANGED streams
    /\ GoTo(t, "reload")
    /\ arg' = [arg EXCEPT ![t] = NoTask]
    /\ UNCHANGED <<process, orphans, holder, generation>>

\* What the signalled go2rtc does; a process on its way out ignores SIGHUP.
HupEffect ==
    IF process \in {"boot", "live"}
      THEN \/ "reload" \in HupEffects /\ streams' = Cameras /\ UNCHANGED process
           \/ "ignore" \in HupEffects /\ UNCHANGED <<process, streams>>
           \/ "exit" \in HupEffects /\ process' = "dead" /\ UNCHANGED streams
      ELSE UNCHANGED <<process, streams>>

\* reload(): SIGHUP to a running go2rtc, otherwise start().
Reload(t) ==
    /\ call[t] = "reload"
    /\ \/ /\ Running
          /\ HupEffect
          /\ Bump
          /\ GoTo(t, "idle")
       \/ /\ ~Running \/ process = "dead"      \* else branch, ProcessLookupError
          /\ GoTo(t, "start_wait")
          /\ UNCHANGED <<process, streams, generation>>
    /\ UNCHANGED <<orphans, holder, arg>>

\* write_config or create_subprocess_exec raised; `async with` frees the lock.
Raise(t) ==
    /\ CanFail
    /\ \/ call[t] \in InSpawn \cup {"reload"}
       \/ call[t] = "start_wait" /\ holder = NoTask
    /\ GoTo(t, "raised")
    /\ Release(t)
    /\ UNCHANGED <<process, orphans, streams, arg, generation>>

\* Mutant: the lock is not released on cancellation.
CancelledKeepsLock(S) ==
    /\ call' = [t \in Tasks |-> IF t \in S THEN "idle" ELSE call[t]]
    /\ arg' = [t \in Tasks |-> IF t \in S THEN NoTask ELSE arg[t]]
    /\ UNCHANGED holder

\* The caller is cancelled (Watchdog.stop) at whatever await it is in.
Cancelled(S) ==
    /\ call' = [t \in Tasks |-> IF t \in S THEN "idle" ELSE call[t]]
    /\ arg' = [t \in Tasks |-> IF t \in S THEN NoTask ELSE arg[t]]
    /\ holder' = IF holder \in S THEN NoTask ELSE holder

MgrStep(t) ==
    \/ Acquire(t)
    \/ KillStep(t)
    \/ StopDone(t)
    \/ Spawn(t)
    \/ SoftDelete(t)
    \/ Reload(t)

-----------------------------------------------------------------------------
(***************************************************************************)
(* The go2rtc process itself (external).                                   *)
(***************************************************************************)
ProcessMoves(from, to) ==
    /\ process \in from
    /\ process' = to
    /\ UNCHANGED <<orphans, streams, holder, call, arg, generation>>

Boot      == ProcessMoves({"boot"}, "live")
CrashProc == ProcessMoves({"boot", "live"}, "dead")
ExitTerm  == ProcessMoves({"term"}, "dead")
ExitKill  == ProcessMoves({"kill"}, "dead")
Reap      == ProcessMoves({"dead"}, "reaped")

-----------------------------------------------------------------------------
(***************************************************************************)
(* The manager on its own: any task calls any coroutine at any time.       *)
(***************************************************************************)
Call(t) ==
    /\ \/ CallStart(t) \/ CallStop(t) \/ CallRestart(t) \/ CallReload(t)
       \/ \E c \in Cameras : CallSoft(t, c)
    /\ UNCHANGED <<process, orphans, streams, holder, generation>>

\* The exception reached the caller, which may call again.
Handled(t) ==
    /\ call[t] = "raised"
    /\ GoTo(t, "idle")
    /\ UNCHANGED <<process, orphans, streams, holder, arg, generation>>

ProcessStep == Boot \/ CrashProc \/ ExitTerm \/ ExitKill \/ Reap

MgrNext ==
    \/ \E t \in Tasks : Call(t) \/ MgrStep(t) \/ Raise(t) \/ Handled(t)
    \/ ProcessStep

(***************************************************************************)
(* The event loop runs every ready task, the lock is FIFO, a killed        *)
(* process exits and an exit status is collected.  Nothing makes go2rtc    *)
(* obey SIGTERM, and nobody has to call the manager.                       *)
(***************************************************************************)
MgrFairness ==
    /\ \A t \in Tasks :
         /\ SF_mgrVars(Acquire(t))
         /\ WF_mgrVars(KillStep(t) \/ StopDone(t) \/ Spawn(t) \/ SoftDelete(t) \/ Reload(t))
    /\ WF_mgrVars(ExitKill)
    /\ WF_mgrVars(Reap)

MgrSpec == MgrInit /\ [][MgrNext]_mgrVars
FairMgrSpec == MgrSpec /\ MgrFairness

-----------------------------------------------------------------------------
MgrTypeOK ==
    /\ process \in ProcessState
    /\ orphans \in Nat
    /\ streams \subseteq Cameras
    /\ holder \in Tasks \cup {NoTask}
    /\ call \in [Tasks -> CallState]
    /\ arg \in [Tasks -> Cameras \cup {NoTask}]
    /\ generation \in 0 .. GenMod - 1

(***************************************************************************)
(* However start, stop, restart, reload and soft_reconnect interleave, the *)
(* manager never loses a go2rtc that is still running: there is at most    *)
(* one, and it is the one self.process names.  Two would fight for ports   *)
(* 1984 and 8554 (go2rtc.py:53-105).                                       *)
(***************************************************************************)
OneProcess == orphans = 0

(***************************************************************************)
(* Why: whoever has go2rtc on its way down or is about to spawn one holds  *)
(* the lock, and a spawn awaits only after the previous process has been   *)
(* collected (go2rtc.py:53-105).                                           *)
(***************************************************************************)
HolderReplaces == \A t \in Tasks : holder = t <=> call[t] \in InStop \cup InSpawn
SpawnAfterExit == \A t \in Tasks : call[t] \in InSpawn => ~Running

MgrInv == MgrTypeOK /\ OneProcess /\ HolderReplaces /\ SpawnAfterExit

(***************************************************************************)
(* A manager coroutine always returns, to its caller or with an exception, *)
(* even when go2rtc ignores SIGTERM and other tasks keep the lock busy     *)
(* (go2rtc.py:53-134): no call waits for ever.                             *)
(***************************************************************************)
CallsReturn ==
    \A t \in Tasks : call[t] \notin {"idle", "raised"} ~> call[t] \in {"idle", "raised"}

(***************************************************************************)
(* A new go2rtc is spawned only when the previous one has left the system, *)
(* never in its place (go2rtc.py:82-95): the manager implements            *)
(* SingleProcess.                                                          *)
(***************************************************************************)
Abstract == INSTANCE SingleProcess WITH alive <- LiveProcesses
ImplementsSingleProcess == Abstract!Spec
=============================================================================
