--------------------------------- MODULE OnOff ---------------------------------
(***************************************************************************)
(* OnOffServer of the vendored matter.js                                    *)
(* (package/src/behaviors/on-off/OnOffServer.ts): a light that is on or     *)
(* off, may be on for a time, and may guard its off state for a time.       *)
(*                                                                          *)
(* A command holds the lock of the cluster until it is stored, so each is   *)
(* one step.  The periodic timers call back every 100 ms (Tick); a callback *)
(* then waits for that lock, so a command may come between a timer's firing *)
(* and what it does, and may have stopped the timer by then.                *)
(***************************************************************************)
EXTENDS Integers

CONSTANTS
    Times,       \* onTime and offWaitTime in OnWithTimedOff and in writes
    SceneTimes   \* transition times of a scene that is recalled, 0 included

ASSUME TimesAssumption == Times \subseteq Nat /\ SceneTimes \subseteq Nat

VARIABLES
    lamp,   \* the attributes, the two timers and the scene that is awaited
    due,    \* callbacks of timers that have fired and wait for the lock
    boot    \* changes with each start of the program

vars == <<lamp, due, boot>>

\* applyScenePendingOnOff and the ticks its timer has left.
NoScene == [on |-> FALSE, left |-> -1]
Scenes == {NoScene} \cup [on : BOOLEAN, left : Nat]

Lamps == [on : BOOLEAN, onTime : Nat, wait : Nat, globalScene : BOOLEAN,
          timed : BOOLEAN, delayed : BOOLEAN, scene : Scenes]

Started(on) == [on |-> on, onTime |-> 0, wait |-> 0, globalScene |-> TRUE,
                timed |-> FALSE, delayed |-> FALSE, scene |-> NoScene]

AtLeast0(n) == IF n < 0 THEN 0 ELSE n
Least(m, n) == IF m < n THEN m ELSE n
Greatest(m, n) == IF m < n THEN n ELSE m

(***************************************************************************)
(* What the methods make of the attributes.                                *)
(***************************************************************************)

\* Mutant: turning the light on leaves the guard's timer running.
TurnOnGuarded(l) == [l EXCEPT !.on = TRUE, !.globalScene = TRUE, !.wait = 0]

TurnOn(l) ==
    [l EXCEPT !.on = TRUE, !.globalScene = TRUE,
              !.delayed = l.delayed /\ l.timed,
              !.wait = IF l.timed THEN @ ELSE 0]

TurnOff(l) ==
    [l EXCEPT !.on = FALSE, !.onTime = 0, !.timed = FALSE,
              !.delayed = @ \/ (l.timed /\ l.wait > 0)]

Set(l, on) == IF on THEN TurnOn(l) ELSE TurnOff(l)

ClearScene(l) == [l EXCEPT !.scene = NoScene]

\* A scene's value is set at once, or after the transition time by a timer.
ApplyScene(l, on, time) ==
    IF l.on = on THEN ClearScene(l)
    ELSE IF time = 0 THEN Set(ClearScene(l), on)
    ELSE [l EXCEPT !.scene = [on |-> on, left |-> time]]

\* Mutant: the guard is not observed.
TurnOnTimedAnyway(l, onlyWhenOn, time, wait) ==
    IF onlyWhenOn /\ ~l.on THEN l
    ELSE LET longer == Greatest(time, l.onTime)
         IN  TurnOn([l EXCEPT !.onTime = longer, !.wait = wait,
                              !.timed = @ \/ (longer # 0 /\ wait # 0)])

\* The guard is observed while the light is off; a light that is on gets the
\* longer of the two times, and its timer if both times are positive.
TurnOnTimed(l, onlyWhenOn, time, wait) ==
    IF onlyWhenOn /\ ~l.on THEN l
    ELSE IF l.delayed /\ ~l.on THEN [l EXCEPT !.wait = Least(wait, @)]
    ELSE LET longer == Greatest(time, l.onTime)
         IN  TurnOn([l EXCEPT !.onTime = longer, !.wait = wait,
                              !.timed = @ \/ (longer # 0 /\ wait # 0)])

\* Mutant: the timer goes on at zero.
TimedTickForever(l) ==
    IF l.onTime > 0 THEN [l EXCEPT !.onTime = @ - 1] ELSE l

TimedTick(l) ==
    IF l.onTime > 1 THEN [l EXCEPT !.onTime = @ - 1]
    ELSE TurnOff([l EXCEPT !.timed = FALSE, !.wait = 0])

\* Mutant: the guard is counted down below zero.
DelayedTickBelow(l) ==
    [l EXCEPT !.wait = @ - 1, !.delayed = @ /\ l.wait > 1]

DelayedTick(l) ==
    [l EXCEPT !.wait = AtLeast0(@ - 1), !.delayed = @ /\ l.wait > 1]

\* The global scene is recalled unless the light shows it already; it was stored
\* with the light on or off.
Recall(l, stored) ==
    IF l.globalScene THEN l
    ELSE LET s == ApplyScene(l, stored, 0)
         IN  TurnOn([s EXCEPT !.wait = IF s.onTime = 0 THEN 0 ELSE @])

\* onOff$Changed ends the wait for a scene.
Committed(old, new) == IF new.on # old.on THEN ClearScene(new) ELSE new

(***************************************************************************)
(* Commands, writes and timers.                                            *)
(***************************************************************************)

Become(l) ==
    /\ lamp' = Committed(lamp, l)
    /\ UNCHANGED <<due, boot>>

Init ==
    /\ \E on \in BOOLEAN : lamp = Started(on)
    /\ due = {}
    /\ boot = 0

On == Become(TurnOn(lamp))

Off == Become(TurnOff(lamp))

Toggle == Become(Set(lamp, ~lamp.on))

OffWithEffect == Become(TurnOff([lamp EXCEPT !.globalScene = FALSE]))

OnWithRecallGlobalScene == \E stored \in BOOLEAN : Become(Recall(lamp, stored))

OnWithTimedOff ==
    \E onlyWhenOn \in BOOLEAN, time \in Times, wait \in Times :
      Become(TurnOnTimed(lamp, onlyWhenOn, time, wait))

RecallScene ==
    \E on \in BOOLEAN, time \in SceneTimes : Become(ApplyScene(lamp, on, time))

\* Clients may write the two times at any moment.
Write ==
    \E time \in Times : \/ Become([lamp EXCEPT !.onTime = time])
                        \/ Become([lamp EXCEPT !.wait = time])

\* 100 ms pass.  A callback runs within the interval in which it was due.
Tick ==
    /\ due = {}
    /\ due' = {t \in {"timed", "delayed"} : lamp[t]}
    /\ lamp.scene.left # 0
    /\ lamp' = [lamp EXCEPT !.scene.left = IF @ > 0 THEN @ - 1 ELSE @]
    /\ UNCHANGED boot

TimedOnTick ==
    /\ "timed" \in due
    /\ lamp' = Committed(lamp, TimedTick(lamp))
    /\ due' = due \ {"timed"}
    /\ UNCHANGED boot

DelayedOffTick ==
    /\ "delayed" \in due
    /\ lamp' = DelayedTick(lamp)
    /\ due' = due \ {"delayed"}
    /\ UNCHANGED boot

\* This callback does not wait: if the cluster is locked it fails.
SceneIsDue ==
    /\ lamp.scene.left = 0
    /\ \/ Become(ClearScene(Set(ClearScene(lamp), lamp.scene.on)))
       \/ Become(ClearScene(lamp))

\* The light keeps its state, or takes the one configured by startUpOnOff.
Restart ==
    /\ \E on \in BOOLEAN : lamp' = Started(on)
    /\ due' = {}
    /\ boot' = 1 - boot

Command ==
    \/ On \/ Off \/ Toggle
    \/ OffWithEffect \/ OnWithRecallGlobalScene
    \/ OnWithTimedOff \/ RecallScene \/ Write

Timers == Tick \/ TimedOnTick \/ DelayedOffTick \/ SceneIsDue

Next == Command \/ Timers \/ Restart

Spec == Init /\ [][Next]_vars

FairSpec == Spec /\ WF_vars(Timers)

(***************************************************************************)
(* Properties.                                                             *)
(***************************************************************************)

TypeOK ==
    /\ lamp \in Lamps
    /\ due \subseteq {"timed", "delayed"}
    /\ boot \in {0, 1}

\* The two timers belong to two states of the light: timed on and delayed off.
\* Neither is left running by a command, a scene or a late callback that changes
\* the light.
TimersMatchLight ==
    /\ lamp.timed => lamp.on
    /\ lamp.delayed => ~lamp.on

\* The state of clause 1.5.7.6 the light is in.
Mode ==
    IF lamp.on THEN IF lamp.timed THEN "timedOn" ELSE "on"
    ELSE IF lamp.delayed THEN "delayedOff" ELSE "off"

\* The interface's promise for OnWithTimedOff, see TimedLight.
Promise == INSTANCE TimedLight WITH mode <- Mode, boot <- boot
KeepsPromise == Promise!Spec

\* A timed light goes out and a guard ends, unless somebody extends it for ever.
TimesRunOut ==
    /\ []<>(~lamp.timed) \/ []<><<OnWithTimedOff \/ Write>>_vars
    /\ []<>(~lamp.delayed) \/ []<><<Write>>_vars

===============================================================================
