------------------------------ MODULE OnOffProofs ------------------------------
(***************************************************************************)
(* Theorems about OnOff, for all times: types, the match of timers and      *)
(* light, and the refinement of TimedLight.  What the methods do to a lamp  *)
(* is shown once for each method; the steps follow from that.               *)
(***************************************************************************)
EXTENDS OnOff, TLAPS

\* A light that is on has its global scene stored: without this a recall could
\* take a timed light out of its time.
Sound(l) ==
    /\ l \in Lamps
    /\ l.timed => l.on
    /\ l.delayed => ~l.on
    /\ l.on => l.globalScene

\* The steps of TimedLight, on lamps.
Changes(l, n) ==
    \/ n.on = l.on /\ n.timed = l.timed /\ n.delayed = l.delayed
    \/ ~l.on /\ n.on /\ ~n.timed
    \/ ~l.delayed /\ n.on /\ n.timed
    \/ ~n.on /\ ~n.delayed
    \/ l.timed /\ ~n.on /\ n.delayed

IInv == Sound(lamp) /\ due \subseteq {"timed", "delayed"} /\ boot \in {0, 1}

-------------------------------------------------------------------------------
(***************************************************************************)
(* The methods.                                                            *)
(***************************************************************************)

LEMMA Fields ==
    ASSUME NEW l \in Lamps
    PROVE  /\ l.on \in BOOLEAN /\ l.onTime \in Nat /\ l.wait \in Nat
           /\ l.globalScene \in BOOLEAN /\ l.timed \in BOOLEAN
           /\ l.delayed \in BOOLEAN /\ l.scene \in Scenes
           /\ NoScene \in Scenes
BY DEF Lamps, Scenes

LEMMA SceneFields ==
    ASSUME NEW s \in Scenes
    PROVE  /\ s.on \in BOOLEAN
           /\ s.left # 0 =>
                [s EXCEPT !.left = IF s.left > 0 THEN s.left - 1 ELSE s.left] \in Scenes
<1>1. CASE s = NoScene
  BY <1>1 DEF Scenes, NoScene
<1>2. CASE s \in [on : BOOLEAN, left : Nat]
  BY <1>2 DEF Scenes
<1> QED
  BY <1>1, <1>2 DEF Scenes

LEMMA TurnOnFields ==
    ASSUME NEW l \in Lamps
    PROVE  /\ TurnOn(l) \in Lamps /\ TurnOn(l).on /\ TurnOn(l).globalScene
           /\ TurnOn(l).timed = l.timed
           /\ TurnOn(l).delayed = (l.delayed /\ l.timed)
BY Fields DEF TurnOn, Lamps

LEMMA TurnOnMoves ==
    ASSUME NEW l, Sound(l)
    PROVE  /\ Sound(TurnOn(l)) /\ Changes(l, TurnOn(l))
           /\ TurnOn(l).on /\ TurnOn(l).timed = l.timed
BY Fields DEF Sound, Changes, TurnOn, Lamps

LEMMA TurnOffMoves ==
    ASSUME NEW l, Sound(l)
    PROVE  Sound(TurnOff(l)) /\ Changes(l, TurnOff(l))
BY Fields DEF Sound, Changes, TurnOff, Lamps

LEMMA SetMoves ==
    ASSUME NEW l, Sound(l), NEW on \in BOOLEAN
    PROVE  Sound(Set(l, on)) /\ Changes(l, Set(l, on))
BY TurnOnMoves, TurnOffMoves DEF Set

\* The scene that is awaited is no part of what the steps are about.
LEMMA OtherScene ==
    ASSUME NEW l, NEW n, NEW s \in Scenes, Sound(l), Sound(n)
    PROVE  /\ Sound([n EXCEPT !.scene = s])
           /\ Changes(l, n) => Changes(l, [n EXCEPT !.scene = s])
           /\ Changes([l EXCEPT !.scene = s], n) => Changes(l, n)
BY DEF Sound, Changes, Lamps

LEMMA ClearSceneMoves ==
    ASSUME NEW l, NEW n, Sound(l), Sound(n)
    PROVE  /\ Sound(ClearScene(n))
           /\ Changes(l, n) => Changes(l, ClearScene(n))
           /\ Changes(ClearScene(l), n) => Changes(l, n)
<1>1. NoScene \in Scenes
  BY DEF Scenes
<1> QED
  BY <1>1, OtherScene DEF ClearScene

LEMMA ClearedSetMoves ==
    ASSUME NEW l, Sound(l), NEW on \in BOOLEAN
    PROVE  Sound(Set(ClearScene(l), on)) /\ Changes(l, Set(ClearScene(l), on))
<1>1. Sound(ClearScene(l))
  BY ClearSceneMoves
<1> QED
  BY <1>1, SetMoves, ClearSceneMoves

LEMMA Stays ==
    ASSUME NEW l
    PROVE  Changes(l, l)
BY DEF Changes

LEMMA ApplySceneMoves ==
    ASSUME NEW l, Sound(l), NEW on \in BOOLEAN, NEW time \in Nat
    PROVE  Sound(ApplyScene(l, on, time)) /\ Changes(l, ApplyScene(l, on, time))
<1>1. CASE l.on = on
  BY <1>1, Stays, ClearSceneMoves DEF ApplyScene
<1>2. CASE l.on # on /\ time = 0
  BY <1>2, ClearedSetMoves DEF ApplyScene
<1>3. CASE l.on # on /\ time # 0
  <2>1. [on |-> on, left |-> time] \in Scenes
    BY DEF Scenes
  <2> QED
    BY <1>3, <2>1, OtherScene, Stays DEF ApplyScene
<1> QED
  BY <1>1, <1>2, <1>3

LEMMA TurnOnTimedMoves ==
    ASSUME NEW l, Sound(l), NEW onlyWhenOn \in BOOLEAN,
           NEW time \in Nat, NEW wait \in Nat
    PROVE  LET n == TurnOnTimed(l, onlyWhenOn, time, wait)
           IN  Sound(n) /\ Changes(l, n)
<1> DEFINE n == TurnOnTimed(l, onlyWhenOn, time, wait)
<1> USE Fields
<1>1. CASE onlyWhenOn /\ ~l.on
  BY <1>1, Stays DEF TurnOnTimed
<1>2. CASE ~(onlyWhenOn /\ ~l.on) /\ l.delayed /\ ~l.on
  <2>1. n = [l EXCEPT !.wait = Least(wait, l.wait)]
    BY <1>2 DEF TurnOnTimed
  <2>2. Least(wait, l.wait) \in Nat
    BY DEF Least, Sound
  <2> QED
    BY <2>1, <2>2 DEF Sound, Changes, Lamps
<1>3. CASE ~(onlyWhenOn /\ ~l.on) /\ ~l.delayed
  <2> DEFINE longer == Greatest(time, l.onTime)
             runs == l.timed \/ (longer # 0 /\ wait # 0)
             m == [l EXCEPT !.onTime = longer, !.wait = wait, !.timed = runs]
  <2>1. n = TurnOn(m)
    BY <1>3 DEF TurnOnTimed
  <2>2. longer \in Nat
    BY DEF Greatest, Sound
  <2>3. m \in Lamps /\ ~m.delayed /\ m.timed = runs
    BY <1>3, <2>2 DEF Sound, Lamps
  <2> HIDE DEF m
  <2>4. n \in Lamps /\ n.on /\ ~n.delayed /\ n.globalScene /\ n.timed = m.timed
    BY <2>1, <2>3, TurnOnFields
  <2>5. n.timed \in BOOLEAN
    BY <2>4
  <2>6. Sound(n)
    BY <2>4 DEF Sound
  <2>7. Changes(l, n)
    <3>1. CASE n.timed
      BY <1>3, <2>4, <3>1 DEF Changes
    <3>2. CASE ~n.timed
      BY <1>3, <2>3, <2>4, <3>2 DEF Changes, Sound
    <3> QED
      BY <3>1, <3>2
  <2> QED
    BY <2>6, <2>7
<1> QED
  BY <1>1, <1>2, <1>3 DEF Sound

LEMMA TimedTickMoves ==
    ASSUME NEW l, Sound(l)
    PROVE  Sound(TimedTick(l)) /\ Changes(l, TimedTick(l))
<1>1. CASE l.onTime > 1
  BY <1>1, Fields DEF TimedTick, Sound, Changes, Lamps
<1>2. CASE ~(l.onTime > 1)
  <2> DEFINE m == [l EXCEPT !.timed = FALSE, !.wait = 0]
  <2>1. Sound(m)
    BY DEF Sound, Lamps
  <2>2. TimedTick(l) = TurnOff(m)
    BY <1>2 DEF TimedTick
  <2>3. Sound(TurnOff(m))
    BY <2>1, TurnOffMoves
  <2>4. Changes(l, TurnOff(m))
    BY Fields DEF Sound, Changes, TurnOff, Lamps
  <2> QED
    BY <2>2, <2>3, <2>4
<1> QED
  BY <1>1, <1>2

LEMMA DelayedTickMoves ==
    ASSUME NEW l, Sound(l)
    PROVE  Sound(DelayedTick(l)) /\ Changes(l, DelayedTick(l))
<1>1. AtLeast0(l.wait - 1) \in Nat
  BY Fields DEF AtLeast0, Sound
<1> QED
  BY <1>1, Fields DEF DelayedTick, Sound, Changes, Lamps

\* The recalled scene is applied to a light that is off, see Sound.
LEMMA RecallMoves ==
    ASSUME NEW l, Sound(l), NEW stored \in BOOLEAN
    PROVE  Sound(Recall(l, stored)) /\ Changes(l, Recall(l, stored))
<1>1. CASE l.globalScene
  BY <1>1, Stays DEF Recall
<1>2. CASE ~l.globalScene
  <2> DEFINE s == ApplyScene(l, stored, 0)
             m == [s EXCEPT !.wait = IF s.onTime = 0 THEN 0 ELSE s.wait]
  <2>1. Sound(s)
    BY ApplySceneMoves
  <2>2. ~l.on /\ ~l.timed
    BY <1>2 DEF Sound
  <2>3. ~s.timed
    BY <2>2, Fields DEF ApplyScene, ClearScene, Set, TurnOn, TurnOff, Sound, Lamps
  <2> HIDE DEF s
  <2>4. Sound(m) /\ ~m.timed
    BY <2>1, <2>3, Fields DEF Sound, Lamps
  <2>5. Recall(l, stored) = TurnOn(m)
    BY <1>2 DEF Recall, s
  <2> HIDE DEF m
  <2>6. Sound(TurnOn(m)) /\ TurnOn(m).on /\ ~TurnOn(m).timed
    BY <2>4, TurnOnMoves
  <2> QED
    BY <2>2, <2>5, <2>6 DEF Changes
<1> QED
  BY <1>1, <1>2

LEMMA CommittedMoves ==
    ASSUME NEW l, NEW n, Sound(l), Sound(n), Changes(l, n)
    PROVE  Sound(Committed(l, n)) /\ Changes(l, Committed(l, n))
BY ClearSceneMoves DEF Committed

-------------------------------------------------------------------------------
(***************************************************************************)
(* The steps.                                                              *)
(***************************************************************************)

LEMMA InitSound == Init => IInv
BY DEF Init, Started, IInv, Sound, Lamps, Scenes

\* Every step but a restart is a step of TimedLight or none.
LEMMA StepMoves ==
    ASSUME IInv, Command \/ Timers
    PROVE  Sound(lamp') /\ Changes(lamp, lamp') /\ boot' = boot
<1> DEFINE Result == Sound(lamp') /\ Changes(lamp, lamp') /\ boot' = boot
<1>0. Sound(lamp)
  BY DEF IInv
<1>s. Times \subseteq Nat /\ SceneTimes \subseteq Nat
  BY TimesAssumption
<1>b. ASSUME NEW n, Sound(n), Changes(lamp, n), Become(n) PROVE Result
  BY <1>0, <1>b, CommittedMoves DEF Become
<1>1. CASE On
  BY <1>0, <1>1, <1>b, TurnOnMoves DEF On
<1>2. CASE Off
  BY <1>0, <1>2, <1>b, TurnOffMoves DEF Off
<1>3. CASE Toggle
  <2>1. (~lamp.on) \in BOOLEAN
    BY <1>0, Fields DEF Sound
  <2> QED
    BY <1>0, <1>3, <1>b, <2>1, SetMoves DEF Toggle
<1>4. CASE OffWithEffect
  <2> DEFINE m == [lamp EXCEPT !.globalScene = FALSE]
             n == TurnOff(m)
  <2>1. Sound(n) /\ Changes(lamp, n)
    BY <1>0, Fields DEF TurnOff, Sound, Changes, Lamps
  <2>2. Become(n)
    BY <1>4 DEF OffWithEffect
  <2> HIDE DEF n
  <2> QED
    BY <1>b, <2>1, <2>2
<1>5. CASE OnWithRecallGlobalScene
  BY <1>0, <1>5, <1>b, RecallMoves DEF OnWithRecallGlobalScene
<1>6. CASE OnWithTimedOff
  <2>1. PICK o \in BOOLEAN, t \in Times, w \in Times :
          Become(TurnOnTimed(lamp, o, t, w))
    BY <1>6 DEF OnWithTimedOff
  <2>2. t \in Nat /\ w \in Nat
    BY <1>s
  <2>3. Sound(TurnOnTimed(lamp, o, t, w)) /\ Changes(lamp, TurnOnTimed(lamp, o, t, w))
    BY <1>0, <2>2, TurnOnTimedMoves
  <2> QED
    BY <1>b, <2>1, <2>3
<1>7. CASE RecallScene
  BY <1>0, <1>7, <1>b, <1>s, ApplySceneMoves DEF RecallScene
<1>8. CASE Write
  <2>1. PICK t \in Times : \/ Become([lamp EXCEPT !.onTime = t])
                           \/ Become([lamp EXCEPT !.wait = t])
    BY <1>8 DEF Write
  <2>2. t \in Nat
    BY <1>s
  <2>3. /\ Sound([lamp EXCEPT !.onTime = t]) /\ Changes(lamp, [lamp EXCEPT !.onTime = t])
        /\ Sound([lamp EXCEPT !.wait = t]) /\ Changes(lamp, [lamp EXCEPT !.wait = t])
    BY <1>0, <2>2 DEF Sound, Changes, Lamps
  <2> QED
    BY <1>b, <2>1, <2>3
<1>9. CASE Tick
  <2>1. lamp.scene \in Scenes /\ lamp.scene.left # 0
    BY <1>0, <1>9, Fields DEF Sound, Tick
  <2> DEFINE s == [lamp.scene EXCEPT !.left = IF lamp.scene.left > 0
                                               THEN lamp.scene.left - 1
                                               ELSE lamp.scene.left]
  <2>2. s \in Scenes
    BY <2>1, SceneFields
  <2>3. lamp' = [lamp EXCEPT !.scene = s]
    BY <1>0, <1>9 DEF Tick, Sound, Lamps
  <2> HIDE DEF s
  <2> QED
    BY <1>0, <1>9, <2>2, <2>3, OtherScene, Stays DEF Tick
<1>10. CASE TimedOnTick
  BY <1>0, <1>10, TimedTickMoves, CommittedMoves DEF TimedOnTick
<1>11. CASE DelayedOffTick
  BY <1>0, <1>11, DelayedTickMoves DEF DelayedOffTick
<1>12. CASE SceneIsDue
  <2>1. lamp.scene.on \in BOOLEAN
    BY <1>0, Fields, SceneFields DEF Sound
  <2>2. CASE Become(ClearScene(Set(ClearScene(lamp), lamp.scene.on)))
    BY <1>0, <1>b, <2>1, <2>2, ClearedSetMoves, ClearSceneMoves
  <2>3. CASE Become(ClearScene(lamp))
    BY <1>0, <1>b, <2>3, Stays, ClearSceneMoves
  <2> QED
    BY <1>12, <2>2, <2>3 DEF SceneIsDue
<1> QED
  BY <1>1, <1>2, <1>3, <1>4, <1>5, <1>6, <1>7, <1>8, <1>9, <1>10, <1>11, <1>12
  DEF Command, Timers

LEMMA RestartSound ==
    ASSUME IInv, Restart
    PROVE  Sound(lamp') /\ ~lamp'.timed /\ ~lamp'.delayed /\ boot' # boot
BY DEF IInv, Restart, Started, Sound, Lamps, Scenes

LEMMA DueIsSet ==
    ASSUME IInv, [Next]_vars
    PROVE  due' \subseteq {"timed", "delayed"} /\ boot' \in {0, 1}
<1> USE DEF IInv
<1>1. CASE UNCHANGED vars
  BY <1>1 DEF vars
<1>2. CASE Command
  BY <1>2 DEF Command, On, Off, Toggle, OffWithEffect, OnWithRecallGlobalScene,
              OnWithTimedOff, RecallScene, Write, Become
<1>3. CASE Timers
  BY <1>3 DEF Timers, Tick, TimedOnTick, DelayedOffTick, SceneIsDue, Become
<1>4. CASE Restart
  BY <1>4 DEF Restart
<1> QED
  BY <1>1, <1>2, <1>3, <1>4 DEF Next

LEMMA StepSound == IInv /\ [Next]_vars => IInv'
<1> SUFFICES ASSUME IInv, [Next]_vars PROVE IInv'
  OBVIOUS
<1>1. due' \subseteq {"timed", "delayed"} /\ boot' \in {0, 1}
  BY DueIsSet
<1>2. Sound(lamp')
  BY StepMoves, RestartSound DEF Next, vars, IInv
<1> QED
  BY <1>1, <1>2 DEF IInv

-------------------------------------------------------------------------------
(***************************************************************************)
(* Theorems.                                                               *)
(***************************************************************************)

\* The inductive invariant of every command, timer, scene and restart.
THEOREM LightInvariant == Spec => []IInv
<1> QED
  BY InitSound, StepSound, PTL DEF Spec

\* Attributes, timers and the awaited scene keep their types for all times.
THEOREM LightTypes == Spec => []TypeOK
<1>1. IInv => TypeOK
  BY DEF IInv, Sound, TypeOK
<1> QED
  BY <1>1, LightInvariant, PTL

\* The two timers of OnOffServer run only in the state they belong to.
THEOREM TimersMatch == Spec => []TimersMatchLight
<1>1. IInv => TimersMatchLight
  BY DEF IInv, Sound, TimersMatchLight
<1> QED
  BY <1>1, LightInvariant, PTL

LEMMA MovesRefine ==
    ASSUME IInv, Sound(lamp'), Changes(lamp, lamp'), boot' = boot
    PROVE  [Promise!Next]_<<Mode, boot>>
<1>1. /\ lamp.on \in BOOLEAN /\ lamp.timed \in BOOLEAN /\ lamp.delayed \in BOOLEAN
      /\ lamp'.on \in BOOLEAN /\ lamp'.timed \in BOOLEAN /\ lamp'.delayed \in BOOLEAN
  BY Fields DEF IInv, Sound
<1> QED
  BY <1>1 DEF IInv, Sound, Changes, Mode, Promise!Next, Promise!TurnsOn,
     Promise!TurnsOnTimed, Promise!TurnsOff, Promise!Guards

\* OnOffServer implements what its interface promises of OnWithTimedOff.
THEOREM LightKeepsPromise == Spec => KeepsPromise
<1>1. Init => Promise!Init
  BY DEF Init, Started, Promise!Init, Mode
<1>2. IInv /\ [Next]_vars => [Promise!Next]_<<Mode, boot>>
  <2> SUFFICES ASSUME IInv, [Next]_vars PROVE [Promise!Next]_<<Mode, boot>>
    OBVIOUS
  <2>1. CASE UNCHANGED vars
    BY <2>1 DEF vars, Mode
  <2>2. CASE Command \/ Timers
    BY <2>2, StepMoves, MovesRefine
  <2>3. CASE Restart
    BY <2>3, RestartSound DEF Promise!Next, Promise!Restarts, Mode
  <2> QED
    BY <2>1, <2>2, <2>3 DEF Next
<1> QED
  BY <1>1, <1>2, LightInvariant, PTL DEF Spec, KeepsPromise, Promise!Spec
================================================================================
