---------------------------------- MODULE Light ----------------------------------
(***************************************************************************)
(* A dimmable light: LevelControlServer with the Transitions it runs        *)
(* (package/src/behaviors/level-control/LevelControlServer.ts and           *)
(* package/src/behavior/Transitions.ts, transitions managed by matter.js),  *)
(* coupled with the OnOffServer of the same endpoint.                       *)
(*                                                                          *)
(* A command or a step writes in a transaction: it begins with the lock of  *)
(* the level cluster, takes that of the on/off cluster when it writes       *)
(* there, and commits later.  The transition and the flag that blocks the   *)
(* coupling are no part of the transaction.                                 *)
(*                                                                          *)
(* A tick is 100 ms, the interval of steps and the unit of transition       *)
(* times.  Positions and rates are counted in parts of a level, Unit of     *)
(* them, so that they are whole numbers.                                    *)
(***************************************************************************)
EXTENDS OnOff

CONSTANTS
    MaxLevel,    \* maxLevel; minLevel is 1, as for every light
    Unit,        \* parts of a level
    MoveTimes,   \* transition times in ticks; 0 also stands for null
    Rates,       \* rates of Move, in parts per tick; 0 also stands for null
    Sizes,       \* sizes of Step
    OnLevels,    \* values of onLevel, 0 for null
    Late,        \* ticks a step may be behind its time
    Failing,     \* whose commits may fail: "command", "step"
    MaxFaults    \* bound on the commits that fail

ASSUME LightAssumption ==
    /\ MaxLevel \in Nat \ {0, 1} /\ Unit \in Nat \ {0} /\ Late \in Nat \ {0}
    /\ MoveTimes \subseteq {t \in 0 .. Unit : t = 0 \/ Unit % t = 0}
    /\ Rates \subseteq Nat /\ Sizes \subseteq Nat \ {0} /\ OnLevels \subseteq 0 .. MaxLevel
    /\ Failing \subseteq {"command", "step"} /\ MaxFaults \in Nat

VARIABLES
    level,     \* currentLevel
    onLevel,   \* onLevel; written by nobody here
    move,      \* the transition of currentLevel
    tick,      \* #outstandingTick: a step waits for its lock or is committed
    since,     \* ticks since prevStepAt
    tx,        \* the transaction of a command or a step, until it is committed
    block,     \* blockOnOffCouplingOnce
    asked,     \* history: what was asked last, see Asked
    faults     \* failures left

transitionVars == <<move, tick, since>>
levelVars == <<level, onLevel, transitionVars, tx, block, asked, faults>>
lightVars == <<vars, levelVars>>

Levels == 1 .. MaxLevel
None == [target |-> 0]
NoTx == [level |-> 0, turnsOn |-> FALSE, offAtMin |-> FALSE, step |-> FALSE]

(***************************************************************************)
(* Coupling with the on/off cluster.                                       *)
(***************************************************************************)

\* What a WithOnOff command does to the light, by its target.
Coupling(withOnOff, target) ==
    IF ~withOnOff THEN "none" ELSE IF target = 1 THEN "off" ELSE "on"

\* The commands that ask to dim the light until it is off: to the minimum, or down
\* past it, as MoveWithOnOff does without end and StepWithOnOff near the minimum.
Asked(withOnOff, target) ==
    IF ~withOnOff \/ target > 1 THEN "no" ELSE IF target = 1 THEN "off" ELSE "past off"

Begun(step) ==
    [level |-> level, turnsOn |-> FALSE, offAtMin |-> FALSE, step |-> step]

\* A light that is off goes on at once, at onLevel; towards the minimum it goes
\* off at the commit that reaches it.
Couple(t, coupling) ==
    IF coupling = "off" THEN [t EXCEPT !.offAtMin = TRUE]
    ELSE IF coupling = "on" /\ ~lamp.on
      THEN [t EXCEPT !.turnsOn = TRUE,
                     !.level = IF onLevel # 0 /\ ~block THEN onLevel ELSE @]
    ELSE t

Blocked(t) == block \/ (t.turnsOn /\ onLevel # 0)

\* handleOnOffChange as the reaction to onOff$Changed.
Reaction(lvl, free) ==
    IF ~block /\ lamp'.on /\ ~lamp.on /\ onLevel # 0 /\ free THEN onLevel ELSE lvl

\* currentLevel$Changed ends a transition that has reached its target.
Arrived(m, old, new) ==
    IF new # old /\ Unit * new = m.target THEN None ELSE m

(***************************************************************************)
(* Transitions.                                                            *)
(***************************************************************************)

Crop(n, least, most) == Greatest(least, Least(n, most))

Round(pos) == (2 * pos + Unit) \div (2 * Unit)

\* Mutant: steps do not couple.
TransitionUncoupled(from, target, rate, coupling) ==
    IF from = target \/ rate = 0 \/ (rate < 0 /\ from = 1) \/ (rate > 0 /\ from = MaxLevel)
      THEN None
      ELSE [target |-> Unit * (IF rate < 0 THEN Greatest(target, 1)
                                           ELSE Least(target, MaxLevel)),
            rate |-> rate, pos |-> Unit * from, coupling |-> "none"]

\* Mutant: the target is not cropped to the levels there are.
TransitionUncropped(from, target, rate, coupling) ==
    IF from = target \/ rate = 0 \/ (rate < 0 /\ from = 1) \/ (rate > 0 /\ from = MaxLevel)
      THEN None
      ELSE [target |-> Unit * target, rate |-> rate, pos |-> Unit * from,
            coupling |-> coupling]

\* start: the transition from a level to a target, None where there is nothing to
\* do or the value is set at once.
Transition(from, target, rate, coupling) ==
    IF from = target \/ rate = 0 \/ (rate < 0 /\ from = 1) \/ (rate > 0 /\ from = MaxLevel)
      THEN None
      ELSE [target |-> Unit * (IF rate < 0 THEN Greatest(target, 1)
                                           ELSE Least(target, MaxLevel)),
            rate |-> rate, pos |-> Unit * from, coupling |-> coupling]

\* Mutant: the position is not held at the target.
SteppedOver(m) == [m EXCEPT !.pos = @ + m.rate * since]

Stepped(m) ==
    LET next == Crop(m.pos + m.rate * since, Unit, Unit * MaxLevel)
    IN  [m EXCEPT !.pos = IF m.rate < 0 THEN Greatest(next, m.target)
                                        ELSE Least(next, m.target)]

(***************************************************************************)
(* Commands of the level cluster.                                          *)
(***************************************************************************)

\* The transaction that couples, and the transition it starts, stopping another.
\* `rates` gives the rate from each level; without one the level is set at once.
\* Whether a command without on/off acts on a light that is off is up to the
\* options it carries, so it may.
Moves(withOnOff, target, rates) ==
    LET coupling == Coupling(withOnOff, target)
        t == Couple(Begun(FALSE), coupling)
        rate == rates[t.level]
    IN  /\ tx = NoTx
        /\ tx' = IF rate = 0 THEN [t EXCEPT !.level = Crop(target, 1, MaxLevel)] ELSE t
        /\ move' = Transition(t.level, target, rate, coupling)
        /\ since' = IF move' = None THEN 0 ELSE 1
        /\ block' = Blocked(t)
        /\ asked' = Asked(withOnOff, target)
        /\ UNCHANGED <<vars, level, onLevel, tick, faults>>

\* The rate follows from the level the coupling has set.
MoveToLevel ==
    \E withOnOff \in BOOLEAN, target \in Levels, time \in MoveTimes :
      LET rates == [from \in Levels |-> IF time = 0 THEN 0
                                      ELSE (target - from) * (Unit \div time)]
      IN  Moves(withOnOff, target, rates)

Endless(up) == IF up THEN MaxLevel + 1 ELSE 0

Move ==
    \E withOnOff, up \in BOOLEAN, rate \in Rates :
      LET rates == [from \in Levels |-> IF up THEN rate ELSE -rate]
      IN  Moves(withOnOff, Endless(up), rates)

Step ==
    \E withOnOff, up \in BOOLEAN, size \in Sizes, time \in MoveTimes :
      LET by == IF up THEN size ELSE -size
          rates == [from \in Levels |-> IF time = 0 THEN 0 ELSE by * (Unit \div time)]
      IN  Moves(withOnOff, level + by, rates)

Stop ==
    /\ tx = NoTx
    /\ move' = None
    /\ since' = 0
    /\ asked' = "no"
    /\ UNCHANGED <<vars, level, onLevel, tick, tx, block, faults>>

LevelCommand == MoveToLevel \/ Move \/ Step \/ Stop

(***************************************************************************)
(* Steps and commits.                                                      *)
(***************************************************************************)

StepBegins ==
    /\ tick
    /\ tx = NoTx
    /\ IF move = None THEN tick' = FALSE /\ UNCHANGED <<move, since, tx, block>>
       ELSE LET m == Stepped(move)
                t == Couple(Begun(TRUE), move.coupling)
            IN  /\ move' = m
                /\ since' = 0
                /\ tx' = [t EXCEPT !.level = Round(m.pos)]
                /\ block' = Blocked(t)
                /\ UNCHANGED tick
    /\ UNCHANGED <<vars, level, onLevel, asked, faults>>

Ends == tx' = NoTx /\ tick' = (tick /\ ~tx.step)

\* The light goes off with the transaction that reaches the minimum, and the level
\* and the light react to each other.
Commit ==
    /\ tx # NoTx
    /\ LET off == tx.offAtMin /\ tx.level = 1
       IN  lamp' = Committed(lamp, [lamp EXCEPT !.on = (@ \/ tx.turnsOn) /\ ~off])
    /\ level' = Reaction(tx.level, TRUE)
    /\ move' = Arrived(Arrived(move, level, tx.level), tx.level, level')
    /\ since' = IF move' = None THEN 0 ELSE since
    /\ block' = (block /\ ~tx.turnsOn /\ lamp'.on = lamp.on)
    /\ Ends
    /\ UNCHANGED <<due, boot, onLevel, asked, faults>>

\* A commit that fails takes back what was written, no more.  A step that fails
\* ends the transition.
CommitFails ==
    /\ tx # NoTx
    /\ (IF tx.step THEN "step" ELSE "command") \in Failing
    /\ faults > 0
    /\ faults' = faults - 1
    /\ move' = IF tx.step THEN None ELSE move
    /\ since' = IF tx.step THEN 0 ELSE since
    /\ asked' = "no"
    /\ Ends
    /\ UNCHANGED <<vars, level, onLevel, block>>

(***************************************************************************)
(* The on/off cluster and time.                                            *)
(***************************************************************************)

\* Its commands and callbacks wait for its lock; the reaction does not wait for
\* the lock of the level, it fails.
Reacting(A) ==
    /\ ~tx.turnsOn
    /\ A
    /\ level' = Reaction(level, tx = NoTx)
    /\ move' = Arrived(move, level, level')
    /\ since' = IF move' = None THEN 0 ELSE since
    /\ block' = (block /\ lamp'.on = lamp.on)
    /\ asked' = IF lamp'.on = lamp.on \/ (asked = "off" /\ ~lamp'.on) THEN asked ELSE "no"
    /\ UNCHANGED <<onLevel, tick, tx, faults>>

OnOffCommand == Reacting(Command)

OnOffTimer == Reacting(TimedOnTick \/ DelayedOffTick \/ SceneIsDue)

\* The timer skips a step while another is under way.
TimePasses ==
    /\ Tick
    /\ tick => since < Late
    /\ tick' = (tick \/ move # None)
    /\ since' = IF move = None THEN 0 ELSE since + 1
    /\ UNCHANGED <<level, onLevel, move, tx, block, asked, faults>>

\* What was not committed is lost; startUpCurrentLevel may set the level.
Restarts ==
    /\ Restart
    /\ level' \in Levels
    /\ move' = None /\ tick' = FALSE /\ since' = 0
    /\ tx' = NoTx
    /\ block' = FALSE
    /\ asked' = "no"
    /\ UNCHANGED <<onLevel, faults>>

LightInit ==
    /\ Init
    /\ level \in Levels
    /\ onLevel \in OnLevels
    /\ move = None /\ tick = FALSE /\ since = 0
    /\ tx = NoTx
    /\ block = FALSE
    /\ asked = "no"
    /\ faults = MaxFaults

LightNext ==
    \/ LevelCommand \/ StepBegins \/ Commit \/ CommitFails
    \/ OnOffCommand \/ OnOffTimer \/ TimePasses \/ Restarts

LightSpec == LightInit /\ [][LightNext]_lightVars

LightFairSpec ==
    /\ LightSpec
    /\ WF_lightVars(StepBegins) /\ WF_lightVars(Commit)
    /\ WF_lightVars(OnOffTimer) /\ WF_lightVars(TimePasses)

(***************************************************************************)
(* Properties.                                                             *)
(***************************************************************************)

LightTypeOK ==
    /\ TypeOK
    /\ level \in Levels /\ onLevel \in OnLevels
    /\ \/ move = None
       \/ /\ {move.target, move.pos} \subseteq Unit .. Unit * MaxLevel
          /\ move.rate \in Int \ {0}
          /\ move.coupling \in {"none", "off", "on"}
    /\ tx = NoTx \/ tx \in [level : Levels, turnsOn : BOOLEAN, offAtMin : BOOLEAN,
                            step : BOOLEAN]
    /\ tick \in BOOLEAN /\ since \in 0 .. Late + 1
    /\ block \in BOOLEAN /\ asked \in {"no", "off", "past off"}
    /\ faults \in 0 .. MaxFaults

\* When the transition has ended, a light that was told to dim to the minimum with
\* on/off is off, though it is turned off only by the transaction whose level happens
\* to be the minimum.  This holds of the minimum alone: told to dim past it, the
\* light couples as one that moves toward on (LevelControlServer.ts:496-513), so it
\* stays on at the minimum, and one that was off is on.
OffWhenDimmed ==
    asked # "no" /\ move = None /\ tx = NoTx => (lamp.on <=> asked = "past off")

\* A transition ends, unless clients keep sending commands.
MovesEnd == []<>(move = None) \/ []<><<LevelCommand>>_lightVars

=================================================================================
