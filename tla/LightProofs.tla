------------------------------- MODULE LightProofs -------------------------------
(***************************************************************************)
(* Theorems about Light, for any levels, times, rates and number of        *)
(* failures: types, and that a light dimmed to off is off in the end.      *)
(***************************************************************************)
EXTENDS Light, OnOffProofs

Positions == Unit .. Unit * MaxLevel

Transitions == [target : Positions, rate : Int \ {0}, pos : Positions,
                coupling : {"none", "off", "on"}]

Transactions == [level : Levels, turnsOn : BOOLEAN, offAtMin : BOOLEAN, step : BOOLEAN]

Asks == {"no", "off", "past off"}

Typed ==
    /\ TypeOK
    /\ level \in Levels /\ onLevel \in 0 .. MaxLevel /\ onLevel \in OnLevels
    /\ move = None \/ move \in Transitions
    /\ tx = NoTx \/ tx \in Transactions
    /\ tick \in BOOLEAN /\ since \in 0 .. Late + 1
    /\ block \in BOOLEAN /\ asked \in Asks
    /\ faults \in 0 .. MaxFaults

\* Only a step that waits for its lock is late, and not by more than Late.
Ticking ==
    /\ tick \/ since \in 0 .. Late
    /\ tx.step => tick /\ since \in 0 .. Late
    /\ move = None => since = 0

\* What keeps a light on its way to off: its transition turns it off at the
\* minimum, its transaction does so too, and a transition that has ended has left a
\* transaction that stores the minimum.
Dims ==
    asked = "off" =>
      /\ move # None => move.coupling = "off" /\ move.target = Unit
      /\ tx # NoTx => tx.offAtMin /\ ~tx.turnsOn
      /\ move = None => IF tx = NoTx THEN ~lamp.on ELSE tx.level = 1 \/ ~lamp.on

\* What keeps a light on that was told to dim past the minimum: its transition and
\* its transactions couple as one that moves toward on.
StaysOn ==
    asked = "past off" =>
      /\ move # None => move.coupling = "on"
      /\ tx # NoTx => ~tx.offAtMin
      /\ lamp.on \/ (tx # NoTx /\ tx.turnsOn)

DimInv == Typed /\ Ticking /\ Dims /\ StaysOn

-------------------------------------------------------------------------------
(***************************************************************************)
(* Levels and positions.                                                   *)
(***************************************************************************)

LEMMA Sizes0 ==
    /\ Unit \in Nat /\ Unit > 0 /\ MaxLevel \in Nat /\ MaxLevel > 1
    /\ Late \in Nat /\ Late > 0 /\ MaxFaults \in Nat
    /\ OnLevels \subseteq 0 .. MaxLevel
    /\ Unit * MaxLevel \in Nat
BY LightAssumption

\* A level as a position.
LEMMA Scaled ==
    ASSUME NEW n \in Levels
    PROVE  Unit * n \in Positions /\ (Unit * n = Unit => n = 1)
<1> DEFINE U == Unit
<1>1. U \in Nat /\ U > 0 /\ MaxLevel \in Nat /\ n \in Nat /\ 1 <= n /\ n <= MaxLevel
  BY Sizes0 DEF Levels
<1> HIDE DEF U
<1>2. U * n \in Nat /\ U * MaxLevel \in Nat
  BY <1>1
<1>3. U * 1 <= U * n /\ U * n <= U * MaxLevel
  BY <1>1
<1>4. n > 1 => U * n > U
  BY <1>1
<1> QED
  BY <1>1, <1>2, <1>3, <1>4 DEF Positions, U

LEMMA Rounded ==
    ASSUME NEW pos \in Positions
    PROVE  Round(pos) \in Levels
<1> DEFINE D == 2 * Unit
           N == 2 * pos + Unit
           q == N \div D
<1>1. D \in Nat /\ D > 0 /\ N \in Nat /\ pos \in Nat
  BY Sizes0 DEF Positions
<1>2. q \in Int /\ D * q <= N /\ N < D * (q + 1)
  BY <1>1
<1>3. N >= D
  BY Sizes0 DEF Positions
<1>4. N < D * (MaxLevel + 1)
  BY Sizes0 DEF Positions
<1> HIDE DEF D, N
<1>5. q >= 1
  BY <1>1, <1>2, <1>3
<1>6. q <= MaxLevel
  BY <1>1, <1>2, <1>4, Sizes0
<1> QED
  BY <1>2, <1>5, <1>6, Sizes0 DEF Round, Levels, D, N
-------------------------------------------------------------------------------
(***************************************************************************)
(* The light itself keeps its type whatever the on/off cluster does.       *)
(***************************************************************************)

LEMMA LampMethods ==
    ASSUME NEW l \in Lamps
    PROVE  /\ ClearScene(l) \in Lamps /\ TurnOff(l) \in Lamps
           /\ TurnOn(l) \in Lamps
           /\ TimedTick(l) \in Lamps /\ DelayedTick(l) \in Lamps
           /\ \A n \in Lamps : Committed(n, l) \in Lamps /\ Committed(l, n).on = n.on
<1> USE Fields
<1>1. ClearScene(l) \in Lamps
  BY DEF ClearScene, Lamps
<1>2. ASSUME NEW m \in Lamps
      PROVE  TurnOff(m) \in Lamps
  BY Fields DEF TurnOff, Lamps
<1>3. TimedTick(l) \in Lamps
  <2>1. CASE l.onTime > 1
    BY <2>1 DEF TimedTick, Lamps
  <2>2. [l EXCEPT !.timed = FALSE, !.wait = 0] \in Lamps
    BY DEF Lamps
  <2> QED
    BY <1>2, <2>1, <2>2 DEF TimedTick
<1>4. DelayedTick(l) \in Lamps
  <2>1. AtLeast0(l.wait - 1) \in Nat
    BY DEF AtLeast0
  <2> QED
    BY <2>1 DEF DelayedTick, Lamps
<1>5. ASSUME NEW n \in Lamps
      PROVE  Committed(n, l) \in Lamps /\ Committed(l, n).on = n.on
  BY <1>1 DEF Committed, ClearScene, Lamps
<1> QED
  BY <1>1, <1>2, <1>3, <1>4, <1>5, TurnOnFields

LEMMA LampScenes ==
    ASSUME NEW l \in Lamps, NEW on \in BOOLEAN, NEW time \in Nat
    PROVE  Set(l, on) \in Lamps /\ ApplyScene(l, on, time) \in Lamps
<1>1. ASSUME NEW m \in Lamps
      PROVE  Set(m, on) \in Lamps
  BY LampMethods DEF Set
<1>2. [on |-> on, left |-> time] \in Scenes
  BY DEF Scenes
<1>3. [l EXCEPT !.scene = [on |-> on, left |-> time]] \in Lamps
  BY <1>2 DEF Lamps
<1> QED
  BY <1>1, <1>3, LampMethods DEF ApplyScene

LEMMA LampCommands ==
    ASSUME TypeOK, Command
    PROVE  TypeOK'
<1> USE DEF TypeOK
<1>1. \E n \in Lamps : Become(n)
  <2>0. Times \subseteq Nat /\ SceneTimes \subseteq Nat /\ lamp.on \in BOOLEAN
        /\ lamp.onTime \in Nat
    BY TimesAssumption, Fields
  <2>1. CASE On \/ Off
    BY <2>1, LampMethods DEF On, Off
  <2>2. CASE Toggle
    <3>1. (~lamp.on) \in BOOLEAN
      BY <2>0
    <3> QED
      BY <2>2, <3>1, LampScenes DEF Toggle
  <2>3. CASE OffWithEffect
    <3>1. [lamp EXCEPT !.globalScene = FALSE] \in Lamps
      BY DEF Lamps
    <3> QED
      BY <2>3, <3>1, LampMethods DEF OffWithEffect
  <2>4. CASE OnWithRecallGlobalScene
    <3>1. PICK stored \in BOOLEAN : Become(Recall(lamp, stored))
      BY <2>4 DEF OnWithRecallGlobalScene
    <3> DEFINE s == ApplyScene(lamp, stored, 0)
               m == [s EXCEPT !.wait = IF s.onTime = 0 THEN 0 ELSE s.wait]
    <3>2. s \in Lamps
      BY LampScenes
    <3> HIDE DEF s
    <3>3. m \in Lamps
      BY <3>2, Fields DEF Lamps
    <3> HIDE DEF m
    <3>4. Recall(lamp, stored) = lamp \/ Recall(lamp, stored) = TurnOn(m)
      BY DEF Recall, m, s
    <3> QED
      BY <3>1, <3>3, <3>4, LampMethods
  <2>5. CASE OnWithTimedOff
    <3>1. PICK o \in BOOLEAN, t \in Times, w \in Times :
            Become(TurnOnTimed(lamp, o, t, w))
      BY <2>5 DEF OnWithTimedOff
    <3> DEFINE longer == Greatest(t, lamp.onTime)
               runs == lamp.timed \/ (longer # 0 /\ w # 0)
               m == [lamp EXCEPT !.onTime = longer, !.wait = w, !.timed = runs]
               g == [lamp EXCEPT !.wait = Least(w, lamp.wait)]
    <3>2. longer \in Nat /\ w \in Nat /\ Least(w, lamp.wait) \in Nat
      BY <2>0, Fields DEF Greatest, Least
    <3>3. m \in Lamps /\ g \in Lamps
      BY <3>2, Fields DEF Lamps
    <3>4. TurnOnTimed(lamp, o, t, w) \in {lamp, g, TurnOn(m)}
      BY DEF TurnOnTimed
    <3> HIDE DEF m, g
    <3> QED
      BY <3>1, <3>3, <3>4, LampMethods
  <2>6. CASE RecallScene
    BY <2>0, <2>6, LampScenes DEF RecallScene
  <2>7. CASE Write
    <3>1. ASSUME NEW t \in Times
          PROVE  [lamp EXCEPT !.onTime = t] \in Lamps /\ [lamp EXCEPT !.wait = t] \in Lamps
      BY <2>0, Fields DEF Lamps
    <3> QED
      BY <2>7, <3>1 DEF Write
  <2> QED
    BY <2>1, <2>2, <2>3, <2>4, <2>5, <2>6, <2>7 DEF Command
<1> QED
  BY <1>1, LampMethods DEF Become

LEMMA LampTimers ==
    ASSUME TypeOK, TimedOnTick \/ DelayedOffTick \/ SceneIsDue
    PROVE  TypeOK'
<1> USE DEF TypeOK
<1>1. CASE TimedOnTick \/ DelayedOffTick
  <2>1. TimedTick(lamp) \in Lamps /\ DelayedTick(lamp) \in Lamps
    BY LampMethods
  <2>2. Committed(lamp, TimedTick(lamp)) \in Lamps
    BY <2>1, LampMethods
  <2>3. CASE TimedOnTick
    BY <2>2, <2>3 DEF TimedOnTick
  <2>4. CASE DelayedOffTick
    BY <2>1, <2>4 DEF DelayedOffTick
  <2> QED
    BY <1>1, <2>3, <2>4
<1>2. CASE SceneIsDue
  <2>1. lamp.scene.on \in BOOLEAN
    BY Fields, SceneFields
  <2>2. /\ ClearScene(lamp) \in Lamps
        /\ ClearScene(Set(ClearScene(lamp), lamp.scene.on)) \in Lamps
    BY <2>1, LampMethods, LampScenes
  <2> QED
    BY <1>2, <2>2, LampMethods DEF SceneIsDue, Become
<1> QED
  BY <1>1, <1>2

LEMMA LampTick ==
    ASSUME TypeOK, Tick
    PROVE  TypeOK' /\ lamp'.on = lamp.on
<1> USE DEF TypeOK
<1> DEFINE s == [lamp.scene EXCEPT !.left = IF lamp.scene.left > 0
                                               THEN lamp.scene.left - 1
                                               ELSE lamp.scene.left]
<1>1. s \in Scenes
  BY Fields, SceneFields DEF Tick
<1>2. lamp' = [lamp EXCEPT !.scene = s]
  BY DEF Tick, Lamps
<1> HIDE DEF s
<1>3. lamp' \in Lamps /\ lamp'.on = lamp.on
  BY <1>1, <1>2 DEF Lamps
<1>4. due' \subseteq {"timed", "delayed"} /\ boot' = boot
  BY DEF Tick
<1> QED
  BY <1>3, <1>4

-------------------------------------------------------------------------------
(***************************************************************************)
(* Coupling, transitions and reactions.                                    *)
(***************************************************************************)

LEMMA NoneIsNone ==
    /\ \A m \in Transitions : m # None
    /\ \A t \in Transactions : t # NoTx
    /\ ~NoTx.turnsOn /\ ~NoTx.step
BY Sizes0 DEF Transitions, Positions, None, Transactions, NoTx, Levels

LEMMA Coupled ==
    ASSUME Typed, NEW step \in BOOLEAN, NEW coupling \in {"none", "off", "on"}
    PROVE  LET t == Couple(Begun(step), coupling)
           IN  /\ t \in Transactions /\ t.step = step
               /\ Blocked(t) \in BOOLEAN
               /\ coupling = "off" => t.offAtMin /\ ~t.turnsOn /\ t.level = level
               /\ coupling = "on" => ~t.offAtMin /\ (lamp.on \/ t.turnsOn)
<1> DEFINE b == Begun(step)
           t == Couple(b, coupling)
<1>1. b \in Transactions /\ ~b.turnsOn /\ ~b.offAtMin /\ b.level = level
      /\ b.step = step /\ onLevel \in 0 .. MaxLevel
  BY DEF Typed, Begun, Transactions
<1>2. onLevel # 0 => onLevel \in Levels
  BY <1>1, Sizes0 DEF Levels
<1> HIDE DEF b
<1>3. t \in Transactions /\ t.step = step
  BY <1>1, <1>2 DEF Couple, Transactions
<1>4. coupling = "off" => t.offAtMin /\ ~t.turnsOn /\ t.level = level
  BY <1>1 DEF Couple, Transactions
<1>5. coupling = "on" => ~t.offAtMin /\ (lamp.on \/ t.turnsOn)
  BY <1>1 DEF Couple, Transactions
<1>6. Blocked(t) \in BOOLEAN
  BY <1>1, <1>3 DEF Blocked, Typed
<1> QED
  BY <1>3, <1>4, <1>5, <1>6 DEF b

LEMMA NewTransition ==
    ASSUME NEW from \in Levels, NEW target \in Int, NEW rate \in Int,
           NEW coupling \in {"none", "off", "on"},
           rate < 0 => target <= MaxLevel, rate > 0 => target >= 1
    PROVE  LET m == Transition(from, target, rate, coupling)
           IN  /\ m = None \/ m \in Transitions
               /\ m # None => m.coupling = coupling
               /\ target = 1 /\ rate <= 0 =>
                    /\ m # None => m.target = Unit
                    /\ m = None => from = 1 \/ rate = 0
<1> USE Sizes0
<1> DEFINE to == IF rate < 0 THEN Greatest(target, 1) ELSE Least(target, MaxLevel)
           m == [target |-> Unit * to, rate |-> rate, pos |-> Unit * from,
                 coupling |-> coupling]
           n == Transition(from, target, rate, coupling)
<1>1. rate # 0 => to \in Levels
  BY DEF Greatest, Least, Levels
<1>2. Unit * from \in Positions /\ (rate # 0 => Unit * to \in Positions)
  BY <1>1, Scaled
<1>3. rate # 0 => m \in Transitions /\ m.coupling = coupling /\ m.target = Unit * to
  BY <1>2 DEF Transitions
<1>4. target = 1 /\ rate < 0 => to = 1 /\ Unit * to = Unit
  BY DEF Greatest
<1>5. \/ n = None /\ (from = target \/ rate = 0 \/ (rate < 0 /\ from = 1)
                      \/ (rate > 0 /\ from = MaxLevel))
      \/ n = m /\ rate # 0
  BY DEF Transition
<1> HIDE DEF m, to, n
<1> QED
  BY <1>3, <1>4, <1>5, NoneIsNone DEF n

LEMMA SteppedMoves ==
    ASSUME Typed, move \in Transitions
    PROVE  /\ Stepped(move) \in Transitions
           /\ Stepped(move).coupling = move.coupling
           /\ Stepped(move).target = move.target
           /\ Round(Stepped(move).pos) \in Levels
<1> DEFINE far == move.pos + move.rate * since
           next == Crop(far, Unit, Unit * MaxLevel)
           p == IF move.rate < 0 THEN Greatest(next, move.target)
                                 ELSE Least(next, move.target)
<1>1. /\ move.pos \in Positions /\ move.target \in Positions /\ move.rate \in Int
      /\ since \in Int
  BY Sizes0 DEF Typed, Transitions
<1>2. move.rate * since \in Int
  BY <1>1
<1>3. far \in Int
  BY <1>1, <1>2, Sizes0 DEF Positions
<1> HIDE DEF far
<1>4. next \in Positions
  BY <1>3, Sizes0, Scaled DEF Crop, Greatest, Least, Positions, Levels
<1> HIDE DEF next
<1>5. p \in Positions
  BY <1>1, <1>4, Sizes0 DEF Greatest, Least, Positions
<1>6. Stepped(move) = [move EXCEPT !.pos = p]
  BY DEF Stepped, next, far
<1> HIDE DEF p
<1>7. [move EXCEPT !.pos = p] \in Transitions
  BY <1>5 DEF Transitions
<1> QED
  BY <1>5, <1>6, <1>7, Rounded DEF Transitions

LEMMA Reacts ==
    ASSUME Typed, NEW lvl \in Levels, NEW free
    PROVE  /\ Reaction(lvl, free) \in Levels
           /\ (lamp'.on => lamp.on) => Reaction(lvl, free) = lvl
BY Sizes0 DEF Reaction, Typed, Levels

LEMMA Arrives ==
    ASSUME NEW m, m = None \/ m \in Transitions, NEW old, NEW new
    PROVE  /\ Arrived(m, old, new) \in {m, None}
           /\ Arrived(m, old, old) = m
BY DEF Arrived

-------------------------------------------------------------------------------
(***************************************************************************)
(* The steps.                                                              *)
(***************************************************************************)

LEMMA StartsDimmed == LightInit => DimInv
<1> SUFFICES ASSUME LightInit
             PROVE  DimInv
  OBVIOUS
<1>1. TypeOK
  BY InitSound DEF LightInit, IInv, Sound, TypeOK
<1>2. asked = "no" /\ block = FALSE /\ tick = FALSE /\ since = 0
      /\ move = None /\ tx = NoTx /\ faults = MaxFaults
      /\ level \in Levels /\ onLevel \in OnLevels
  BY DEF LightInit
<1>3. ~tx.step /\ since \in 0 .. Late /\ since \in 0 .. Late + 1
      /\ onLevel \in 0 .. MaxLevel /\ faults \in 0 .. MaxFaults
  BY <1>2, Sizes0, NoneIsNone
<1>4. Typed
  BY <1>1, <1>2, <1>3, Sizes0 DEF Typed, Asks
<1>5. Ticking /\ Dims /\ StaysOn
  BY <1>2, <1>3 DEF Ticking, Dims, StaysOn
<1> QED
  BY <1>4, <1>5 DEF DimInv

\* A command that dims to off starts a transition to the minimum, or stores it.
LEMMA MovesDim ==
    ASSUME DimInv, NEW withOnOff \in BOOLEAN, NEW target \in Int,
           NEW rates \in [Levels -> Int],
           \A from \in Levels : /\ rates[from] < 0 => target <= MaxLevel
                                /\ rates[from] > 0 => target >= 1
                                /\ target = 1 => rates[from] <= 0,
           Moves(withOnOff, target, rates)
    PROVE  DimInv'
<1> USE DEF DimInv
<1> DEFINE coupling == Coupling(withOnOff, target)
           t == Couple(Begun(FALSE), coupling)
           rate == rates[t.level]
<1>1. coupling \in {"none", "off", "on"}
  BY DEF Coupling
<1>2. /\ t \in Transactions /\ Blocked(t) \in BOOLEAN /\ t.step = FALSE
      /\ coupling = "off" => t.offAtMin /\ ~t.turnsOn /\ t.level = level
      /\ coupling = "on" => ~t.offAtMin /\ (lamp.on \/ t.turnsOn)
  BY <1>1, Coupled
<1>3. /\ tx = NoTx
      /\ tx' = IF rate = 0 THEN [t EXCEPT !.level = Crop(target, 1, MaxLevel)] ELSE t
      /\ move' = Transition(t.level, target, rate, coupling)
      /\ since' = IF move' = None THEN 0 ELSE 1
      /\ block' = Blocked(t)
      /\ asked' = Asked(withOnOff, target)
      /\ UNCHANGED <<vars, level, onLevel, tick, faults>>
  BY DEF Moves
<1>4. /\ asked' \in Asks
      /\ asked' = "off" => target = 1 /\ coupling = "off"
      /\ asked' = "past off" => coupling = "on"
  BY <1>3 DEF Asked, Asks, Coupling
<1> HIDE DEF coupling, t
<1>5. t.level \in Levels /\ rate \in Int
  BY <1>2 DEF Transactions
<1>6. /\ move' = None \/ move' \in Transitions
      /\ move' # None => move'.coupling = coupling
      /\ target = 1 => /\ move' # None => move'.target = Unit
                       /\ move' = None => t.level = 1 \/ rate = 0
  BY <1>1, <1>3, <1>5, NewTransition
<1> HIDE DEF rate
<1>7. Crop(target, 1, MaxLevel) \in Levels /\ (target = 1 => Crop(target, 1, MaxLevel) = 1)
  BY Sizes0 DEF Crop, Greatest, Least, Levels
<1>8. /\ tx' \in Transactions /\ ~tx'.step
      /\ tx'.offAtMin = t.offAtMin /\ tx'.turnsOn = t.turnsOn
      /\ rate = 0 => tx'.level = Crop(target, 1, MaxLevel)
      /\ rate # 0 => tx'.level = t.level
  BY <1>2, <1>3, <1>7 DEF Transactions
<1>9. Typed'
  <2>1. TypeOK' /\ level' \in Levels /\ onLevel' \in 0 .. MaxLevel /\ onLevel' \in OnLevels
        /\ tick' \in BOOLEAN /\ faults' \in 0 .. MaxFaults
    BY <1>3 DEF Typed, TypeOK, vars
  <2>2. since' \in 0 .. Late + 1
    BY <1>3, Sizes0
  <2>3. block' \in BOOLEAN /\ asked' \in Asks
    BY <1>2, <1>3, <1>4
  <2> QED
    BY <1>6, <1>8, <2>1, <2>2, <2>3, Sizes0 DEF Typed
<1>10. Dims'
  BY <1>2, <1>3, <1>4, <1>6, <1>7, <1>8, NoneIsNone DEF Dims
<1>11. StaysOn'
  BY <1>2, <1>3, <1>4, <1>6, <1>8, NoneIsNone DEF StaysOn, vars
<1>12. Ticking'
  <2>1. since' \in 0 .. Late /\ (move' = None => since' = 0)
    BY <1>3, Sizes0
  <2> QED
    BY <1>8, <2>1 DEF Ticking
<1> QED
  BY <1>9, <1>10, <1>11, <1>12

LEMMA RatesPerTick ==
    ASSUME NEW time \in MoveTimes
    PROVE  /\ time # 0 => Unit \div time \in Nat
           /\ \A by \in Int : time # 0 =>
                /\ by * (Unit \div time) \in Int
                /\ by * (Unit \div time) < 0 => by < 0
                /\ by * (Unit \div time) > 0 => by > 0
<1> DEFINE q == Unit \div time
<1>1. time \in 0 .. Unit /\ time \in Nat
  BY LightAssumption
<1>2. time # 0 => q \in Nat
  BY <1>1, Sizes0
<1> HIDE DEF q
<1>3. \A by \in Int : q \in Nat => /\ by * q \in Int
                                   /\ by * q < 0 => by < 0
                                   /\ by * q > 0 => by > 0
  OBVIOUS
<1> QED
  BY <1>2, <1>3 DEF q

LEMMA LevelCommands ==
    ASSUME DimInv, LevelCommand
    PROVE  DimInv'
<1> USE DEF DimInv
<1>0. level \in Levels /\ Levels \subseteq Int /\ MaxLevel \in Nat
  BY Sizes0 DEF Typed, Levels
<1>1. CASE MoveToLevel
  <2>1. PICK withOnOff \in BOOLEAN, target \in Levels, time \in MoveTimes :
          Moves(withOnOff, target,
                [from \in Levels |-> IF time = 0 THEN 0
                                     ELSE (target - from) * (Unit \div time)])
    BY <1>1 DEF MoveToLevel
  <2> DEFINE rates == [from \in Levels |-> IF time = 0 THEN 0
                                           ELSE (target - from) * (Unit \div time)]
  <2>2. ASSUME NEW from \in Levels
        PROVE  rates[from] \in Int /\ (target = 1 => rates[from] <= 0)
    <3>1. target - from \in Int /\ (target = 1 => target - from <= 0)
      BY <1>0 DEF Levels
    <3> QED
      BY <3>1, RatesPerTick
  <2>3. rates \in [Levels -> Int]
    BY <2>2
  <2>4. target >= 1 /\ target <= MaxLevel /\ target \in Int
    BY Sizes0 DEF Levels
  <2> HIDE DEF rates
  <2> QED
    BY <2>1, <2>2, <2>3, <2>4, MovesDim DEF rates
<1>2. CASE Move
  <2>1. PICK withOnOff \in BOOLEAN, up \in BOOLEAN, rate \in Rates :
          Moves(withOnOff, Endless(up), [from \in Levels |-> IF up THEN rate ELSE -rate])
    BY <1>2 DEF Move
  <2> DEFINE rates == [from \in Levels |-> IF up THEN rate ELSE -rate]
  <2>2. rate \in Nat /\ rates \in [Levels -> Int]
    BY LightAssumption
  <2>3. /\ Endless(up) \in Int /\ Endless(up) # 1
        /\ up => Endless(up) >= 1
        /\ ~up => Endless(up) <= MaxLevel
    BY Sizes0 DEF Endless
  <2>4. \A from \in Levels : (rates[from] < 0 => ~up) /\ (rates[from] > 0 => up)
    BY <2>2
  <2> HIDE DEF rates
  <2> QED
    BY <2>1, <2>2, <2>3, <2>4, MovesDim DEF rates
<1>3. CASE Step
  <2>1. PICK withOnOff \in BOOLEAN, up \in BOOLEAN, size \in Sizes, time \in MoveTimes :
          Moves(withOnOff, level + (IF up THEN size ELSE -size),
                [from \in Levels |-> IF time = 0 THEN 0
                                     ELSE (IF up THEN size ELSE -size) * (Unit \div time)])
    BY <1>3 DEF Step
  <2> DEFINE by == IF up THEN size ELSE -size
             target == level + by
             rates == [from \in Levels |-> IF time = 0 THEN 0 ELSE by * (Unit \div time)]
  <2>2. /\ by \in Int /\ target \in Int
        /\ by > 0 => target > 1
        /\ by < 0 => target <= MaxLevel
    BY <1>0, LightAssumption DEF Levels
  <2>3. rates \in [Levels -> Int] /\ \A from \in Levels :
          (rates[from] < 0 => by < 0) /\ (rates[from] > 0 => by > 0)
    BY <2>2, RatesPerTick
  <2>4. Moves(withOnOff, target, rates)
    BY <2>1
  <2> HIDE DEF rates, by, target
  <2> QED
    BY <2>2, <2>3, <2>4, MovesDim
<1>4. CASE Stop
  <2>1. move' = None /\ since' = 0 /\ asked' = "no"
        /\ UNCHANGED <<lamp, due, boot, level, onLevel, tick, tx, block, faults>>
    BY <1>4 DEF Stop, vars
  <2>5. tx = NoTx
    BY <1>4 DEF Stop
  <2>2. TypeOK'
    BY <2>1 DEF Typed, TypeOK
  <2>6. since' \in 0 .. Late + 1 /\ since' \in 0 .. Late
    BY <2>1, Sizes0
  <2>3. Typed'
    BY <2>1, <2>2, <2>6 DEF Typed, Asks
  <2>4. Ticking' /\ Dims' /\ StaysOn'
    BY <2>1, <2>5, <2>6, NoneIsNone DEF Ticking, Dims, StaysOn
  <2> QED
    BY <2>3, <2>4
<1> QED
  BY <1>1, <1>2, <1>3, <1>4 DEF LevelCommand

\* A step keeps its coupling, and couples its transaction likewise.
LEMMA StepsDim ==
    ASSUME DimInv, StepBegins
    PROVE  DimInv'
<1> USE DEF DimInv
<1>1. tick /\ tx = NoTx /\ UNCHANGED <<lamp, due, boot, level, onLevel, asked, faults>>
  BY DEF StepBegins, vars
<1>2. TypeOK'
  BY <1>1 DEF Typed, TypeOK
<1>3. CASE move = None
  <2>1. tick' = FALSE /\ UNCHANGED <<move, since, tx, block>>
    BY <1>3 DEF StepBegins
  <2>2. since = 0 /\ since \in 0 .. Late
    BY <1>3, Sizes0 DEF Ticking
  <2>3. Typed'
    BY <1>1, <1>2, <1>3, <2>1 DEF Typed
  <2>4. Ticking' /\ Dims' /\ StaysOn'
    BY <1>1, <2>1, <2>2, NoneIsNone DEF Ticking, Dims, StaysOn
  <2> QED
    BY <2>3, <2>4
<1>4. CASE move # None
  <2> DEFINE m == Stepped(move)
             t == Couple(Begun(TRUE), move.coupling)
  <2>1. move \in Transitions /\ move.coupling \in {"none", "off", "on"}
    BY <1>4 DEF Typed, Transitions
  <2>2. /\ m \in Transitions /\ m.coupling = move.coupling /\ m.target = move.target
        /\ Round(m.pos) \in Levels
    BY <2>1, SteppedMoves
  <2>3. /\ t \in Transactions /\ Blocked(t) \in BOOLEAN
        /\ move.coupling = "off" => t.offAtMin /\ ~t.turnsOn
        /\ move.coupling = "on" => ~t.offAtMin /\ (lamp.on \/ t.turnsOn)
    BY <2>1, Coupled
  <2>4. /\ move' = m /\ since' = 0 /\ tick' = tick /\ block' = Blocked(t)
        /\ tx' = [t EXCEPT !.level = Round(m.pos)]
    BY <1>4 DEF StepBegins
  <2> HIDE DEF m, t
  <2>5. /\ tx' \in Transactions
        /\ tx'.offAtMin = t.offAtMin /\ tx'.turnsOn = t.turnsOn
    BY <2>2, <2>3, <2>4 DEF Transactions
  <2>6. Typed'
    BY <1>1, <1>2, <2>2, <2>3, <2>4, <2>5, Sizes0 DEF Typed
  <2>7. Dims'
    BY <1>1, <1>4, <2>2, <2>3, <2>4, <2>5, NoneIsNone DEF Dims
  <2>9. StaysOn'
    BY <1>1, <1>4, <2>2, <2>3, <2>4, <2>5, NoneIsNone DEF StaysOn
  <2>8. Ticking'
    <3>1. since' \in 0 .. Late
      BY <2>4, Sizes0
    <3> QED
      BY <1>1, <2>4, <3>1 DEF Ticking
  <2> QED
    BY <2>6, <2>7, <2>8, <2>9
<1> QED
  BY <1>3, <1>4

\* The commit that stores the minimum turns the light off; another ends neither
\* the transition nor its coupling.
LEMMA CommitsDim ==
    ASSUME DimInv, Commit
    PROVE  DimInv'
<1> USE DEF DimInv
<1> DEFINE off == tx.offAtMin /\ tx.level = 1
           on == (lamp.on \/ tx.turnsOn) /\ ~off
           l == [lamp EXCEPT !.on = on]
<1>1. /\ tx \in Transactions /\ lamp \in Lamps /\ lamp.on \in BOOLEAN
      /\ move = None \/ move \in Transitions
  BY Fields DEF Commit, Typed, TypeOK
<1>2. on \in BOOLEAN /\ l \in Lamps /\ l.on = on
  BY <1>1 DEF Lamps
<1>3. lamp' = Committed(lamp, l)
  BY DEF Commit
<1> HIDE DEF l
<1>4. lamp' \in Lamps /\ lamp'.on = on
  BY <1>1, <1>2, <1>3, LampMethods
<1>5. /\ level' = Reaction(tx.level, TRUE)
      /\ move' = Arrived(Arrived(move, level, tx.level), tx.level, level')
      /\ since' = IF move' = None THEN 0 ELSE since
      /\ block' = (block /\ ~tx.turnsOn /\ lamp'.on = lamp.on)
      /\ tx' = NoTx /\ tick' = (tick /\ ~tx.step)
      /\ UNCHANGED <<due, boot, onLevel, asked, faults>>
  BY DEF Commit, Ends
<1>6. tx.level \in Levels
  BY <1>1 DEF Transactions
<1>7. level' \in Levels /\ ((on => lamp.on) => level' = tx.level)
  BY <1>4, <1>5, <1>6, Reacts
<1>8. move' \in {move, None}
  BY <1>5 DEF Arrived
<1>9. Typed'
  <2>1. TypeOK'
    BY <1>4, <1>5 DEF Typed, TypeOK
  <2>2. block' \in BOOLEAN /\ tick' \in BOOLEAN
    BY <1>5
  <2>3. since' \in 0 .. Late + 1
    <3>1. since' \in {0, since}
      BY <1>5
    <3> QED
      BY <3>1, Sizes0 DEF Typed
  <2> QED
    BY <1>1, <1>5, <1>7, <1>8, <2>1, <2>2, <2>3 DEF Typed
<1>10. Dims'
  <2>1. CASE asked = "off"
    <3>1. tx.offAtMin /\ ~tx.turnsOn
      BY <1>1, <2>1, NoneIsNone DEF Dims
    <3>2. level' = tx.level /\ (on => lamp.on) /\ (tx.level = 1 => ~on)
      BY <1>7, <3>1
    <3>3. move' = Arrived(move, level, tx.level)
      BY <1>5, <3>2 DEF Arrived
    <3>4. move' = None => ~lamp'.on
      <4>1. CASE move = None
        BY <1>1, <1>4, <2>1, <3>2, <4>1, NoneIsNone DEF Dims
      <4>2. CASE move # None /\ move' = None
        <5>1. Unit * tx.level = Unit
          BY <2>1, <3>3, <4>2 DEF Arrived, Dims
        <5> QED
          BY <1>4, <1>6, <3>2, <5>1, Scaled
      <4> QED
        BY <4>1, <4>2
    <3> QED
      BY <1>5, <1>8, <2>1, <3>4 DEF Dims
  <2> QED
    BY <1>5, <2>1 DEF Dims
<1>11. Ticking'
  <2>0. since' \in {0, since} /\ (move' = None => since' = 0)
    BY <1>5
  <2>1. CASE tx.step
    <3>2. tx # NoTx /\ since \in 0 .. Late
      BY <2>1 DEF Commit, Ticking
    <3>1. since' \in 0 .. Late /\ (move' = None => since' = 0)
      BY <2>0, <3>2, Sizes0
    <3> QED
      BY <1>5, <3>1, NoneIsNone DEF Ticking
  <2>2. CASE ~tx.step
    <3>1. tick' <=> tick
      BY <1>5, <2>2
    <3>2. 0 \in 0 .. Late
      BY Sizes0
    <3>3. tick \/ since' \in 0 .. Late
      BY <2>0, <3>2 DEF Ticking
    <3> QED
      BY <1>5, <2>0, <3>1, <3>3, NoneIsNone DEF Ticking
  <2> QED
    BY <2>1, <2>2
<1>12. StaysOn'
  <2>1. asked = "past off" => ~tx.offAtMin /\ (lamp.on \/ tx.turnsOn)
    BY <1>1, NoneIsNone DEF StaysOn
  <2>2. asked = "past off" => lamp'.on
    BY <1>4, <2>1
  <2> QED
    BY <1>5, <1>8, <2>2 DEF StaysOn
<1> QED
  BY <1>9, <1>10, <1>11, <1>12

LEMMA FailuresDim ==
    ASSUME DimInv, CommitFails
    PROVE  DimInv'
<1> USE DEF DimInv
<1>1. /\ tx \in Transactions
      /\ IF tx.step THEN move' = None /\ since' = 0 ELSE UNCHANGED <<move, since>>
      /\ asked' = "no" /\ faults > 0 /\ faults' = faults - 1
      /\ tx' = NoTx /\ tick' = (tick /\ ~tx.step)
      /\ UNCHANGED <<lamp, due, boot, level, onLevel, block>>
  BY DEF CommitFails, Ends, Typed, vars
<1>2. TypeOK'
  BY <1>1 DEF Typed, TypeOK
<1>3. tick' \in BOOLEAN /\ since' \in 0 .. Late + 1
  BY <1>1, Sizes0 DEF Typed
<1>4. faults' \in 0 .. MaxFaults
  BY <1>1, Sizes0 DEF Typed
<1>5. Typed'
  BY <1>1, <1>2, <1>3, <1>4 DEF Typed, Asks
<1>6. Ticking'
  <2>1. CASE tx.step
    BY <1>1, <2>1, Sizes0, NoneIsNone DEF Ticking
  <2>2. CASE ~tx.step
    <3>1. tick' <=> tick
      BY <1>1, <2>2
    <3> QED
      BY <1>1, <2>2, <3>1, NoneIsNone DEF Ticking
  <2> QED
    BY <2>1, <2>2
<1>7. Dims' /\ StaysOn'
  BY <1>1 DEF Dims, StaysOn
<1> QED
  BY <1>5, <1>6, <1>7

\* A command of the on/off cluster that turns the light on is a wish of its own;
\* the others leave the level as it is.
LEMMA ReactionsDim ==
    ASSUME DimInv, OnOffCommand \/ OnOffTimer
    PROVE  DimInv'
<1> USE DEF DimInv
<1>1. /\ Command \/ TimedOnTick \/ DelayedOffTick \/ SceneIsDue
      /\ level' = Reaction(level, tx = NoTx)
      /\ move' = Arrived(move, level, level')
      /\ since' = IF move' = None THEN 0 ELSE since
      /\ block' = (block /\ lamp'.on = lamp.on)
      /\ asked' = IF lamp'.on = lamp.on \/ (asked = "off" /\ ~lamp'.on) THEN asked
                  ELSE "no"
      /\ UNCHANGED <<onLevel, tick, tx, faults>>
  BY DEF OnOffCommand, OnOffTimer, Reacting
<1>2. TypeOK'
  BY <1>1, LampCommands, LampTimers DEF Typed
<1>3. level' \in Levels /\ ((lamp'.on => lamp.on) => level' = level)
  BY <1>1, Reacts DEF Typed
<1>4. move' \in {move, None} /\ (level' = level => move' = move)
  BY <1>1 DEF Arrived
<1>5. since' \in {since, 0}
  BY <1>1
<1>6. Typed'
  <2>1. block' \in BOOLEAN /\ asked' \in Asks
    BY <1>1 DEF Typed, Asks
  <2>2. since' \in 0 .. Late + 1
    BY <1>1, <1>5, Sizes0 DEF Typed
  <2> QED
    BY <1>1, <1>2, <1>3, <1>4, <2>1, <2>2 DEF Typed
<1>7. Dims'
  <2>1. CASE asked' = "off"
    <3>1. asked = "off" /\ (lamp'.on => lamp.on)
      BY <1>1, <2>1
    <3>2. move' = move /\ tx' = tx
      BY <1>1, <1>3, <1>4, <3>1
    <3> QED
      BY <3>1, <3>2 DEF Dims
  <2> QED
    BY <2>1 DEF Dims
<1>8. Ticking'
  <2>1. since' = 0 \/ (since' = since /\ move' # None)
    BY <1>1
  <2> QED
    BY <1>1, <2>1, Sizes0 DEF Ticking
<1>9. StaysOn'
  <2>1. CASE asked' = "past off"
    <3>1. asked = "past off" /\ lamp'.on = lamp.on
      BY <1>1, <2>1
    <3>2. move' = move /\ tx' = tx
      BY <1>1, <1>3, <1>4, <3>1
    <3> QED
      BY <3>1, <3>2 DEF StaysOn
  <2> QED
    BY <2>1 DEF StaysOn
<1> QED
  BY <1>6, <1>7, <1>8, <1>9

LEMMA TimeDims ==
    ASSUME DimInv, TimePasses
    PROVE  DimInv'
<1> USE DEF DimInv
<1>1. /\ Tick /\ (tick => since < Late)
      /\ tick' = (tick \/ move # None)
      /\ since' = IF move = None THEN 0 ELSE since + 1
      /\ UNCHANGED <<level, onLevel, move, tx, block, asked, faults>>
  BY DEF TimePasses
<1>2. TypeOK' /\ lamp'.on = lamp.on
  BY <1>1, LampTick DEF Typed
<1>3. tick' \in BOOLEAN /\ (tick' <=> tick \/ move # None)
  BY <1>1
<1>4. /\ since \in 0 .. Late => since' \in 0 .. Late + 1
      /\ tick => since' \in 0 .. Late
  BY <1>1, Sizes0 DEF Typed
<1>5. Ticking'
  <2>1. move = None => since' = 0 /\ since' \in 0 .. Late
    BY <1>1, Sizes0
  <2>2. tx.step => tick' /\ since' \in 0 .. Late
    BY <1>3, <1>4 DEF Ticking
  <2> QED
    BY <1>1, <1>3, <2>1, <2>2 DEF Ticking
<1>6. Typed'
  <2>1. since' \in 0 .. Late + 1
    BY <1>4, Sizes0 DEF Ticking
  <2> QED
    BY <1>1, <1>2, <1>3, <2>1 DEF Typed
<1>7. Dims' /\ StaysOn'
  BY <1>1, <1>2 DEF Dims, StaysOn
<1> QED
  BY <1>5, <1>6, <1>7

LEMMA RestartsDim ==
    ASSUME DimInv, Restarts
    PROVE  DimInv'
<1>1. /\ level' \in Levels /\ move' = None /\ tick' = FALSE /\ since' = 0
      /\ tx' = NoTx /\ block' = FALSE /\ asked' = "no"
      /\ UNCHANGED <<onLevel, faults>>
  BY DEF Restarts
<1>2. TypeOK'
  <2>1. PICK on \in BOOLEAN : lamp' = Started(on)
    BY DEF Restarts, Restart
  <2>2. Started(on) \in Lamps
    BY DEF Started, Lamps, Scenes
  <2>3. due' = {} /\ boot' = 1 - boot
    BY DEF Restarts, Restart
  <2> QED
    BY <2>1, <2>2, <2>3 DEF DimInv, Typed, TypeOK
<1>3. since' \in 0 .. Late /\ since' \in 0 .. Late + 1 /\ ~tx'.step
  BY <1>1, Sizes0, NoneIsNone
<1>4. Typed'
  BY <1>1, <1>2, <1>3, Sizes0 DEF DimInv, Typed, Asks
<1>5. Ticking' /\ Dims' /\ StaysOn'
  BY <1>1, <1>3 DEF Ticking, Dims, StaysOn
<1> QED
  BY <1>4, <1>5 DEF DimInv

LEMMA StepDims ==
    ASSUME DimInv, [LightNext]_lightVars
    PROVE  DimInv'
<1>1. CASE UNCHANGED lightVars
  BY <1>1 DEF lightVars, vars, levelVars, transitionVars, DimInv, Typed, TypeOK, Ticking,
             Dims, StaysOn
<1> QED
  BY <1>1, LevelCommands, StepsDim, CommitsDim, FailuresDim, ReactionsDim, TimeDims,
     RestartsDim DEF LightNext

-------------------------------------------------------------------------------
(***************************************************************************)
(* Theorems.                                                               *)
(***************************************************************************)

\* The inductive invariant of the light under every command, step, commit, failure,
\* reaction and restart.
THEOREM DimInvariant == LightSpec => []DimInv
BY StartsDimmed, StepDims, PTL DEF LightSpec

\* Levels, transitions and transactions keep their types: no position leaves the
\* levels there are, for all rates, sizes and lateness of a step.
THEOREM LevelTypes == LightSpec => []LightTypeOK
<1>1. DimInv => LightTypeOK
  <2> SUFFICES ASSUME DimInv
               PROVE  LightTypeOK
    OBVIOUS
  <2>1. move = None \/ /\ {move.target, move.pos} \subseteq Unit .. Unit * MaxLevel
                       /\ move.rate \in Int \ {0}
                       /\ move.coupling \in {"none", "off", "on"}
    BY DEF DimInv, Typed, Transitions, Positions
  <2>2. tx = NoTx \/ tx \in [level : Levels, turnsOn : BOOLEAN, offAtMin : BOOLEAN,
                             step : BOOLEAN]
    BY DEF DimInv, Typed, Transactions
  <2> QED
    BY <2>1, <2>2 DEF DimInv, Typed, Asks, LightTypeOK
<1> QED
  BY <1>1, DimInvariant, PTL

\* When its transition has ended, a light dimmed with on/off to the minimum is off,
\* and one dimmed past the minimum, which MoveWithOnOff and StepWithOnOff do, is on
\* (LevelControlServer.ts:351-360, 423, 490-531, Transitions.ts:410-483).
THEOREM DimmedIsOff == LightSpec => []OffWhenDimmed
<1>1. DimInv => OffWhenDimmed
  BY DEF DimInv, Typed, Asks, Dims, StaysOn, OffWhenDimmed
<1> QED
  BY <1>1, DimInvariant, PTL

===================================================================================
