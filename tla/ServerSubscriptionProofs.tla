------------------------ MODULE ServerSubscriptionProofs ------------------------
(***************************************************************************)
(* Theorems about ServerSubscription, for any clusters, intervals, numbers *)
(* of changes and failures.  SubInv is inductive.  Its parts say where a   *)
(* value and an event the peer lacks is (ChangesInv, EventsInv), how long  *)
(* the peer may still wait (HeardInv) and what a closing subscription has  *)
(* left (FlushInv); they rest on the life of the subscription (LifeInv)    *)
(* and on the order of the values read (ReadsInv).                         *)
(***************************************************************************)
EXTENDS ServerSubscription, TLAPS

\* The intervals of a subscription leave room for the floor and for a report.
PlanFits ==
    /\ plan.floor <= plan.max
    /\ plan.send \in 1 .. plan.max

\* Timers run while the subscription lives, and a report is under way from the
\* start of the seed until it has arrived.
LifeInv ==
    /\ phase \in {"seeding", "responding", "active", "orphan"} => ~closed
    /\ phase = "closing" => closed
    /\ delay => phase = "active"
    /\ updTimer # Off => phase \in {"active", "closing"}
    /\ phase = "seeding" => report.st # "none"
    /\ phase \in {"responding", "orphan"} => report.st = "none"

\* Values only grow; what the peer holds is no newer than what a report carries,
\* and that no newer than what a read returns.
ReadsInv ==
    /\ report.left \subseteq report.attrs
    /\ report.st # "read" => report.left = {}
    /\ \A c \in Clusters :
         /\ value[c] <= version[c] /\ known[c] <= value[c]
         /\ report.vals[c] # Unknown =>
              /\ report.st # "none" /\ c \in report.attrs
              /\ known[c] <= report.vals[c] /\ report.vals[c] <= value[c]

\* A value that a report carries and that has changed since is queued.
ChangesInv ==
    /\ NoChangeLost
    /\ phase = "seeding" => \A c \in filter : known[c] = 0
    /\ phase = "active" => \A c \in Clusters :
         report.vals[c] \in {Unknown, value[c]} \/ c \in dirty \cup notices

\* Nothing is queued or reported from an event that is yet to come.
NumbersInv ==
    /\ minEvent <= events /\ lastSeeded <= events
    /\ phase # "seeding" => report.from <= events

\* The seed has the events up to lastSeeded, and minEvent is the last of those that
\* came later.
SeedInv ==
    /\ phase = "seeding" => report.from = 1
    /\ phase = "seeding" /\ report.st = "wire" => report.upto = lastSeeded
    /\ (phase = "seeding" /\ report.st = "wire") \/ phase = "responding" =>
         (lastSeeded < events => minEvent = events)
    /\ phase = "responding" => 1 .. lastSeeded \subseteq got

\* A report of an active subscription begins no later than the queue, and what the
\* peer lacks is in one of the two.
QueueInv ==
    phase = "active" =>
      /\ minEvent # 0 => report.from <= minEvent
      /\ "events" \notin missed => \A e \in 1 .. events : e \in got \/ Pending(e)

EventsInv == NumbersInv /\ SeedInv /\ QueueInv

\* The update timer of an active subscription fires before the peer has waited for
\* the max interval, or the send delay runs.
HeardInv ==
    /\ delay => updTimer = plan.send
    /\ phase = "active" => updTimer \in 0 .. plan.max
    /\ phase = "active" /\ report.st = "none" =>
         /\ quiet <= plan.max
         /\ ~delay => /\ quiet + updTimer <= plan.max
                      /\ since < plan.floor => quiet <= since

\* A closing subscription sends what is outstanding after the report under way.
FlushInv ==
    phase = "closing" =>
      IF report.st = "none"
        THEN dirty \subseteq missed /\ (minEvent # 0 => "events" \in missed)
        ELSE again \/ (dirty = {} /\ minEvent = 0)

SubInv == TypeOK /\ PlanFits /\ LifeInv /\ ReadsInv /\ ChangesInv /\ EventsInv /\ HeardInv /\ FlushInv

-------------------------------------------------------------------------------
(***************************************************************************)
(* Reports.                                                                *)
(***************************************************************************)

\* Reading a cluster changes what is left to read and its value.
LEMMA ClusterIsRead ==
    ASSUME TypeOK, NEW c \in Clusters, ReadCluster(c)
    PROVE  /\ report.st = "read" /\ report'.st = "read" /\ c \in report.left
           /\ report'.attrs = report.attrs /\ report'.left = report.left \ {c}
           /\ report'.from = report.from /\ report'.upto = report.upto
           /\ report'.vals = IF Skipped(c) THEN report.vals
                             ELSE [report.vals EXCEPT ![c] = value[c]]
BY DEF TypeOK, ReadCluster

\* The events end the reading of a report.
LEMMA EventsAreRead ==
    ASSUME TypeOK, ReadEvents
    PROVE  /\ report.st = "read" /\ report'.st = "wire" /\ report.left = {}
           /\ report'.attrs = report.attrs /\ report'.left = report.left
           /\ report'.from = report.from /\ report'.vals = report.vals
           /\ report'.upto = IF report.from = 0 THEN 0 ELSE events
BY DEF TypeOK, ReadEvents

\* What the sending of a report goes on with.
LEMMA Continued ==
    ASSUME NEW a, NEW f, Continue(a, f)
    PROVE  \/ /\ ~again /\ report' = NoReport /\ dirty' = a /\ minEvent' = f
              /\ UNCHANGED <<again, since>>
           \/ /\ again /\ again' = FALSE /\ dirty' = {} /\ minEvent' = 0
              /\ report' = Report(a, f) /\ since' = 0
           \/ /\ again /\ again' = FALSE /\ dirty' = {} /\ minEvent' = 0
              /\ report' = NoReport /\ UNCHANGED since
              /\ a = {} /\ f = 0
BY DEF Continue, Take

\* A report that fails is given up, put back, ends the subscription or is dropped.
LEMMA Failed ==
    ASSUME TypeOK, NEW kind \in {"network", "other"}, ReportFails(kind)
    PROVE  \/ /\ closed /\ report' = NoReport
              /\ missed' = missed \cup Lost \cup Queued
              /\ UNCHANGED <<lifeVars, queueVars, updTimer, delay, since, again, errors>>
           \/ /\ ~closed /\ Continue(Back[1], Back[2])
              /\ errors < 2 /\ errors' = errors + 1
              /\ UNCHANGED <<lifeVars, updTimer, delay, missed>>
           \/ /\ ~closed /\ report' = NoReport /\ phase' = "gone" /\ StopTimers
              /\ again' = FALSE /\ byPeer' = TRUE /\ errors' = 3
              /\ UNCHANGED <<closed, queueVars, since, missed>>
           \/ /\ ~closed /\ report' = NoReport /\ kind = "other"
              /\ again' = FALSE /\ missed' = missed \cup Lost /\ errors' = 3
              /\ UNCHANGED <<lifeVars, queueVars, updTimer, delay, since>>
<1>1. errors \in 0 .. 3
  BY DEF TypeOK
<1>2. errors < 2 \/ errors >= 2
  BY <1>1
<1>3. CASE closed
  BY <1>3 DEF ReportFails
<1>4. CASE ~closed /\ errors < 2
  BY <1>4 DEF ReportFails
<1>5. CASE ~closed /\ errors >= 2 /\ kind = "network"
  BY <1>1, <1>5 DEF ReportFails
<1>6. CASE ~closed /\ errors >= 2 /\ kind = "other"
  BY <1>1, <1>6 DEF ReportFails
<1> QED
  BY <1>2, <1>3, <1>4, <1>5, <1>6

-------------------------------------------------------------------------------
(***************************************************************************)
(* Types.                                                                  *)
(***************************************************************************)

Readings == [Clusters -> Values \cup {Unknown}]

ReportTypes == [st : {"none", "read", "wire"}, attrs : SUBSET Clusters,
                left : SUBSET Clusters, vals : Readings,
                from : 0 .. Larger(1, MaxEvents), upto : 0 .. MaxEvents]

Timings == {Off} \cup 0 .. MaxInterval

\* The bounds of the model are numbers, and no value is Unknown.
LEMMA Bounds ==
    /\ MaxValue \in Nat /\ MaxEvents \in Nat /\ MaxFaults \in Nat
    /\ Limit \in Nat /\ MaxInterval \in Nat /\ Limit <= MaxInterval
    /\ Larger(1, MaxEvents) \in Nat
    /\ 1 <= Larger(1, MaxEvents) /\ MaxEvents <= Larger(1, MaxEvents)
    /\ Values \subseteq Int /\ Unknown \notin Values /\ Off \notin Nat
    /\ Unknown \in Int /\ Off \in Int
BY BoundsAssumption, RequestAssumption DEF MaxInterval, Larger, Values, Unknown, Off

\* A new report, of clusters and from an event that there may be, is typed.
LEMMA NewReports ==
    ASSUME NEW a \in SUBSET Clusters, NEW f \in 0 .. MaxEvents
    PROVE  Report(a, f) \in ReportTypes /\ NoReport \in ReportTypes
<1>1. f \in 0 .. Larger(1, MaxEvents) /\ 0 \in 0 .. MaxEvents /\ 0 \in 0 .. Larger(1, MaxEvents)
  BY Bounds
<1>2. [c \in Clusters |-> Unknown] \in Readings
  BY DEF Readings
<1> QED
  BY <1>1, <1>2 DEF Report, NoReport, ReportTypes

\* The report is typed as it is in TypeOK.
LEMMA ReportIsTyped ==
    TypeOK => /\ TypeOK /\ report \in ReportTypes /\ updTimer \in Timings
              /\ known \in Readings /\ seeded \in Readings
BY DEF TypeOK, ReportTypes, Timings, Readings

\* The timers stay within the largest interval: plan.floor - since is no negative number.
LEMMA Prepared ==
    ASSUME TypeOK, PlanFits, NEW left \in Timings, Prepare(left)
    PROVE  updTimer' \in Timings /\ delay' \in BOOLEAN
<1>1. plan.floor \in 0 .. Limit /\ plan.send \in 0 .. MaxInterval
  BY DEF TypeOK
<1>2. since \in 0 .. Limit /\ delay \in BOOLEAN
  BY DEF TypeOK
<1>3. since < plan.floor => plan.floor - since \in 0 .. MaxInterval
  BY <1>1, <1>2, Bounds
<1>4. updTimer' \in {left, plan.send} \/ (since < plan.floor /\ updTimer' = plan.floor - since)
  BY DEF Prepare
<1>5. delay' \in {delay, TRUE}
  BY DEF Prepare
<1> QED
  BY <1>1, <1>2, <1>3, <1>4, <1>5 DEF Timings

\* What the loop of sendUpdate goes on with is of the types it was.
LEMMA ContinuedTypes ==
    ASSUME TypeOK, NEW a \in SUBSET Clusters, NEW f \in 0 .. MaxEvents, Continue(a, f)
    PROVE  /\ report' \in ReportTypes /\ again' \in BOOLEAN /\ since' \in 0 .. Limit
           /\ dirty' \subseteq Clusters /\ minEvent' \in 0 .. MaxEvents
<1>1. 0 \in 0 .. Limit /\ 0 \in 0 .. MaxEvents
  BY Bounds
<1>2. since \in 0 .. Limit /\ again \in BOOLEAN
  BY DEF TypeOK
<1> QED
  BY <1>1, <1>2, Continued, NewReports

\* A version that may grow is below the bound, and so is the value behind it.
LEMMA CommitsTyped ==
    ASSUME SubInv, NEW c \in Clusters, Commit1(c) \/ Commit2(c)
    PROVE  TypeOK'
<1> USE DEF dataVars, peerVars, lifeVars, queueVars, seedVars, timerVars, sendVars, historyVars
<1>1. /\ value \in [Clusters -> Values] /\ version \in [Clusters -> Values]
      /\ storing \subseteq Clusters /\ notices \subseteq Clusters
      /\ value[c] <= version[c]
  BY DEF SubInv, TypeOK, ReadsInv
<1>2. version[c] < MaxValue => value[c] + 1 \in Values /\ version[c] + 1 \in Values
  BY <1>1, Bounds DEF Values
<1>3. value' \in [Clusters -> Values] /\ version' \in [Clusters -> Values]
  BY <1>1, <1>2 DEF Commit1, Commit2
<1>4. storing' \subseteq Clusters /\ notices' \subseteq Clusters
  BY <1>1 DEF Commit1, Commit2
<1>5. UNCHANGED <<events, peerVars, lifeVars, queueVars, seedVars, timerVars, sendVars,
                  faults, historyVars>>
  BY DEF Commit1, Commit2
<1> QED
  BY <1>3, <1>4, <1>5 DEF SubInv, TypeOK

\* What a subscription is told of are clusters and events of the model.
LEMMA NewsTyped ==
    ASSUME SubInv,
           (\E c \in Clusters : Notify(c)) \/ (\E urgent \in BOOLEAN : AddEvent(urgent))
    PROVE  TypeOK'
<1> USE DEF dataVars, peerVars, lifeVars, queueVars, seedVars, timerVars, sendVars, historyVars
<1>0. TypeOK /\ PlanFits /\ updTimer \in Timings /\ delay \in BOOLEAN
  BY ReportIsTyped DEF SubInv, TypeOK
<1>1. ASSUME NEW c \in Clusters, Notify(c)
      PROVE  TypeOK'
  <2>1. notices' \subseteq Clusters /\ dirty' \subseteq Clusters
        /\ missed' \subseteq Clusters \cup {"events"}
    BY <1>0, <1>1 DEF Notify, TypeOK
  <2>2. updTimer' \in Timings /\ delay' \in BOOLEAN
    BY <1>0, <1>1, Prepared DEF Notify
  <2> QED
    BY <1>0, <1>1, <2>1, <2>2 DEF Notify, TypeOK, Timings
<1>2. ASSUME NEW urgent \in BOOLEAN, AddEvent(urgent)
      PROVE  TypeOK'
  <2>1. events' \in 0 .. MaxEvents
    BY <1>0, <1>2, Bounds DEF AddEvent, TypeOK
  <2>2. minEvent' \in 0 .. MaxEvents
    BY <1>0, <1>2, <2>1 DEF AddEvent, TypeOK
  <2>3. updTimer' \in Timings /\ delay' \in BOOLEAN
    BY <1>0, <1>2, Prepared DEF AddEvent
  <2> QED
    BY <1>0, <1>2, <2>1, <2>2, <2>3 DEF AddEvent, TypeOK, Timings
<1> QED
  BY <1>1, <1>2

\* A report with other values, and other clusters to read, is a report.
LEMMA ReportUpdated ==
    ASSUME NEW r \in ReportTypes, NEW l \in SUBSET Clusters, NEW v \in Readings
    PROVE  [r EXCEPT !.left = l, !.vals = v] \in ReportTypes
BY DEF ReportTypes

\* A report carries values that were read.
LEMMA ReadingTyped ==
    ASSUME SubInv, (\E c \in Clusters : ReadCluster(c)) \/ ReadEvents
    PROVE  TypeOK'
<1> USE DEF dataVars, peerVars, lifeVars, queueVars, seedVars, timerVars, sendVars, historyVars
<1>0. TypeOK /\ report \in ReportTypes /\ seeded \in Readings
  BY ReportIsTyped DEF SubInv
<1>1. ASSUME NEW c \in Clusters, ReadCluster(c)
      PROVE  TypeOK'
  <2>1. value[c] \in Values /\ version[c] \in Values
    BY <1>0 DEF TypeOK
  <2>2. report' \in ReportTypes
    <3>1. [report.vals EXCEPT ![c] = value[c]] \in Readings
      BY <1>0, <2>1 DEF ReportTypes, Readings
    <3>2. \E v \in {report.vals, [report.vals EXCEPT ![c] = value[c]]} :
            report' = [report EXCEPT !.left = report.left \ {c}, !.vals = v]
      BY <1>0, <1>1 DEF ReadCluster, ReportTypes
    <3>3. report.left \ {c} \in SUBSET Clusters /\ report.vals \in Readings
      BY <1>0 DEF ReportTypes
    <3>4. PICK v \in Readings : report' = [report EXCEPT !.left = report.left \ {c}, !.vals = v]
      BY <3>1, <3>2, <3>3
    <3> QED
      BY <1>0, <3>3, <3>4, ReportUpdated
  <2>3. seeded' \in Readings
    BY <1>0, <1>1, <2>1 DEF ReadCluster, Readings
  <2> QED
    BY <1>0, <1>1, <2>2, <2>3 DEF ReadCluster, TypeOK, ReportTypes, Readings
<1>2. ASSUME ReadEvents
      PROVE  TypeOK'
  <2>1. events \in 0 .. MaxEvents /\ 0 \in 0 .. MaxEvents /\ 0 \in 0 .. Limit
    BY <1>0, Bounds DEF TypeOK
  <2>2. report' \in ReportTypes
    BY <1>0, <1>2, <2>1 DEF ReadEvents, ReportTypes
  <2>3. lastSeeded' \in 0 .. MaxEvents /\ since' \in 0 .. Limit
    BY <1>0, <1>2, <2>1 DEF ReadEvents, TypeOK
  <2> QED
    BY <1>0, <1>2, <2>2, <2>3 DEF ReadEvents, TypeOK, ReportTypes, Readings
<1> QED
  BY <1>1, <1>2

\* The peer's copy keeps its type when a report arrives.
LEMMA ReceivedTypes ==
    ASSUME TypeOK, Receive
    PROVE  known' \in Readings /\ got' \subseteq 1 .. MaxEvents /\ filter' = filter /\ plan' = plan
<1>1. report \in ReportTypes /\ known \in Readings /\ got \subseteq 1 .. MaxEvents
  BY ReportIsTyped DEF TypeOK
<1>2. known' \in Readings
  BY <1>1 DEF Receive, Readings, ReportTypes
<1>3. report.from \in Nat /\ report.upto \in 0 .. MaxEvents
  BY <1>1, Bounds DEF ReportTypes
<1>4. CarriedEvents \subseteq 1 .. MaxEvents
  BY <1>3, Bounds DEF CarriedEvents
<1> QED
  BY <1>1, <1>2, <1>4 DEF Receive

\* The seed, its response and their failures.
LEMMA SeedTyped ==
    ASSUME SubInv, SeedDelivered \/ SeedFails \/ Respond \/ RespondFails
    PROVE  TypeOK'
<1> USE DEF dataVars, peerVars, lifeVars, queueVars, seedVars, timerVars, sendVars, historyVars
<1>0. /\ TypeOK /\ report \in ReportTypes /\ 0 \in 0 .. MaxEvents /\ NoReport \in ReportTypes
      /\ 0 \in 0 .. Limit /\ 0 \in 0 .. MaxInterval + 1
  BY ReportIsTyped, NewReports, Bounds DEF SubInv
<1>1. CASE SeedDelivered
  <2>1. known' \in Readings /\ got' \subseteq 1 .. MaxEvents /\ filter' = filter /\ plan' = plan
    BY <1>0, <1>1, ReceivedTypes DEF SeedDelivered
  <2> QED
    BY <1>0, <1>1, <2>1 DEF SeedDelivered, TypeOK, Phases, ReportTypes, Readings
<1>2. CASE SeedFails
  <2>1. faults' \in 0 .. MaxFaults
    BY <1>0, <1>2, Bounds DEF SeedFails, Spend, TypeOK
  <2> QED
    BY <1>0, <1>2, <2>1 DEF SeedFails, StopTimers, TypeOK, Phases, ReportTypes, Readings
<1>3. CASE Respond
  <2>1. SeedGap \in 0 .. MaxEvents
    BY <1>0, Bounds DEF SeedGap, TypeOK
  <2>2. Report(dirty, SeedGap) \in ReportTypes
    BY <1>0, <2>1, NewReports DEF TypeOK
  <2>3. report' \in ReportTypes /\ since' \in 0 .. Limit
    BY <1>0, <1>3, <2>2 DEF Respond, Take, TypeOK
  <2>4. seeded' \in Readings /\ lastSeeded' \in 0 .. MaxEvents /\ minEvent' \in 0 .. MaxEvents
        /\ dirty' \subseteq Clusters
    BY <1>0, <1>3 DEF Respond, Readings, TypeOK
  <2>5. updTimer' \in Timings /\ quiet' \in 0 .. MaxInterval + 1 /\ phase' \in Phases
    BY <1>0, <1>3 DEF Respond, TypeOK, Phases, Timings
  <2> QED
    BY <1>0, <1>3, <2>3, <2>4, <2>5 DEF Respond, TypeOK, ReportTypes, Readings, Timings
<1>4. CASE RespondFails
  <2>1. faults' \in 0 .. MaxFaults
    BY <1>0, <1>4, Bounds DEF RespondFails, Spend, TypeOK
  <2> QED
    BY <1>0, <1>4, <2>1 DEF RespondFails, TypeOK, Phases
<1> QED
  BY <1>1, <1>2, <1>3, <1>4

\* The timers, and what the send delay starts.
LEMMA TimersTyped ==
    ASSUME SubInv, DelayFires \/ UpdateFires \/ Tick
    PROVE  TypeOK'
<1> USE DEF dataVars, peerVars, lifeVars, queueVars, seedVars, timerVars, sendVars, historyVars
<1>0. /\ TypeOK /\ PlanFits /\ updTimer \in Timings /\ 0 \in 0 .. MaxEvents /\ 0 \in 0 .. Limit
  BY ReportIsTyped, Bounds DEF SubInv
<1>1. CASE DelayFires
  <2>1. Report(dirty, minEvent) \in ReportTypes
    BY <1>0, NewReports DEF TypeOK
  <2>2. /\ report' \in {report, Report(dirty, minEvent)} /\ since' \in {since, 0}
        /\ dirty' \in {dirty, {}} /\ minEvent' \in {minEvent, 0} /\ again' \in {again, TRUE}
    BY <1>1 DEF DelayFires, Trigger, Take
  <2>3. report' \in ReportTypes /\ since' \in 0 .. Limit /\ dirty' \subseteq Clusters
        /\ minEvent' \in 0 .. MaxEvents /\ again' \in BOOLEAN
    BY <1>0, <2>1, <2>2, ReportIsTyped DEF TypeOK
  <2> QED
    BY <1>0, <1>1, <2>3 DEF DelayFires, TypeOK, ReportTypes, Readings
<1>2. CASE UpdateFires
  <2>1. updTimer' \in Timings /\ delay' \in BOOLEAN
    BY <1>0, <1>2, Prepared DEF UpdateFires, Timings
  <2> QED
    BY <1>0, <1>2, <2>1 DEF UpdateFires, TypeOK, Timings
<1>3. CASE Tick
  <2>1. updTimer' \in Timings
    <3>1. updTimer # Off => updTimer \in 0 .. MaxInterval /\ updTimer # 0
      BY <1>0, <1>3 DEF Tick, Timings
    <3> QED
      BY <1>3, <3>1, Bounds DEF Tick, Timings
  <2>2. plan.floor \in 0 .. Limit /\ since \in 0 .. Limit /\ quiet \in 0 .. MaxInterval + 1
    BY <1>0 DEF TypeOK
  <2>3. since' \in 0 .. Limit
    BY <1>3, <2>2, Bounds DEF Tick
  <2>4. quiet' = quiet \/ (quiet <= MaxInterval /\ quiet' = quiet + 1)
    BY <1>3 DEF Tick
  <2>5. quiet' \in 0 .. MaxInterval + 1
    BY <2>2, <2>4, Bounds
  <2> QED
    BY <1>0, <1>3, <2>1, <2>3, <2>5 DEF Tick, TypeOK, Timings
<1> QED
  BY <1>1, <1>2, <1>3

\* The ways a report ends.
LEMMA OutcomesTyped ==
    ASSUME SubInv,
           ReportDelivered \/ ReportRefused \/ (\E kind \in {"network", "other"} : ReportFails(kind))
    PROVE  TypeOK'
<1> USE DEF dataVars, peerVars, lifeVars, queueVars, seedVars, timerVars, sendVars, historyVars
<1>a. TypeOK /\ report \in ReportTypes /\ dirty \subseteq Clusters /\ minEvent \in 0 .. MaxEvents
  BY ReportIsTyped DEF SubInv, TypeOK
<1>b. 0 \in 0 .. MaxInterval + 1
  BY Bounds
<1>0. /\ TypeOK /\ report \in ReportTypes /\ dirty \subseteq Clusters /\ minEvent \in 0 .. MaxEvents
      /\ NoReport \in ReportTypes /\ 0 \in 0 .. MaxInterval + 1
  BY <1>a, <1>b, NewReports
<1>1. CASE ReportDelivered
  <2>1. known' \in Readings /\ got' \subseteq 1 .. MaxEvents /\ filter' = filter /\ plan' = plan
    BY <1>0, <1>1, ReceivedTypes DEF ReportDelivered
  <2>2. /\ report' \in ReportTypes /\ again' \in BOOLEAN /\ since' \in 0 .. Limit
        /\ dirty' \subseteq Clusters /\ minEvent' \in 0 .. MaxEvents
    BY <1>0, <1>1, ContinuedTypes DEF ReportDelivered
  <2>3. missed' \subseteq Clusters \cup {"events"}
    BY <1>0, <1>1 DEF ReportDelivered, TypeOK
  <2> QED
    BY <1>0, <1>1, <2>1, <2>2, <2>3 DEF ReportDelivered, TypeOK, ReportTypes, Readings
<1>2. CASE ReportRefused
  <2>1. /\ report' \in ReportTypes /\ again' \in BOOLEAN /\ since' \in 0 .. Limit
        /\ dirty' \subseteq Clusters /\ minEvent' \in 0 .. MaxEvents
    BY <1>0, <1>2, ContinuedTypes DEF ReportRefused
  <2>2. faults' \in 0 .. MaxFaults
    BY <1>0, <1>2, Bounds DEF ReportRefused, Spend, TypeOK
  <2>3. phase' \in Phases /\ byPeer' \in BOOLEAN
    BY <1>0, <1>2 DEF ReportRefused, TypeOK, Phases
  <2>4. /\ updTimer' = Off /\ delay' = FALSE /\ errors' = 0 /\ quiet' = 0
        /\ UNCHANGED <<dataVars, peerVars, closed, seedVars, missed>>
    BY <1>2 DEF ReportRefused, StopTimers
  <2>5. errors' \in 0 .. 3 /\ quiet' \in 0 .. MaxInterval + 1
    BY <1>0, <2>4
  <2> QED
    BY <1>0, <2>1, <2>2, <2>3, <2>4, <2>5 DEF TypeOK, ReportTypes, Readings
<1>3. ASSUME NEW kind \in {"network", "other"}, ReportFails(kind)
      PROVE  TypeOK'
  <2>1. known' \in Readings /\ got' \subseteq 1 .. MaxEvents /\ filter' = filter /\ plan' = plan
    <3>1. UNCHANGED peerVars \/ Receive
      BY <1>3 DEF ReportFails
    <3> QED
      BY <1>0, <3>1, ReceivedTypes, ReportIsTyped DEF TypeOK
  <2>2. faults' \in 0 .. MaxFaults
    BY <1>0, <1>3, Bounds DEF ReportFails, Spend, TypeOK
  <2>3. Back[1] \in SUBSET Clusters /\ Back[2] \in 0 .. MaxEvents
    <3>1. phase # "seeding" /\ report.from <= events
      BY <1>3 DEF ReportFails, SubInv, EventsInv, NumbersInv
    <3>2. events \in 0 .. MaxEvents /\ report.from \in Nat /\ report.attrs \subseteq Clusters
      BY <1>0, Bounds DEF TypeOK, ReportTypes
    <3>3. report.from \in 0 .. MaxEvents
      BY <3>1, <3>2, Bounds
    <3> QED
      BY <1>0, <3>2, <3>3 DEF Back
  <2>4. missed' \subseteq Clusters \cup {"events"}
    BY <1>0, <1>3, Failed DEF Lost, Queued, TypeOK, ReportTypes
  <2>5. /\ report' \in ReportTypes /\ again' \in BOOLEAN /\ since' \in 0 .. Limit
        /\ dirty' \subseteq Clusters /\ minEvent' \in 0 .. MaxEvents
    BY <1>0, <1>3, <2>3, Failed, ContinuedTypes DEF TypeOK
  <2>6. updTimer' \in Timings /\ delay' \in BOOLEAN
    BY <1>0, <1>3, ReportIsTyped, Failed DEF StopTimers, Timings, TypeOK
  <2>7. phase' \in Phases /\ closed' \in BOOLEAN /\ byPeer' \in BOOLEAN
    BY <1>0, <1>3, Failed DEF TypeOK, Phases
  <2>8. errors' \in 0 .. 3 /\ quiet' \in 0 .. MaxInterval + 1
    <3>1. errors \in 0 .. 3 /\ closed \in BOOLEAN
      BY <1>0 DEF TypeOK
    <3>2. errors' = errors \/ (errors < 2 /\ errors' = errors + 1) \/ errors' = 3
      BY <1>0, <1>3, Failed
    <3>3. quiet' = 0
      BY <1>3 DEF ReportFails
    <3> QED
      BY <1>0, <3>1, <3>2, <3>3
  <2> QED
    BY <1>0, <1>3, <2>1, <2>2, <2>4, <2>5, <2>6, <2>7, <2>8
       DEF ReportFails, TypeOK, ReportTypes, Readings, Timings
<1> QED
  BY <1>1, <1>2, <1>3

\* The ways a subscription ends.
LEMMA EndsTyped ==
    ASSUME SubInv, (\E flush \in BOOLEAN : Close(flush)) \/ CloseDone \/ PeerCancel
    PROVE  TypeOK'
<1> USE DEF dataVars, peerVars, lifeVars, queueVars, seedVars, timerVars, sendVars, historyVars
<1>0. /\ TypeOK /\ report \in ReportTypes /\ 0 \in 0 .. Limit /\ 0 \in 0 .. MaxEvents
      /\ updTimer \in Timings
  BY ReportIsTyped, Bounds DEF SubInv
<1>1. ASSUME NEW flush \in BOOLEAN, Close(flush)
      PROVE  TypeOK'
  <2>1. Report(dirty, minEvent) \in ReportTypes /\ NoReport \in ReportTypes
    BY <1>0, NewReports DEF TypeOK
  <2>2. /\ report' \in {report, NoReport, Report(dirty, minEvent)} /\ since' \in {since, 0}
        /\ dirty' \in {dirty, {}} /\ minEvent' \in {minEvent, 0} /\ again' \in {again, TRUE}
    BY <1>1 DEF Close, Trigger, Take
  <2>3. /\ report' \in ReportTypes /\ since' \in 0 .. Limit /\ dirty' \subseteq Clusters
        /\ minEvent' \in 0 .. MaxEvents /\ again' \in BOOLEAN
    BY <1>0, <2>1, <2>2 DEF TypeOK
  <2>4. /\ updTimer' \in {updTimer, Off} /\ delay' = FALSE /\ closed' = TRUE
        /\ phase' \in {"closing", "gone"}
    BY <1>1 DEF Close, StopTimers
  <2> QED
    BY <1>0, <1>1, <2>3, <2>4 DEF Close, TypeOK, ReportTypes, Readings, Timings, Phases
<1>2. CASE CloseDone
  BY <1>0, <1>2 DEF CloseDone, StopTimers, TypeOK, Phases
<1>3. CASE PeerCancel
  BY <1>0, <1>3 DEF PeerCancel, StopTimers, TypeOK, Phases
<1> QED
  BY <1>1, <1>2, <1>3

\* Every step keeps the types.
LEMMA TypeStep ==
    ASSUME SubInv, [Next]_vars
    PROVE  TypeOK'
<1>1. CASE UNCHANGED vars
  BY <1>1 DEF SubInv, TypeOK, vars, dataVars, peerVars, lifeVars, queueVars, seedVars, timerVars,
              sendVars, historyVars
<1> QED
  BY <1>1, CommitsTyped, NewsTyped, ReadingTyped, SeedTyped, TimersTyped, OutcomesTyped, EndsTyped
     DEF Next, Commits, Reports, Timers

-------------------------------------------------------------------------------
(***************************************************************************)
(* The life of the subscription.                                           *)
(***************************************************************************)

\* A new report carries nothing yet.
LEMMA Fresh ==
    ASSUME NEW a, NEW f
    PROVE  /\ Report(a, f).st = "read" /\ Report(a, f).attrs = a /\ Report(a, f).left = a
           /\ Report(a, f).from = f
           /\ NoReport.st = "none" /\ NoReport.left = {} /\ NoReport.attrs = {}
           /\ NoReport.from = 0
           /\ \A c \in Clusters : /\ Report(a, f).vals[c] = Unknown
                                  /\ NoReport.vals[c] = Unknown
BY DEF Report, NoReport

\* After a report the loop has none, or a new one of what was outstanding.
LEMMA Afterwards ==
    ASSUME NEW a, NEW f, Continue(a, f)
    PROVE  \/ /\ report'.st = "none" /\ report'.attrs = {} /\ report'.from = 0
              /\ report'.left = {}
              /\ \A c \in Clusters : report'.vals[c] = Unknown
              /\ dirty' = a /\ minEvent' = f
           \/ /\ report'.st = "read" /\ report'.attrs = a /\ report'.from = f
              /\ report'.left = a
              /\ \A c \in Clusters : report'.vals[c] = Unknown
              /\ again /\ dirty' = {} /\ minEvent' = 0
<1>0. NoReport.st = "none" /\ Report(a, f).st = "read"
  BY Fresh
<1>1. \/ report' = NoReport /\ dirty' = a /\ minEvent' = f
      \/ report' = Report(a, f) /\ again /\ dirty' = {} /\ minEvent' = 0
  BY DEF Continue, Take
<1> QED
  BY <1>1, Fresh

\* What the peer holds of a cluster once a report has arrived.
LEMMA Arrives ==
    ASSUME TypeOK, Receive, NEW c \in Clusters
    PROVE  known'[c] = IF report.vals[c] = Unknown THEN known[c] ELSE report.vals[c]
BY DEF TypeOK, Receive, Carried

\* A cluster's numbers.
LEMMA Numbers ==
    ASSUME TypeOK, NEW c \in Clusters
    PROVE  /\ value[c] \in Values /\ version[c] \in Values /\ value[c] \in Int /\ version[c] \in Int
           /\ known[c] \in Int /\ report.vals[c] \in Int /\ Unknown \notin Values
           /\ known[c] \in Values \cup {Unknown} /\ report.vals[c] \in Values \cup {Unknown}
BY Bounds DEF TypeOK

\* Who may stop or start a timer knows where the subscription is in its life.
LEMMA LifeStep ==
    ASSUME SubInv, Next
    PROVE  LifeInv'
<1> USE DEF dataVars, peerVars, lifeVars, queueVars, seedVars, timerVars, sendVars, historyVars
<1>1. ASSUME NEW c \in Clusters, Commit1(c)
     PROVE  LifeInv'
  BY <1>1 DEF Commit1, SubInv, LifeInv
<1>2. ASSUME NEW c \in Clusters, Commit2(c)
     PROVE  LifeInv'
  BY <1>2 DEF Commit2, SubInv, LifeInv
<1>3. ASSUME NEW c \in Clusters, Notify(c)
     PROVE  LifeInv'
  BY <1>3 DEF Notify, Prepare, SubInv, LifeInv
<1>4. ASSUME NEW urgent \in BOOLEAN, AddEvent(urgent)
     PROVE  LifeInv'
  BY <1>4 DEF AddEvent, Prepare, SubInv, LifeInv
<1>5. ASSUME NEW c \in Clusters, ReadCluster(c)
     PROVE  LifeInv'
  BY <1>5, ClusterIsRead DEF ReadCluster, SubInv, LifeInv
<1>6. ASSUME ReadEvents
     PROVE  LifeInv'
  BY <1>6 DEF ReadEvents, SubInv, LifeInv
<1>7. ASSUME SeedDelivered
     PROVE  LifeInv'
  BY <1>7 DEF SeedDelivered, Receive, SubInv, LifeInv, NoReport
<1>8. ASSUME Respond
     PROVE  LifeInv'
  BY <1>8 DEF Respond, Take, SubInv, LifeInv, Report, NoReport
<1>9. ASSUME ReportDelivered
     PROVE  LifeInv'
  BY <1>9 DEF ReportDelivered, OnWire, Receive, Continue, Take, SubInv, LifeInv, Report, NoReport
<1>10. ASSUME DelayFires
     PROVE  LifeInv'
  BY <1>10 DEF DelayFires, Trigger, Take, SubInv, LifeInv, Report, NoReport
<1>11. ASSUME UpdateFires
     PROVE  LifeInv'
  BY <1>11 DEF UpdateFires, Prepare, SubInv, LifeInv
<1>12. ASSUME SeedFails
     PROVE  LifeInv'
  BY <1>12 DEF SeedFails, StopTimers, Spend, SubInv, LifeInv, NoReport
<1>13. ASSUME RespondFails
     PROVE  LifeInv'
  BY <1>13 DEF RespondFails, Spend, SubInv, LifeInv
<1>14. ASSUME ReportRefused
     PROVE  LifeInv'
  BY <1>14 DEF ReportRefused, OnWire, Continue, Take, Spend, SubInv, LifeInv, Report, NoReport, StopTimers
<1>15. ASSUME NEW kind \in {"network", "other"}, ReportFails(kind)
     PROVE  LifeInv'
  <2>1. report.st # "none" /\ phase # "seeding" /\ TypeOK
    BY <1>15 DEF ReportFails, SubInv
  <2>2. Report(Back[1], Back[2]).st = "read" /\ NoReport.st = "none"
    BY DEF Report, NoReport
  <2> QED
    BY <1>15, <2>1, <2>2, Failed, Continued DEF SubInv, LifeInv, StopTimers
<1>16. ASSUME NEW flush \in BOOLEAN, Close(flush)
     PROVE  LifeInv'
  BY <1>16 DEF Close, Trigger, Take, StopTimers, SubInv, LifeInv, Report, NoReport
<1>17. ASSUME CloseDone
     PROVE  LifeInv'
  BY <1>17 DEF CloseDone, StopTimers, SubInv, LifeInv
<1>18. ASSUME PeerCancel
     PROVE  LifeInv'
  BY <1>18 DEF PeerCancel, StopTimers, SubInv, LifeInv
<1>19. ASSUME Tick
     PROVE  LifeInv'
  BY <1>19 DEF Tick, SubInv, LifeInv
<1> QED
  BY <1>1, <1>2, <1>3, <1>4, <1>5, <1>6, <1>7, <1>8, <1>9, <1>10, <1>11, <1>12, <1>13, <1>14, <1>15, <1>16, <1>17, <1>18, <1>19
     DEF Next, Commits, Reports, Timers

\* The intervals are determined once.
LEMMA PlanStep ==
    ASSUME SubInv, Next
    PROVE  PlanFits'
<1>1. UNCHANGED plan
  BY DEF Next, Commits, Reports, Timers, Commit1, Commit2, Notify, AddEvent, ReadCluster, ReadEvents,
         SeedDelivered, Respond, ReportDelivered, DelayFires, UpdateFires, SeedFails, RespondFails,
         ReportRefused, ReportFails, Close, CloseDone, PeerCancel, Tick, Receive, peerVars
<1> QED
  BY <1>1 DEF SubInv, PlanFits

-------------------------------------------------------------------------------
(***************************************************************************)
(* Values, events and time.                                                *)
(***************************************************************************)

\* Whatever ends a report, what comes after it carries nothing yet.
LEMMA FreshReads ==
    ASSUME SubInv, UNCHANGED <<value, version>>, UNCHANGED known \/ Receive,
           report'.left \subseteq report'.attrs, report'.st # "read" => report'.left = {},
           \A c \in Clusters : report'.vals[c] = Unknown
    PROVE  ReadsInv'
<1> SUFFICES ASSUME NEW c \in Clusters
             PROVE  value'[c] <= version'[c] /\ known'[c] <= value'[c]
  BY DEF ReadsInv
<1>1. /\ value[c] <= version[c] /\ known[c] <= value[c]
      /\ report.vals[c] # Unknown => report.vals[c] <= value[c]
  BY DEF SubInv, ReadsInv
<1>2. known'[c] = known[c] \/ (report.vals[c] # Unknown /\ known'[c] = report.vals[c])
  BY Arrives DEF SubInv
<1> QED
  BY <1>1, <1>2

\* A commit makes a value newer, a reading takes the newest, an arrival what was read.
LEMMA ReadsStep ==
    ASSUME SubInv, Next
    PROVE  ReadsInv'
<1> USE DEF dataVars, peerVars, lifeVars, queueVars, seedVars, timerVars, sendVars, historyVars
<1>0. TypeOK /\ ReadsInv
  BY DEF SubInv
<1>1. ASSUME NEW c \in Clusters, Commit1(c) \/ Commit2(c)
      PROVE  ReadsInv'
  <2>1. UNCHANGED <<known, report>> /\ \A d \in Clusters \ {c} :
          value'[d] = value[d] /\ version'[d] = version[d]
    BY <1>0, <1>1 DEF Commit1, Commit2, TypeOK
  <2>2. \/ value'[c] = value[c] /\ version'[c] = version[c] + 1
        \/ value'[c] = value[c] + 1 /\ version'[c] = version[c] + 1
        \/ value'[c] = version[c] /\ version'[c] = version[c]
    BY <1>0, <1>1 DEF Commit1, Commit2, TypeOK
  <2>3. value[c] <= value'[c] /\ value'[c] <= version'[c]
    BY <1>0, <2>2, Numbers DEF ReadsInv
  <2>4. value'[c] \in Int /\ version'[c] \in Int
    BY <1>0, <2>2, Numbers
  <2>5. ASSUME NEW d \in Clusters
        PROVE  /\ value'[d] <= version'[d] /\ known[d] <= value'[d]
               /\ report.vals[d] # Unknown =>
                    /\ report.st # "none" /\ d \in report.attrs
                    /\ known[d] <= report.vals[d] /\ report.vals[d] <= value'[d]
    <3>1. CASE d = c
      BY <1>0, <2>3, <2>4, <3>1, Numbers DEF ReadsInv
    <3>2. CASE d # c
      BY <1>0, <2>1, <3>2 DEF ReadsInv
    <3> QED
      BY <3>1, <3>2
  <2> QED
    BY <1>0, <2>1, <2>5 DEF ReadsInv
<1>2. ASSUME NEW c \in Clusters, ReadCluster(c)
      PROVE  ReadsInv'
  <2>1. UNCHANGED <<value, version, known>>
    BY <1>2 DEF ReadCluster
  <2>2. /\ report'.st = "read" /\ c \in report.left /\ report'.attrs = report.attrs
        /\ report'.left = report.left \ {c}
    BY <1>0, <1>2, ClusterIsRead
  <2>3. \A d \in Clusters : \/ report'.vals[d] = report.vals[d]
                            \/ d = c /\ report'.vals[d] = value[d]
    <3>1. report.vals \in [Clusters -> Values \cup {Unknown}]
      BY <1>0 DEF TypeOK
    <3>2. report'.vals \in {report.vals, [report.vals EXCEPT ![c] = value[c]]}
      BY <1>0, <1>2, ClusterIsRead
    <3> QED
      BY <3>1, <3>2
  <2> QED
    BY <1>0, <2>1, <2>2, <2>3, Numbers DEF ReadsInv
<1>3. CASE ReadEvents
  BY <1>0, <1>3, EventsAreRead DEF ReadEvents, ReadsInv
<1>4. CASE SeedDelivered \/ SeedFails
  <2>1. UNCHANGED <<value, version>> /\ (UNCHANGED known \/ Receive) /\ report' = NoReport
    BY <1>4 DEF SeedDelivered, SeedFails
  <2> QED
    BY <2>1, Fresh, FreshReads
<1>5. CASE ReportDelivered \/ ReportRefused
  <2>1. UNCHANGED <<value, version>> /\ (UNCHANGED known \/ Receive) /\ Continue(dirty, minEvent)
    BY <1>5 DEF ReportDelivered, ReportRefused
  <2> QED
    BY <2>1, Afterwards, FreshReads
<1>6. ASSUME NEW kind \in {"network", "other"}, ReportFails(kind)
      PROVE  ReadsInv'
  <2>1. UNCHANGED <<value, version>> /\ (UNCHANGED known \/ Receive)
    BY <1>6 DEF ReportFails
  <2>2. report' = NoReport \/ Continue(Back[1], Back[2])
    BY <1>0, <1>6, Failed
  <2>3. CASE report' = NoReport
    BY <2>1, <2>3, Fresh, FreshReads
  <2>4. CASE Continue(Back[1], Back[2])
    BY <2>1, <2>4, Afterwards, FreshReads
  <2> QED
    BY <2>2, <2>3, <2>4
<1>7. CASE Respond \/ DelayFires \/ (\E flush \in BOOLEAN : Close(flush))
  <2>1. UNCHANGED <<value, version, known>>
    BY <1>7 DEF Respond, DelayFires, Close
  <2>2. \/ UNCHANGED report
        \/ report' = NoReport
        \/ \E a, f : report' = Report(a, f)
    BY <1>7 DEF Respond, DelayFires, Close, Trigger, Take
  <2> QED
    BY <1>0, <2>1, <2>2, Fresh, FreshReads DEF ReadsInv
<1>8. CASE \/ \E c \in Clusters : Notify(c)
           \/ \E urgent \in BOOLEAN : AddEvent(urgent)
           \/ RespondFails \/ UpdateFires \/ CloseDone \/ PeerCancel \/ Tick
  <2>1. UNCHANGED <<value, version, known, report>>
    BY <1>8 DEF Notify, AddEvent, RespondFails, UpdateFires, CloseDone, PeerCancel, Tick
  <2> QED
    BY <1>0, <2>1 DEF ReadsInv
<1> QED
  BY <1>1, <1>2, <1>3, <1>4, <1>5, <1>6, <1>7, <1>8 DEF Next, Commits, Reports, Timers

\* A change or an event is not queued once the subscription is closing, and a
\* report that fails then is given up with the queue.
LEMMA FlushStep ==
    ASSUME SubInv, Next
    PROVE  FlushInv'
<1> USE DEF dataVars, peerVars, lifeVars, queueVars, seedVars, timerVars, sendVars, historyVars
<1>1. ASSUME NEW c \in Clusters, Commit1(c)
     PROVE  FlushInv'
  BY <1>1 DEF Commit1, SubInv, FlushInv, LifeInv
<1>2. ASSUME NEW c \in Clusters, Commit2(c)
     PROVE  FlushInv'
  BY <1>2 DEF Commit2, SubInv, FlushInv, LifeInv
<1>3. ASSUME NEW c \in Clusters, Notify(c)
     PROVE  FlushInv'
  BY <1>3 DEF Notify, Listening, SubInv, FlushInv
<1>4. ASSUME NEW urgent \in BOOLEAN, AddEvent(urgent)
     PROVE  FlushInv'
  BY <1>4 DEF AddEvent, Listening, SubInv, FlushInv
<1>5. ASSUME NEW c \in Clusters, ReadCluster(c)
     PROVE  FlushInv'
  BY <1>5, ClusterIsRead DEF ReadCluster, OnWire, SubInv, FlushInv, LifeInv
<1>6. ASSUME ReadEvents
     PROVE  FlushInv'
  BY <1>6, EventsAreRead DEF ReadEvents, OnWire, SubInv, FlushInv, LifeInv
<1>7. ASSUME SeedDelivered
     PROVE  FlushInv'
  BY <1>7 DEF SeedDelivered, Receive, SubInv, FlushInv, LifeInv, NoReport
<1>8. ASSUME Respond
     PROVE  FlushInv'
  BY <1>8 DEF Respond, Take, SubInv, FlushInv, LifeInv, Report, NoReport
<1>9. ASSUME ReportDelivered
     PROVE  FlushInv'
  BY <1>9, Continued DEF ReportDelivered, OnWire, SubInv, FlushInv, LifeInv, Carried, Report, NoReport
<1>10. ASSUME DelayFires
     PROVE  FlushInv'
  BY <1>10 DEF DelayFires, Trigger, Take, SubInv, FlushInv, LifeInv, Report, NoReport
<1>11. ASSUME UpdateFires
     PROVE  FlushInv'
  BY <1>11 DEF UpdateFires, Prepare, SubInv, FlushInv, LifeInv
<1>12. ASSUME SeedFails
     PROVE  FlushInv'
  BY <1>12 DEF SeedFails, StopTimers, Spend, SubInv, FlushInv, LifeInv, NoReport
<1>13. ASSUME RespondFails
     PROVE  FlushInv'
  BY <1>13 DEF RespondFails, Spend, SubInv, FlushInv, LifeInv
<1>14. ASSUME ReportRefused
     PROVE  FlushInv'
  BY <1>14, Continued DEF ReportRefused, OnWire, SubInv, FlushInv, LifeInv, Report, NoReport
<1>15. ASSUME NEW kind \in {"network", "other"}, ReportFails(kind)
     PROVE  FlushInv'
  <2>1. CASE phase = "closing"
    <3>1. closed /\ TypeOK
      BY <2>1 DEF SubInv, LifeInv
    <3>2. /\ report' = NoReport /\ UNCHANGED <<dirty, minEvent>>
          /\ missed' = missed \cup Lost \cup Queued
      BY <1>15, <3>1, Failed
    <3> QED
      BY <3>2, Fresh DEF FlushInv, Queued
  <2>2. CASE phase # "closing"
    BY <1>15, <2>2, Failed DEF SubInv, FlushInv
  <2> QED
    BY <2>1, <2>2
<1>16. ASSUME NEW flush \in BOOLEAN, Close(flush)
     PROVE  FlushInv'
  BY <1>16 DEF Close, Trigger, Take, StopTimers, SubInv, FlushInv, LifeInv, Report, NoReport
<1>17. ASSUME CloseDone
     PROVE  FlushInv'
  BY <1>17 DEF CloseDone, StopTimers, SubInv, FlushInv, LifeInv
<1>18. ASSUME PeerCancel
     PROVE  FlushInv'
  BY <1>18 DEF PeerCancel, StopTimers, SubInv, FlushInv, LifeInv
<1>19. ASSUME Tick
     PROVE  FlushInv'
  BY <1>19 DEF Tick, SubInv, FlushInv, LifeInv
<1> QED
  BY <1>1, <1>2, <1>3, <1>4, <1>5, <1>6, <1>7, <1>8, <1>9, <1>10, <1>11, <1>12, <1>13, <1>14, <1>15, <1>16, <1>17, <1>18, <1>19
     DEF Next, Commits, Reports, Timers

\* The numbers of events.
LEMMA EventNumbers ==
    ASSUME SubInv
    PROVE  /\ events \in Nat /\ minEvent \in Nat /\ lastSeeded \in Nat
           /\ report.from \in Nat /\ report.upto \in Nat
           /\ minEvent <= events /\ lastSeeded <= events
           /\ phase # "seeding" => report.from <= events
<1>1. report \in ReportTypes
  BY ReportIsTyped DEF SubInv
<1>2. report.from \in 0 .. Larger(1, MaxEvents) /\ report.upto \in 0 .. MaxEvents
  BY <1>1 DEF ReportTypes
<1>3. events \in 0 .. MaxEvents /\ minEvent \in 0 .. MaxEvents /\ lastSeeded \in 0 .. MaxEvents
  BY DEF SubInv, TypeOK
<1> QED
  BY <1>2, <1>3, Bounds DEF SubInv, EventsInv, NumbersInv

\* While the seed is sent and answered the events are in it or queued.
LEMMA SeedKeepsEvents ==
    ASSUME SubInv
    PROVE  NoEventLost
<1> SUFFICES ASSUME Live, "events" \notin missed, NEW e \in 1 .. events
             PROVE  e \in got \/ Pending(e)
  BY DEF NoEventLost
<1>1. SeedInv /\ QueueInv /\ report.st \in {"none", "read", "wire"}
  BY DEF SubInv, EventsInv, TypeOK
<1>2. CASE phase = "active"
  BY <1>1, <1>2 DEF QueueInv
<1>3. CASE phase = "seeding"
  <2>1. report.from = 1 /\ report.st \in {"read", "wire"}
    BY <1>1, <1>3 DEF SubInv, LifeInv, SeedInv
  <2>2. CASE report.st = "read"
    BY <2>1, <2>2, EventNumbers DEF Pending
  <2>3. CASE report.st = "wire"
    BY <1>1, <1>3, <2>1, <2>3, EventNumbers DEF Pending, CarriedEvents, SeedInv
  <2> QED
    BY <2>1, <2>2, <2>3
<1>4. CASE phase = "responding"
  BY <1>1, <1>4, EventNumbers DEF Pending, SeedInv
<1> QED
  BY <1>2, <1>3, <1>4 DEF Live

\* Events are queued, reported, put back or given up, and numbered in between.
LEMMA EventsStep ==
    ASSUME SubInv, Next
    PROVE  EventsInv'
<1> USE DEF dataVars, peerVars, lifeVars, queueVars, seedVars, timerVars, sendVars, historyVars
<1>0. TypeOK /\ LifeInv /\ NumbersInv /\ SeedInv /\ QueueInv
  BY DEF SubInv, EventsInv
<1>1. CASE \/ \E c \in Clusters : Commit1(c) \/ Commit2(c) \/ Notify(c)
           \/ UpdateFires \/ Tick
  <2>1. UNCHANGED <<events, got, minEvent, lastSeeded, report, phase>>
        /\ missed \subseteq missed'
    BY <1>1 DEF Commit1, Commit2, Notify, UpdateFires, Tick
  <2> QED
    BY <1>0, <2>1 DEF EventsInv, NumbersInv, SeedInv, QueueInv, Pending, CarriedEvents
<1>2. CASE RespondFails \/ CloseDone \/ PeerCancel
  <2>1. UNCHANGED <<events, minEvent, lastSeeded, report>> /\ phase # "seeding"
        /\ phase' \in {"orphan", "gone"}
    BY <1>2 DEF RespondFails, CloseDone, PeerCancel
  <2> QED
    BY <1>0, <2>1 DEF EventsInv, NumbersInv, SeedInv, QueueInv
<1>3. CASE SeedFails
  <2>1. UNCHANGED <<events, minEvent, lastSeeded>> /\ report' = NoReport /\ phase' = "gone"
    BY <1>3 DEF SeedFails
  <2>2. report'.from = 0
    BY <2>1, Fresh
  <2> QED
    BY <1>0, <2>1, <2>2, EventNumbers DEF EventsInv, NumbersInv, SeedInv, QueueInv
<1>4. ASSUME NEW urgent \in BOOLEAN, AddEvent(urgent)
      PROVE  EventsInv'
  <2>1. events' = events + 1 /\ UNCHANGED <<got, lastSeeded, report, phase, missed>>
    BY <1>4 DEF AddEvent
  <2>2. /\ minEvent' \in {minEvent, events'}
        /\ phase \in {"seeding", "responding"} => minEvent' = events'
        /\ phase = "active" => minEvent' = IF minEvent = 0 THEN events' ELSE minEvent
    BY <1>4 DEF AddEvent, Listening, Seeding
  <2>3. NumbersInv'
    BY <2>1, <2>2, EventNumbers DEF NumbersInv
  <2>4. SeedInv'
    BY <1>0, <2>1, <2>2 DEF SeedInv
  <2>5. QueueInv'
    <3> SUFFICES ASSUME phase = "active"
                 PROVE  /\ minEvent' # 0 => report'.from <= minEvent'
                        /\ "events" \notin missed' =>
                             \A e \in 1 .. events' : e \in got' \/ Pending(e)'
      BY <2>1 DEF QueueInv
    <3>1. report.from <= minEvent'
      BY <1>0, <2>1, <2>2, EventNumbers DEF QueueInv
    <3>2. ASSUME "events" \notin missed, NEW e \in 1 .. events'
          PROVE  e \in got \/ Pending(e)'
      <4>1. CASE e \in 1 .. events
        <5>1. e \in got \/ Pending(e)
          BY <1>0, <3>2, <4>1 DEF QueueInv
        <5>2. Pending(e) => Pending(e)'
          BY <2>1, <2>2 DEF Pending, CarriedEvents
        <5> QED
          BY <5>1, <5>2
      <4>2. CASE e = events'
        <5>1. minEvent' \in 1 .. e
          BY <2>1, <2>2, <4>2, EventNumbers
        <5> QED
          BY <2>1, <5>1 DEF Pending
      <4> QED
        BY <2>1, <4>1, <4>2, EventNumbers
    <3> QED
      BY <2>1, <3>1, <3>2
  <2> QED
    BY <2>3, <2>4, <2>5 DEF EventsInv
<1>5. ASSUME NEW c \in Clusters, ReadCluster(c)
      PROVE  EventsInv'
  <2>1. UNCHANGED <<events, got, minEvent, lastSeeded, phase, missed>>
    BY <1>5 DEF ReadCluster
  <2>2. /\ report.st = "read" /\ report'.st = "read"
        /\ report'.from = report.from /\ report'.upto = report.upto
    BY <1>0, <1>5, ClusterIsRead
  <2> QED
    BY <1>0, <2>1, <2>2 DEF EventsInv, NumbersInv, SeedInv, QueueInv, Pending, CarriedEvents
<1>6. CASE ReadEvents
  <2>1. /\ UNCHANGED <<events, got, minEvent, phase, missed>>
        /\ phase = "seeding" => lastSeeded' = events
        /\ phase # "seeding" => lastSeeded' = lastSeeded
    BY <1>6 DEF ReadEvents
  <2>2. /\ report.st = "read" /\ report'.st = "wire" /\ report'.from = report.from
        /\ report'.upto = IF report.from = 0 THEN 0 ELSE events
    BY <1>0, <1>6, EventsAreRead
  <2>3. NumbersInv'
    BY <2>1, <2>2, EventNumbers DEF NumbersInv
  <2>4. SeedInv'
    BY <1>0, <2>1, <2>2, EventNumbers DEF SeedInv
  <2>5. QueueInv'
    <3>1. ASSUME phase = "active", NEW e \in 1 .. events, Pending(e)
          PROVE  Pending(e)'
      BY <2>1, <2>2, <3>1, EventNumbers DEF Pending, CarriedEvents
    <3> QED
      BY <1>0, <2>1, <2>2, <3>1 DEF QueueInv
  <2> QED
    BY <2>3, <2>4, <2>5 DEF EventsInv
<1>7. CASE SeedDelivered
  <2>1. /\ phase = "seeding" /\ report.st = "wire" /\ phase' = "responding" /\ report' = NoReport
        /\ UNCHANGED <<events, minEvent, lastSeeded>> /\ got' = got \cup CarriedEvents
    BY <1>7 DEF SeedDelivered, Receive
  <2>2. CarriedEvents = 1 .. lastSeeded
    BY <1>0, <2>1 DEF SeedInv, CarriedEvents
  <2>3. report'.from = 0
    BY <2>1, Fresh
  <2> QED
    BY <1>0, <2>1, <2>2, <2>3, EventNumbers DEF EventsInv, NumbersInv, SeedInv, QueueInv
<1>8. CASE Respond
  <2>1. /\ phase = "responding" /\ phase' = "active" /\ UNCHANGED <<events, got, missed>>
        /\ lastSeeded' = 0 /\ minEvent' = 0
        /\ \/ report' = Report(dirty, SeedGap)
           \/ UNCHANGED report /\ SeedGap = 0
    BY <1>8 DEF Respond, Take
  <2>2. SeedGap <= events /\ (lastSeeded < events => SeedGap = lastSeeded + 1)
    BY <1>0, <2>1, EventNumbers DEF SeedGap, SeedInv
  <2>3. \/ report'.st = "read" /\ report'.from = SeedGap
        \/ report'.from = report.from /\ SeedGap = 0
    BY <2>1, Fresh
  <2>4. NumbersInv'
    BY <2>1, <2>2, <2>3, EventNumbers DEF NumbersInv
  <2>5. ASSUME NEW e \in 1 .. events
        PROVE  e \in got \/ Pending(e)'
    <3>1. CASE e <= lastSeeded
      BY <1>0, <2>1, <3>1, EventNumbers DEF SeedInv
    <3>2. CASE lastSeeded < e
      <4>1. SeedGap = lastSeeded + 1
        BY <2>2, <3>2, EventNumbers
      <4> QED
        BY <2>3, <3>2, <4>1, EventNumbers DEF Pending
    <3> QED
      BY <3>1, <3>2, EventNumbers
  <2> QED
    BY <2>1, <2>4, <2>5 DEF EventsInv, SeedInv, QueueInv
<1>9. CASE DelayFires
  <2>1. phase = "active" /\ UNCHANGED <<events, got, lastSeeded, phase, missed>>
    BY <1>0, <1>9 DEF DelayFires, LifeInv
  <2>2. \/ UNCHANGED <<report, minEvent>>
        \/ report' = Report(dirty, minEvent) /\ minEvent' = 0 /\ report.st = "none"
    BY <1>9 DEF DelayFires, Trigger, Take
  <2>3. CASE UNCHANGED <<report, minEvent>>
    BY <1>0, <2>1, <2>3 DEF EventsInv, NumbersInv, SeedInv, QueueInv, Pending, CarriedEvents
  <2>4. CASE report' = Report(dirty, minEvent) /\ minEvent' = 0 /\ report.st = "none"
    <3>1. report'.st = "read" /\ report'.from = minEvent
      BY <2>4, Fresh
    <3>2. NumbersInv' /\ SeedInv'
      BY <2>1, <2>4, <3>1, EventNumbers DEF NumbersInv, SeedInv
    <3>3. ASSUME NEW e \in 1 .. events, Pending(e)
          PROVE  Pending(e)'
      BY <2>1, <2>4, <3>1, <3>3 DEF Pending
    <3> QED
      BY <1>0, <2>1, <2>4, <3>2, <3>3 DEF EventsInv, QueueInv
  <2> QED
    BY <2>2, <2>3, <2>4
<1>10. CASE ReportDelivered
  <2>1. /\ phase # "seeding" /\ UNCHANGED <<events, lastSeeded, phase>>
        /\ got' = got \cup CarriedEvents /\ missed' = missed \ Carried
        /\ Continue(dirty, minEvent) /\ report.st = "wire"
    BY <1>10 DEF ReportDelivered, OnWire, Receive
  <2>2. phase # "responding"
    BY <1>0, <2>1 DEF LifeInv
  <2>3. \/ report'.from = 0 /\ minEvent' = minEvent
        \/ report'.st = "read" /\ report'.from = minEvent /\ minEvent' = 0
    BY <2>1, Afterwards
  <2>4. NumbersInv' /\ SeedInv'
    BY <2>1, <2>2, <2>3, EventNumbers DEF NumbersInv, SeedInv
  <2>5. QueueInv'
    <3>1. "events" \notin missed' => "events" \notin missed
      BY <2>1, NamesAssumption DEF Carried
    <3>2. ASSUME phase = "active", NEW e \in 1 .. events, e \in got \/ Pending(e)
          PROVE  e \in got' \/ Pending(e)'
      BY <2>1, <2>3, <3>2 DEF Pending
    <3>3. minEvent' # 0 => report'.from <= minEvent'
      BY <2>3, EventNumbers
    <3> QED
      BY <1>0, <2>1, <3>1, <3>2, <3>3 DEF QueueInv
  <2> QED
    BY <2>4, <2>5 DEF EventsInv
<1>11. CASE ReportRefused
  <2>1. /\ phase # "seeding" /\ UNCHANGED <<events, lastSeeded>> /\ Continue(dirty, minEvent)
        /\ report.st = "wire" /\ phase' = IF closed THEN phase ELSE "gone"
    BY <1>11 DEF ReportRefused, OnWire
  <2>2. phase' \notin {"seeding", "responding", "active"}
    BY <1>0, <2>1 DEF LifeInv
  <2>3. \/ report'.from = 0 /\ minEvent' = minEvent
        \/ report'.from = minEvent /\ minEvent' = 0
    BY <2>1, Afterwards
  <2> QED
    BY <2>1, <2>2, <2>3, EventNumbers DEF EventsInv, NumbersInv, SeedInv, QueueInv
<1>12. ASSUME NEW kind \in {"network", "other"}, ReportFails(kind)
       PROVE  EventsInv'
  <2>1. /\ phase # "seeding" /\ report.st # "none" /\ UNCHANGED <<events, lastSeeded>>
        /\ got \subseteq got' /\ (kind = "other" => got' = got)
    BY <1>12 DEF ReportFails, Receive
  <2>2. phase # "responding"
    BY <1>0, <2>1 DEF LifeInv
  <2>3. CASE report' = NoReport /\ UNCHANGED minEvent
             /\ phase' \notin {"seeding", "responding", "active"}
    <3>1. report'.from = 0
      BY <2>3, Fresh
    <3> QED
      BY <2>1, <2>3, <3>1, EventNumbers DEF EventsInv, NumbersInv, SeedInv, QueueInv
  <2>5. CASE report' = NoReport /\ UNCHANGED <<minEvent, phase>> /\ missed' = missed \cup Lost
    <3>1. report'.from = 0 /\ report'.st = "none"
      BY <2>5, Fresh
    <3>2. NumbersInv' /\ SeedInv'
      BY <2>1, <2>2, <2>5, <3>1, EventNumbers DEF NumbersInv, SeedInv
    <3>3. "events" \notin missed' => "events" \notin missed /\ report.from = 0
      BY <2>5 DEF Lost
    <3>4. ASSUME NEW e \in 1 .. events, phase = "active", report.from = 0, e \in got \/ Pending(e)
          PROVE  e \in got' \/ Pending(e)'
      BY <2>1, <2>5, <3>4 DEF Pending, CarriedEvents
    <3>5. minEvent' # 0 => report'.from <= minEvent'
      BY <2>5, <3>1, EventNumbers
    <3> QED
      BY <1>0, <2>1, <2>5, <3>2, <3>3, <3>4, <3>5 DEF EventsInv, QueueInv
  <2>4. CASE Continue(Back[1], Back[2]) /\ UNCHANGED <<phase, missed>>
    <3>1. Back[2] = IF report.from = 0 THEN minEvent ELSE report.from
      BY DEF Back
    <3>2. \/ report'.from = 0 /\ minEvent' = Back[2]
          \/ report'.st = "read" /\ report'.from = Back[2] /\ minEvent' = 0
      BY <2>4, Afterwards
    <3>3. NumbersInv' /\ SeedInv'
      BY <2>1, <2>2, <2>4, <3>1, <3>2, EventNumbers DEF NumbersInv, SeedInv
    <3>4. ASSUME phase = "active", NEW e \in 1 .. events, e \in got \/ Pending(e)
          PROVE  e \in got' \/ Pending(e)'
      <4>1. e \in got \/ Back[2] \in 1 .. e
        <5>1. minEvent # 0 => report.from <= minEvent
          BY <1>0, <3>4 DEF QueueInv
        <5> QED
          BY <3>1, <3>4, <5>1, EventNumbers DEF Pending, CarriedEvents
      <4> QED
        BY <2>1, <2>4, <3>2, <3>4, <4>1 DEF Pending
    <3>5. minEvent' # 0 => report'.from <= minEvent'
      BY <3>1, <3>2, EventNumbers
    <3> QED
      BY <1>0, <2>1, <2>4, <3>3, <3>4, <3>5 DEF EventsInv, QueueInv
  <2>6. closed => phase \notin {"seeding", "responding", "active"}
    BY <1>0 DEF LifeInv
  <2> QED
    BY <1>0, <1>12, <2>3, <2>4, <2>5, <2>6, Failed
<1>13. ASSUME NEW flush \in BOOLEAN, Close(flush)
       PROVE  EventsInv'
  <2>1. phase = "active" /\ phase' \in {"closing", "gone"} /\ UNCHANGED <<events, lastSeeded>>
    BY <1>13 DEF Close
  <2>2. \/ UNCHANGED <<report, minEvent>>
        \/ report' = NoReport /\ minEvent' = 0
        \/ report' = Report(dirty, minEvent) /\ minEvent' = 0
    BY <1>13 DEF Close, Trigger, Take
  <2>3. \/ UNCHANGED <<report, minEvent>>
        \/ report'.from \in {0, minEvent} /\ minEvent' = 0
    BY <2>2, Fresh
  <2> QED
    BY <2>1, <2>3, EventNumbers DEF EventsInv, NumbersInv, SeedInv, QueueInv
<1> QED
  BY <1>1, <1>2, <1>3, <1>4, <1>5, <1>6, <1>7, <1>8, <1>9, <1>10, <1>11, <1>12, <1>13
     DEF Next, Commits, Reports, Timers

\* The parts of ChangesInv, and what they rest on, for one cluster.
LEMMA OneCluster ==
    ASSUME SubInv, NEW c \in Clusters
    PROVE  /\ TypeOK /\ LifeInv /\ ReadsInv /\ NoChangeLost
           /\ Live /\ c \notin missed => known[c] = value[c] \/ c \in dirty \cup notices \/ Brings(c)
           /\ phase = "active" => report.vals[c] \in {Unknown, value[c]} \/ c \in dirty \cup notices
           /\ phase = "seeding" /\ c \in filter => known[c] = 0
           /\ value[c] \in Int /\ value[c] # Unknown
BY Numbers DEF SubInv, ChangesInv, NoChangeLost

\* What is queued when a report ends stays queued or is in the next report.
LEMMA StaysQueued ==
    ASSUME NEW a, NEW f, Continue(a, f), UNCHANGED notices, NEW c \in Clusters
    PROVE  /\ c \in a \cup notices => c \in dirty' \cup notices' \/ Brings(c)'
           /\ report'.vals[c] = Unknown
BY Afterwards DEF Brings

\* A value the peer lacks stays queued, on its way or yet to be told.  The case of
\* a change that is dropped during the seed is the hard one: the version it is
\* dropped for is the version of a value that the seed or the peer has.
LEMMA ChangesStep ==
    ASSUME SubInv, Next
    PROVE  ChangesInv'
<1> USE DEF dataVars, peerVars, lifeVars, queueVars, seedVars, timerVars, sendVars, historyVars
<1>0. TypeOK /\ LifeInv /\ ReadsInv /\ ChangesInv /\ NoChangeLost
  BY DEF SubInv, ChangesInv
<1>1. ASSUME NEW c \in Clusters, Commit1(c) \/ Commit2(c)
      PROVE  ChangesInv'
  <2>1. UNCHANGED <<known, report, phase, filter, dirty, missed>> /\ notices \subseteq notices'
        /\ \A d \in Clusters : value'[d] = value[d] \/ d \in notices'
    BY <1>0, <1>1 DEF Commit1, Commit2, TypeOK
  <2> QED
    BY <1>0, <2>1 DEF ChangesInv, NoChangeLost, Live, Brings
<1>2. ASSUME NEW c \in Clusters, Notify(c)
      PROVE  ChangesInv'
  <2>1. UNCHANGED <<value, known, report, phase, filter>> /\ notices' = notices \ {c}
        /\ dirty \subseteq dirty' /\ missed \subseteq missed'
    BY <1>2 DEF Notify
  <2>2. Listening /\ ~Drops(c) => c \in dirty'
    BY <1>2 DEF Notify
  <2>3. Listening /\ Drops(c) => \/ c \in missed' \/ ~Suspect(c) \/ SeedHas(c)
                                 \/ known[c] = value[c]
    BY <1>2 DEF Notify
  <2>4. phase = "active" => c \in dirty'
    BY <2>2 DEF Listening, Drops, Seeding
  <2>5. ASSUME Live, Drops(c), ~Suspect(c), ~SeedHas(c)
        PROVE  known[c] = value[c]
    <3>1. phase \in {"seeding", "responding"}
      BY <2>5 DEF Live, Drops, Seeding
    <3>2. c \notin report.left
      BY <1>0, <2>5, <3>1 DEF LifeInv, ReadsInv, SeedHas
    <3>3. seeded[c] # Unknown /\ seeded[c] = version[c]
          /\ seeded[c] = IF phase = "seeding" THEN report.vals[c] ELSE known[c]
      BY <2>5, <3>2 DEF Suspect, Drops
    <3>4. CASE phase = "seeding"
      <4>1. report.vals[c] = version[c] /\ report.vals[c] # Unknown
        BY <3>3, <3>4
      <4>2. report.vals[c] <= value[c] /\ value[c] <= version[c]
        BY <1>0, <4>1 DEF ReadsInv
      <4>3. report.vals[c] = value[c]
        BY <1>0, <4>1, <4>2, Numbers
      <4> QED
        BY <2>5, <3>4, <4>3 DEF SeedHas
    <3>5. CASE phase = "responding"
      <4>1. known[c] = version[c] /\ value[c] <= version[c] /\ known[c] <= value[c]
        BY <1>0, <3>3, <3>5 DEF ReadsInv
      <4> QED
        BY <1>0, <4>1, Numbers
    <3> QED
      BY <3>1, <3>4, <3>5
  <2>6. Live /\ c \notin missed' => known[c] = value[c] \/ c \in dirty' \/ Brings(c)
    <3>1. Live => Listening
      BY DEF Live, Listening
    <3>2. SeedHas(c) => Brings(c)
      BY <1>0 DEF SeedHas, Brings, LifeInv
    <3> QED
      BY <2>2, <2>3, <2>5, <3>1, <3>2
  <2>7. Live' <=> Live
    BY <2>1 DEF Live
  <2>8. \A d \in Clusters : Brings(d)' <=> Brings(d)
    BY <2>1 DEF Brings
  <2>9. ASSUME NEW d \in Clusters \ missed', Live'
        PROVE  known'[d] = value'[d] \/ d \in dirty' \cup notices' \/ Brings(d)'
    BY <1>0, <2>1, <2>6, <2>7, <2>8, <2>9 DEF NoChangeLost
  <2>10. ASSUME phase' = "active", NEW d \in Clusters
         PROVE  report'.vals[d] \in {Unknown, value'[d]} \/ d \in dirty' \cup notices'
    BY <1>0, <2>1, <2>4, <2>10 DEF ChangesInv
  <2> QED
    BY <1>0, <2>1, <2>9, <2>10 DEF ChangesInv, NoChangeLost
<1>3. ASSUME NEW c \in Clusters, ReadCluster(c)
      PROVE  ChangesInv'
  <2>1. UNCHANGED <<value, version, known, phase, filter, dirty, notices, missed>>
    BY <1>3 DEF ReadCluster
  <2>2. /\ report.st = "read" /\ report'.st = "read" /\ report'.left = report.left \ {c}
        /\ report'.vals = IF Skipped(c) THEN report.vals
                          ELSE [report.vals EXCEPT ![c] = value[c]]
    BY <1>0, <1>3, ClusterIsRead
  <2>3. report.vals \in [Clusters -> Values \cup {Unknown}]
    BY <1>0 DEF TypeOK
  <2>4. \A d \in Clusters \ {c} : report'.vals[d] = report.vals[d]
    BY <2>2, <2>3
  <2>5. \/ report'.vals[c] = value[c]
        \/ Skipped(c) /\ report'.vals[c] = report.vals[c]
    BY <2>2, <2>3
  <2>6. Skipped(c) => phase = "seeding" /\ known[c] = value[c]
    <3>1. SUFFICES ASSUME Skipped(c)
                   PROVE  known[c] = value[c] /\ phase = "seeding"
      OBVIOUS
    <3>2. phase = "seeding" /\ known[c] = 0 /\ version[c] = 0
      BY <1>0, <3>1 DEF Skipped, ChangesInv
    <3>3. value[c] <= version[c] /\ known[c] <= value[c]
      BY <1>0 DEF ReadsInv
    <3> QED
      BY <1>0, <3>2, <3>3, Numbers
  <2>7. ASSUME NEW d \in Clusters
        PROVE  /\ Live /\ d \notin missed => known[d] = value[d] \/ d \in dirty \cup notices \/ Brings(d)'
               /\ phase = "active" => report'.vals[d] \in {Unknown, value[d]} \/ d \in dirty \cup notices
    <3>1. CASE d = c
      BY <2>1, <2>2, <2>5, <2>6, <3>1 DEF Brings
    <3>2. CASE d # c
      BY <2>1, <2>2, <2>4, <3>2, OneCluster DEF Brings
    <3> QED
      BY <3>1, <3>2
  <2> QED
    BY <1>0, <2>1, <2>7 DEF ChangesInv, NoChangeLost, Live
<1>4. CASE ReadEvents
  <2>1. UNCHANGED <<value, known, phase, filter, dirty, notices, missed>>
    BY <1>4 DEF ReadEvents
  <2>2. report'.st # "none" /\ report'.left = report.left /\ report'.vals = report.vals
    BY <1>0, <1>4, EventsAreRead
  <2> QED
    BY <1>0, <2>1, <2>2 DEF ChangesInv, NoChangeLost, Live, Brings
<1>5. CASE SeedDelivered
  <2>1. /\ report.st = "wire" /\ phase = "seeding" /\ phase' = "responding" /\ Receive
        /\ UNCHANGED <<value, dirty, notices, missed>>
    BY <1>5 DEF SeedDelivered
  <2>2. ASSUME NEW c \in Clusters \ missed
        PROVE  known'[c] = value[c] \/ c \in dirty \cup notices
    <3>1. known[c] = value[c] \/ c \in dirty \cup notices \/ Brings(c)
      BY <2>1, OneCluster DEF Live
    <3>2. Brings(c) => report.vals[c] = value[c]
      BY <1>0, <2>1 DEF Brings, ReadsInv
    <3>3. report.vals[c] # Unknown => known[c] <= report.vals[c] /\ report.vals[c] <= value[c]
      BY <1>0 DEF ReadsInv
    <3>4. known[c] = value[c] => report.vals[c] \in {Unknown, value[c]}
      BY <1>0, <3>3, Numbers
    <3>5. value[c] # Unknown
      BY OneCluster
    <3> QED
      BY <1>0, <2>1, <3>1, <3>2, <3>4, <3>5, Arrives
  <2> QED
    BY <2>1, <2>2 DEF ChangesInv, NoChangeLost
<1>6. CASE Respond
  <2>1. /\ phase = "responding" /\ phase' = "active" /\ UNCHANGED <<value, known, notices, missed>>
        /\ \/ report' = Report(dirty, SeedGap) /\ dirty' = {}
           \/ UNCHANGED <<report, dirty>>
    BY <1>6 DEF Respond, Take
  <2>2. report.st = "none" /\ \A c \in Clusters : report.vals[c] = Unknown
    BY <1>0, <2>1 DEF LifeInv, ReadsInv
  <2>3. \A c \in Clusters : report'.vals[c] = Unknown
    BY <2>1, <2>2, Fresh
  <2>4. \A c \in Clusters : c \in dirty => c \in dirty' \/ Brings(c)'
    BY <2>1, Fresh DEF Brings
  <2> QED
    BY <1>0, <2>1, <2>2, <2>3, <2>4 DEF ChangesInv, NoChangeLost, Live, Brings
<1>7. CASE DelayFires
  <2>1. phase = "active" /\ UNCHANGED <<value, known, phase, notices, missed>>
    BY <1>0, <1>7 DEF DelayFires, LifeInv
  <2>2. \/ UNCHANGED <<report, dirty>>
        \/ report.st = "none" /\ report' = Report(dirty, minEvent) /\ dirty' = {}
    BY <1>7 DEF DelayFires, Trigger, Take
  <2>3. CASE UNCHANGED <<report, dirty>>
    BY <1>0, <2>1, <2>3 DEF ChangesInv, NoChangeLost, Live, Brings
  <2>4. CASE report.st = "none" /\ report' = Report(dirty, minEvent) /\ dirty' = {}
    <3>1. \A c \in Clusters : report'.vals[c] = Unknown /\ (c \in dirty => Brings(c)')
      BY <2>4, Fresh DEF Brings
    <3> QED
      BY <1>0, <2>1, <2>4, <3>1 DEF ChangesInv, NoChangeLost, Live, Brings
  <2> QED
    BY <2>2, <2>3, <2>4
<1>8. CASE ReportDelivered
  <2>1. /\ phase # "seeding" /\ report.st = "wire" /\ Receive /\ UNCHANGED <<value, phase, notices>>
        /\ missed' = missed \ Carried /\ Continue(dirty, minEvent)
    BY <1>8 DEF ReportDelivered, OnWire
  <2>2. phase # "responding"
    BY <1>0, <2>1 DEF LifeInv
  <2>3. ASSUME phase = "active", NEW c \in Clusters \ missed'
        PROVE  known'[c] = value[c] \/ c \in dirty \cup notices
    <3>1. CASE report.vals[c] = Unknown
      <4>1. c \notin missed /\ known'[c] = known[c]
        BY <1>0, <2>1, <2>3, <3>1, Arrives DEF Carried
      <4>2. ~Brings(c)
        BY <1>0, <2>1, <3>1, OneCluster DEF Brings, ReadsInv
      <4> QED
        BY <2>3, <4>1, <4>2, OneCluster DEF Live
    <3>2. CASE report.vals[c] # Unknown
      BY <1>0, <2>1, <2>3, <3>2, Arrives, OneCluster
    <3> QED
      BY <3>1, <3>2
  <2>4. \A c \in Clusters : /\ c \in dirty \cup notices => c \in dirty' \cup notices' \/ Brings(c)'
                            /\ report'.vals[c] = Unknown
    BY <2>1, StaysQueued
  <2> QED
    BY <2>1, <2>2, <2>3, <2>4 DEF ChangesInv, NoChangeLost, Live
<1>9. ASSUME NEW kind \in {"network", "other"}, ReportFails(kind)
      PROVE  ChangesInv'
  <2>1. /\ phase # "seeding" /\ report.st # "none" /\ UNCHANGED <<value, notices>>
        /\ UNCHANGED known \/ (kind = "network" /\ Receive)
    BY <1>9 DEF ReportFails
  <2>2. phase # "responding"
    BY <1>0, <2>1 DEF LifeInv
  <2>3. ASSUME phase = "active", NEW c \in Clusters \ missed, c \notin report.attrs
        PROVE  known'[c] = value[c] \/ c \in dirty \cup notices
    <3>1. report.vals[c] = Unknown /\ c \notin report.left
      BY <1>0, <2>3 DEF ReadsInv
    <3>2. known'[c] = known[c]
      BY <1>0, <2>1, <3>1, Arrives
    <3>3. ~Brings(c)
      BY <3>1, OneCluster DEF Brings
    <3> QED
      BY <2>3, <3>2, <3>3, OneCluster DEF Live
  <2>4. CASE phase' \notin {"seeding", "responding", "active"}
    BY <2>4 DEF ChangesInv, NoChangeLost, Live
  <2>5. CASE Continue(Back[1], Back[2]) /\ UNCHANGED <<phase, missed>>
    <3>1. Back[1] = dirty \cup report.attrs
      BY DEF Back
    <3>2. \A c \in Clusters :
            /\ c \in dirty \cup report.attrs \cup notices => c \in dirty' \cup notices' \/ Brings(c)'
            /\ report'.vals[c] = Unknown
      BY <2>1, <2>5, <3>1, StaysQueued
    <3> QED
      BY <2>1, <2>2, <2>3, <2>5, <3>2 DEF ChangesInv, NoChangeLost, Live
  <2>6. CASE report' = NoReport /\ UNCHANGED <<phase, dirty>> /\ missed' = missed \cup Lost
    <3>1. \A c \in Clusters : report'.vals[c] = Unknown
      BY <2>6, Fresh
    <3>2. \A c \in Clusters : c \notin missed' => c \notin missed /\ c \notin report.attrs
      BY <2>6 DEF Lost
    <3> QED
      BY <2>1, <2>2, <2>3, <2>6, <3>1, <3>2 DEF ChangesInv, NoChangeLost, Live
  <2>7. closed => phase \notin {"seeding", "responding", "active"}
    BY <1>0 DEF LifeInv
  <2> QED
    BY <1>0, <1>9, <2>4, <2>5, <2>6, <2>7, Failed
<1>10. CASE ReportRefused
  <2>1. phase # "seeding" /\ report.st # "none" /\ phase' = IF closed THEN phase ELSE "gone"
    BY <1>10 DEF ReportRefused, OnWire
  <2>2. phase' \notin {"seeding", "responding", "active"}
    BY <1>0, <2>1 DEF LifeInv
  <2> QED
    BY <2>2 DEF ChangesInv, NoChangeLost, Live
<1>11. CASE \/ SeedFails \/ RespondFails \/ CloseDone \/ PeerCancel
            \/ \E flush \in BOOLEAN : Close(flush)
  <2>1. phase' \in {"gone", "orphan", "closing"}
    BY <1>11 DEF SeedFails, RespondFails, CloseDone, PeerCancel, Close
  <2> QED
    BY <2>1 DEF ChangesInv, NoChangeLost, Live
<1>12. CASE (\E urgent \in BOOLEAN : AddEvent(urgent)) \/ UpdateFires \/ Tick
  <2>1. UNCHANGED <<value, known, filter, phase, notices, dirty, report, missed>>
    BY <1>12 DEF AddEvent, UpdateFires, Tick
  <2> QED
    BY <1>0, <2>1 DEF ChangesInv, NoChangeLost, Live, Brings
<1> QED
  BY <1>1, <1>2, <1>3, <1>4, <1>5, <1>6, <1>7, <1>8, <1>9, <1>10, <1>11, <1>12
     DEF Next, Commits, Reports, Timers

\* The times of a subscription.
LEMMA Times ==
    ASSUME SubInv
    PROVE  /\ plan.floor \in Nat /\ plan.max \in Nat /\ plan.send \in Nat
           /\ plan.floor <= plan.max /\ 1 <= plan.send /\ plan.send <= plan.max
           /\ plan.max <= MaxInterval /\ MaxInterval \in Nat
           /\ since \in Nat /\ quiet \in Nat /\ updTimer \in Int /\ Off = -1
           /\ delay \in BOOLEAN
<1>1. plan \in [floor : 0 .. Limit, max : 0 .. Limit, send : 0 .. MaxInterval]
  BY DEF SubInv, TypeOK
<1>2. since \in 0 .. Limit /\ quiet \in 0 .. MaxInterval + 1 /\ updTimer \in {Off} \cup 0 .. MaxInterval
      /\ delay \in BOOLEAN
  BY DEF SubInv, TypeOK
<1>3. plan.floor \in 0 .. Limit /\ plan.max \in 0 .. Limit /\ plan.send \in 0 .. MaxInterval
  BY <1>1
<1>4. plan.floor <= plan.max /\ plan.send \in 1 .. plan.max
  BY DEF SubInv, PlanFits
<1> QED
  BY <1>2, <1>3, <1>4, Bounds DEF Off

\* A report that begins, or one that ends now, leaves the peer time.
LEMMA HeardNow ==
    ASSUME SubInv, UNCHANGED <<plan, phase, updTimer, delay>>, since' \in Nat,
           quiet' = 0 \/ report'.st # "none"
    PROVE  HeardInv'
<1>1. HeardInv
  BY DEF SubInv
<1>2. phase = "active" => updTimer \in 0 .. plan.max
  BY <1>1 DEF HeardInv
<1>3. CASE quiet' = 0
  BY <1>1, <1>2, <1>3, Times DEF HeardInv
<1>4. CASE report'.st # "none"
  BY <1>1, <1>2, <1>4 DEF HeardInv
<1> QED
  BY <1>3, <1>4

\* A subscription that is not active promises nothing.
LEMMA NotHeard ==
    ASSUME phase' # "active", delay' = FALSE
    PROVE  HeardInv'
BY DEF HeardInv

\* To hold a report back for the floor leaves the peer time, since the floor is no
\* longer than the max interval.
LEMMA PreparedInTime ==
    ASSUME SubInv, NEW left, Prepare(left), left = updTimer \/ (left = Off /\ updTimer = 0),
           UNCHANGED <<plan, phase, report, since, quiet>>
    PROVE  HeardInv'
<1>0. HeardInv /\ LifeInv
  BY DEF SubInv
<1>1. CASE delay \/ closed \/ phase # "active"
  <2>1. updTimer' = left /\ UNCHANGED delay
    BY <1>1 DEF Prepare
  <2>2. CASE phase = "active" /\ delay
    <3>1. updTimer = plan.send
      BY <1>0, <2>2 DEF HeardInv
    <3>2. updTimer # 0
      BY <3>1, Times
    <3>3. updTimer' = updTimer
      BY <2>1, <3>2
    <3> QED
      BY <1>0, <2>1, <2>2, <3>3 DEF HeardInv
  <2>3. phase = "active" => delay
    BY <1>0, <1>1 DEF LifeInv
  <2>4. phase # "active" => delay' = FALSE
    BY <1>0, <2>1, Times DEF LifeInv
  <2> QED
    BY <2>2, <2>3, <2>4, NotHeard
<1>2. CASE delay = FALSE /\ ~closed /\ phase = "active" /\ since < plan.floor
  <2>1. updTimer' = plan.floor - since /\ UNCHANGED delay
    BY <1>2 DEF Prepare
  <2>2. updTimer' \in 0 .. plan.max
    BY <1>2, <2>1, Times
  <2>3. report.st = "none" => quiet <= plan.max /\ quiet <= since
    BY <1>0, <1>2 DEF HeardInv
  <2>4. report.st = "none" => quiet + updTimer' <= plan.max
    BY <2>1, <2>3, Times
  <2> QED
    BY <1>2, <2>1, <2>2, <2>3, <2>4 DEF HeardInv
<1>3. CASE delay = FALSE /\ ~closed /\ phase = "active" /\ ~(since < plan.floor)
  <2>1. updTimer' = plan.send /\ delay' = TRUE
    BY <1>3 DEF Prepare
  <2>2. updTimer' \in 0 .. plan.max
    BY <2>1, Times
  <2>3. report.st = "none" => quiet <= plan.max
    BY <1>0, <1>3 DEF HeardInv
  <2> QED
    BY <1>3, <2>1, <2>2, <2>3 DEF HeardInv
<1> QED
  BY <1>1, <1>2, <1>3, Times

\* Time passes only when no timer is due.
LEMMA HeardStep ==
    ASSUME SubInv, Next
    PROVE  HeardInv'
<1> USE DEF dataVars, peerVars, lifeVars, queueVars, seedVars, timerVars, sendVars, historyVars
<1>0. TypeOK /\ LifeInv /\ HeardInv /\ since \in Nat /\ 0 \in Nat /\ delay \in BOOLEAN
  BY Times DEF SubInv
<1>1. ASSUME NEW c \in Clusters, Commit1(c) \/ Commit2(c)
      PROVE  HeardInv'
  BY <1>0, <1>1 DEF Commit1, Commit2, HeardInv
<1>2. ASSUME NEW c \in Clusters, Notify(c)
      PROVE  HeardInv'
  <2>1. UNCHANGED <<plan, phase, report, since, quiet>>
        /\ (Prepare(updTimer) \/ UNCHANGED <<updTimer, delay>>)
    BY <1>2 DEF Notify
  <2>2. CASE Prepare(updTimer)
    BY <2>1, <2>2, PreparedInTime
  <2>3. CASE UNCHANGED <<updTimer, delay>>
    BY <1>0, <2>1, <2>3 DEF HeardInv
  <2> QED
    BY <2>1, <2>2, <2>3
<1>3. ASSUME NEW urgent \in BOOLEAN, AddEvent(urgent)
      PROVE  HeardInv'
  <2>1. UNCHANGED <<plan, phase, report, since, quiet>>
        /\ (Prepare(updTimer) \/ UNCHANGED <<updTimer, delay>>)
    BY <1>3 DEF AddEvent
  <2>2. CASE Prepare(updTimer)
    BY <2>1, <2>2, PreparedInTime
  <2>3. CASE UNCHANGED <<updTimer, delay>>
    BY <1>0, <2>1, <2>3 DEF HeardInv
  <2> QED
    BY <2>1, <2>2, <2>3
<1>4. CASE UpdateFires
  <2>1. UNCHANGED <<plan, phase, report, since, quiet>> /\ Prepare(Off) /\ updTimer = 0
    BY <1>4 DEF UpdateFires
  <2> QED
    BY <2>1, PreparedInTime
<1>5. ASSUME NEW c \in Clusters, ReadCluster(c)
      PROVE  HeardInv'
  <2>1. UNCHANGED <<plan, phase, updTimer, delay, since>>
    BY <1>5 DEF ReadCluster
  <2>2. report'.st = "read"
    BY <1>0, <1>5, ClusterIsRead
  <2> QED
    BY <1>0, <2>1, <2>2, HeardNow
<1>6. CASE ReadEvents
  <2>1. UNCHANGED <<plan, phase, updTimer, delay>> /\ since' \in {since, 0}
    BY <1>6 DEF ReadEvents
  <2>2. report'.st = "wire"
    BY <1>0, <1>6, EventsAreRead
  <2> QED
    BY <1>0, <2>1, <2>2, HeardNow
<1>7. CASE SeedDelivered \/ RespondFails
  <2>1. phase # "active" /\ phase' # "active" /\ UNCHANGED delay
    BY <1>7 DEF SeedDelivered, RespondFails
  <2> QED
    BY <1>0, <2>1, NotHeard DEF LifeInv
<1>8. CASE SeedFails \/ CloseDone \/ PeerCancel
  <2>1. phase' = "gone" /\ delay' = FALSE
    BY <1>8 DEF SeedFails, CloseDone, PeerCancel, StopTimers
  <2> QED
    BY <2>1, NotHeard
<1>9. CASE Respond
  <2>1. /\ phase = "responding" /\ UNCHANGED <<plan, delay>> /\ updTimer' = plan.send /\ quiet' = 0
        /\ since' \in {since, 0}
    BY <1>9 DEF Respond, Take
  <2>2. delay' = FALSE
    BY <1>0, <2>1 DEF LifeInv
  <2>3. since' \in Nat
    BY <1>0, <2>1
  <2>4. updTimer' \in 0 .. plan.max /\ quiet' + updTimer' <= plan.max /\ quiet' <= plan.max
        /\ quiet' <= since'
    BY <2>1, <2>3, Times
  <2> QED
    BY <2>1, <2>2, <2>4 DEF HeardInv
<1>10. CASE DelayFires
  <2>1. phase = "active" /\ UNCHANGED <<plan, phase, updTimer>> /\ delay' = FALSE
    BY <1>0, <1>10 DEF DelayFires, LifeInv
  <2>2. report'.st # "none"
    BY <1>10, Fresh DEF DelayFires, Trigger, Take
  <2> QED
    BY <1>0, <2>1, <2>2 DEF HeardInv
<1>11. CASE ReportDelivered
  <2>1. UNCHANGED <<plan, phase, updTimer, delay>> /\ quiet' = 0 /\ since' \in {since, 0}
    BY <1>11 DEF ReportDelivered, Receive, Continue, Take
  <2> QED
    BY <1>0, <2>1, HeardNow
<1>12. CASE ReportRefused
  <2>1. phase' = (IF closed THEN phase ELSE "gone") /\ delay' = FALSE
    BY <1>12 DEF ReportRefused, StopTimers
  <2> QED
    BY <1>0, <2>1, NotHeard DEF LifeInv
<1>13. ASSUME NEW kind \in {"network", "other"}, ReportFails(kind)
       PROVE  HeardInv'
  <2>1. UNCHANGED plan /\ quiet' = 0
    BY <1>13 DEF ReportFails, Receive
  <2>2. CASE phase' = "gone" /\ StopTimers
    BY <2>2, NotHeard DEF StopTimers
  <2>3. CASE UNCHANGED <<phase, updTimer, delay, since>>
    BY <1>0, <2>1, <2>3, HeardNow
  <2>4. CASE UNCHANGED <<phase, updTimer, delay>> /\ Continue(Back[1], Back[2])
    <3>1. since' \in {since, 0}
      BY <2>4 DEF Continue, Take
    <3> QED
      BY <1>0, <2>1, <2>4, <3>1, HeardNow
  <2> QED
    BY <1>0, <1>13, <2>2, <2>3, <2>4, Failed
<1>14. ASSUME NEW flush \in BOOLEAN, Close(flush)
       PROVE  HeardInv'
  <2>1. phase' \in {"closing", "gone"} /\ delay' = FALSE
    BY <1>14 DEF Close, StopTimers
  <2> QED
    BY <2>1, NotHeard
<1>15. CASE Tick
  <2>1. /\ delay = FALSE /\ updTimer # 0 /\ UNCHANGED <<plan, phase, report, delay>>
        /\ updTimer' = IF updTimer = Off THEN Off ELSE updTimer - 1
        /\ since' = IF since < plan.floor THEN since + 1 ELSE since
        /\ quiet' = IF report.st = "none" /\ phase = "active" /\ quiet <= MaxInterval
                      THEN quiet + 1 ELSE quiet
    BY <1>0, <1>15 DEF Tick
  <2>2. SUFFICES ASSUME phase = "active"
                 PROVE  /\ updTimer' \in 0 .. plan.max
                        /\ report.st = "none" => /\ quiet' <= plan.max
                                                 /\ quiet' + updTimer' <= plan.max
                                                 /\ since' < plan.floor => quiet' <= since'
    BY <2>1, NotHeard DEF HeardInv
  <2>3. updTimer \in 0 .. plan.max
    BY <1>0, <2>2 DEF HeardInv
  <2>4. updTimer \in 1 .. plan.max /\ updTimer' = updTimer - 1
    BY <2>1, <2>3, Times
  <2>5. updTimer' \in 0 .. plan.max
    BY <2>4, Times
  <2>6. ASSUME report.st = "none"
        PROVE  /\ quiet' <= plan.max /\ quiet' + updTimer' <= plan.max
               /\ since' < plan.floor => quiet' <= since'
    <3>1. quiet <= plan.max /\ quiet + updTimer <= plan.max
          /\ (since < plan.floor => quiet <= since)
      BY <1>0, <2>1, <2>2, <2>6 DEF HeardInv
    <3>2. quiet' = quiet + 1
      BY <2>1, <2>2, <2>6, <3>1, Times
    <3> QED
      BY <2>1, <2>4, <3>1, <3>2, Times
  <2> QED
    BY <2>5, <2>6
<1> QED
  BY <1>1, <1>2, <1>3, <1>4, <1>5, <1>6, <1>7, <1>8, <1>9, <1>10, <1>11, <1>12, <1>13, <1>14, <1>15
     DEF Next, Commits, Reports, Timers

-------------------------------------------------------------------------------
(***************************************************************************)
(* The invariant.                                                          *)
(***************************************************************************)

\* The interval to send at is between one tick and the max interval.
LEMMA SendIntervalFits ==
    ASSUME NEW floor \in Nat, NEW max \in Nat, floor <= max, Config.min <= max
    PROVE  SendInterval(floor, max) \in 1 .. max
<1>1. Config.min \in Nat \ {0}
  BY RequestAssumption
<1>2. max \div 2 \in 0 .. max
  OBVIOUS
<1>3. (max * 4) \div 5 \in 0 .. max
  OBVIOUS
<1>4. Larger(floor, (max * 4) \div 5) \in 0 .. max
  BY <1>3 DEF Larger
<1>5. (IF max \div 2 < Minute THEN Larger(floor, (max * 4) \div 5) ELSE max \div 2) \in 0 .. max
  BY <1>2, <1>4
<1>6. \A s \in 0 .. max : Larger(s, Config.min) \in 1 .. max
  BY <1>1 DEF Larger
<1> QED
  BY <1>5, <1>6 DEF SendInterval

\* So are those of a request, whatever the part of the window.
LEMMA IntervalsFit ==
    ASSUME NEW r \in Requests, NEW random \in 0 .. Config.window
    PROVE  /\ Intervals(r, random) \in [floor : 0 .. Limit, max : 0 .. Limit, send : 0 .. MaxInterval]
           /\ Intervals(r, random).floor <= Intervals(r, random).max
           /\ Intervals(r, random).send \in 1 .. Intervals(r, random).max
<1>1. /\ r.floor \in Nat /\ r.ceiling \in Nat /\ r.floor <= Limit /\ Limit \in Nat
      /\ Config.min \in Nat /\ Config.max \in Nat /\ Config.window \in Nat /\ Config.min <= Limit
  BY RequestAssumption
<1> DEFINE base == Larger(Config.min, Larger(r.floor, Smaller(Config.max, r.ceiling)))
           max == Smaller(base + random, Limit)
<1>2. base \in Nat /\ r.floor <= base /\ Config.min <= base
  BY <1>1 DEF Larger, Smaller
<1>3. random \in Nat
  BY <1>1
<1>4. max \in 0 .. Limit /\ r.floor <= max /\ Config.min <= max
  BY <1>1, <1>2, <1>3 DEF Smaller
<1>5. SendInterval(r.floor, max) \in 1 .. max
  BY <1>1, <1>4, SendIntervalFits
<1>6. SendInterval(r.floor, max) \in 0 .. MaxInterval /\ r.floor \in 0 .. Limit
  BY <1>1, <1>4, <1>5, Bounds
<1>7. Intervals(r, random) = [floor |-> r.floor, max |-> max, send |-> SendInterval(r.floor, max)]
  BY DEF Intervals
<1> HIDE DEF max
<1> QED
  BY <1>4, <1>5, <1>6, <1>7

\* The seed has begun.
LEMMA SubInit == Init => SubInv
<1> SUFFICES ASSUME Init
             PROVE  SubInv
  OBVIOUS
<1>1. /\ value = [c \in Clusters |-> 0] /\ version = [c \in Clusters |-> 0]
      /\ known = [c \in Clusters |-> IF c \in filter THEN 0 ELSE Unknown] /\ filter \in SUBSET Filters
      /\ phase = "seeding" /\ closed = FALSE /\ delay = FALSE /\ updTimer = Off
      /\ events = 0 /\ minEvent = 0 /\ lastSeeded = 0 /\ report = Report(Clusters, 1)
  BY DEF Init
<1>2. /\ report.st = "read" /\ report.attrs = Clusters /\ report.left = Clusters /\ report.from = 1
      /\ \A c \in Clusters : report.vals[c] = Unknown
  BY <1>1, Fresh
<1>3. TypeOK
  <2>1. PICK r \in Requests, random \in 0 .. Config.window : plan = Intervals(r, random)
    BY DEF Init
  <2>2. plan \in [floor : 0 .. Limit, max : 0 .. Limit, send : 0 .. MaxInterval]
    BY <2>1, IntervalsFit
  <2>3. 0 \in Values /\ 0 \in 0 .. MaxEvents /\ 0 \in 0 .. Limit /\ 0 \in 0 .. MaxInterval + 1
        /\ MaxFaults \in 0 .. MaxFaults /\ 1 \in 0 .. Larger(1, MaxEvents) /\ 0 \in 0 .. 3
    BY Bounds DEF Values
  <2>4. Report(Clusters, 1) \in ReportTypes
    <3>1. [c \in Clusters |-> Unknown] \in Readings
      BY DEF Readings
    <3> QED
      BY <2>3, <3>1 DEF Report, ReportTypes
  <2>5. known \in [Clusters -> Values \cup {Unknown}] /\ seeded \in [Clusters -> Values \cup {Unknown}]
    BY <1>1, <2>3 DEF Init
  <2>6. phase \in Phases
    BY <1>1 DEF Phases
  <2>7. value \in [Clusters -> Values] /\ version \in [Clusters -> Values]
    BY <1>1, <2>3
  <2>8. filter \subseteq Filters /\ updTimer \in {Off} \cup 0 .. MaxInterval /\ closed \in BOOLEAN
        /\ delay \in BOOLEAN
    BY <1>1
  <2>9. report \in [st : {"none", "read", "wire"}, attrs : SUBSET Clusters,
                    left : SUBSET Clusters, vals : [Clusters -> Values \cup {Unknown}],
                    from : 0 .. Larger(1, MaxEvents), upto : 0 .. MaxEvents]
    BY <1>1, <2>4 DEF ReportTypes, Readings
  <2> QED
    BY <1>1, <2>2, <2>3, <2>5, <2>6, <2>7, <2>8, <2>9 DEF Init, TypeOK
<1>4. PlanFits
  BY IntervalsFit DEF Init, PlanFits
<1>5. LifeInv
  BY <1>1, <1>2 DEF LifeInv
<1>6. ReadsInv
  <2>1. \A c \in Clusters : value[c] <= version[c] /\ known[c] <= value[c]
    BY <1>1 DEF Unknown
  <2> QED
    BY <1>2, <2>1 DEF ReadsInv
<1>7. ChangesInv
  <2>1. \A c \in filter : known[c] = 0
    BY <1>1, ChoicesAssumption
  <2> QED
    BY <1>1, <1>2, <2>1 DEF ChangesInv, NoChangeLost, Brings
<1>8. EventsInv
  BY <1>1, <1>2 DEF EventsInv, NumbersInv, SeedInv, QueueInv
<1>9. HeardInv
  BY <1>1 DEF HeardInv
<1>10. FlushInv
  BY <1>1 DEF FlushInv
<1> QED
  BY <1>3, <1>4, <1>5, <1>6, <1>7, <1>8, <1>9, <1>10 DEF SubInv

\* Every step keeps the invariant.
LEMMA SubStep == SubInv /\ [Next]_vars => SubInv'
<1>1. ASSUME SubInv, Next
      PROVE  SubInv'
  <2>1. TypeOK'
    BY <1>1, TypeStep
  <2> QED
    BY <1>1, <2>1, PlanStep, LifeStep, ReadsStep, ChangesStep, EventsStep, HeardStep, FlushStep
       DEF SubInv
<1>2. ASSUME SubInv, UNCHANGED vars
      PROVE  SubInv'
  BY <1>2 DEF vars, dataVars, peerVars, lifeVars, queueVars, seedVars, timerVars, sendVars, historyVars,
              SubInv, TypeOK, PlanFits, LifeInv, ReadsInv, ChangesInv, NoChangeLost, Live, Brings,
              EventsInv, NumbersInv, SeedInv, QueueInv, Pending, CarriedEvents, HeardInv, FlushInv
<1> QED
  BY <1>1, <1>2

\* The invariant holds in every state.
THEOREM SubscriptionInvariant == Spec => []SubInv
BY SubInit, SubStep, PTL DEF Spec

-------------------------------------------------------------------------------
(***************************************************************************)
(* What a subscription promises.                                           *)
(***************************************************************************)

\* Every variable keeps its type (the fields of ServerSubscription.ts:92-165).
THEOREM TypesHold == Spec => []TypeOK
<1>1. SubInv => TypeOK
  BY DEF SubInv
<1> QED
  BY <1>1, SubscriptionInvariant, PTL

\* No change of an attribute is lost for the peer of a live subscription, for any
\* clusters, intervals and number of commits and failures
\* (ServerSubscription.ts:304-326, 431-465).
THEOREM ChangesArrive == Spec => []NoChangeLost
<1>1. SubInv => NoChangeLost
  BY DEF SubInv, ChangesInv
<1> QED
  BY <1>1, SubscriptionInvariant, PTL

\* No event is lost, however events fall between the seed, its response and a
\* report that fails (ServerSubscription.ts:328-342, 364-370, 467-469).
THEOREM EventsArrive == Spec => []NoEventLost
<1>1. SubInv => NoEventLost
  BY SeedKeepsEvents
<1> QED
  BY <1>1, SubscriptionInvariant, PTL

\* The peer never waits longer than the max interval it was told, for any intervals
\* it asks for and any the server is configured with (ServerSubscription.ts:249-289,
\* 388-415).
THEOREM PeerIsHeard == Spec => []HeardInTime
<1>1. SubInv => HeardInTime
  BY DEF SubInv, HeardInv, HeardInTime
<1> QED
  BY <1>1, SubscriptionInvariant, PTL

\* A flush leaves nothing outstanding but what a failed report lost
\* (ServerSubscription.ts:640-650, 655-688).
THEOREM FlushIsComplete == Spec => FlushSendsAll
<1>1. SubInv /\ CloseDone => dirty \subseteq missed /\ (minEvent # 0 => "events" \in missed)
  BY DEF SubInv, FlushInv, CloseDone
<1>2. SubInv /\ [Next]_vars =>
        [CloseDone => dirty \subseteq missed /\ (minEvent # 0 => "events" \in missed)]_vars
  BY <1>1
<1> QED
  BY <1>2, SubscriptionInvariant, PTL DEF Spec, FlushSendsAll

-------------------------------------------------------------------------------
(***************************************************************************)
(* The replica.                                                            *)
(***************************************************************************)

\* A version runs ahead by the commit that is stored, and neither a report nor the
\* peer has an event that is yet to come.
CopyInv ==
    /\ \A c \in Clusters : version[c] = value[c] + (IF c \in storing THEN 1 ELSE 0)
    /\ report.upto <= events
    /\ got \subseteq 1 .. events

\* Every step but a commit or an event may bring the peer a report, and does no more.
Brought ==
    /\ UNCHANGED <<value, version, storing, events>>
    /\ UNCHANGED <<known, got>> \/ (Receive /\ report.st # "none")

LEMMA OthersBring ==
    ASSUME SubInv, Next
    PROVE  \/ \E c \in Clusters : Commit1(c) \/ Commit2(c)
           \/ \E urgent \in BOOLEAN : AddEvent(urgent)
           \/ Brought
<1> USE DEF dataVars, peerVars
<1>1. CASE \/ \E c \in Clusters : ReadCluster(c) \/ Notify(c)
           \/ ReadEvents \/ Respond \/ DelayFires \/ UpdateFires \/ SeedFails \/ RespondFails
           \/ ReportRefused \/ (\E flush \in BOOLEAN : Close(flush)) \/ CloseDone \/ PeerCancel \/ Tick
  BY <1>1 DEF Brought, ReadCluster, Notify, ReadEvents, Respond, DelayFires, UpdateFires, SeedFails,
              RespondFails, ReportRefused, Close, CloseDone, PeerCancel, Tick
<1>2. CASE SeedDelivered \/ ReportDelivered \/ \E kind \in {"network", "other"} : ReportFails(kind)
  BY <1>2 DEF Brought, SeedDelivered, ReportDelivered, ReportFails, OnWire
<1> QED
  BY <1>1, <1>2 DEF Next, Commits, Reports, Timers

\* A report that is not read yet has no events.
LEMMA NewHasNoEvents == NoReport.upto = 0 /\ \A a, f : Report(a, f).upto = 0
BY DEF NoReport, Report

\* A report is fresh, or is being read: its events are those there are by then.
LEMMA UptoStep ==
    ASSUME SubInv, CopyInv, Next
    PROVE  report'.upto <= events'
<1>1. /\ report.upto <= events /\ report.upto \in Nat /\ events \in Nat
      /\ events' \in Nat /\ events <= events'
  BY OthersBring DEF SubInv, TypeOK, ReportTypes, CopyInv, Brought, Commit1, Commit2, AddEvent
<1>2. 0 <= events' /\ report.upto <= events'
  BY <1>1
<1>3. SUFFICES report'.upto = 0 \/ report'.upto = report.upto \/ report'.upto = events
  BY <1>1, <1>2
<1>4. ASSUME NEW c \in Clusters, ReadCluster(c)
      PROVE  report'.upto = report.upto
  BY <1>4, ClusterIsRead DEF SubInv
<1>5. CASE ReadEvents
  BY <1>5, EventsAreRead DEF SubInv
<1>6. CASE SeedDelivered \/ SeedFails
  <2>1. report' = NoReport
    BY <1>6 DEF SeedDelivered, SeedFails
  <2> QED
    BY <2>1, NewHasNoEvents
<1>7. ASSUME NEW a, NEW f, Continue(a, f)
      PROVE  report'.upto = 0
  <2>1. report' = NoReport \/ report' = Report(a, f)
    BY <1>7, Continued
  <2> QED
    BY <2>1, NewHasNoEvents
<1>8. CASE ReportDelivered \/ ReportRefused
  <2>1. Continue(dirty, minEvent)
    BY <1>8 DEF ReportDelivered, ReportRefused
  <2> QED
    BY <2>1, <1>7
<1>9. ASSUME NEW kind \in {"network", "other"}, ReportFails(kind)
      PROVE  report'.upto = 0
  <2>1. report' = NoReport \/ Continue(Back[1], Back[2])
    BY <1>9, Failed DEF SubInv
  <2> QED
    BY <2>1, <1>7, NewHasNoEvents
<1>10. CASE Respond \/ DelayFires \/ (\E flush \in BOOLEAN : Close(flush))
  <2>1. report' \in {report, NoReport} \/ \E a, f : report' = Report(a, f)
    BY <1>10 DEF Respond, DelayFires, Close, Trigger, Take, sendVars
  <2> QED
    BY <2>1, NewHasNoEvents
<1>11. CASE \/ \E c \in Clusters : Commit1(c) \/ Commit2(c) \/ Notify(c)
            \/ \E urgent \in BOOLEAN : AddEvent(urgent)
            \/ RespondFails \/ UpdateFires \/ CloseDone \/ PeerCancel \/ Tick
  <2>1. report' = report
    BY <1>11 DEF Commit1, Commit2, Notify, AddEvent, RespondFails, UpdateFires, CloseDone, PeerCancel,
                 Tick, sendVars
  <2> QED
    BY <2>1
<1> QED
  BY <1>4, <1>5, <1>6, <1>8, <1>9, <1>10, <1>11 DEF Next, Commits, Reports, Timers

\* A commit makes the value of one cluster one newer when it is stored.
LEMMA CommitCounts ==
    ASSUME SubInv, CopyInv, NEW c \in Clusters, Commit1(c) \/ Commit2(c)
    PROVE  /\ \A d \in Clusters : version'[d] = value'[d] + (IF d \in storing' THEN 1 ELSE 0)
           /\ value' = value \/ value' = [value EXCEPT ![c] = value[c] + 1]
           /\ UNCHANGED <<events, known, got, phase, report>>
<1>1. /\ value \in [Clusters -> Values] /\ version \in [Clusters -> Values]
      /\ \A d \in Clusters : value[d] \in Int /\ version[d] \in Int
  BY Bounds DEF SubInv, TypeOK
<1>2. \A d \in Clusters : version[d] = value[d] + (IF d \in storing THEN 1 ELSE 0)
  BY DEF CopyInv
<1>3. UNCHANGED <<events, known, got, phase, report>>
  BY DEF Commit1, Commit2, peerVars, lifeVars, sendVars
<1>4. \/ /\ c \notin storing /\ version' = [version EXCEPT ![c] = version[c] + 1]
         /\ \/ storing' = storing \cup {c} /\ value' = value
            \/ storing' = storing /\ value' = [value EXCEPT ![c] = value[c] + 1]
      \/ /\ c \in storing /\ storing' = storing \ {c} /\ version' = version
         /\ value' = [value EXCEPT ![c] = version[c]]
  BY DEF Commit1, Commit2
<1>5. c \in storing => version[c] = value[c] + 1
  BY <1>2
<1>6. ASSUME NEW d \in Clusters
      PROVE  version'[d] = value'[d] + (IF d \in storing' THEN 1 ELSE 0)
  <2>1. CASE d = c
    BY <1>1, <1>2, <1>4, <2>1
  <2>2. CASE d # c
    <3>1. version'[d] = version[d] /\ value'[d] = value[d] /\ (d \in storing' <=> d \in storing)
      BY <1>1, <1>4, <2>2
    <3> QED
      BY <1>2, <3>1
  <2> QED
    BY <2>1, <2>2
<1> QED
  BY <1>3, <1>4, <1>5, <1>6

\* The events a report brings are those there are.
LEMMA EventsThere ==
    ASSUME SubInv, CopyInv, Receive
    PROVE  got \subseteq got' /\ got' \subseteq 1 .. events
<1>1. report.from \in Nat /\ report.upto \in Nat /\ report.upto <= events /\ events \in Nat
  BY Bounds DEF SubInv, TypeOK, CopyInv
<1>2. CarriedEvents \subseteq 1 .. events
  BY <1>1 DEF CarriedEvents
<1> QED
  BY <1>2 DEF Receive, CopyInv

LEMMA CopyInvStep ==
    ASSUME SubInv, CopyInv, Next
    PROVE  CopyInv'
<1>1. CASE Brought
  <2>1. got' \subseteq 1 .. events
    BY <1>1, EventsThere DEF Brought, CopyInv
  <2> QED
    BY <1>1, <2>1, UptoStep DEF Brought, CopyInv
<1>2. ASSUME NEW c \in Clusters, Commit1(c) \/ Commit2(c)
      PROVE  CopyInv'
  BY <1>2, CommitCounts, UptoStep DEF CopyInv
<1>3. ASSUME NEW urgent \in BOOLEAN, AddEvent(urgent)
      PROVE  CopyInv'
  <2>1. events' = events + 1 /\ UNCHANGED <<value, version, storing, got>> /\ events \in Nat
    BY <1>3 DEF AddEvent, peerVars, SubInv, TypeOK
  <2>2. 1 .. events \subseteq 1 .. events'
    BY <2>1
  <2> QED
    BY <2>1, <2>2, UptoStep DEF CopyInv
<1> QED
  BY <1>1, <1>2, <1>3, OthersBring

\* What arrives is no older than what the peer holds, and no newer than what is there.
LEMMA Learned ==
    ASSUME SubInv, CopyInv, Brought
    PROVE  Copy!Learn
<1>1. known \in Readings /\ (\A c \in Clusters : known[c] \in Int /\ value[c] \in Int)
  BY ReportIsTyped, Numbers DEF SubInv
<1>2. \A c \in Clusters : known[c] <= value[c]
  BY DEF SubInv, ReadsInv
<1>3. CASE UNCHANGED <<known, got>>
  <2>1. known \in [Clusters -> Int]
    BY <1>1 DEF Readings
  <2> QED
    BY <1>1, <1>2, <1>3, <2>1 DEF Brought, CopyInv, Copy!Learn
<1>4. CASE Receive
  <2>1. known' \in Readings
    BY <1>4, ReceivedTypes DEF SubInv
  <2>2. known' \in [Clusters -> Int]
    BY <2>1, Bounds DEF Readings
  <2>3. ASSUME NEW c \in Clusters
        PROVE  known[c] <= known'[c] /\ known'[c] <= value[c]
    <3>1. known'[c] = known[c] \/ (report.vals[c] # Unknown /\ known'[c] = report.vals[c])
      BY <1>4, Arrives DEF SubInv
    <3>2. report.vals[c] # Unknown => known[c] <= report.vals[c] /\ report.vals[c] <= value[c]
      BY DEF SubInv, ReadsInv
    <3> QED
      BY <1>1, <1>2, <3>1, <3>2
  <2> QED
    BY <1>4, <2>2, <2>3, EventsThere DEF Brought, Copy!Learn
<1> QED
  BY <1>3, <1>4 DEF Brought

\* Nothing happens to a subscription that is over.
LEMMA OverStays ==
    ASSUME SubInv, Next, Over
    PROVE  Over'
<1>1. LifeInv /\ TypeOK /\ phase = "gone" /\ report.st = "none"
  BY DEF SubInv, Over
<1>2. ~delay /\ updTimer = Off
  BY <1>1 DEF LifeInv
<1>3. UNCHANGED <<phase, report>>
  BY <1>1, <1>2
     DEF Next, Commits, Reports, Timers, Commit1, Commit2, Notify, AddEvent, ReadCluster, ReadEvents,
         SeedDelivered, Respond, ReportDelivered, DelayFires, UpdateFires, SeedFails, RespondFails,
         ReportRefused, ReportFails, Close, CloseDone, PeerCancel, Tick, OnWire, Over, Off,
         dataVars, peerVars, lifeVars, queueVars, seedVars, timerVars, sendVars, historyVars
<1> QED
  BY <1>3 DEF Over

\* Every step is one of the replica, or none.
LEMMA CopyStep ==
    ASSUME SubInv, CopyInv, Next
    PROVE  Copy!Next \/ UNCHANGED Copy!vars
<1>1. ASSUME NEW c \in Clusters, Commit1(c) \/ Commit2(c)
      PROVE  Copy!Next \/ UNCHANGED Copy!vars
  <2>1. /\ value' = value \/ value' = [value EXCEPT ![c] = value[c] + 1]
        /\ UNCHANGED <<events, known, got, phase, report>>
    BY <1>1, CommitCounts
  <2>2. UNCHANGED Over
    BY <2>1 DEF Over
  <2> QED
    BY <2>1, <2>2 DEF Copy!Next, Copy!Change, Copy!vars
<1>2. ASSUME NEW urgent \in BOOLEAN, AddEvent(urgent)
      PROVE  Copy!Next
  <2>1. events' = events + 1 /\ UNCHANGED <<value, known, got, phase, report>>
    BY <1>2 DEF AddEvent, peerVars, lifeVars, sendVars
  <2>2. UNCHANGED Over
    BY <2>1 DEF Over
  <2> QED
    BY <2>1, <2>2 DEF Copy!Next, Copy!Occur
<1>3. CASE Brought /\ Over
  <2>1. UNCHANGED <<value, events, known, got>>
    BY <1>3 DEF Brought, Over
  <2>2. Over' <=> Over
    BY <1>3, OverStays
  <2>3. UNCHANGED Over
    BY <2>2 DEF Over
  <2> QED
    BY <2>1, <2>3 DEF Copy!vars
<1>4. CASE Brought /\ ~Over
  <2>1. Copy!Learn
    BY <1>4, Learned
  <2>2. CASE Over'
    <3>1. Over' = TRUE
      BY <2>2 DEF Over
    <3> QED
      BY <1>4, <2>1, <3>1 DEF Copy!Next, Copy!End
  <2>3. CASE ~Over'
    <3>1. Over' = Over
      BY <1>4, <2>3 DEF Over
    <3> QED
      BY <1>4, <2>1, <3>1 DEF Copy!Next, Copy!Report
  <2> QED
    BY <2>2, <2>3
<1> QED
  BY <1>1, <1>2, <1>3, <1>4, OthersBring

\* A subscription begins with what the peer holds of an earlier one.
LEMMA CopyInit == Init => CopyInv /\ Copy!Init
<1> SUFFICES ASSUME Init
             PROVE  CopyInv /\ Copy!Init
  OBVIOUS
<1>1. /\ value = [c \in Clusters |-> 0] /\ version = [c \in Clusters |-> 0] /\ storing = {}
      /\ events = 0 /\ got = {} /\ phase = "seeding" /\ report = Report(Clusters, 1)
      /\ known = [c \in Clusters |-> IF c \in filter THEN 0 ELSE Unknown]
  BY DEF Init
<1>2. CopyInv
  BY <1>1 DEF CopyInv, Report
<1>3. known \in [Clusters -> {Unknown, 0}]
  BY <1>1
<1>4. Over = FALSE
  BY <1>1 DEF Over
<1> QED
  BY <1>1, <1>2, <1>3, <1>4 DEF Copy!Init

\* The peer's copy only goes forward, is never ahead of the node and stays what it
\* is when the subscription is over: the subscription implements Replica, for any
\* clusters, intervals, filters and failures (ServerSubscription.ts:388-511, 655-688).
THEOREM SubscriptionIsReplica == Spec => ImplementsReplica
<1>1. Init => SubInv /\ CopyInv /\ Copy!Init
  BY SubInit, CopyInit
<1>2. SubInv /\ CopyInv /\ [Next]_vars => SubInv' /\ CopyInv'
  <2>1. SubInv /\ CopyInv /\ UNCHANGED vars => CopyInv'
    BY DEF vars, dataVars, peerVars, sendVars, CopyInv
  <2> QED
    BY <2>1, SubStep, CopyInvStep
<1>3. SubInv /\ CopyInv /\ [Next]_vars => [Copy!Next]_(Copy!vars)
  <2>1. UNCHANGED vars => UNCHANGED Copy!vars
    BY DEF vars, dataVars, peerVars, lifeVars, sendVars, Over, Copy!vars
  <2> QED
    BY <2>1, CopyStep
<1> QED
  BY <1>1, <1>2, <1>3, PTL DEF Spec, ImplementsReplica, Copy!Spec

\* A subscription that is over sends nothing more, whatever timer, change or event
\* comes later (ServerSubscription.ts:388-426, 655-688).
THEOREM OverStaysOver == Spec => [][Over => Over']_vars
<1>1. SubInv /\ [Next]_vars => [Over => Over']_vars
  BY OverStays
<1> QED
  BY <1>1, SubscriptionInvariant, PTL DEF Spec

=================================================================================
