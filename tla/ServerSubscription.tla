-------------------------- MODULE ServerSubscription --------------------------
(***************************************************************************)
(* One subscription of a peer to a Matter server node, from its seed to    *)
(* its end (package/src/node/server/ServerSubscription.ts), together with  *)
(* the commits that change clusters (behavior/state/managed/Datasource.ts) *)
(* and the requests that establish it (node/server/InteractionServer.ts).  *)
(*                                                                         *)
(* The value of a cluster is the number of commits it has seen; its data   *)
(* version runs ahead of it while a commit is stored.  Reports are read    *)
(* cluster by cluster while they are sent, so commits interleave with      *)
(* them.  A tick is longer than the 50 ms of the send delay.  Failures are *)
(* drawn from the budget `faults`.                                         *)
(***************************************************************************)
EXTENDS Integers, FiniteSets

CONSTANTS
    Clusters,     \* the clusters the subscription asks for
    Requests,     \* [floor, ceiling] a peer may ask for, in ticks
    Config,       \* [min, max, window] of ServerSubscriptionConfig, in ticks
    Limit,        \* MAX_INTERVAL_PUBLISHER_LIMIT, in ticks
    Minute,       \* Minutes.one, in ticks
    Filters,      \* clusters the peer may name in dataVersionFilters
    Slow,         \* TRUE iff storing a commit takes time
    Errors,       \* what may happen to a report: "network", "other", "refused"
    MaxValue,     \* bound on the commits of a cluster
    MaxEvents,    \* bound on the events
    MaxFaults     \* bound on the failures

ASSUME BoundsAssumption == MaxValue \in Nat /\ MaxEvents \in Nat /\ MaxFaults \in Nat
ASSUME RequestAssumption ==
    /\ Requests \subseteq [floor : Nat, ceiling : Nat]
    /\ \A r \in Requests : r.floor <= r.ceiling /\ r.floor <= Limit
    /\ Config \in [min : Nat \ {0}, max : Nat, window : Nat]
    /\ Config.min <= Limit /\ Limit \in Nat /\ Minute \in Nat
ASSUME NamesAssumption == "events" \notin Clusters
ASSUME ChoicesAssumption ==
    /\ Filters \subseteq Clusters
    /\ Errors \subseteq {"network", "other", "refused"}
    /\ Slow \in BOOLEAN

VARIABLES
    value,       \* value[c]: what a read of cluster c returns
    version,     \* version[c]: its data version
    storing,     \* clusters between the two phases of a commit
    notices,     \* clusters whose commit attrsChanged has not yet been told of
    events,      \* number of the last event
    known,       \* known[c]: the value of c the peer holds
    got,         \* the events the peer has received
    filter,      \* dataVersionFilters: clusters the peer holds the first version of
    plan,        \* [floor, max, send]: the intervals of the subscription
    phase,       \* where the subscription is in its life
    closed,      \* #isClosed
    byPeer,      \* #isCanceledByPeer
    dirty,       \* #outstandingAttributeUpdates
    minEvent,    \* #outstandingEventsMinNumber, 0 for undefined
    seeded,      \* #seededClusterDetails
    lastSeeded,  \* #latestSeededEventNumber
    updTimer,    \* #updateTimer: ticks left, Off when it does not run
    delay,       \* #sendDelayTimer runs
    since,       \* ticks since #lastUpdateTime, saturates at the floor
    report,      \* the report under way
    again,       \* #sendNextUpdateImmediately
    errors,      \* #sendUpdateErrorCounter, saturates at 3
    faults,      \* budget left for failures
    quiet,       \* history: ticks since a report ended
    missed       \* history: what is known never to be reported

dataVars == <<value, version, storing, notices, events>>
peerVars == <<known, got, filter, plan>>
lifeVars == <<phase, closed, byPeer>>
queueVars == <<dirty, minEvent>>
seedVars == <<seeded, lastSeeded>>
timerVars == <<updTimer, delay, since>>
sendVars == <<report, again, errors>>
historyVars == <<quiet, missed>>
vars == <<dataVars, peerVars, lifeVars, queueVars, seedVars, timerVars, sendVars,
          faults, historyVars>>

Off == -1
Unknown == -1
Values == 0 .. MaxValue
Phases == {"seeding", "responding", "active", "closing", "orphan", "gone"}

Larger(a, b) == IF a > b THEN a ELSE b
Smaller(a, b) == IF a < b THEN a ELSE b

-----------------------------------------------------------------------------
(* The intervals *)

\* Half of the interval, or four fifths when that leaves no time for a retry.
SendInterval(floor, max) ==
    LET half == max \div 2
        send == IF half < Minute THEN Larger(floor, (max * 4) \div 5) ELSE half
    IN  Larger(send, Config.min)

\* #determineSendingIntervals with `random` for the part of the window.
Intervals(r, random) ==
    LET base == Larger(Config.min, Larger(r.floor, Smaller(Config.max, r.ceiling)))
        max == Smaller(base + random, Limit)
    IN  [floor |-> r.floor, max |-> max, send |-> SendInterval(r.floor, max)]

MaxInterval == Larger(Limit, Config.max)

-----------------------------------------------------------------------------
NoReport == [st |-> "none", attrs |-> {}, left |-> {},
             vals |-> [c \in Clusters |-> Unknown], from |-> 0, upto |-> 0]

\* A report of the clusters a and the events from number f.
Report(a, f) == [st |-> "read", attrs |-> a, left |-> a,
                 vals |-> [c \in Clusters |-> Unknown], from |-> f, upto |-> 0]

(***************************************************************************)
(* The peer has sent its request and sendInitialReport has registered the  *)
(* handlers and begun to send.                                             *)
(***************************************************************************)
Init ==
    /\ value = [c \in Clusters |-> 0]
    /\ version = [c \in Clusters |-> 0]
    /\ storing = {}
    /\ notices = {}
    /\ events = 0
    /\ filter \in SUBSET Filters
    /\ known = [c \in Clusters |-> IF c \in filter THEN 0 ELSE Unknown]
    /\ got = {}
    /\ \E r \in Requests, random \in 0 .. Config.window : plan = Intervals(r, random)
    /\ phase = "seeding"
    /\ closed = FALSE
    /\ byPeer = FALSE
    /\ dirty = {}
    /\ minEvent = 0
    /\ seeded = [c \in Clusters |-> Unknown]
    /\ lastSeeded = 0
    /\ updTimer = Off
    /\ delay = FALSE
    /\ since = 0
    /\ report = Report(Clusters, 1)
    /\ again = FALSE
    /\ errors = 0
    /\ faults = MaxFaults
    /\ quiet = 0
    /\ missed = {}

-----------------------------------------------------------------------------
(* Timers and the queue *)

\* Mutant: the update timer is not started again when the floor holds it back.
PrepareForgetsTimer(left) ==
    IF delay \/ closed \/ phase # "active"
      THEN updTimer' = left /\ UNCHANGED delay
      ELSE IF since < plan.floor
        THEN updTimer' = Off /\ UNCHANGED delay
        ELSE updTimer' = plan.send /\ delay' = TRUE

\* #prepareDataUpdate, called while the update timer has `left` ticks left.
Prepare(left) ==
    IF delay \/ closed \/ phase # "active"
      THEN updTimer' = left /\ UNCHANGED delay
      ELSE IF since < plan.floor
        THEN updTimer' = plan.floor - since /\ UNCHANGED delay
        ELSE updTimer' = plan.send /\ delay' = TRUE

\* Mutant: the send delay goes on when the subscription ends.
StopUpdateTimer == updTimer' = Off /\ UNCHANGED delay

StopTimers == updTimer' = Off /\ delay' = FALSE

\* #sendUpdate takes what is outstanding, a and f, unless it sends only data.
Take(a, f, onlyData) ==
    IF onlyData /\ a = {} /\ f = 0
      THEN report' = NoReport /\ UNCHANGED since
      ELSE report' = Report(a, f) /\ since' = 0

\* #triggerSendUpdate
Trigger(onlyData) ==
    IF report.st # "none"
      THEN again' = TRUE /\ UNCHANGED <<report, since, queueVars>>
      ELSE /\ Take(dirty, minEvent, onlyData)
           /\ dirty' = {}
           /\ minEvent' = 0
           /\ UNCHANGED again

\* The loop of #sendUpdate goes on with what is outstanding, a and f, by now.
Continue(a, f) ==
    IF again
      THEN /\ again' = FALSE
           /\ Take(a, f, TRUE)
           /\ dirty' = {}
           /\ minEvent' = 0
      ELSE /\ report' = NoReport
           /\ dirty' = a
           /\ minEvent' = f
           /\ UNCHANGED <<again, since>>

Spend == faults > 0 /\ faults' = faults - 1

-----------------------------------------------------------------------------
(* Commits and events *)

Listening == phase \in {"seeding", "responding", "active", "orphan"}
Seeding == phase \in {"seeding", "responding", "orphan"}

\* Bound: nothing changes once the subscription is over.
Over == phase = "gone" /\ report.st = "none"

\* commit1: the version is incremented, then the values are stored.
Commit1(c) ==
    /\ ~Over
    /\ c \notin storing
    /\ version[c] < MaxValue
    /\ version' = [version EXCEPT ![c] = @ + 1]
    /\ IF Slow
         THEN storing' = storing \cup {c} /\ UNCHANGED <<value, notices>>
         ELSE /\ c \notin notices
              /\ value' = [value EXCEPT ![c] = @ + 1]
              /\ notices' = notices \cup {c}
              /\ UNCHANGED storing
    /\ UNCHANGED <<events, peerVars, lifeVars, queueVars, seedVars, timerVars, sendVars,
                   faults, historyVars>>

\* commit2: the new values are what a read returns.
\* Bound: the post-commit of the commit before it has run.
Commit2(c) ==
    /\ c \in storing
    /\ c \notin notices
    /\ value' = [value EXCEPT ![c] = version[c]]
    /\ storing' = storing \ {c}
    /\ notices' = notices \cup {c}
    /\ UNCHANGED <<version, events, peerVars, lifeVars, queueVars, seedVars, timerVars,
                   sendVars, faults, historyVars>>

\* #handleClusterStateChanges takes the change for part of the seed.
Drops(c) == Seeding /\ seeded[c] \in {Unknown, version[c]}

\* The seed that is still being sent has the present value of c, or will have.
SeedHas(c) == phase = "seeding" /\ (c \in report.left \/ report.vals[c] = value[c])

\* The seed has skipped c for its data version, or has read old values of c
\* under the version of a commit that was being stored.
Suspect(c) ==
    LET held == IF phase = "seeding" THEN report.vals[c] ELSE known[c]
    IN  /\ c \notin report.left
        /\ seeded[c] = Unknown \/ seeded[c] # held

\* postCommit: handleChange tells attrsChanged the version of that moment.
Notify(c) ==
    /\ c \in notices
    /\ notices' = notices \ {c}
    /\ IF Listening /\ ~Drops(c)
         THEN /\ dirty' = dirty \cup {c}
              /\ Prepare(updTimer)
         ELSE UNCHANGED <<dirty, updTimer, delay>>
    /\ missed' = IF Listening /\ Drops(c) /\ Suspect(c) /\ ~SeedHas(c) /\ known[c] # value[c]
                   THEN missed \cup {c} ELSE missed
    /\ UNCHANGED <<value, version, storing, events, peerVars, lifeVars, minEvent, seedVars,
                   since, sendVars, faults, quiet>>

\* #handleAddedEvents
AddEvent(urgent) ==
    /\ ~Over
    /\ events < MaxEvents
    /\ events' = events + 1
    /\ IF Listening
         THEN /\ minEvent' = IF minEvent = 0 \/ Seeding THEN events' ELSE minEvent
              /\ IF urgent THEN Prepare(updTimer) ELSE UNCHANGED <<updTimer, delay>>
         ELSE UNCHANGED <<minEvent, updTimer, delay>>
    /\ UNCHANGED <<value, version, storing, notices, peerVars, lifeVars, dirty, seedVars,
                   since, sendVars, faults, historyVars>>

-----------------------------------------------------------------------------
(* Reading and sending a report *)

\* The reader skips a cluster whose version the peer names in its filter.
Skipped(c) == phase = "seeding" /\ c \in filter /\ version[c] = 0

ReadCluster(c) ==
    /\ report.st = "read"
    /\ c \in report.left
    /\ IF Skipped(c)
         THEN report' = [report EXCEPT !.left = @ \ {c}] /\ UNCHANGED seeded
         ELSE /\ report' = [report EXCEPT !.left = @ \ {c}, !.vals[c] = value[c]]
              /\ seeded' = IF phase = "seeding" THEN [seeded EXCEPT ![c] = version[c]] ELSE seeded
    /\ UNCHANGED <<dataVars, peerVars, lifeVars, queueVars, lastSeeded, timerVars, again,
                   errors, faults, historyVars>>

\* The events come last; the seed's time is taken when all of it is read.
ReadEvents ==
    /\ report.st = "read"
    /\ report.left = {}
    /\ report' = [report EXCEPT !.st = "wire", !.upto = IF report.from = 0 THEN 0 ELSE events]
    /\ IF phase = "seeding"
         THEN lastSeeded' = events /\ since' = 0
         ELSE UNCHANGED <<lastSeeded, since>>
    /\ UNCHANGED <<dataVars, peerVars, lifeVars, queueVars, seeded, updTimer, delay, again,
                   errors, faults, historyVars>>

Carried == {c \in Clusters : report.vals[c] # Unknown}
CarriedEvents == IF report.from = 0 THEN {} ELSE report.from .. report.upto

\* The peer has the whole report.
Receive ==
    /\ known' = [c \in Clusters |-> IF c \in Carried THEN report.vals[c] ELSE known[c]]
    /\ got' = got \cup CarriedEvents
    /\ UNCHANGED <<filter, plan>>

SeedDelivered ==
    /\ phase = "seeding"
    /\ report.st = "wire"
    /\ Receive
    /\ report' = NoReport
    /\ phase' = "responding"
    /\ UNCHANGED <<dataVars, closed, byPeer, queueVars, seedVars, timerVars, again, errors,
                   faults, historyVars>>

\* establishSubscription closes the subscription.
SeedFails ==
    /\ phase = "seeding"
    /\ Spend
    /\ phase' = "gone"
    /\ closed' = TRUE
    /\ report' = NoReport
    /\ StopTimers
    /\ UNCHANGED <<dataVars, peerVars, byPeer, queueVars, seedVars, since, again, errors,
                   historyVars>>

\* Mutant: a single event after the seed is overlooked.
SeedGapStrict == IF lastSeeded + 1 < minEvent THEN lastSeeded + 1 ELSE 0

\* Mutant: the number after the last seeded event is taken although nothing came.
SeedGapPast == lastSeeded + 1

\* The first event the seed did not have, if there is one.
SeedGap == IF lastSeeded < minEvent THEN lastSeeded + 1 ELSE 0

\* The SubscribeResponse is acknowledged: activate.
Respond ==
    /\ phase = "responding"
    /\ phase' = "active"
    /\ seeded' = [c \in Clusters |-> Unknown]
    /\ lastSeeded' = 0
    /\ IF dirty # {} \/ SeedGap # 0
         THEN Take(dirty, SeedGap, FALSE) /\ dirty' = {} /\ minEvent' = 0
         ELSE minEvent' = 0 /\ UNCHANGED <<report, since, dirty>>
    /\ updTimer' = plan.send
    /\ quiet' = 0
    /\ UNCHANGED <<dataVars, peerVars, closed, byPeer, delay, again, errors, faults, missed>>

\* The response is not acknowledged: nobody closes the subscription.
RespondFails ==
    /\ phase = "responding"
    /\ Spend
    /\ phase' = "orphan"
    /\ UNCHANGED <<dataVars, peerVars, closed, byPeer, queueVars, seedVars, timerVars,
                   sendVars, historyVars>>

\* sendDelayTimer fires.
DelayFires ==
    /\ delay
    /\ delay' = FALSE
    /\ Trigger(FALSE)
    /\ UNCHANGED <<dataVars, peerVars, lifeVars, seedVars, updTimer, errors, faults,
                   historyVars>>

\* updateTimer fires.
UpdateFires ==
    /\ updTimer = 0
    /\ Prepare(Off)
    /\ UNCHANGED <<dataVars, peerVars, lifeVars, queueVars, seedVars, since, sendVars,
                   faults, historyVars>>

OnWire == report.st = "wire" /\ phase # "seeding"

ReportDelivered ==
    /\ OnWire
    /\ Receive
    /\ errors' = 0
    /\ quiet' = 0
    /\ missed' = missed \ Carried
    /\ Continue(dirty, minEvent)
    /\ UNCHANGED <<dataVars, lifeVars, seedVars, updTimer, delay, faults>>

\* Mutant: a report that failed is not put back.
BackNothing == <<dirty, minEvent>>

\* What is outstanding once the report that failed is put back.
Back == <<dirty \cup report.attrs, IF report.from = 0 THEN minEvent ELSE report.from>>

Lost == report.attrs \cup (IF report.from = 0 THEN {} ELSE {"events"})
Queued == dirty \cup (IF minEvent = 0 THEN {} ELSE {"events"})

\* sendUpdate catches an error: of the network, after which the peer may have
\* the report all the same, or another one.
ReportFails(kind) ==
    /\ report.st # "none"
    /\ phase # "seeding"
    /\ kind \in Errors
    /\ Spend
    /\ \/ UNCHANGED peerVars
       \/ OnWire /\ kind = "network" /\ Receive
    /\ quiet' = 0
    /\ CASE closed ->
              /\ report' = NoReport
              /\ missed' = missed \cup Lost \cup Queued
              /\ UNCHANGED <<lifeVars, queueVars, updTimer, delay, since, again, errors>>
         [] ~closed /\ errors < 2 ->
              /\ errors' = errors + 1
              /\ Continue(Back[1], Back[2])
              /\ UNCHANGED <<lifeVars, updTimer, delay, missed>>
         [] ~closed /\ errors >= 2 /\ kind = "network" ->
              /\ errors' = 3
              /\ again' = FALSE
              /\ report' = NoReport
              /\ byPeer' = TRUE
              /\ phase' = "gone"
              /\ StopTimers
              /\ UNCHANGED <<closed, queueVars, since, missed>>
         [] ~closed /\ errors >= 2 /\ kind # "network" ->
              /\ errors' = 3
              /\ again' = FALSE
              /\ report' = NoReport
              /\ missed' = missed \cup Lost
              /\ UNCHANGED <<lifeVars, queueVars, updTimer, delay, since>>
    /\ UNCHANGED <<dataVars, seedVars>>

\* The peer answers with a status: the subscription is cancelled, and the
\* loop of sendUpdate goes on as after a success.
ReportRefused ==
    /\ OnWire
    /\ "refused" \in Errors
    /\ Spend
    /\ byPeer' \in {byPeer, TRUE}
    /\ phase' = IF closed THEN phase ELSE "gone"
    /\ StopTimers
    /\ errors' = 0
    /\ quiet' = 0
    /\ Continue(dirty, minEvent)
    /\ UNCHANGED <<dataVars, peerVars, closed, seedVars, missed>>

-----------------------------------------------------------------------------
(* The end *)

\* Mutant: the subscription ends without a flush.
CloseUnflushed(flush) ==
    /\ phase = "active"
    /\ closed' = TRUE
    /\ phase' = "closing"
    /\ StopTimers
    /\ UNCHANGED <<dataVars, peerVars, byPeer, queueVars, seedVars, since, sendVars, faults,
                   historyVars>>

\* close: the session ends, with a flush through it or without one.
Close(flush) ==
    /\ phase = "active"
    /\ closed' = TRUE
    /\ IF flush
         THEN /\ phase' = "closing"
              /\ delay' = FALSE
              /\ IF dirty # {} \/ minEvent # 0
                   THEN Trigger(TRUE)
                   ELSE UNCHANGED <<queueVars, report, again, since>>
              /\ UNCHANGED updTimer
         ELSE /\ phase' = "gone"
              /\ StopTimers
              /\ UNCHANGED <<queueVars, report, again, since>>
    /\ UNCHANGED <<dataVars, peerVars, byPeer, seedVars, errors, faults, historyVars>>

\* The flush has been awaited.
CloseDone ==
    /\ phase = "closing"
    /\ report.st = "none"
    /\ phase' = "gone"
    /\ StopTimers
    /\ UNCHANGED <<dataVars, peerVars, closed, byPeer, queueVars, seedVars, since, sendVars,
                   faults, historyVars>>

\* handlePeerCancel: the peer subscribes anew with keepSubscriptions = false.
PeerCancel ==
    /\ phase = "active"
    /\ byPeer' = TRUE
    /\ closed' = TRUE
    /\ phase' = "gone"
    /\ StopTimers
    /\ UNCHANGED <<dataVars, peerVars, queueVars, seedVars, since, sendVars, faults,
                   historyVars>>

\* Timers are punctual: a tick passes when none is due.
Tick ==
    /\ phase \in {"seeding", "responding", "active", "closing"}
    /\ ~delay
    /\ updTimer # 0
    /\ updTimer' = IF updTimer = Off THEN Off ELSE updTimer - 1
    /\ since' = IF since < plan.floor THEN since + 1 ELSE since
    /\ quiet' = IF report.st = "none" /\ phase = "active" /\ quiet <= MaxInterval
                  THEN quiet + 1 ELSE quiet
    /\ UNCHANGED <<dataVars, peerVars, lifeVars, queueVars, seedVars, delay, sendVars,
                   faults, missed>>

Commits(c) == Commit2(c) \/ Notify(c)
Reports ==
    \/ \E c \in Clusters : ReadCluster(c)
    \/ ReadEvents \/ SeedDelivered \/ Respond \/ ReportDelivered
Timers == DelayFires \/ UpdateFires

Next ==
    \/ \E c \in Clusters : Commit1(c) \/ Commits(c)
    \/ \E urgent \in BOOLEAN : AddEvent(urgent)
    \/ Reports
    \/ Timers
    \/ SeedFails \/ RespondFails \/ ReportRefused
    \/ \E kind \in {"network", "other"} : ReportFails(kind)
    \/ \E flush \in BOOLEAN : Close(flush)
    \/ CloseDone \/ PeerCancel
    \/ Tick

Spec == Init /\ [][Next]_vars

(***************************************************************************)
(* A commit that has begun ends and is told, a report is read and sent or  *)
(* fails, timers fire and time passes.  Nothing has to change, fail or be  *)
(* closed.                                                                 *)
(***************************************************************************)
Fairness ==
    /\ \A c \in Clusters : WF_vars(Commits(c))
    /\ WF_vars(Reports)
    /\ WF_vars(Timers)
    /\ WF_vars(CloseDone)
    /\ WF_vars(Tick)

FairSpec == Spec /\ Fairness

-----------------------------------------------------------------------------
TypeOK ==
    /\ value \in [Clusters -> Values] /\ version \in [Clusters -> Values]
    /\ storing \subseteq Clusters /\ notices \subseteq Clusters
    /\ events \in 0 .. MaxEvents
    /\ known \in [Clusters -> Values \cup {Unknown}]
    /\ got \subseteq 1 .. MaxEvents
    /\ filter \subseteq Filters
    /\ plan \in [floor : 0 .. Limit, max : 0 .. Limit, send : 0 .. MaxInterval]
    /\ phase \in Phases /\ closed \in BOOLEAN /\ byPeer \in BOOLEAN
    /\ dirty \subseteq Clusters /\ minEvent \in 0 .. MaxEvents
    /\ seeded \in [Clusters -> Values \cup {Unknown}]
    /\ lastSeeded \in 0 .. MaxEvents
    /\ updTimer \in {Off} \cup 0 .. MaxInterval /\ delay \in BOOLEAN
    /\ since \in 0 .. Limit
    /\ report \in [st : {"none", "read", "wire"}, attrs : SUBSET Clusters,
                   left : SUBSET Clusters, vals : [Clusters -> Values \cup {Unknown}],
                   from : 0 .. Larger(1, MaxEvents), upto : 0 .. MaxEvents]
    /\ again \in BOOLEAN /\ errors \in 0 .. 3
    /\ faults \in 0 .. MaxFaults
    /\ quiet \in 0 .. MaxInterval + 1
    /\ missed \subseteq Clusters \cup {"events"}

Live == phase \in {"seeding", "responding", "active"}

\* The report under way brings the present value of c.
Brings(c) ==
    /\ report.st # "none"
    /\ c \in report.left \/ report.vals[c] = value[c]

(***************************************************************************)
(* No change of an attribute is lost: whenever the peer of a live          *)
(* subscription does not hold the present value of a cluster, the value is *)
(* on its way, queued, or about to be told, through the seed, retries and  *)
(* changes during a report; `missed` names the known exceptions            *)
(* (ServerSubscription.ts:304-326, 431-465).                               *)
(***************************************************************************)
NoChangeLost ==
    Live => \A c \in Clusters \ missed :
      known[c] = value[c] \/ c \in dirty \cup notices \/ Brings(c)

\* The report under way or the queue has event e.
Pending(e) ==
    \/ report.st = "read" /\ report.from \in 1 .. e
    \/ report.st = "wire" /\ e \in CarriedEvents
    \/ phase = "active" /\ minEvent \in 1 .. e
    \/ phase # "active" /\ minEvent # 0 /\ lastSeeded < e

(***************************************************************************)
(* No event is lost: every event the peer of a live subscription does not  *)
(* have is in the report under way or at or after the number to start the  *)
(* next one from, however events fall between the seed, its response and   *)
(* a report that fails (ServerSubscription.ts:328-342, 364-370, 467-469).  *)
(***************************************************************************)
NoEventLost ==
    Live /\ "events" \notin missed => \A e \in 1 .. events : e \in got \/ Pending(e)

(***************************************************************************)
(* The peer of an active subscription never waits longer than the          *)
(* max interval it was told for a report to begin, whatever changes        *)
(* restart the timers (ServerSubscription.ts:249-289, 388-415).            *)
(***************************************************************************)
HeardInTime == phase = "active" /\ report.st = "none" => quiet <= plan.max

(***************************************************************************)
(* A subscription that ends with a flush leaves nothing outstanding unless *)
(* a report failed on the way, also if one was under way                   *)
(* (ServerSubscription.ts:640-650, 655-688).                               *)
(***************************************************************************)
FlushSendsAll ==
    [][CloseDone => dirty \subseteq missed /\ (minEvent # 0 => "events" \in missed)]_vars

(***************************************************************************)
(* The peer's copy only goes forward: however commits, events and failures *)
(* fall between the reads of a report, no report brings a value older than *)
(* the peer's or one not yet stored, and no timer, change or event makes a *)
(* subscription that is over send once more                                *)
(* (ServerSubscription.ts:388-511, 655-688).                               *)
(***************************************************************************)
Copy == INSTANCE Replica WITH Nothing <- Unknown, current <- value, newest <- events,
                              copy <- known, seen <- got, over <- Over
ImplementsReplica == Copy!Spec

(***************************************************************************)
(* The peer converges: again and again it holds every value and event,     *)
(* save the known exceptions, or the subscription is not live any more,    *)
(* although reports fail and changes fall between them                     *)
(* (ServerSubscription.ts:417-511).                                        *)
(***************************************************************************)
Converges ==
    []<>(Live => /\ \A c \in Clusters \ missed : known[c] = value[c]
                 /\ "events" \in missed \/ got = 1 .. events)

(***************************************************************************)
(* A change that is dropped while the seed is sent belongs to a cluster    *)
(* that is not seeded or that the seed still brings (the comment at        *)
(* ServerSubscription.ts:317).  A cluster that the seed has skipped for    *)
(* its data version has no entry and is taken for one still to come.       *)
(***************************************************************************)
DropIsYetToCome ==
    [][\A c \in Clusters :
         Notify(c) /\ phase = "seeding" /\ Drops(c) => SeedHas(c) \/ known[c] = value[c]]_vars

=============================================================================
