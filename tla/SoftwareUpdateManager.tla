------------------------ MODULE SoftwareUpdateManager ------------------------
(***************************************************************************)
(* Over-the-air updates on the controller's side: the queue and consents   *)
(* of behavior/system/software-update/SoftwareUpdateManager.ts and the     *)
(* transfers of behaviors/ota-software-update-provider/                    *)
(* OtaSoftwareUpdateProviderServer.ts (default extension methods), with    *)
(* the devices that are updated as their environment.                      *)
(*                                                                         *)
(* Peers are of different products.  A unit of time is the period of the   *)
(* queue's timer (5 minutes).  An announcement, a call of the application  *)
(* and a check for updates take time; everything else is one step.  The    *)
(* application's calls and the devices' initiatives are bounded by the     *)
(* budgets `asks` and `talks`.                                             *)
(***************************************************************************)
EXTENDS Integers, Sequences, SequencesExt

CONSTANTS
    Peers,        \* the devices
    MaxVersion,   \* bound on the software versions
    StallAge,     \* units in the 15 minutes after which progress is stale
    MaxAsks,      \* bound on the calls of the application and the checks
    Talks,        \* Talks[p]: bound on the initiatives of p
    Consenting    \* the devices that ask their user themselves

ASSUME BoundsAssumption ==
    /\ MaxVersion \in Nat \ {0} /\ StallAge \in Nat
    /\ MaxAsks \in Nat /\ Talks \in [Peers -> Nat]
    /\ Consenting \subseteq Peers

VARIABLES
    consents,   \* consents[p]: the version consented to for p, None without one
    queue,      \* updateQueue
    timer,      \* updateQueueTimer runs
    ready,      \* announcements is defined
    calls,      \* peers whose queue entry is being announced to
    adds,       \* adds[p]: addUpdateConsent or forceUpdate waiting, or NoAdd
    cancels,    \* peers for which #cancelUpdate waits for BDX
    checks,     \* checks[p]: version p ran when a check for it began, or None
    details,    \* details[p]: inProgressDetails of p, or NoDetails
    bdx,        \* peers BDX is enabled for
    device,     \* device[p]: where the update of p is, on p
    runs,       \* runs[p]: the version p runs
    booted,     \* peers whose startUp event is yet to arrive
    told,       \* history: the consents the application has left in force
    clean,      \* history: no call saved consents read before another changed them
    asks,       \* budget left to the application
    talks       \* talks[p]: budget left to p

queueVars == <<queue, timer, calls>>
applicationVars == <<consents, adds, cancels, checks, told, clean, asks>>
deviceVars == <<device, runs, booted>>
vars == <<queueVars, ready, applicationVars, details, bdx, deviceVars, talks>>

None == 0
Never == -1
Versions == 1 .. MaxVersion
Ages == 0 .. StallAge + 1
Consents == [Peers -> Versions \cup {None}]
NotStarted == {"undefined", "Unknown"}
Moving == {"Querying", "Downloading", "WaitForApply", "Applying"}
Entry == [peer : Peers, target : Versions, since : Ages \cup {Never},
          status : NotStarted \cup Moving]
NoAdd == [target |-> None]
NoDetails == [state |-> "none"]
Idle == [step |-> "idle"]

-----------------------------------------------------------------------------
(* The queue. *)

InQueue(p) == \E i \in DOMAIN queue : queue[i].peer = p
Place(p) == CHOOSE i \in DOMAIN queue : queue[i].peer = p
InProgress(e) == e.since # Never
Underway(q) == \E i \in DOMAIN q : InProgress(q[i])

Reset(e) == [e EXCEPT !.since = Never, !.status = "Unknown"]

\* Mutant: nobody looks for stalled updates.
RevivedNever(q) == q

\* Entries without news for more than 15 minutes are reset.
Revived(q) == [i \in DOMAIN q |-> IF q[i].since > StallAge THEN Reset(q[i]) ELSE q[i]]

\* Mutant: the sort puts the entries of status Unknown first.
RankReversed(e) == IF e.status = "Unknown" THEN 0 ELSE 1

\* The stable sort that puts the entries of status Unknown last.
Rank(e) == IF e.status = "Unknown" THEN 1 ELSE 0
StableOrders(q) ==
    {o \in [DOMAIN q -> DOMAIN q] : \A i, j \in DOMAIN q : i < j =>
        \/ Rank(q[o[i]]) < Rank(q[o[j]])
        \/ Rank(q[o[i]]) = Rank(q[o[j]]) /\ o[i] < o[j]}

\* #triggerQueuedUpdate on the queue q, with the announcements c under way:
\* the timer is stopped when nothing is in progress, and started for the head.
Trigger(q, c) ==
    LET r == Revived(q)
    IN IF q = <<>> \/ Underway(r)
       THEN /\ queue' = r /\ calls' = c
            /\ timer' = (timer /\ q # <<>>)
       ELSE /\ \E o \in StableOrders(r) : queue' = [i \in DOMAIN r |-> r[o[i]]]
            /\ calls' = IF ready THEN c \cup {queue'[1].peer} ELSE c
            /\ timer' = TRUE

\* The entry of p leaves the queue; announcements to it no longer matter.
Splice(p) == RemoveAt(queue, Place(p))
Dequeue(p) == Trigger(Splice(p), calls \ {p})

\* Mutant: only an entry that waits is looked for.
QueueUpdateTwice(p, target, c) ==
    IF InQueue(p) /\ ~InProgress(queue[Place(p)])
    THEN Trigger([queue EXCEPT ![Place(p)].target = target], c)
    ELSE Trigger(Append(queue, [peer |-> p, target |-> target, since |-> Never,
                                status |-> "undefined"]), c)

\* #queueUpdate, with the announcements c under way when it returns: one
\* entry per peer, and an update in progress is left alone.
QueueUpdate(p, target, c) ==
    IF InQueue(p)
    THEN IF InProgress(queue[Place(p)])
         THEN calls' = c /\ UNCHANGED <<queue, timer>>
         ELSE Trigger([queue EXCEPT ![Place(p)].target = target], c)
    ELSE Trigger(Append(queue, [peer |-> p, target |-> target, since |-> Never,
                                status |-> "undefined"]), c)

\* Mutant: Cancelled is a status like the others.
OnOtaStatusChangeNoCancel(p, status) ==
    IF ~InQueue(p) THEN UNCHANGED queueVars
    ELSE IF status = "Done" THEN Dequeue(p)
    ELSE /\ queue' = [queue EXCEPT ![Place(p)].since = 0, ![Place(p)].status = status]
         /\ UNCHANGED <<timer, calls>>

\* onOtaStatusChange.
OnOtaStatusChange(p, status) ==
    IF ~InQueue(p) THEN UNCHANGED queueVars
    ELSE IF status \in {"Done", "Cancelled"} THEN Dequeue(p)
    ELSE /\ queue' = [queue EXCEPT ![Place(p)].since = 0, ![Place(p)].status = status]
         /\ UNCHANGED <<timer, calls>>


\* The periodic run of #triggerQueuedUpdate.
TimerFires ==
    /\ timer
    /\ Trigger(queue, calls)
    /\ UNCHANGED <<ready, applicationVars, details, bdx, deviceVars, talks>>

\* The end of #triggerUpdateOnNode: a device that cannot be reached counts as
\* announced to; only an error that is no MatterError (ok = FALSE) resets the
\* entry.  Another announcement to the same entry may remain under way.
Announced(p, ok) ==
    /\ p \in calls
    /\ LET i == Place(p)
       IN IF ok
          THEN /\ queue' = [queue EXCEPT ![i].since = 0]
               /\ calls' \in {calls, calls \ {p}}
               /\ UNCHANGED timer
          ELSE /\ asks > 0
               /\ Trigger([queue EXCEPT ![i] = Reset(@)], calls \ {p})
    /\ asks' = IF ok THEN asks ELSE asks - 1
    /\ UNCHANGED <<ready, consents, adds, cancels, checks, told, clean,
                   details, bdx, deviceVars, talks>>

\* #nodeOnline: updates are provided while there is a fabric.
NodeOnline ==
    /\ asks > 0
    /\ ready' \in BOOLEAN
    /\ asks' = asks - 1
    /\ UNCHANGED <<queueVars, consents, adds, cancels, checks, told, clean,
                   details, bdx, deviceVars, talks>>

\* Time goes by for the entries and for the details of the transfers.
Older(age) == IF age \in 0 .. StallAge THEN age + 1 ELSE age
Tick ==
    /\ queue' = [i \in DOMAIN queue |-> [queue[i] EXCEPT !.since = Older(@)]]
    /\ details' = [p \in Peers |-> IF details[p] = NoDetails THEN NoDetails
                                   ELSE [details[p] EXCEPT !.age = Older(@)]]
    /\ UNCHANGED <<timer, calls, ready, applicationVars, bdx, deviceVars, talks>>

-----------------------------------------------------------------------------
(* The provider's record of a transfer. *)

HasDetails(p) == details[p] # NoDetails
Stale(p) == HasDetails(p) /\ details[p].age > StallAge

\* #updateInProgressDetails.
Update(p, state) ==
    /\ details' = [details EXCEPT ![p] = IF state \in {"Done", "Cancelled"} THEN NoDetails
                                         ELSE [state |-> state, age |-> 0]]
    /\ OnOtaStatusChange(p, state)

\* The session of p closes: a transfer that has not ended counts as cancelled,
\* details that are stale are only removed.
SessionClosed(p) ==
    IF HasDetails(p) /\ ~Stale(p) /\ details[p].state \notin {"WaitForApply", "Applying"}
    THEN Update(p, "Cancelled")
    ELSE /\ details' = IF Stale(p) THEN [details EXCEPT ![p] = NoDetails] ELSE details
         /\ UNCHANGED queueVars

\* disablePeerForScope(p, storage, true), BDX being external: no new session
\* of p may start, and the one that is open is closed.
DisablePeer(p) ==
    /\ bdx' = bdx \ {p}
    /\ IF device[p].step = "loading"
       THEN /\ device' = [device EXCEPT ![p] = Idle]
            /\ IF device[p].watched THEN SessionClosed(p) ELSE UNCHANGED <<details, queueVars>>
       ELSE UNCHANGED <<device, details, queueVars>>

-----------------------------------------------------------------------------
(* The application: consents, forced updates and checks. *)

Ask == asks > 0 /\ asks' = asks - 1

\* The first part of addUpdateConsent: the consents are read, the peer awaited.
BeginAdd(p, target, force) ==
    [adds EXCEPT ![p] = [target |-> target, force |-> force, others |-> consents]]

AddUpdateConsent(p, target) ==
    /\ Ask
    /\ adds[p] = NoAdd
    /\ adds' = BeginAdd(p, target, FALSE)
    /\ UNCHANGED <<queueVars, ready, consents, cancels, checks, told, clean,
                   details, bdx, deviceVars, talks>>

\* forceUpdate, whose two waits before the peer is found are one: an update of
\* p in progress is dropped, unless its transfer is active and the call ends.
ForceUpdate(p, target) ==
    /\ Ask
    /\ adds[p] = NoAdd
    /\ IF InQueue(p) /\ InProgress(queue[Place(p)])
       THEN /\ device[p].step # "loading"
            /\ queue' = Splice(p) /\ calls' = calls \ {p}
            /\ bdx' = bdx \ {p}
       ELSE UNCHANGED <<queue, calls, bdx>>
    /\ adds' = BeginAdd(p, target, TRUE)
    /\ UNCHANGED <<timer, ready, consents, cancels, checks, told, clean,
                   details, deviceVars, talks>>

\* A forced update that is not alone in the queue is announced at once.
Forced(p, a) ==
    IF /\ a.force
       /\ \E i \in DOMAIN queue : queue[i].peer # p
       /\ InQueue(p) => ~InProgress(queue[Place(p)]) \/ queue[Place(p)].target = a.target
    THEN calls \cup {p} ELSE calls

\* The second part of addUpdateConsent: the consents read before, that of p
\* replaced, become the consents; nothing is saved for a peer that cannot be
\* found or is another product, and nothing queued for one that cannot update.
Others(f, p) == [f EXCEPT ![p] = None]
AddEnds(p, outcome) ==
    /\ adds[p] # NoAdd
    /\ outcome = "applicable" => ready
    /\ LET a == adds[p]
       IN /\ IF outcome = "refused" THEN UNCHANGED <<consents, told, clean>>
             ELSE /\ consents' = [a.others EXCEPT ![p] = a.target]
                  /\ told' = [told EXCEPT ![p] = a.target]
                  /\ clean' = (clean /\ Others(a.others, p) = Others(consents, p))
          /\ IF outcome = "applicable" THEN QueueUpdate(p, a.target, Forced(p, a))
             ELSE UNCHANGED queueVars
    /\ adds' = [adds EXCEPT ![p] = NoAdd]
    /\ UNCHANGED <<ready, cancels, checks, asks, details, bdx, deviceVars, talks>>

\* removeConsent up to the wait of #cancelUpdate; a target of None stands for
\* any.  The transfer of p is closed even when no consent is found.
RemoveConsent(p, target) ==
    /\ Ask
    /\ p \notin cancels
    /\ LET found == consents[p] # None /\ target \in {None, consents[p]}
       IN /\ consents' = IF found THEN Others(consents, p) ELSE consents
          /\ told' = IF target \in {None, told[p]} THEN Others(told, p) ELSE told
    /\ cancels' = cancels \cup {p}
    /\ DisablePeer(p)
    /\ UNCHANGED <<ready, adds, checks, clean, runs, booted, talks>>

\* The end of #cancelUpdate: too late for an update that is applying.
CancelEnds(p) ==
    /\ p \in cancels
    /\ cancels' = cancels \ {p}
    /\ IF InQueue(p) /\ queue[Place(p)].status # "Applying" THEN Dequeue(p)
       ELSE UNCHANGED queueVars
    /\ UNCHANGED <<ready, consents, adds, checks, told, clean, asks, details, bdx,
                   deviceVars, talks>>

\* #checkProductForUpdates: the version is read, the check and the download
\* awaited; what was found is queued when there is consent to exactly that.
CheckBegins(p) ==
    /\ Ask
    /\ ready /\ checks[p] = None
    /\ checks' = [checks EXCEPT ![p] = runs[p]]
    /\ UNCHANGED <<queueVars, ready, consents, adds, cancels, told, clean,
                   details, bdx, deviceVars, talks>>

CheckEnds(p, found) ==
    /\ checks[p] # None
    /\ checks' = [checks EXCEPT ![p] = None]
    /\ IF found > checks[p] /\ consents[p] = found THEN QueueUpdate(p, found, calls)
       ELSE UNCHANGED queueVars
    /\ UNCHANGED <<ready, consents, adds, cancels, told, clean, asks, details, bdx,
                   deviceVars, talks>>

-----------------------------------------------------------------------------
(* The requests and the transfers of the devices. *)

Talk(p) == talks[p] > 0 /\ talks' = [talks EXCEPT ![p] = @ - 1]
Become(p, d) == device' = [device EXCEPT ![p] = d]

\* updateExistsFor finds an image of version v for p: consent to v or to a
\* higher version suffices, and a device that asks its user needs none.
UpdateExistsFor(p, v) == v > runs[p] /\ (p \in Consenting \/ consents[p] >= v)

\* queryImage with an image of version v to offer.  An update of p that is on record makes it
\* busy.  Without BDX (enabled = FALSE) it is busy too, its record stays behind.
\* Any other answer changes nothing.
QueryImage(p, v, enabled) ==
    /\ Talk(p)
    /\ device[p].step = "idle"
    /\ UpdateExistsFor(p, v)
    /\ ~HasDetails(p) \/ Stale(p)
    /\ Update(p, "Querying")
    /\ IF enabled THEN bdx' = bdx \cup {p} /\ Become(p, [step |-> "offered", to |-> v])
       ELSE UNCHANGED <<bdx, device>>
    /\ UNCHANGED <<ready, applicationVars, runs, booted>>

\* The sessionListener: it follows a session whose details are still there.
TransferStarts(p) ==
    /\ device[p].step = "offered" /\ p \in bdx
    /\ LET watched == HasDetails(p) /\ ~Stale(p)
       IN /\ Become(p, [step |-> "loading", to |-> device[p].to, watched |-> watched])
          /\ IF watched THEN Update(p, "Downloading")
             ELSE details' = [details EXCEPT ![p] = NoDetails] /\ UNCHANGED queueVars
    /\ UNCHANGED <<ready, applicationVars, bdx, runs, booted, talks>>

TransferFinishes(p) ==
    /\ device[p].step = "loading"
    /\ Become(p, [step |-> "loaded", to |-> device[p].to])
    /\ IF device[p].watched THEN Update(p, "WaitForApply") ELSE UNCHANGED <<details, queueVars>>
    /\ UNCHANGED <<ready, applicationVars, bdx, runs, booted, talks>>

\* progressCancelled (told = TRUE), or a session that only closes.
TransferFails(p, cancelled) ==
    /\ device[p].step = "loading"
    /\ Become(p, Idle)
    /\ IF ~device[p].watched THEN UNCHANGED <<details, queueVars>>
       ELSE IF cancelled THEN Update(p, "Cancelled") ELSE SessionClosed(p)
    /\ UNCHANGED <<ready, applicationVars, bdx, runs, booted, talks>>

\* Mutant: any consent for the device will do.
HasAnyConsent(p, v) == consents[p] # None

\* #hasUpdateConsent.
HasUpdateConsent(p, v) == consents[p] = v

\* applyUpdateRequest; the answer may be lost, the device then asks again.
ApplyUpdateRequest(p, heard) ==
    /\ device[p].step = "loaded"
    /\ IF heard THEN UNCHANGED talks ELSE Talk(p)
    /\ bdx' = bdx \ {p}
    /\ IF HasUpdateConsent(p, device[p].to)
       THEN /\ Update(p, "Applying")
            /\ IF heard THEN Become(p, [step |-> "applying", to |-> device[p].to])
               ELSE UNCHANGED device
       ELSE /\ Update(p, "Cancelled")
            /\ IF heard THEN Become(p, Idle) ELSE UNCHANGED device
    /\ UNCHANGED <<ready, applicationVars, runs, booted>>

\* notifyUpdateApplied.
NotifyUpdateApplied(p) ==
    /\ device[p].step = "applied"
    /\ Update(p, "Done")
    /\ Become(p, Idle)
    /\ UNCHANGED <<ready, applicationVars, bdx, runs, booted, talks>>

\* A device starts its update anew, or never says that it was applied.
GivesUp(p) ==
    /\ device[p].step \in {"offered", "loaded", "applied"}
    /\ Become(p, Idle)
    /\ UNCHANGED <<queueVars, ready, applicationVars, details, bdx, runs, booted, talks>>

\* A device boots: with the new version, or with the old one.
Boots(p, updated) ==
    /\ IF device[p].step = "applying" THEN UNCHANGED talks
       ELSE device[p].step \in {"idle", "offered", "loaded"} /\ Talk(p) /\ ~updated
    /\ IF updated
       THEN Become(p, [step |-> "applied"]) /\ runs' = [runs EXCEPT ![p] = device[p].to]
       ELSE Become(p, Idle) /\ UNCHANGED runs
    /\ booted' = booted \cup {p}
    /\ UNCHANGED <<queueVars, ready, applicationVars, details, bdx>>

\* #onSoftwareVersionChanged, called with isStartUp by the startUp event; the
\* change of the attribute, when there is one, arrives with it.
OnSoftwareVersionChanged(p) ==
    /\ p \in booted
    /\ booted' = booted \ {p}
    /\ IF ~InQueue(p) THEN UNCHANGED <<queueVars, consents>>
       ELSE LET i == Place(p)
                e == IF InProgress(queue[i]) THEN Reset(queue[i]) ELSE queue[i]
            IN IF runs[p] >= e.target
               THEN /\ Dequeue(p)
                    /\ consents' = IF consents[p] > runs[p] THEN consents
                                   ELSE Others(consents, p)
               ELSE /\ UNCHANGED consents
                    /\ IF e.status \in {"Applying", "WaitForApply"} THEN Dequeue(p)
                       ELSE queue' = [queue EXCEPT ![i] = e] /\ UNCHANGED <<timer, calls>>
    /\ UNCHANGED <<ready, adds, cancels, checks, told, clean, asks, details, bdx,
                   device, runs, talks>>

-----------------------------------------------------------------------------

Init ==
    /\ consents \in {f \in Consents : \A p \in Peers : f[p] # 1}
    /\ queue = <<>> /\ timer = FALSE /\ calls = {} /\ ready \in BOOLEAN
    /\ adds = [p \in Peers |-> NoAdd]
    /\ cancels = {}
    /\ checks = [p \in Peers |-> None]
    /\ details = [p \in Peers |-> NoDetails]
    /\ bdx = {}
    /\ device = [p \in Peers |-> Idle]
    /\ runs = [p \in Peers |-> 1]
    /\ booted = {}
    /\ told = consents /\ clean = TRUE
    /\ asks = MaxAsks /\ talks = Talks

Application(p) ==
    \/ \E target \in Versions : AddUpdateConsent(p, target) \/ ForceUpdate(p, target)
    \/ \E target \in Versions \cup {None} : RemoveConsent(p, target)
    \/ CheckBegins(p)

\* What ends by itself: a wait of the manager, or a period of the clock.
Waits(p) ==
    \/ \E outcome \in {"applicable", "later", "refused"} : AddEnds(p, outcome)
    \/ CancelEnds(p)
    \/ \E found \in Versions \cup {None} : CheckEnds(p, found)
    \/ OnSoftwareVersionChanged(p)

Device(p) ==
    \/ \E v \in Versions, enabled \in BOOLEAN : QueryImage(p, v, enabled)
    \/ TransferStarts(p) \/ TransferFinishes(p)
    \/ \E cancelled \in BOOLEAN : TransferFails(p, cancelled)
    \/ \E heard \in BOOLEAN : ApplyUpdateRequest(p, heard)
    \/ NotifyUpdateApplied(p) \/ GivesUp(p)
    \/ \E updated \in BOOLEAN : Boots(p, updated)

Next ==
    \/ NodeOnline \/ TimerFires \/ Tick
    \/ \E p \in Peers :
        \/ \E ok \in BOOLEAN : Announced(p, ok)
        \/ Application(p) \/ Waits(p) \/ Device(p)

Spec == Init /\ [][Next]_vars

\* Time goes by, the timer fires, and the last announcement to an entry ends.
Fairness ==
    /\ WF_vars(TimerFires) /\ WF_vars(Tick)
    /\ \A p \in Peers : WF_vars(Announced(p, TRUE) /\ p \notin calls')

FairSpec == Spec /\ Fairness

-----------------------------------------------------------------------------
(* Properties. *)

\* Types of the variables.
TypeOK ==
    /\ consents \in Consents /\ told \in Consents
    /\ queue \in Seq(Entry) /\ timer \in BOOLEAN
    /\ ready \in BOOLEAN /\ clean \in BOOLEAN
    /\ calls \subseteq {queue[i].peer : i \in DOMAIN queue}
    /\ adds \in [Peers -> {NoAdd} \cup [target : Versions, force : BOOLEAN, others : Consents]]
    /\ cancels \subseteq Peers /\ bdx \subseteq Peers /\ booted \subseteq Peers
    /\ checks \in [Peers -> Versions \cup {None}]
    /\ details \in [Peers -> {NoDetails} \cup [state : Moving, age : Ages]]
    /\ device \in [Peers -> {Idle} \cup [step : {"applied"}]
                    \cup [step : {"offered", "loaded", "applying"}, to : Versions]
                    \cup [step : {"loading"}, to : Versions, watched : BOOLEAN]]
    /\ runs \in [Peers -> Versions]
    /\ asks \in 0 .. MaxAsks /\ talks \in [Peers -> Nat]

\* While updates are queued, the timer that looks for stalled ones runs
\* (#triggerQueuedUpdate stops and starts it, several returns come before).
QueueIsWatched == queue # <<>> => timer

\* A device has one update in the queue, however its calls and the checks meet.
OneEntryPerPeer ==
    \A i, j \in DOMAIN queue : queue[i].peer = queue[j].peer => i = j

\* A device is told to apply an image only when its version is the one the
\* application last consented to for that device and has not withdrawn, as long
\* as no addUpdateConsent saves consents of other devices that changed while it
\* waited: by another addition, a withdrawal, or the removal of a consent that is
\* used up.  It undoes those changes (SoftwareUpdateManager.ts:905-931), so a consent
\* that was withdrawn may come back.  An addition counts from its end: a withdrawal
\* of the same consent while it waits comes too early.
AppliedAsConsented ==
    [][\A p \in Peers :
        device'[p].step = "applying" /\ device[p].step # "applying" /\ clean
            => told[p] = device[p].to]_vars

\* An update nobody has tried yet gets its turn, whatever the devices before it
\* do: one that falls silent holds the queue for no longer than 15 minutes.
Untried(p) == \E i \in DOMAIN queue :
    queue[i].peer = p /\ queue[i].since = Never /\ queue[i].status = "undefined"
FirstTurn ==
    \A p \in Peers : Untried(p) /\ ready ~> p \in calls \/ ~Untried(p) \/ ~ready

\* The queue does not come to rest: as long as it is not empty, some device is
\* announced to again.
QueueGoesOn == []<>(queue = <<>> \/ calls # {} \/ ~ready)
=============================================================================
