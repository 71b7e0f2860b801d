----------------------------- MODULE OtaRequestor -----------------------------
(***************************************************************************)
(* Over-the-air updates on the device's side: OtaSoftwareUpdateRequestor-  *)
(* Server of behaviors/ota-software-update-requestor.  Its timer leads to  *)
(* a query of one of the active providers; what the provider offers is     *)
(* downloaded, the provider asked to apply it, and applyUpdate called.     *)
(*                                                                         *)
(* The attributes of the behavior are transactional: the first write takes *)
(* a lock that is held until the reaction or command ends, which saves     *)
(* them; a write that meets the lock throws.  The timer, the selected      *)
(* provider and the count of retries are not.  Delays are not measured.    *)
(* A provider may answer what it likes as often as it likes, and downloads *)
(* may fail as often; what goes wrong on the device, and what its users    *)
(* and administrators do, is drawn from `faults`.                          *)
(***************************************************************************)
EXTENDS Integers, Sequences, FiniteSets, SequencesExt

CONSTANTS
    Providers,    \* the OTA providers, of different fabrics
    NoOne,        \* no provider
    MaxVersion,   \* bound on the software versions
    MaxRetries,   \* MAX_BUSY_RETRIES
    MaxFaults     \* bound on failures of the device and events from outside

ASSUME ProvidersAssumption == Providers \cap {NoOne, "free", "query"} = {}
ASSUME BoundsAssumption == /\ MaxVersion \in Nat \ {0}
                           /\ MaxRetries \in Nat /\ MaxFaults \in Nat

VARIABLES
    possible,    \* the attribute updatePossible
    online,      \* the node is online
    timer,       \* updateQueryTimer: undefined, stopped or running
    selected,    \* selectedProviderLocation
    retries,     \* providerRetryCount
    state,       \* the attributes, as the holder of the lock sees them
    saved,       \* the attributes as last saved
    lock,        \* who holds the lock: the query, a provider's announcement, or no one
    step,        \* where the query is
    offer,       \* the query's provider and the version it offers
    second,      \* a second activation of the query: off, check or delete
    file,        \* the file at the download location
    runs,        \* the version of the device
    faults,      \* budget left
    installed,   \* history: what applyUpdate was last called with, and the file
    stranded     \* history: an activation ended without leave for the next one,
                 \* or the node came back without providers and a stopped timer

timerVars == <<timer, selected, retries>>
stateVars == <<state, saved, lock>>
queryVars == <<step, offer, second>>
deviceVars == <<possible, online, runs, file>>
historyVars == <<installed, stranded>>
vars == <<timerVars, stateVars, queryVars, deviceVars, faults, historyVars>>

None == 0
Versions == 1 .. MaxVersion
NoFile == [version |-> None, whole |-> FALSE]
Files == {NoFile} \cup [version : Versions, whole : BOOLEAN]
NoOffer == [from |-> NoOne, to |-> None]
NoDetails == [to |-> None]
NotCalled == [to |-> None, file |-> NoFile]

Fault == faults > 0 /\ faults' = faults - 1

-----------------------------------------------------------------------------
(* The active providers: those to be asked first (their timestamp is null) *)
(* and those asked before, the longest ago first.                          *)

Active(s) == s.fresh \cup ToSet(s.asked)
Without(seq, p) ==
    IF p \in ToSet(seq) THEN RemoveAt(seq, CHOOSE i \in DOMAIN seq : seq[i] = p) ELSE seq

\* #addActiveOtaProvider, #markActiveOtaProviderNoUpdate, #removeOtaProvider.
Add(s, p) == [s EXCEPT !.fresh = @ \cup {p}, !.asked = Without(@, p)]
\* Mutant: the time of the query is not written.
MarkOnlyAdds(s, p) == IF p \in Active(s) THEN s ELSE [s EXCEPT !.asked = Append(@, p)]
\* Mutant: every query adds an entry.
MarkAppends(s, p) == [s EXCEPT !.fresh = @ \ {p}, !.asked = Append(@, p)]
Mark(s, p) == [s EXCEPT !.fresh = @ \ {p}, !.asked = Append(Without(@, p), p)]
Forget(s, p) == [s EXCEPT !.fresh = @ \ {p}, !.asked = Without(@, p),
                          !.defaults = @ \ {p}]

\* #chooseUpdateProvider: the selected one, or one with the oldest timestamp.
Candidates ==
    IF selected # NoOne THEN {selected}
    ELSE IF state.fresh # {} THEN state.fresh
    ELSE IF state.asked # <<>> THEN {Head(state.asked)} ELSE {}

\* #scheduleUpdateQuery with a delay, and without one: a timer that runs is
\* kept, and none is started unless the state is idle.
ScheduleSoon(s) == IF possible /\ Active(s) # {} THEN "running" ELSE "undefined"
\* Mutant: only a stopped timer is started again.
ScheduleAgain(t, s) == IF t = "stopped" THEN ScheduleSoon(s) ELSE t
Schedule(t, s) ==
    IF t = "running" THEN t
    ELSE IF s.update = "Idle" THEN ScheduleSoon(s) ELSE "undefined"

\* #updateState.
Becomes(s, update) == [s EXCEPT !.update = update]
Goes(update) == state' = Becomes(state, update)

\* #resetStateToIdle, from the attributes s and the timer t.
ResetToIdle(s, t) ==
    /\ state' = Becomes(s, "Idle")
    /\ timer' = Schedule(t, Becomes(s, "Idle"))
    /\ retries' = 0

\* The end of #performUpdateQuery.
Ends(s, t) ==
    /\ ResetToIdle(s, t)
    /\ saved' = state' /\ lock' = "free"
    /\ step' = "off" /\ offer' = NoOffer
    /\ stranded' = FALSE

-----------------------------------------------------------------------------
(* #performUpdateQuery, from the timer to the query. *)

\* Mutant: only the header is read, not the checksums.
ValidHeader(f) == f.version > runs
Valid(f) == f.whole /\ f.version > runs

\* The activation fails: a write met the lock, or the file could not be deleted.
Throws ==
    /\ step' = "off" /\ stranded' = TRUE
    /\ UNCHANGED <<timerVars, stateVars, offer, installed>>

\* #triggerApplyUpdate up to the call of applyUpdate.
CallApply(version, from, next) ==
    /\ state' = Becomes([state EXCEPT !.details = [to |-> version, from |-> from]], "Applying")
    /\ installed' = [to |-> version, file |-> file]
    /\ step' = next

\* The query proper: the provider is chosen, the first write takes the lock.
BeginQuery ==
    IF lock # "free" THEN Throws
    ELSE IF Candidates = {}
    THEN /\ step' = "off" /\ timer' = "undefined"
         /\ UNCHANGED <<selected, retries, stateVars, offer, historyVars>>
    ELSE /\ \E p \in Candidates : offer' = [from |-> p, to |-> None]
         /\ selected' = NoOne /\ lock' = "query"
         /\ Goes("Querying") /\ step' = "asking"
         /\ UNCHANGED <<timer, retries, saved, historyVars>>

\* The timer runs out.  It may do so while a query is under way.
Fire ==
    /\ timer = "running" /\ timer' = "stopped"
    /\ IF step = "off" THEN step' = "check" /\ UNCHANGED second
       ELSE lock = "query" /\ second = "off" /\ second' = "check" /\ UNCHANGED step
    /\ UNCHANGED <<selected, retries, stateVars, offer, deviceVars, faults, historyVars>>

\* A file that is there already is applied if it is valid.
CheckFile ==
    /\ step = "check"
    /\ IF file = NoFile THEN BeginQuery
       ELSE IF ~Valid(file)
       THEN step' = "delete" /\ UNCHANGED <<timerVars, stateVars, offer, historyVars>>
       ELSE IF lock # "free" THEN Throws
       ELSE /\ CallApply(file.version, NoOne, "applyFile")
            /\ lock' = "query"
            /\ UNCHANGED <<timerVars, saved, offer, stranded>>
    /\ UNCHANGED <<second, deviceVars, faults>>

DeleteFile(ok) ==
    /\ step = "delete"
    /\ IF ok THEN file' = NoFile /\ BeginQuery /\ UNCHANGED faults
       ELSE Fault /\ Throws /\ UNCHANGED file
    /\ UNCHANGED <<second, possible, online, runs>>

\* A second activation looks at the file, too.  It fails at its first write,
\* unless the first one has ended by then.
SecondActivation ==
    /\ second # "off"
    /\ IF step = "off"
       THEN step' = second /\ second' = "off" /\ UNCHANGED file
       ELSE /\ UNCHANGED step
            /\ IF second = "check" /\ file # NoFile /\ ~Valid(file)
               THEN second' = "delete" /\ UNCHANGED file
               ELSE /\ second' = "off"
                    /\ file' = IF second = "delete" THEN NoFile ELSE file
    /\ UNCHANGED <<timerVars, stateVars, offer, possible, online, runs, faults, historyVars>>

-----------------------------------------------------------------------------
(* #queryOtaProvider, from the answer of the provider to the file. *)

\* The provider cannot be reached, or has nothing to offer, or nothing valid.
AnswersNo ==
    /\ step = "asking"
    /\ Ends(Mark(state, offer.from), timer)
    /\ UNCHANGED <<selected, second, deviceVars, faults, installed>>

\* The update needs a consent that the local configuration forbids to ask for.
MayNotAsk ==
    /\ step = "asking"
    /\ Ends(state, timer)
    /\ UNCHANGED <<selected, second, deviceVars, faults, installed>>

\* The retry is scheduled and counted, and the end of the query sets the count
\* back: the limit is not reached.
AnswersBusy ==
    /\ step = "asking"
    /\ IF retries <= MaxRetries
       THEN selected' = offer.from /\ Ends(state, ScheduleSoon(state))
       ELSE Ends(Mark(state, offer.from), timer) /\ UNCHANGED selected
    /\ UNCHANGED <<second, deviceVars, faults, installed>>

ProtocolNotSupported ==
    /\ step = "asking"
    /\ Ends(Forget(state, offer.from), timer)
    /\ UNCHANGED <<selected, second, deviceVars, faults, installed>>

\* On to the delay the provider asked for, or to the download of version v.
Proceed(next, s, v) ==
    /\ step' = next
    /\ IF next = "delay" THEN state' = Becomes(s, "DelayedOnQuery") /\ UNCHANGED file
       ELSE state' = Becomes(s, "Downloading") /\ file' = [version |-> v, whole |-> FALSE]

Offers(v, next) ==
    /\ step = "asking"
    /\ v > runs
    /\ offer' = [offer EXCEPT !.to = v]
    /\ IF next = "consent" THEN Goes("DelayedOnUserConsent") /\ step' = next /\ UNCHANGED file
       ELSE Proceed(next, state, v)
    /\ UNCHANGED <<timerVars, saved, lock, second, possible, online, runs, faults,
                   historyVars>>

Consents(next) ==
    /\ step = "consent"
    /\ Proceed(next, state, offer.to)
    /\ UNCHANGED <<timerVars, saved, lock, offer, second, possible, online, runs, faults,
                   historyVars>>

Declines ==
    /\ step = "consent"
    /\ Ends(Mark(state, offer.from), timer)
    /\ UNCHANGED <<selected, second, deviceVars, faults, installed>>

\* requestUserConsent throws: the state is reset to idle and the next query
\* scheduled, but the update goes on.
ConsentFails(next) ==
    /\ step = "consent" /\ Fault
    /\ LET s == Becomes(Mark(state, offer.from), "Idle")
       IN timer' = Schedule(timer, s) /\ retries' = 0 /\ Proceed(next, s, offer.to)
    /\ UNCHANGED <<selected, saved, lock, offer, second, possible, online, runs, historyVars>>

DelayEnds ==
    /\ step = "delay"
    /\ Proceed("download", state, offer.to)
    /\ UNCHANGED <<timerVars, saved, lock, offer, second, possible, online, runs, faults,
                   historyVars>>

\* #handleDownload with its three attempts, and the validation of the file.
DownloadEnds ==
    /\ step = "download" /\ file # NoFile
    /\ file' = [file EXCEPT !.whole = TRUE]
    /\ Goes("Applying") /\ step' = "request"
    /\ UNCHANGED <<timerVars, saved, lock, offer, second, possible, online, runs, faults,
                   historyVars>>

\* The provider is not marked: it keeps its place in the list.
DownloadFails ==
    /\ step = "download"
    /\ ResetToIdle(state, timer)
    /\ step' = "cleanup"
    /\ UNCHANGED <<selected, saved, lock, offer, second, deviceVars, faults, historyVars>>

\* An error that is not a MatterError, as fetch throws, is handled like any error
\* of a provider: what there is of the file, if anything, is kept.
DownloadThrows ==
    /\ step = "download"
    /\ file' \in {file, NoFile}
    /\ Ends(Mark(state, offer.from), timer)
    /\ UNCHANGED <<selected, second, possible, online, runs, faults, installed>>

\* The deletion of the partial file.  Its failure is logged, or thrown if it is
\* not a MatterError.
Cleanup(ok) ==
    /\ step = "cleanup"
    /\ IF ok THEN file' = NoFile /\ Ends(state, timer) /\ UNCHANGED faults
       ELSE /\ Fault /\ UNCHANGED file
            /\ \E s \in {state, Mark(state, offer.from)} : Ends(s, timer)
    /\ UNCHANGED <<selected, second, possible, online, runs, installed>>

-----------------------------------------------------------------------------
(* #validateApplyUpdate and the call of applyUpdate. *)

\* Proceed, at once or after a delay that ends in ApplyDelayEnds.
MayApply ==
    /\ step \in {"request", "applyDelay"}
    /\ CallApply(offer.to, offer.from, "apply")
    /\ UNCHANGED <<timerVars, saved, lock, offer, second, deviceVars, faults, stranded>>

\* Proceed later, or AwaitNextAction, after which the provider is asked again.
MustWait(next) ==
    /\ step = "request"
    /\ Goes("DelayedOnApply") /\ step' = next
    /\ UNCHANGED <<timerVars, saved, lock, offer, second, deviceVars, faults, historyVars>>

AsksAgain ==
    /\ step = "applyWait"
    /\ Goes("Applying") /\ step' = "request"
    /\ UNCHANGED <<timerVars, saved, lock, offer, second, deviceVars, faults, historyVars>>

\* Discontinue deletes the file (a failure is logged); an error or an unknown
\* action keeps it.
MayNotApply(keeps) ==
    /\ step = "request"
    /\ file' = IF keeps THEN file ELSE NoFile
    /\ Ends(state, timer)
    /\ UNCHANGED <<selected, second, possible, online, runs, faults, installed>>

\* applyUpdate, the application's, returns.
ApplyReturns ==
    /\ \/ step = "apply" /\ Ends(state, timer)
       \/ /\ step = "applyFile"
          /\ step' = "off" /\ lock' = "free" /\ saved' = state /\ stranded' = TRUE
          /\ UNCHANGED <<timer, retries, state, offer>>
    /\ UNCHANGED <<selected, second, deviceVars, faults, installed>>

\* It throws: the query handles it like any error of a provider, the attributes
\* written for a file that was there already are rolled back.
ApplyThrows ==
    /\ Fault
    /\ \/ step = "apply" /\ Ends(Mark(state, offer.from), timer)
       \/ /\ step = "applyFile"
          /\ step' = "off" /\ lock' = "free" /\ state' = saved /\ stranded' = TRUE
          /\ UNCHANGED <<timer, retries, saved, offer>>
    /\ UNCHANGED <<selected, second, deviceVars, installed>>

-----------------------------------------------------------------------------
(* Providers, attributes and the life of the node. *)

\* announceOtaProvider: the provider is added, the lock held while its node is
\* set up; a query is scheduled soon, or when there is none (urgent = FALSE).
AnnounceBegins(p) ==
    /\ online /\ lock = "free" /\ Fault
    /\ lock' = p
    /\ state' = Add(state, p)
    /\ UNCHANGED <<timerVars, saved, queryVars, deviceVars, historyVars>>

AnnounceEnds(urgent) ==
    /\ lock \in Providers
    /\ IF urgent
       THEN selected' = lock /\ timer' = ScheduleSoon(state) /\ UNCHANGED retries
       ELSE timer' = Schedule(timer, state) /\ retries' = 0 /\ UNCHANGED selected
    /\ lock' = "free" /\ saved' = state
    /\ stranded' = (stranded /\ timer' # "running")
    /\ UNCHANGED <<state, queryVars, deviceVars, faults, installed>>

AnnounceFails ==
    /\ lock \in Providers /\ Fault
    /\ lock' = "free" /\ state' = saved
    /\ UNCHANGED <<timerVars, saved, queryVars, deviceVars, historyVars>>

\* A fabric writes its entry of defaultOtaProviders, and
\* #handleUpdatedDefaultOtaProviders adds the provider.
SetDefault(p) ==
    /\ online /\ lock = "free" /\ Fault
    /\ state' = Add([state EXCEPT !.defaults = @ \cup {p}], p)
    /\ saved' = state'
    /\ IF timer = "undefined" THEN timer' = ScheduleSoon(state') /\ retries' = 0
       ELSE UNCHANGED <<timer, retries>>
    /\ UNCHANGED <<selected, lock, queryVars, deviceVars, historyVars>>

ClearDefault(p) ==
    /\ online /\ lock = "free" /\ Fault
    /\ p \in state.defaults
    /\ state' = [state EXCEPT !.defaults = @ \ {p}]
    /\ saved' = state'
    /\ UNCHANGED <<timerVars, lock, queryVars, deviceVars, historyVars>>

\* #scheduleInitialQuery, when the node has been commissioned.
Commissioned ==
    /\ online /\ Fault
    /\ timer' = ScheduleSoon(saved) /\ retries' = 0
    /\ stranded' = (stranded /\ timer' # "running")
    /\ UNCHANGED <<selected, stateVars, queryVars, deviceVars, installed>>

\* #enableOrDisableUpdates.
TogglePossible ==
    /\ lock = "free" /\ Fault
    /\ possible' = ~possible
    /\ IF possible THEN timer' = "undefined" /\ UNCHANGED retries
       ELSE IF timer # "running" \/ state.update = "Idle"
       THEN /\ timer' = IF Active(state) # {} THEN "running" ELSE "undefined"
            /\ retries' = 0
       ELSE UNCHANGED <<timer, retries>>
    /\ stranded' = (stranded /\ timer' # "running")
    /\ UNCHANGED <<selected, stateVars, queryVars, online, runs, file, installed>>

\* #goingOffline.
GoOffline ==
    /\ online /\ Fault
    /\ online' = FALSE
    /\ timer' = IF timer = "running" THEN "stopped" ELSE timer
    /\ UNCHANGED <<selected, retries, stateVars, queryVars, possible, runs, file, historyVars>>

\* #online: without active providers the default ones are added; a query is
\* scheduled; an update under way is over, and when it has failed its provider
\* is asked again.  A write that meets the lock ends the reaction.
Failed(s) == s.details # NoDetails /\ s.details.to # runs
GoOnline ==
    /\ ~online
    /\ lock \in {"free", "query"}
    /\ online' = TRUE
    /\ LET s == IF Active(saved) = {} THEN [saved EXCEPT !.fresh = @ \cup saved.defaults]
                ELSE saved
           t == IF Active(s) = {} THEN timer
                ELSE IF s.details = NoDetails THEN ScheduleSoon(s) ELSE Schedule(timer, s)
       IN IF lock = "query" /\ s # saved
          THEN UNCHANGED <<timerVars, stateVars, stranded>>
          ELSE /\ IF Failed(s)
                  THEN /\ timer' = ScheduleSoon(s)
                       /\ selected' = IF s.details.from = NoOne THEN selected ELSE s.details.from
                       /\ retries' = IF s.details.from = NoOne THEN 0 ELSE 1
                  ELSE /\ timer' = t /\ UNCHANGED selected
                       /\ retries' = IF Active(s) = {} THEN retries ELSE 0
               /\ IF lock = "query" THEN UNCHANGED <<state, saved>>
                  ELSE state' = [s EXCEPT !.details = NoDetails] /\ saved' = state'
               /\ stranded' = (timer' # "running" /\ (stranded \/ timer = "stopped"))
               /\ UNCHANGED lock
    /\ UNCHANGED <<queryVars, possible, runs, file, faults, installed>>

\* The process ends and is started again: what was saved is read, and the
\* device runs what it has installed, or still the old version.
Restart ==
    /\ Fault
    /\ state' = Becomes(saved, "Idle") /\ saved' = state' /\ lock' = "free"
    /\ timer' = "undefined" /\ selected' = NoOne /\ retries' = 0
    /\ step' = "off" /\ second' = "off" /\ offer' = NoOffer
    /\ online' = FALSE
    /\ runs' \in {runs} \cup ({installed.to} \ {None})
    /\ installed' = NotCalled /\ stranded' = FALSE
    /\ UNCHANGED <<possible, file>>

-----------------------------------------------------------------------------

Init ==
    /\ possible = TRUE /\ online = FALSE
    /\ timer = "undefined" /\ selected = NoOne /\ retries = 0
    /\ \E d \in SUBSET Providers :
        state = [fresh |-> {}, asked |-> <<>>, defaults |-> d, details |-> NoDetails,
                 update |-> "Idle"]
    /\ saved = state /\ lock = "free"
    /\ step = "off" /\ offer = NoOffer /\ second = "off"
    /\ file = NoFile /\ runs = 1
    /\ faults = MaxFaults
    /\ installed = NotCalled /\ stranded = FALSE

\* What the requestor, its providers and its application do in the end.
Query ==
    \/ CheckFile \/ DeleteFile(TRUE)
    \/ AnswersNo \/ Declines \/ DelayEnds \/ DownloadEnds
    \/ DownloadFails \/ DownloadThrows \/ Cleanup(TRUE)
    \/ MayApply \/ AsksAgain \/ ApplyReturns
    \/ \E next \in {"delay", "download"} : Consents(next)
Announce == \E urgent \in BOOLEAN : AnnounceEnds(urgent)

Next ==
    \/ Fire \/ Query \/ SecondActivation \/ Announce \/ GoOnline
    \/ DeleteFile(FALSE) \/ MayNotAsk \/ AnswersBusy \/ ProtocolNotSupported
    \/ \E v \in Versions, next \in {"consent", "delay", "download"} : Offers(v, next)
    \/ \E next \in {"delay", "download"} : ConsentFails(next)
    \/ Cleanup(FALSE)
    \/ \E next \in {"applyWait", "applyDelay"} : MustWait(next)
    \/ \E keeps \in BOOLEAN : MayNotApply(keeps)
    \/ ApplyThrows
    \/ \E p \in Providers : AnnounceBegins(p) \/ SetDefault(p) \/ ClearDefault(p)
    \/ AnnounceFails
    \/ Commissioned \/ TogglePossible \/ GoOffline \/ Restart

Spec == Init /\ [][Next]_vars

\* The timer fires, calls end, and a node that is offline comes back.
FairSpec ==
    /\ Spec
    /\ WF_vars(Fire) /\ WF_vars(Query) /\ WF_vars(SecondActivation)
    /\ WF_vars(Announce) /\ WF_vars(GoOnline)

-----------------------------------------------------------------------------
(* Properties. *)

\* Types of the variables.
Attributes == [fresh : SUBSET Providers, asked : Seq(Providers), defaults : SUBSET Providers,
               details : {NoDetails} \cup [to : Versions, from : Providers \cup {NoOne}],
               update : {"Idle", "Querying", "DelayedOnQuery", "DelayedOnUserConsent",
                         "Downloading", "Applying", "DelayedOnApply"}]
TypeOK ==
    /\ possible \in BOOLEAN /\ online \in BOOLEAN /\ stranded \in BOOLEAN
    /\ timer \in {"undefined", "stopped", "running"}
    /\ selected \in Providers \cup {NoOne} /\ retries \in 0 .. MaxRetries + 1
    /\ \A s \in {state, saved} : /\ s \in Attributes /\ IsInjective(s.asked)
                                 /\ s.fresh \cap ToSet(s.asked) = {}
    /\ lock \in {"free", "query"} \cup Providers
    /\ lock = "free" => state = saved
    /\ step \in {"off", "check", "delete", "asking", "consent", "delay", "download", "cleanup",
                 "request", "applyWait", "applyDelay", "apply", "applyFile"}
    /\ second \in {"off", "check", "delete"}
    /\ offer \in [from : Providers \cup {NoOne}, to : Versions \cup {None}]
    /\ file \in Files /\ runs \in Versions
    /\ installed \in [to : Versions \cup {None}, file : Files]
    /\ faults \in 0 .. MaxFaults

\* applyUpdate is called for a newer version only, and whatever a second
\* activation, an interrupted download or a restart has done to the file, the
\* file it finds is the whole and validated image of that version, if any.
AppliesValidated ==
    installed # NotCalled =>
        /\ installed.file \in {NoFile, [version |-> installed.to, whole |-> TRUE]}
        /\ installed.to > runs

\* A device that may be updated and knows providers has a query under way or
\* scheduled, whatever ended the last one, with four exceptions: applyUpdate came
\* back from a file that was there already, the old file could not be deleted,
\* the timer ran out during an announcement that then failed, or a default
\* provider was written while a timer that had been stopped was still there.
QueryIsScheduled ==
    (/\ step = "off" /\ second = "off" /\ lock = "free"
     /\ online /\ possible /\ Active(state) # {} /\ ~stranded) => timer = "running"

\* Every active provider is asked again and again, as long as the device may
\* be updated: those that were announced first, then the one asked longest ago.
\* The exception is the code's: a provider that is not marked at the end of its
\* query is the next to be asked, so one that answers Busy, whose download fails,
\* whose update may not be consented to, has to wait, is refused or is applied
\* without a restart keeps its place, each time it does so, and one that does so
\* for ever keeps the others from being asked.
KeepsItsPlace ==
    \/ AnswersBusy \/ MayNotAsk \/ DownloadFails \/ MustWait("applyWait")
    \/ \E keeps \in BOOLEAN : MayNotApply(keeps)
    \/ step = "apply" /\ ApplyReturns
EveryProviderIsAsked ==
    \/ []<><<KeepsItsPlace>>_vars
    \/ \A p \in Providers :
         []<>(\/ p \notin Active(saved) \/ ~online \/ ~possible \/ stranded
              \/ step = "asking" /\ offer.from = p)
=============================================================================
