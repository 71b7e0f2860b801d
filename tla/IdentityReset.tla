---------------------------- MODULE IdentityReset ----------------------------
(***************************************************************************)
(* The local identity reset of the Tailscale add-on                        *)
(* (usr/local/bin/tailscale-logauth-reset, run by cgi-bin/control for each *)
(* click on logout), against the service it stops and s6 starts again      *)
(* (s6-rc.d/tailscaled/run and finish).                                    *)
(*                                                                         *)
(* A lock file is to keep tailscaled from starting while its state is      *)
(* wiped.  Nothing makes resets wait for each other.  Only what waits      *)
(* takes time: a tick is 8 s, a limit of n s is n/8 ticks, rounded against *)
(* the lock.  Failures are drawn from `faults`.                            *)
(***************************************************************************)
EXTENDS Integers

CONSTANTS
    Resets,      \* the resets, each of them run once
    CmdTime,     \* limit of `tailscale down` and of `logout`, in ticks
    IntTime,     \* attempts with SIGINT, in ticks
    KillTime,    \* attempts with SIGKILL, in ticks
    LockWait,    \* how long run waits for the lock file, in ticks
    MaxLogins,   \* bound on the identities
    MaxFaults    \* bound on failures and power cuts

ASSUME TimesAssumption ==
    /\ {CmdTime, IntTime, KillTime, LockWait} \subseteq Nat \ {0}
    /\ 2 * CmdTime + IntTime + KillTime < LockWait
ASSUME BoundsAssumption == MaxLogins \in Nat \ {0} /\ MaxFaults \in Nat

VARIABLES
    lock,      \* LOCK_FILE exists
    sock,      \* SOCK exists
    service,   \* where s6 and run are with tailscaled
    waited,    \* ticks run has waited for the lock
    debug,     \* the log level is debug: run becomes tailscaled
    files,     \* the identity in STATE
    mem,       \* the identity tailscaled runs with
    logins,    \* identities there have been
    pc,        \* pc[r]: the next step of reset r
    left,      \* left[r]: ticks left in that step
    old,       \* old[r]: history: the identities r is to forget
    exposed,   \* history: resets whose lock did not keep tailscaled from starting
    faults     \* budget left

serviceVars == <<service, waited, debug>>
identityVars == <<files, mem, logins>>
resetVars == <<pc, left, old>>
vars == <<lock, sock, serviceVars, identityVars, resetVars, exposed, faults>>

\* An identity, and whether the node is to be connected with it; 0 for none.
Identities == [id : 0 .. MaxLogins, want : BOOLEAN]
Nobody == [id |-> 0, want |-> FALSE]

Up == service = "up"
Fault == faults > 0 /\ faults' = faults - 1

Timed == {"down", "logout", "int", "kill"}
Steps == {"idle", "intRm", "killRm", "look", "abort", "rm", "wipe", "release",
          "late", "judge", "reauth", "ok", "failed"} \cup Timed

\* The section the lock is held for.
Critical == Timed \cup {"intRm", "killRm", "look", "abort", "rm", "wipe"}
Others(r) == {x \in Resets \ {r} : pc[x] \in Critical}

-----------------------------------------------------------------------------
(* The service. *)

\* Mutant: the lock is not looked for.
TestNothing ==
    /\ service = "test" /\ service' = "options"
    /\ UNCHANGED <<lock, sock, waited, debug, identityVars, resetVars, exposed, faults>>

\* run looks for the lock once,
Test ==
    /\ service = "test"
    /\ IF lock THEN service' = "wait" /\ waited' = 0
       ELSE service' = "options" /\ UNCHANGED waited
    /\ UNCHANGED <<lock, sock, debug, identityVars, resetVars, exposed, faults>>

\* Mutant: after 60 s run begins anew.
WaitedAgain ==
    /\ service = "wait"
    /\ ~lock \/ waited = LockWait
    /\ service' = (IF lock THEN "test" ELSE "options") /\ waited' = 0
    /\ UNCHANGED <<lock, sock, debug, identityVars, resetVars, exposed, faults>>

\* waits until it is gone or 60 s are over, looks its options up
Waited ==
    /\ service = "wait"
    /\ ~lock \/ waited = LockWait
    /\ service' = "options" /\ waited' = 0
    /\ UNCHANGED <<lock, sock, debug, identityVars, resetVars, exposed, faults>>

\* and starts tailscaled.
Starts ==
    /\ service = "options"
    /\ service' = "up" /\ mem' = files /\ sock' = TRUE
    /\ UNCHANGED <<lock, waited, debug, files, logins, resetVars, exposed, faults>>

\* What finish makes of the way tailscaled ended: after an exit code other than
\* 0 it halts the container.  Outside debug mode a signal ends a pipeline and is
\* an exit code too.
Ended(how) ==
    /\ service' = IF how = "exit 0" \/ (how = "killed" /\ debug) THEN "test" ELSE "halting"
    /\ mem' = Nobody

DaemonFails ==
    /\ Up /\ Fault
    /\ Ended("exit 1")
    /\ UNCHANGED <<lock, sock, waited, debug, files, logins, resetVars, exposed>>

\* The user logs in with the URL of the panel; tailscaled saves what it has.
LogsIn ==
    /\ Up /\ sock /\ mem.id = 0 /\ logins < MaxLogins
    /\ logins' = logins + 1
    /\ mem' = [id |-> logins + 1, want |-> TRUE] /\ files' = mem'
    /\ UNCHANGED <<lock, sock, serviceVars, resetVars, exposed, faults>>

Saves ==
    /\ Up /\ files' = mem
    /\ UNCHANGED <<lock, sock, serviceVars, mem, logins, resetVars, exposed, faults>>

\* The container starts, after it was halted or the power was cut: /data stays,
\* and a reset that was killed has removed the lock only if its trap was run.
Boots ==
    /\ IF service = "halting" THEN UNCHANGED faults ELSE Fault
    /\ lock' \in {lock, FALSE} /\ sock' = FALSE
    /\ service' = "test" /\ waited' = 0 /\ debug' \in BOOLEAN
    /\ mem' = Nobody
    /\ pc' = [r \in Resets |-> IF pc[r] \in {"idle", "ok"} THEN pc[r] ELSE "failed"]
    /\ left' = [r \in Resets |-> 0] /\ old' = [r \in Resets |-> 0]
    /\ UNCHANGED <<files, logins, exposed>>

-----------------------------------------------------------------------------
(* A reset. *)

GoTo(r, step, time) ==
    pc' = [pc EXCEPT ![r] = step] /\ left' = [left EXCEPT ![r] = time]

\* It writes its lock, unless /data is full, and goes on whatever became of that.
Begin(r, written) ==
    /\ pc[r] = "idle"
    /\ IF written THEN lock' = TRUE /\ UNCHANGED faults ELSE UNCHANGED lock /\ Fault
    /\ exposed' = IF written /\ service \notin {"wait", "options"} THEN exposed
                  ELSE exposed \cup {r}
    /\ old' = [old EXCEPT ![r] = logins]
    /\ IF sock THEN GoTo(r, "down", CmdTime) ELSE GoTo(r, "int", IntTime)
    /\ UNCHANGED <<sock, serviceVars, identityVars>>

\* tailscale down and logout, best effort, as long as tailscaled answers.
Preflight(r, works) ==
    /\ pc[r] \in {"down", "logout"}
    /\ works => Up /\ sock
    /\ mem' = IF ~works THEN mem
              ELSE IF pc[r] = "down" THEN [mem EXCEPT !.want = FALSE] ELSE Nobody
    /\ files' = IF works THEN mem' ELSE files
    /\ IF pc[r] = "down" THEN GoTo(r, "logout", CmdTime) ELSE GoTo(r, "int", IntTime)
    /\ UNCHANGED <<lock, sock, serviceVars, logins, old, exposed, faults>>

Stopping(r) == pc[r] \in {"int", "kill"}
GoPast(r, step) == IF step = "int" THEN GoTo(r, "kill", KillTime) ELSE GoTo(r, "look", 0)

\* stop_tailscaled_signal: SIGINT makes tailscaled exit, sooner or later, SIGKILL
\* at once and without removing its socket.
Signals(r) ==
    /\ Stopping(r) /\ Up
    /\ IF pc[r] = "int" THEN Ended("exit 0") /\ sock' \in {sock, FALSE}
       ELSE Ended("killed") /\ UNCHANGED sock
    /\ UNCHANGED <<lock, waited, debug, files, logins, resetVars, exposed, faults>>

\* The attempts are over although it runs.
GivesUp(r) ==
    /\ Stopping(r) /\ Up /\ left[r] = 0
    /\ GoPast(r, pc[r])
    /\ UNCHANGED <<lock, sock, serviceVars, identityVars, old, exposed, faults>>

\* It does not run; a socket it has left is removed in a step of its own.
FindsNone(r) ==
    /\ Stopping(r) /\ ~Up
    /\ IF sock THEN GoTo(r, IF pc[r] = "int" THEN "intRm" ELSE "killRm", 0)
       ELSE GoPast(r, pc[r])
    /\ UNCHANGED <<lock, sock, serviceVars, identityVars, old, exposed, faults>>

RemovesSocket(r) ==
    /\ pc[r] \in {"intRm", "killRm"}
    /\ sock' = FALSE
    /\ GoPast(r, IF pc[r] = "intRm" THEN "int" ELSE "kill")
    /\ UNCHANGED <<lock, serviceVars, identityVars, old, exposed, faults>>

\* daemon_pids is read before the socket is removed and tested after that.
Looks(r) ==
    /\ pc[r] = "look"
    /\ GoTo(r, IF Up THEN "abort" ELSE "rm", 0)
    /\ UNCHANGED <<lock, sock, serviceVars, identityVars, old, exposed, faults>>

\* The trap removes the lock, whoever has written it.
Exits(r, how) ==
    /\ GoTo(r, how, 0)
    /\ lock' = FALSE
    /\ exposed' = exposed \cup Others(r)

Aborts(r) ==
    /\ pc[r] = "abort"
    /\ Exits(r, "failed")
    /\ sock' = FALSE
    /\ UNCHANGED <<serviceVars, identityVars, old, faults>>

Clears(r) ==
    /\ pc[r] = "rm"
    /\ GoTo(r, "wipe", 0)
    /\ sock' = FALSE
    /\ UNCHANGED <<lock, serviceVars, identityVars, old, exposed, faults>>

\* The files are removed; under set -e a failure ends the reset.
Wipes(r) ==
    /\ pc[r] = "wipe"
    /\ \/ GoTo(r, "release", 0) /\ files' = Nobody /\ UNCHANGED <<lock, exposed, faults>>
       \/ Exits(r, "failed") /\ Fault /\ files' \in {files, Nobody}
    /\ UNCHANGED <<sock, serviceVars, mem, logins, old>>

\* The lock is released.
Releases(r) ==
    /\ pc[r] = "release"
    /\ GoTo(r, "late", 0)
    /\ lock' = FALSE
    /\ exposed' = exposed \cup Others(r)
    /\ UNCHANGED <<sock, serviceVars, identityVars, old, faults>>

\* post-tailscaled is run again; it brings the node up if it has an identity.
Configures(r, works) ==
    /\ pc[r] = "late"
    /\ works => Up /\ sock
    /\ mem' = IF works /\ mem.id # 0 THEN [mem EXCEPT !.want = TRUE] ELSE mem
    /\ files' = IF works THEN mem' ELSE files
    /\ GoTo(r, "judge", 0)
    /\ UNCHANGED <<lock, sock, serviceVars, logins, old, exposed, faults>>

Unknown == ~(Up /\ sock)
Running == Up /\ sock /\ mem.want

\* NeedsLogin and Stopped are what a reset may end with, Running has it log in anew.
Judges(r) ==
    /\ pc[r] = "judge"
    /\ IF Running THEN GoTo(r, "reauth", 0) /\ UNCHANGED <<lock, exposed>>
       ELSE Exits(r, IF Unknown THEN "failed" ELSE "ok")
    /\ UNCHANGED <<sock, serviceVars, identityVars, old, faults>>

Reauthenticates(r, works) ==
    /\ pc[r] = "reauth"
    /\ works => Up /\ sock
    /\ IF works THEN mem' = Nobody /\ files' = Nobody ELSE UNCHANGED <<mem, files>>
    /\ Exits(r, IF works THEN "ok" ELSE "failed")
    /\ UNCHANGED <<sock, serviceVars, logins, old, faults>>

\* control ends it after 95 s: it has then passed all the limits of the stop.
TimesOut(r) ==
    /\ pc[r] \in {"late", "judge", "reauth"}
    /\ Exits(r, "failed")
    /\ UNCHANGED <<sock, serviceVars, identityVars, old, faults>>

-----------------------------------------------------------------------------

\* Mutant: the loop of run does not end after 60 s.
TickPastLimit ==
    /\ \A r \in Resets : /\ pc[r] \in {"idle", "late", "ok", "failed"} \/ left[r] > 0
                         /\ pc[r] = "kill" => ~Up
    /\ waited' = IF service = "wait" THEN waited + 1 ELSE waited
    /\ left' = [r \in Resets |-> IF pc[r] \in Timed THEN left[r] - 1 ELSE left[r]]
    /\ UNCHANGED <<lock, sock, service, debug, identityVars, pc, old, exposed, faults>>

\* Time goes by where something waits, and for nothing longer than its limit; a
\* tailscaled that runs is killed at the next attempt.
Tick ==
    /\ \A r \in Resets : /\ pc[r] \in {"idle", "late", "ok", "failed"} \/ left[r] > 0
                         /\ pc[r] = "kill" => ~Up
    /\ service = "wait" => waited < LockWait
    /\ waited' = IF service = "wait" THEN waited + 1 ELSE waited
    /\ left' = [r \in Resets |-> IF pc[r] \in Timed THEN left[r] - 1 ELSE left[r]]
    /\ UNCHANGED <<lock, sock, service, debug, identityVars, pc, old, exposed, faults>>

Init ==
    /\ lock \in BOOLEAN /\ sock = FALSE
    /\ service = "test" /\ waited = 0 /\ debug \in BOOLEAN
    /\ files \in {Nobody, [id |-> 1, want |-> TRUE]} /\ mem = Nobody
    /\ logins = files.id
    /\ pc = [r \in Resets |-> "idle"] /\ left = [r \in Resets |-> 0]
    /\ old = [r \in Resets |-> 0]
    /\ exposed = {} /\ faults = MaxFaults

Service == Test \/ Waited \/ Starts

Reset(r) ==
    \/ \E works \in BOOLEAN : Preflight(r, works) \/ Configures(r, works) \/ Reauthenticates(r, works)
    \/ Signals(r) \/ GivesUp(r) \/ FindsNone(r) \/ RemovesSocket(r) \/ Looks(r)
    \/ Aborts(r) \/ Clears(r) \/ Wipes(r) \/ Releases(r) \/ Judges(r) \/ TimesOut(r)

Next ==
    \/ Service \/ DaemonFails \/ LogsIn \/ Saves \/ Boots \/ Tick
    \/ \E r \in Resets :
        \/ \E written \in BOOLEAN : Begin(r, written)
        \/ Reset(r)

Spec == Init /\ [][Next]_vars

\* run and the resets go on, and time goes by; no signal has to be obeyed but
\* SIGKILL.
Fairness ==
    /\ WF_vars(Service) /\ WF_vars(Tick)
    /\ \A r \in Resets : WF_vars(Reset(r) /\ pc' # pc) /\ WF_vars(Signals(r) /\ pc[r] = "kill")

FairSpec == Spec /\ Fairness

-----------------------------------------------------------------------------
(* Properties. *)

\* Types of the variables; no wait exceeds its limit.
TypeOK ==
    /\ lock \in BOOLEAN /\ sock \in BOOLEAN /\ debug \in BOOLEAN
    /\ service \in {"test", "wait", "options", "up", "halting"}
    /\ waited \in 0 .. LockWait
    /\ files \in Identities /\ mem \in Identities /\ logins \in 0 .. MaxLogins
    /\ pc \in [Resets -> Steps]
    /\ left \in [Resets -> Nat] /\ old \in [Resets -> 0 .. MaxLogins]
    /\ exposed \subseteq Resets /\ faults \in 0 .. MaxFaults

\* A reset that reports success has got rid of the identity the node had: neither
\* tailscaled nor its state file has it any longer.  Excepted are resets whose
\* lock could not help: run was past it already, another reset removed it, or it
\* could not be written.
Forgotten(r, identity) == identity.id \notin 1 .. old[r]
ResetForgets ==
    [][\A r \in Resets : pc[r] # "ok" /\ pc'[r] = "ok" =>
        r \in exposed' \/ (Forgotten(r, files) /\ Forgotten(r, mem))']_vars

\* tailscaled comes back with its socket, after every reset, power cut and lock
\* that was left behind, unless the container is halted; with the exceptions of
\* ResetForgets, in which a reset may remove the socket of a tailscaled that runs.
ComesBack ==
    [](exposed = {}) => []<>(service = "halting" \/ (Up /\ sock))
=============================================================================
