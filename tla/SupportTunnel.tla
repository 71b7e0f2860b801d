---------------------------- MODULE SupportTunnel ----------------------------
(***************************************************************************)
(* The temporary support access of the Tailscale add-on                    *)
(* (rootfs/usr/bin/support-tunnel and rootfs/usr/bin/ha-virtual-keys).     *)
(*                                                                         *)
(* Every command is a process of its own: runtime-status polls `status`,   *)
(* every click in the panel runs a CGI with `status`, `enable` or          *)
(* `disable`, and nothing makes them wait for each other.  They share two  *)
(* files, the window (META_FILE) and what the panel shows (STATE_FILE),    *)
(* and the tokens Home Assistant keeps.  A step ends wherever the script   *)
(* has read or written one of these three.                                 *)
(*                                                                         *)
(* Time is discrete; deadlines are kept as the ticks left, which saturate  *)
(* at 0.  Failures of Home Assistant, crashes and changes of the backend   *)
(* are drawn from the budget `faults`.  All tokens of support share the    *)
(* name prefix, so a lookup matches every one of them.                     *)
(***************************************************************************)
EXTENDS Integers, FiniteSets

CONSTANTS
    Poll,       \* the process of runtime-status
    Cgis,       \* the processes of the CGI
    Tokens,     \* names of access tokens
    TTL,        \* support_tunnel_ttl_minutes, in ticks
    Backoff,    \* TTL_DISABLE_RETRY_BACKOFF_SEC, in ticks
    Failures,   \* what may fail: "lookup", "create", "refuse", "abort",
                \* "crash", "gate"
    Serial,     \* TRUE iff the commands happen never to overlap
    Users,      \* what support_user may be: "regular", "owner", "absent"
    NoMeta,     \* there is no META_FILE
    Torn,       \* META_FILE is empty: opened for writing, not yet written
    MaxFaults   \* bound on the failures

Procs == Cgis \cup {Poll}

ASSUME ProcsAssumption == Poll \notin Cgis
ASSUME TimesAssumption ==
    /\ TTL \in Nat \ {0}
    /\ Backoff \in Nat \ {0}
    /\ MaxFaults \in Nat
ASSUME FailuresAssumption ==
    /\ Failures \subseteq {"lookup", "create", "refuse", "abort", "crash", "gate"}
    /\ Serial \in BOOLEAN
    /\ Users \subseteq {"regular", "owner", "absent"}

VARIABLES
    meta,     \* META_FILE
    writers,  \* processes whose open descriptor is the current META_FILE
    shown,    \* `active` in STATE_FILE
    tokens,   \* tokens Home Assistant lists
    ttl,      \* ttl[k]: ticks until token k stops opening sessions
    open,     \* support enabled, backend Running, tailnet match
    user,     \* what support_user is in Home Assistant
    job,      \* job[p]: the command process p runs
    pc,       \* pc[p]: its next step
    view,     \* view[p]: what build_eligibility has found out
    todo,     \* todo[p]: tokens ha-virtual-keys has listed and not yet deleted
    effect,   \* effect[p]: the deletion so far counts as a success
    copy,     \* copy[p]: the window held in the temporary file
    out,      \* out[p]: the `active` that write_state will write
    faults,   \* budget left for failures
    clean     \* history: nothing has failed but a deletion as a whole

fileVars == <<meta, writers, shown>>
haVars == <<tokens, ttl, user>>
procVars == <<job, pc, view, todo, effect, copy, out>>
faultVars == <<faults, clean>>
vars == <<fileVars, haVars, open, procVars, faultVars>>

Jobs == {"none", "status", "enable", "disable", "nested"}
Steps == {"idle", "look", "decide", "clear", "list", "delete", "backoff", "move",
          "admit", "create", "truncate", "fill", "write"}
Views == {"blind", "token", "notoken"}
Window == [left : 0 .. TTL, wait : 0 .. Backoff]

ASSUME SentinelAssumption == NoMeta \notin Window /\ Torn \notin Window

\* read_meta finds expires_epoch > 0
HasWindow == meta \in Window
Unexpired == HasWindow /\ meta.left > 0
Usable == {k \in tokens : ttl[k] > 0}

Set(f, p, v) == [f EXCEPT ![p] = v]
Fails(what) ==
    /\ what \in Failures
    /\ faults > 0
    /\ faults' = faults - 1
    /\ clean' = (clean /\ what = "abort")
Idle == \A p \in Procs : pc[p] = "idle"

-----------------------------------------------------------------------------
Init ==
    /\ meta = NoMeta
    /\ writers = {}
    /\ shown = FALSE
    /\ tokens = {}
    /\ ttl = [k \in Tokens |-> 0]
    /\ open \in (IF "gate" \in Failures THEN BOOLEAN ELSE {TRUE})
    /\ user \in Users
    /\ job = [p \in Procs |-> "none"]
    /\ pc = [p \in Procs |-> "idle"]
    /\ view = [p \in Procs |-> "blind"]
    /\ todo = [p \in Procs |-> {}]
    /\ effect = [p \in Procs |-> FALSE]
    /\ copy = [p \in Procs |-> NoMeta]
    /\ out = [p \in Procs |-> FALSE]
    /\ faults = MaxFaults
    /\ clean = TRUE

-----------------------------------------------------------------------------
(* Steps common to the commands *)

\* Bound: support is enabled only while a token name is free.
Begin(p, j) ==
    /\ pc[p] = "idle"
    /\ Serial => Idle
    /\ j = "enable" => tokens # Tokens
    /\ job' = Set(job, p, j)
    /\ pc' = Set(pc, p, "look")
    /\ UNCHANGED <<fileVars, haVars, open, view, todo, effect, copy, out, faultVars>>

\* What a lookup that was answered says of support_user and its tokens.
Answer == IF user = "absent" THEN "blind" ELSE IF tokens = {} THEN "notoken" ELSE "token"

AfterLook == [none |-> "idle", status |-> "decide", nested |-> "decide",
              enable |-> "admit", disable |-> "list"]

(***************************************************************************)
(* build_eligibility: without support, backend or tailnet match it does    *)
(* not look the user up, and a lookup may fail.  Each leaves               *)
(* SUPPORT_USER_EXISTS and SUPPORT_VK_TOKEN_PRESENT false, as a user that  *)
(* does not exist does.                                                    *)
(***************************************************************************)
Look(p) ==
    /\ pc[p] = "look"
    /\ \/ ~open /\ view' = Set(view, p, "blind") /\ UNCHANGED faultVars
       \/ open /\ view' = Set(view, p, Answer) /\ UNCHANGED faultVars
       \/ open /\ view' = Set(view, p, "blind") /\ Fails("lookup")
    /\ pc' = Set(pc, p, AfterLook[job[p]])
    /\ UNCHANGED <<fileVars, haVars, open, job, todo, effect, copy, out>>

\* Go on at step s; write_state will show `active`.
Then(p, s, active) == pc' = Set(pc, p, s) /\ out' = Set(out, p, active)

\* clear_meta
Clear(p) ==
    /\ pc[p] = "clear"
    /\ meta' = NoMeta
    /\ writers' = {}
    /\ Then(p, "write", FALSE)
    /\ UNCHANGED <<shown, haVars, open, job, view, todo, effect, copy, faultVars>>

\* write_state, and the process ends.
Write(p) ==
    /\ pc[p] = "write"
    /\ shown' = out[p]
    /\ Then(p, "idle", FALSE)
    /\ job' = Set(job, p, "none")
    /\ view' = Set(view, p, "blind")
    /\ UNCHANGED <<meta, writers, haVars, open, todo, effect, copy, faultVars>>

-----------------------------------------------------------------------------
(* Deleting the tokens: disable_running_access and ha-virtual-keys delete *)

\* Mutant: the window is cleared whether or not the deletion worked.
AfterDeletionClears(p, success) ==
    /\ pc' = Set(pc, p, "clear")
    /\ todo' = Set(todo, p, {})
    /\ effect' = Set(effect, p, FALSE)
    /\ UNCHANGED job

\* Mutant: a failed disable does not ask for the status again.
AfterDeletionNoStatus(p, success) ==
    /\ pc' = Set(pc, p, IF success THEN "clear"
                        ELSE IF job[p] = "disable" THEN "write" ELSE "backoff")
    /\ todo' = Set(todo, p, {})
    /\ effect' = Set(effect, p, FALSE)
    /\ UNCHANGED job

AfterDeletion(p, success) ==
    /\ IF success
         THEN pc' = Set(pc, p, "clear") /\ UNCHANGED job
         ELSE IF job[p] = "disable"
           THEN pc' = Set(pc, p, "look") /\ job' = Set(job, p, "nested")
           ELSE pc' = Set(pc, p, "backoff") /\ UNCHANGED job
    /\ todo' = Set(todo, p, {})
    /\ effect' = Set(effect, p, FALSE)

\* Mutant: nothing that matches is a failure.
ListNeedsToken(p) ==
    /\ pc[p] = "list"
    /\ \/ /\ tokens # {}
          /\ pc' = Set(pc, p, "delete")
          /\ todo' = Set(todo, p, tokens)
          /\ UNCHANGED <<job, effect, faultVars>>
       \/ tokens = {} /\ AfterDeletion(p, FALSE) /\ UNCHANGED faultVars
       \/ AfterDeletion(p, FALSE) /\ Fails("abort")
    /\ UNCHANGED <<fileVars, haVars, open, view, copy, out>>

\* virtual_keys/list_users: nothing that matches is a success too.
List(p) ==
    /\ pc[p] = "list"
    /\ \/ /\ tokens # {}
          /\ pc' = Set(pc, p, "delete")
          /\ todo' = Set(todo, p, tokens)
          /\ UNCHANGED <<job, effect, faultVars>>
       \/ tokens = {} /\ AfterDeletion(p, TRUE) /\ UNCHANGED faultVars
       \/ AfterDeletion(p, FALSE) /\ Fails("abort")
    /\ UNCHANGED <<fileVars, haVars, open, view, copy, out>>

\* virtual_keys/delete_token for one of the listed tokens.
DeleteOne(p, k) ==
    /\ pc[p] = "delete"
    /\ k \in todo[p]
    /\ todo' = Set(todo, p, todo[p] \ {k})
    /\ \/ /\ k \in tokens
          /\ tokens' = tokens \ {k}
          /\ effect' = Set(effect, p, TRUE)
          /\ UNCHANGED faultVars
       \/ /\ k \notin tokens
          /\ UNCHANGED <<tokens, effect, faultVars>>
       \/ /\ Fails("refuse")
          /\ UNCHANGED <<tokens, effect>>
    /\ UNCHANGED <<fileVars, ttl, user, open, job, pc, view, copy, out>>

\* An error of the web socket ends ha-virtual-keys.
DeleteAborts(p) ==
    /\ pc[p] = "delete"
    /\ Fails("abort")
    /\ AfterDeletion(p, FALSE)
    /\ UNCHANGED <<fileVars, haVars, open, view, copy, out>>

\* deleted_count > 0; the case matched_count = 0 is in List.
DeleteDone(p) ==
    /\ pc[p] = "delete"
    /\ todo[p] = {}
    /\ AfterDeletion(p, effect[p])
    /\ UNCHANGED <<fileVars, haVars, open, view, copy, out, faultVars>>

\* set_meta_disable_retry_backoff: jq reads META_FILE into a temporary file ...
BackoffRead(p) ==
    /\ pc[p] = "backoff"
    /\ IF meta = NoMeta
         THEN Then(p, "write", TRUE) /\ UNCHANGED copy
         ELSE /\ Then(p, "move", TRUE)
              /\ copy' = Set(copy, p, IF meta = Torn THEN Torn ELSE [meta EXCEPT !.wait = Backoff])
    /\ UNCHANGED <<fileVars, haVars, open, job, view, todo, effect, faultVars>>

\* ... and mv replaces META_FILE by it.
BackoffMove(p) ==
    /\ pc[p] = "move"
    /\ meta' = copy[p]
    /\ writers' = {}
    /\ copy' = Set(copy, p, NoMeta)
    /\ Then(p, "write", TRUE)
    /\ UNCHANGED <<shown, haVars, open, job, view, todo, effect, faultVars>>

-----------------------------------------------------------------------------
(* status_cmd *)

\* Mutant: an expired window that waits for its retry is not shown.
DecideHidesRetry(p) ==
    /\ pc[p] = "decide"
    /\ \/ ~HasWindow /\ Then(p, "write", FALSE)
       \/ Unexpired /\ view[p] = "token" /\ Then(p, "write", TRUE)
       \/ Unexpired /\ view[p] # "token" /\ Then(p, "clear", FALSE)
       \/ HasWindow /\ ~Unexpired /\ meta.wait > 0 /\ Then(p, "write", FALSE)
       \/ HasWindow /\ ~Unexpired /\ meta.wait = 0 /\ Then(p, "list", FALSE)
    /\ UNCHANGED <<fileVars, haVars, open, job, view, todo, effect, copy, faultVars>>

Decide(p) ==
    /\ pc[p] = "decide"
    /\ \/ ~HasWindow /\ Then(p, "write", FALSE)
       \/ Unexpired /\ view[p] = "token" /\ Then(p, "write", TRUE)
       \/ Unexpired /\ view[p] # "token" /\ Then(p, "clear", FALSE)
       \/ HasWindow /\ ~Unexpired /\ meta.wait > 0 /\ Then(p, "write", TRUE)
       \/ HasWindow /\ ~Unexpired /\ meta.wait = 0 /\ Then(p, "list", FALSE)
    /\ UNCHANGED <<fileVars, haVars, open, job, view, todo, effect, copy, faultVars>>

-----------------------------------------------------------------------------
(* enable_cmd *)

Admissible(p) == view[p] # "blind" /\ user # "owner"

Admit(p) ==
    /\ pc[p] = "admit"
    /\ \/ ~Admissible(p) /\ Then(p, "write", FALSE)
       \/ Admissible(p) /\ Unexpired /\ view[p] = "token" /\ Then(p, "write", TRUE)
       \/ Admissible(p) /\ ~(Unexpired /\ view[p] = "token") /\ Then(p, "create", FALSE)
    /\ UNCHANGED <<fileVars, haVars, open, job, view, todo, effect, copy, faultVars>>

\* virtual_keys/create_token.
NewToken(k) ==
    /\ k \in Tokens \ tokens
    /\ tokens' = tokens \cup {k}
    /\ ttl' = [ttl EXCEPT ![k] = TTL]

Create(p) ==
    /\ pc[p] = "create"
    /\ \E k \in Tokens : NewToken(k)
    /\ pc' = Set(pc, p, "truncate")
    /\ UNCHANGED <<fileVars, user, open, job, view, todo, effect, copy, out, faultVars>>

\* An error, or a lost answer after Home Assistant has created the token.
CreateFails(p) ==
    /\ pc[p] = "create"
    /\ Fails("create")
    /\ \/ \E k \in Tokens : NewToken(k)
       \/ UNCHANGED <<tokens, ttl>>
    /\ pc' = Set(pc, p, "write")
    /\ UNCHANGED <<fileVars, user, open, job, view, todo, effect, copy, out>>

\* prepare_meta; write_meta opens META_FILE, which empties it ...
Truncate(p) ==
    /\ pc[p] = "truncate"
    /\ meta' = Torn
    /\ writers' = writers \cup {p}
    /\ pc' = Set(pc, p, "fill")
    /\ UNCHANGED <<shown, haVars, open, job, view, todo, effect, copy, out, faultVars>>

\* ... and fills it, unless its name has gone to another file meanwhile.
Fill(p) ==
    /\ pc[p] = "fill"
    /\ meta' = IF p \in writers THEN [left |-> TTL, wait |-> 0] ELSE meta
    /\ writers' = writers \ {p}
    /\ Then(p, "write", TRUE)
    /\ UNCHANGED <<shown, haVars, open, job, view, todo, effect, copy, faultVars>>

-----------------------------------------------------------------------------
(* The environment *)

\* The container dies and is started again: files and tokens stay.
Crash ==
    /\ Fails("crash")
    /\ job' = [p \in Procs |-> "none"]
    /\ pc' = [p \in Procs |-> "idle"]
    /\ view' = [p \in Procs |-> "blind"]
    /\ todo' = [p \in Procs |-> {}]
    /\ effect' = [p \in Procs |-> FALSE]
    /\ copy' = [p \in Procs |-> NoMeta]
    /\ out' = [p \in Procs |-> FALSE]
    /\ writers' = {}
    /\ UNCHANGED <<meta, shown, haVars, open>>

\* tailscaled leaves or reaches Running, or the tailnet changes.
GateMoves ==
    /\ Fails("gate")
    /\ open' = ~open
    /\ UNCHANGED <<fileVars, haVars, procVars>>

\* Mutant: a difference of epochs that is not cut off at 0.
Min0Negative(n) == n - 1

Min0(n) == IF n > 0 THEN n - 1 ELSE 0
Later(m) == IF m \in Window THEN [left |-> Min0(m.left), wait |-> Min0(m.wait)] ELSE m

\* One tick; filling META_FILE takes no time.
Tick ==
    /\ \E k \in Tokens : ttl[k] > 0
       \/ Later(meta) # meta
       \/ \E p \in Procs : Later(copy[p]) # copy[p]
    /\ \A p \in Procs : pc[p] # "fill"
    /\ ttl' = [k \in Tokens |-> Min0(ttl[k])]
    /\ meta' = Later(meta)
    /\ copy' = [p \in Procs |-> Later(copy[p])]
    /\ UNCHANGED <<writers, shown, tokens, user, open, job, pc, view, todo, effect, out, faultVars>>

Run(p) ==
    \/ Look(p) \/ Clear(p) \/ Write(p)
    \/ List(p) \/ (\E k \in Tokens : DeleteOne(p, k)) \/ DeleteAborts(p) \/ DeleteDone(p)
    \/ BackoffRead(p) \/ BackoffMove(p)
    \/ Decide(p)
    \/ Admit(p) \/ Create(p) \/ CreateFails(p) \/ Truncate(p) \/ Fill(p)

Request(p) == \E j \in {"status", "enable", "disable"} : Begin(p, j)

Next ==
    \/ Begin(Poll, "status")
    \/ \E p \in Cgis : Request(p)
    \/ \E p \in Procs : Run(p)
    \/ Crash
    \/ GateMoves
    \/ Tick

Spec == Init /\ [][Next]_vars

(***************************************************************************)
(* runtime-status polls for ever, a command that was started runs, time    *)
(* passes.  Nobody has to click.                                           *)
(***************************************************************************)
Fairness ==
    /\ WF_vars(Begin(Poll, "status"))
    /\ \A p \in Procs : WF_vars(Run(p))
    /\ WF_vars(Tick)

FairSpec == Spec /\ Fairness

-----------------------------------------------------------------------------
TypeOK ==
    /\ meta \in Window \cup {NoMeta, Torn}
    /\ writers \subseteq Procs
    /\ shown \in BOOLEAN
    /\ tokens \subseteq Tokens
    /\ ttl \in [Tokens -> 0 .. TTL]
    /\ open \in BOOLEAN
    /\ user \in Users
    /\ job \in [Procs -> Jobs]
    /\ pc \in [Procs -> Steps]
    /\ view \in [Procs -> Views]
    /\ todo \in [Procs -> SUBSET Tokens]
    /\ effect \in [Procs -> BOOLEAN]
    /\ copy \in [Procs -> Window \cup {NoMeta, Torn}]
    /\ out \in [Procs -> BOOLEAN]
    /\ faults \in 0 .. MaxFaults
    /\ clean \in BOOLEAN

(***************************************************************************)
(* No access without a window: as long as commands do not overlap and      *)
(* deletions fail as a whole, every token that still opens a session is    *)
(* covered by a window that lasts at least as long, or its window is about *)
(* to be written.  Renewals, failed revocations, expiries and retries all  *)
(* keep it (support-tunnel:2182-2298, 2335-2369).                          *)
(***************************************************************************)
TokenTracked ==
    clean => \A k \in Usable :
      \/ Unexpired /\ ttl[k] <= meta.left
      \/ \E p \in Procs : pc[p] \in {"truncate", "fill"}

(***************************************************************************)
(* The panel never says that support has no access while a token opens     *)
(* sessions, a failed revocation or a failed expiry included               *)
(* (support-tunnel:2211-2239, 2417-2432).                                  *)
(***************************************************************************)
PanelTellsAccess == clean /\ Idle /\ Usable # {} => shown

(***************************************************************************)
(* What a status poll writes for the panel is what it leaves on disk: it   *)
(* says active exactly if there is still a window, whatever failed on the  *)
(* way (support-tunnel:2220-2298).                                         *)
(***************************************************************************)
StatusIsTruthful ==
    [][\A p \in Procs :
         Write(p) /\ job[p] \in {"status", "nested"} => (out[p] <=> HasWindow)]_vars

(***************************************************************************)
(* Every support session ends: once nobody enables support any more, the   *)
(* window goes, no token opens sessions and the panel says so, although    *)
(* commands overlap, Home Assistant fails for a while and the container    *)
(* crashes anywhere (support-tunnel:2220-2298, runtime-status/run:131-134, *)
(* 309).                                                                   *)
(***************************************************************************)
SessionEnds ==
    <>[](\A p \in Procs : job[p] # "enable") =>
      <>[](~HasWindow /\ Usable = {} /\ ~shown)

=============================================================================
