# Nodalia add-ons and matter.js: models, checks and proofs

The repository holds three Home Assistant add-ons: **Nodalia Video Core**
(`nodalia_video_core/`, a Python service that keeps go2rtc alive and restarts
cameras that fail), **Tailscale Nodalia** (`tailscale_nodalia/`, shell services
under s6 that run tailscaled and open a temporary support access to Home
Assistant) and its **beta** (`tailscale_nodalia_beta/`). `package/` is the source
of **matter.js' node package**: server and client nodes of the Matter protocol,
their behaviors and clusters. These modules model the parts that decide
something over several steps: who may restart what and when, who has access and
until when, what a subscriber learns, which update is applied, when a light goes
out. `PROJECT.json` maps each definition to the lines it translates.

Contents: [inventory](#inventory) · [the models](#the-models) ·
[runs](#runs) · [fairness](#fairness) · [proofs](#proofs) ·
[where code and documents disagree](#where-code-and-documents-disagree) ·
[not modelled](#not-modelled) · [plan](#plan)

## Inventory

### Nodalia Video Core (one asyncio program and the processes it starts)

| Part | State | Operations | What is hard | What makes it correct |
|---|---|---|---|---|
| go2rtc manager `app/go2rtc.py` | `process`, the asyncio lock, `generation`, the config file | `start`, `stop`, `restart`, `reload`, `soft_reconnect`, `is_responding`, `get_streams` | callers interleave at every `await`; SIGTERM ignored, SIGKILL after 8 s; `OSError` with the lock held; cancellation; `reload` reads `returncode` outside the lock | one go2rtc at most, the next only after the previous has gone; every call returns |
| watchdog `app/watchdog.py`, `app/health.py` | one loop per camera; per camera the state, the attempts, the time of the last reconnect | probe, soft and hard reconnect with cooldown and limit, forced reconnect | loops share one go2rtc, so each recovery disturbs the others; the probe is a stale answer; a forced reconnect from the API runs in the middle of a check | `offline` only when the attempts are spent, left only for a reason; after faults the cameras settle |
| API `app/api.py` | none | health, cameras, reconnect, reload, proxies to go2rtc | requests run concurrently with loops and shutdown | a request obeys the same rules, survives an exception of the manager |
| life cycle `app/main.py` | signal event, server | start go2rtc, start loops, serve, stop | SIGTERM while a loop or request is inside the manager | exits, with no go2rtc left |
| config, UI, logging | none | parse options, render a page | none | not modelled |

The watchdog and the API call the manager directly (shared object, shared
lock); the manager drives go2rtc by signals and HTTP; ffprobe reads the stream
go2rtc re-emits.

### Tailscale Nodalia (processes that share files under `/data`)

| Part | State | Operations | What is hard | What makes it correct |
|---|---|---|---|---|
| support access `usr/bin/support-tunnel`, `usr/bin/ha-virtual-keys` | `META_FILE` (the window), `STATE_FILE` (the panel), tokens in Home Assistant | `status` (expires and retries), `enable`, `disable` | no mutual exclusion between commands; read-edit-`mv`; failure of each call; crash between the token and the file | no token without a window, the panel tells the truth, every session ends |
| runtime status `runtime-status/run` | readiness streaks, `runtime.json` | polls every 3 s, calls `support-tunnel status` | the only one that ends a session on time | polls for ever |
| identity reset `tailscale-logauth-reset`, `tailscaled/run`, `tailscaled/finish` | lock file, `tailscaled.state`, socket | stop tailscaled, wipe, let s6 restart it, log in again | s6 restarts tailscaled, `run` looks for the lock once and waits 60 s at most; resets share the lock file; `finish` may halt the container | success means that the old identity is gone; tailscaled comes back |
| control API `cgi-bin/control` | none | resolves the request to one command, runs it under `timeout` | no mutual exclusion, kills the reset after 95 s | one request, one action |
| configuration `post-tailscaled/run` | onboarding file, notification marker | waits for the daemon, `up`, `set`, login URL | retries, the URL changes | one notification for each URL, options applied |
| service start-up `stage2_hook.sh` | s6 service directories | enable services from options | dependencies between services | a service runs only if its option and its dependency do |
| subnet routes, forwarding, MSS clamping | ip and iptables rules | add on start, remove on stop | rules left over after a crash | rules match the routes |
| health check | age of the offline marker | decides healthy or not | boundary of the grace period | restarts only after the grace period |
| share, taildrop, web, nginx, local network | none of their own | long-running commands | none | not planned |

The **beta** shares the support commands and adds `revoke-all`, which its reset
calls first.

### matter.js (`package/src`, one JavaScript thread per node)

Tasks interleave at every `await` and at the callbacks of timers. State of a
behavior is written in transactions that take a lock at the first write and end
in two commit phases; what is not an attribute (timers, queues, maps) is not
rolled back.

| Part | State | Operations | What is hard | What makes it correct |
|---|---|---|---|---|
| subscriptions `node/server/ServerSubscription.ts`, with `InteractionServer.ts`, `Datasource.ts` | what is outstanding, what was seeded, two timers, the report under way, an error counter | seed, activate, report, cancel, close with a flush | clusters change while they are read one by one; versions run ahead of values; reports fail; timers hand on to each other | no change and no event is lost; the peer is heard within the promised interval; it converges |
| update manager `SoftwareUpdateManager.ts` and provider `OtaSoftwareUpdateProviderServer.ts` | consents, queue, its timer, details of transfers | consent, force, remove, check, announce, query, download, apply, reboot | every call awaits in the middle; devices fall silent; old details meet new queries | only what was consented to is applied; the queue goes on and everybody gets a turn |
| update requestor `OtaSoftwareUpdateRequestorServer.ts` | providers, the query timer, the file, attributes | query, busy and delayed answers, consent, download, apply, announcements, restart | a query is activated by a timer and by announcements; crashes leave part of a file | only whole, validated, newer images are applied; there always is a next query |
| on/off `OnOffServer.ts` | attributes, two periodic timers, a scene to come | on, off, toggle, effects, timed on, scenes | a callback waits for the lock while commands stop its timer | the promise of `OnOffInterface.ts`; times run out |
| level `LevelControlServer.ts`, `Transitions.ts` | level, a transition, a flag that blocks the coupling | move, step, stop, with and without on/off | commands, steps and reactions of two clusters commit in any order and may fail | a light dimmed to off goes off; transitions end |
| color, commissioning, sessions, storage, clients, device types, clusters | | | | not modelled, see below |

## The models

| Module | Models | Code it stands for |
|---|---|---|
| `Go2RTC` | the manager, the lock, the go2rtc process | `go2rtc.py` |
| `SingleProcess` | abstract: one process, started again only after it has gone | what users of go2rtc rely on |
| `VideoCore` | extends `Go2RTC` with loops, API and life cycle | `watchdog.py`, `health.py`, `api.py`, `main.py` |
| `SupportTunnel` | commands of the support access as concurrent processes | `support-tunnel`, `ha-virtual-keys`, the poll of `runtime-status` |
| `IdentityReset` | resets that may overlap, the service they stop | `tailscale-logauth-reset`, `tailscaled/run`, `tailscaled/finish`, the logout of `control` |
| `ServerSubscription` | one subscription, the commits it hears of, its peer | see the inventory |
| `Replica` | abstract: a copy and a record of events that never go back and never run ahead, unchanged once the subscription is over | what a peer relies on |
| `SoftwareUpdateManager` | queue, consents, provider, with the devices as environment | see the inventory |
| `OtaRequestor` | one device, with the providers as environment | see the inventory |
| `OnOff` | a light that may be on for a time | `OnOffServer.ts` |
| `TimedLight` | abstract: what the interface promises of `OnWithTimedOff` | `OnOffInterface.ts` |
| `Light` | extends `OnOff` with level, transitions and transactions | `LevelControlServer.ts`, `Transitions.ts` |
| `MC...` | instances for TLC | |
| `...Proofs` | theorems | |

Definitions that a comment calls a *mutant* are the code with one plausible bug.
No specification uses them; each shows that one property can fail.

### Go2RTC

A step is what a task runs between two awaits, so `call[t]` names the await the
task is in: waiting for the lock (`start_wait`, `restart_wait`, `stop_wait`), in
`process.wait()` (`restart_stop`, `stop_stop`), in `create_subprocess_exec`
(`start_spawn`, `restart_spawn`), in the DELETE requests of `soft_reconnect`
(`soft`), or about to signal (`reload`). `holder` is the lock.

* `process` separates a process that has exited (`dead`) from one whose exit
  status asyncio has collected (`reaped`): only then is `returncode` set.
* What go2rtc does on SIGHUP is not decided by this repository. `HupEffects`
  names what it may do; `MCGo2RTC` allows reloading, ignoring and exiting, the
  runs of `VideoCore` reloading only. The proofs allow any set.
* `Cancelled` drops the caller and frees its lock. During a spawn asyncio closes
  the transport of a half-created process and waits for it, so no process is
  left behind by a cancellation.
* `generation` is counted modulo `GenMod`; the code only reports it, so the runs
  of `VideoCore` do not count at all (`GenMod = 1`).
* `orphans` counts processes that run although `self.process` names another one.
  `Spawn` computes it from the process it replaces: it stays 0 because of the
  lock and the wait, and a mutant that drops either makes it 1.

### VideoCore

`loop[c]` is where `_camera_loop(c)` is: before `is_responding` (`check`), in
ffprobe (`probe`), with the answer and before the rest of the check (`apply`),
inside the manager (`reconnect`), asleep (`sleep`), ended (`dead`).
`_reconnect` is split by its early returns: `Unforced` has one disjunct each for
the cooldown, the limit and the attempt, `Forced` resets the counter first.
`NextLoop` says whether the check is over or waits for the manager.

* Deadlines are ticks left, cut off at 0. A `last_reconnect` of zero and a
  cooldown that ran out mean the same to the code.
* `Tick` needs `main = "running"` and a pending deadline. With `SlowRestart =
  TRUE` it may fall anywhere, so restarting go2rtc may take longer than any
  interval; with `FALSE` a restart is quicker than a tick.
* The environment's misbehaviour is drawn from `faults`: a crash of go2rtc, a
  camera that changes, a probe or request that times out, an API call, an
  exception (that of a request is paid with the request), the death of the
  program. `MaxFaults` is a bound of the runs, not of the proofs. `Routes` are
  the requests the API gets, `Sources` what a camera may do.
* The program ends in two ways. `MainStop` is the orderly one, by a signal or by a
  server that returns (uvicorn may catch SIGTERM itself): it leads to
  `Watchdog.stop()` and then `go2rtc.stop()`, at any time while the program runs.
  `MainDies` is the other (`failed`): `task.result()` raises what the server
  raised, a port that cannot be bound or a signal before its handler is there
  ends the program, and nobody calls `stop()`. The shutdown properties speak of
  the first (`exited`); see the disagreements.
* The API answers from the start of the server on and also during the shutdown
  (`Serving`: uvicorn's sockets are still open then). When `go2rtc.stop()` has
  returned the event loop makes one more turn: a request may still take the lock,
  but has no time for a spawn (`HasTime`).
* `frame_timeout` changes nothing: with video the last frame's age is 0, without
  it the state is already `degraded`. Codec, bitrate and URLs decide nothing.

### SupportTunnel

`pc[p]` is the next access of process `p` to something shared. `Look` is
`build_eligibility`, which leaves the same values when it does not look, when the
lookup fails and when the user does not exist (`blind`); `Decide` is the rest of
`status_cmd`, `Admit` that of `enable_cmd`; `List`, `DeleteOne`, `DeleteAborts`
and `DeleteDone` are `ha-virtual-keys delete`; `BackoffRead` and `BackoffMove`
are `jq` and `mv`. `nested` is the `status_cmd` a failed `disable` calls.

* `META_FILE` is emptied (`Torn`) and then filled; `writers` are the processes
  whose open descriptor still is the file of that name, since `mv` and `rm` give
  the name to another file. No tick falls between emptying and filling.
* `STATE_FILE` is written as one step: nothing in these commands reads it back.
* A token that has expired stays listed until it is deleted. Names are bounded:
  `enable` begins only while a name is free (`Begin`).
* The modes *password rotation* and *temp_account* are not modelled:
  `SUPPORT_MODE` is a constant that selects the token mode.
* `Serial` restricts behaviours to commands that do not overlap. The code does
  not enforce it; it is an assumption of the run and the theorems that use it,
  and TLC refutes `TokenTracked` without it: a status looks the tokens up, an
  `enable` creates one and writes its window, and the status clears that window.

### IdentityReset

`pc[r]` is the next step of reset `r`, `service` where s6 and `run` are: testing
for the lock, waiting for it, past it (`options`), running, or halting the
container. `files` and `mem` are the identity in the state file and in
tailscaled; an identity is the number of its login and whether the node is to be
connected (`tailscale down` clears that).

* *Time.* Only what waits takes time; everything else takes none. A tick is 8 s:
  `down` and `logout` 8 s each, SIGINT 10 s, SIGKILL 8 s, the wait of `run` 60 s,
  rounded against the lock. `TimesAssumption` states what the code relies on:
  the limits of a reset that holds the lock add up to less than the 60 s.
* tailscaled exits with 0 on SIGINT and with another code when it fails; a
  process killed in a pipeline gives 137, because bashio sets `pipefail`. In
  debug mode `run` becomes tailscaled and s6 sees the signal itself.
* `control` ends a reset after 95 s; by then it has passed the limits of the
  stop, so `TimesOut` comes in the steps after the release. The trap is run.
* `exposed` is history: resets whose lock could not help, because `run` was past
  its test already, because another reset removed the lock, or because it could
  not be written. The properties except these; see the findings.

### ServerSubscription

The value of a cluster is the number of its commits; `version` runs ahead of
`value` from the first commit phase to the second (`storing`), and `notices`
holds what the listeners are yet to hear. `report` is the report under way, read
cluster by cluster (`left`), then on the wire; `plan` are the agreed intervals.

* `dirty`, `minEvent`, `seeded`, `lastSeeded`, the two timers, `since`, `again`
  and `errors` are the fields of the class. `phase` is the life of the
  subscription as the server sees it.
* `filter` are the clusters the peer may skip by its data version; they get no
  entry in `seeded`, which is what `MCSeedLost` is about.
* `missed` collects, at the step that loses it, what the code can never report
  again: a change dropped in the seed, and what the third failure in a row
  throws away. `NoChangeLost` and `Converges` except exactly these, so a change
  lost in any other way violates them.
* A report fails by a network error, another error or a refusal by the peer.
  Contents of reports beside values and events are not modelled.

### SoftwareUpdateManager

The manager's queue is a sequence of entries with the status and the age of the
progress; `adds`, `cancels`, `checks` and `calls` are the continuations that
wait. `Trigger` is `#triggerQueuedUpdate` with its revival of stalled entries
and its sort, which is stable (`StableOrders` is the one permutation a stable
sort makes). A device is asked, asks on its own, downloads, applies, reboots
with the new or the old version, or falls silent. `told` and `clean` are
history: the consents the application has left in force, and that no addition has
saved consents of other devices that were added, withdrawn or used up while it
waited.

### OtaRequestor

`step` is the await the query is in; `second` an activation that comes while the
file is checked or deleted. `state` are the attributes as the holder of the lock
sees them, `saved` those a restart finds; the timer, the selected provider and
`retries` are not attributes and survive no restart. `file` is the download.
Order of the providers stands for their timestamps. A provider answers what it
likes, as often as it likes, and downloads fail as often; only failures of the
device and events from outside are drawn from `faults`. `stranded` marks the four
ways to be left without a next query that the code has: `applyUpdate` comes back
from a file that was there already, the old file cannot be deleted, the timer
runs out during an announcement that then fails, and a default provider is
written while a stopped timer object is there.

### OnOff and Light

A command of `OnOff` is one step: it holds the lock of the cluster until it is
stored. A timer that fires puts its callback into `due`; commands may come
between the firing and the callback. `Light` splits commands and steps into the
part that writes (`tx`) and the commit, since the coupling makes them wait for a
second cluster; the transition `move` and the flag `block` are outside of the
transaction. The level counts in whole levels, positions and rates in parts of
one (`Unit`). A step may be late by up to `Late` ticks, as timers in a busy
process are. `asked` is history: whether the last command asked to dim to exactly
the minimum with on/off (`off`) or past it (`past off`), as `MoveWithOnOff` down
and `StepWithOnOff` near the minimum do; the code treats the two differently.

## Runs

| Run | Question | Bounds, and why they are enough |
|---|---|---|
| `MCGo2RTC` | Do the manager's calls exclude each other, implement `SingleProcess`, and all return? | 3 tasks: one inside, one waiting, one that reloads without the lock. All SIGHUP effects, exceptions, crashes without limit. 11 thousand states |
| `MCVideoCore` | Are attempts, cooldowns, `offline` and shutdown consistent, and is the invariant of the proofs one? | 2 cameras that disturb each other and a request, 2 attempts (first and last differ), a cooldown longer than the check interval so that checks fall into it, one fault of any kind, slow restarts, SIGHUP reloads. 2.8 million states. The proofs remove every bound |
| `MCVideoCoreLive` | Do the cameras settle, is a dead go2rtc replaced, does shutdown end? | 2 cameras and a request (reload or hard reconnect) that may hold or wait for the manager's lock when the shutdown comes, the same limits, one fault, sources up or down, restarts quicker than an interval. No exceptions: that calls return after one is in `MCGo2RTC` (`CallsReturn`). 249 thousand states |
| `MCSupportFaults` | Is every usable token covered by a window and shown, and is what a status shows what it leaves on disk? | commands one after another, 3 tokens, TTL 3 and backoff 2, so that expiry, retry and renewal overlap; 4 failures of any kind, crashes, a moving gate. 208 thousand states |
| `MCSupportLive` | Does every session end? | overlapping commands, 2 tokens, one fault of any kind anywhere |
| `MCIdentityReset` | Does a reset that reports success leave nothing of the old identity, and does tailscaled come back? | 2 resets that may overlap, 2 logins (one before, one during a reset), a tailscaled that ignores SIGINT or exits late, 2 failures or power cuts. 1.5 million states |
| `MCServerSubscription` | Is anything lost, is the peer heard in time, does its copy only go forward (`Replica`), does it converge? | 1 cluster that changes twice and is stored in two phases, 1 event, 3 failures of three kinds (three in a row is the limit), a floor as long as the interval, so every change is held back. 1.2 million states |
| `MCSoftwareUpdate` | Is only what was consented to applied, does the queue go on, does everybody get a turn? | one device that acts twice beside one that stays silent and blocks, 2 calls of the application (more than one must overlap), 2 versions, stalled after one unit |
| `MCOnOff` | Do the timers match the light, is the promise kept, do times run out? | times 0, 1 and 3: none, the next tick, and long enough for commands in between; scenes at once and delayed. Exhaustive: nothing else is bounded |
| `MCLight` | Is a dimmed light off in the end, do transitions end? | 4 levels, 6 parts each, moves of 0, 2 and 3 ticks, a rate that is no divisor of a level, steps up to 2 ticks late, one failing step; moves down and steps of 1 also ask past the minimum. Without `OnWithTimedOff` (`Times = {}`): `MCOnOff` has it. 169 thousand states |
| `MCOtaRequestor` | Is only a validated, newer image applied, is there a next query, is every provider asked? | 2 providers, 3 versions (an update during an update), any answers and failing downloads without a bound, and 2 faults of the device or from outside: failed writes and deletions, announcements, going offline, restarts. 1.2 million states |
| `MCSeedLost` | violation, see below | 2 clusters, one that the peer filters |

Deadlock is checked in every run but those whose system really may stop: in the
runs of the subscription (it is over), the update manager and the requestor
(nothing to do and the budgets spent).

`Settles` holds only in the setting it names. With `SlowRestart = TRUE`, or with
a SIGHUP that go2rtc ignores or ends on and one fault, TLC finds a restart storm:
each of two healthy cameras finds go2rtc down because the other has just restarted
it, restarts it in turn, and so on for ever. Since video resets the counter, neither
reaches its limit. The run therefore says what the watchdog achieves when
replacing go2rtc takes less than a check interval, and no more.

## Fairness

* *Tasks.* asyncio runs every task that is ready (`WF` of each task's steps) and
  `asyncio.Lock` wakes waiters in FIFO order. The model keeps no queue: `SF` of
  `Acquire(t)` says that a task cannot be overtaken for ever.
* *go2rtc.* A spawned process comes up, a process that was sent SIGKILL exits,
  an exit status is collected. Nothing makes go2rtc obey SIGTERM, so `ExitTerm`
  has no fairness: the 8 s time-out (`KillStep`) is what helps.
* *Support.* `runtime-status` is a loop (`WF` of the poll) and a command that was
  started runs on, except across a crash.
* *Reset.* s6 and `run` go on, a reset that was begun goes on, SIGKILL ends
  tailscaled; SIGINT need not.
* *matter.js.* A JavaScript task that is ready is run and a timer that has run
  out fires: `WF` of commits, reports and timers; of the steps of a query, its
  timer, announcements; of transition steps and commits. For the update manager
  an announcement ends, successfully or not; a device owes nothing.
* *Time.* `WF(Tick)` wherever there is a clock.
* Shutdown, API calls, clicks, commands, logins and faults are owed to nobody.

## Proofs

TLAPS checks these for every value of the constants. What they assume are the
`ASSUME`s of the modules, which TLC evaluates in the runs; bounds on faults,
versions or logins are arbitrary naturals. `PROJECT.json` lists the 47 theorems.
Every invariant, action property and refinement that a passing run checks is among them.

**`VideoCoreProofs`: the manager.** `OneProcess` alone is not inductive: from a state where two
tasks are about to spawn, the second spawn loses the first process. `MgrInv` adds
`HolderReplaces`, a task has the lock exactly while it is in the wait or the
spawn, and `SpawnAfterExit`, a pending spawn means that the previous process has
been collected. The first makes the task of the second unique. One lemma for
each group of actions gives `MgrInvariant`, and from it `MgrTypeCorrect`,
`MgrOneProcess` and `MgrRefinesSingleProcess` (`alive <- LiveProcesses`).
`ProgramRefinesSingleProcess` says the same of the program, where loops and
requests are cancelled inside the manager and cameras, health and time take steps
of their own, which are shown to stutter.

**`VideoCoreProofs`: the whole program.** `Inv` adds to `MgrInv` the types, `OfflineMeansExhausted`
and where `async_main` is. `NothingLeftRunning` is not inductive by itself: a
request could spawn after `stop()` returned. `StartsAlone` (until the loops
start nobody else is in the manager), `MainCalls` and `StopsLast` (when `stop()`
has returned nothing runs) close it together with `LoopAlive`.
A program that dies (`MainDies`) is
`failed`, not `exited`: `Inv` and `ExitsClean` claim nothing of the go2rtc it leaves.
`OfflineMeansExhausted` needs the range of the counter, or `count >= MaxAttempts`
would not give equality. The lemmas about the manager are reused for its
steps.

**`SupportTunnelProofs`.** Types hold for any commands that overlap. The other
three theorems (`TokensAreTracked`, `PanelIsRight`, `StatusTellsTheTruth`) assume
`Serial`. `SerialInv` says that one command is under way at most, and what it has
still to do at each step: a token that was created and is not yet in a window is
in the hands of the `enable` that is about to write it; what was looked up is
still so.

**`IdentityResetProofs`.** `ResetForgets` is not inductive: that tailscaled stays
away until the state is wiped depends on clocks. `Span` is how long a reset may
still hold its lock, by its step and the ticks left in it. `TimeInv` bounds it by
`Total`, the sum of the limits; `LockInv` says of a reset whose lock is in force
that `run` is not past the lock, that the time `run` has waited and the `Span` add
up to `Total` at most, so to less than the wait of `run` (`TimesAssumption`), and
that tailscaled is gone from the check before the wipe on. Two consequences are
theorems of their own: `LockKeepsItDown`, tailscaled does not come back while a
lock is in force, and `WipedWhileDown`. `ForgetInv` carries
the result from the wipe to the end: identities of later logins are others. A tick
takes from `Span` what it adds to the wait. `ComesBack` is left to TLC.

**`OnOffProofs`.** What each method makes of a lamp is shown once. `Sound` needs
one thing beyond types and timers: a light that is on has its global scene
stored, or a recall could take a timed light out of its time. `LightKeepsPromise`
is the refinement of `TimedLight`.

**`LightProofs`.** `Dims` says where the promise to go off is: in the coupling of
the transition, in the transaction that is to commit, or kept. `Ticking` bounds
how late a step may be, and `StaysOn` keeps a light on that was told to dim past
the minimum. `DimmedIsOff` states both, over failed commits of commands and steps.

**`ServerSubscriptionProofs`.** The largest. `ChangesInv` says that a value the
peer lacks is in the report under way, queued, or about to be heard of, and that
one which changed after it was read is queued; `EventsInv` the same for events by
their numbers; `HeardInv` how long the peer may still wait in each combination
of the timers and the report; `FlushInv` what a closing subscription has left.
They rest on `LifeInv` and `ReadsInv` (values only grow, and the peer is never
ahead of a report). `SubscriptionIsReplica` is the refinement of `Replica`:
`current <- value`, `newest <- events`, `copy <- known`, `seen <- got` and
`over <- Over`. A delivered report, and one whose failure only hides that it
arrived, is a `Report`, the step that ends the subscription an `End`, all else a
change, an event or a stutter. Beside the invariant above it needs `CopyInv`: a
version is ahead of its value exactly while the commit is stored, and neither a
report nor the peer has an event that is yet to come. `OverStaysOver` is the
half of it that concerns the end.

**`SoftwareUpdateProofs`.** `QueueInv`: the queue is a sequence of entries of
different devices, announcements are of queued devices, the timer watches a queue
that is not empty; the sort is shown to be a permutation. `ConsentInv`: as long
as no addition has saved consents of other devices that were added, withdrawn or
used up while it waited, a saved consent is the one the application has left in
force. `OneUpdateEach`, `QueueWatched` and `ConsentHonoured` follow.
`NewerInv`, what a device is offered, loads or applies is newer than what it runs,
gives `OnlyForward`: no device goes back.

**`OtaRequestorProofs`.** `FileInv` says at each step of the query whose version
the file holds and whether it is whole, with the second activation beside it.
`OnlyValidatedApplied` follows, and `OnlyForward`, the counterpart of the
manager's: the version of the device only grows, to what `applyUpdate` was called
with. `QueryIsScheduled` needs more, for what a query leaves behind decides later,
after a restart, whether the next is scheduled. `OwnTypes` keeps the providers'
lists free of doubles (lemmas on `Without`, `Add`, `Mark` and `Forget`). `LockInv`:
a query holds the lock from its first write on, and what is unsaved is unsaved
under the lock. `DetailsInv`: an update that was saved unfinished is one to a
newer version, so a node that comes online sees that it failed and asks anew.
`TimerInv`: a running timer means that updates are possible; an idle device that is
online and has providers has a running timer or is `stranded`; and an unfinished
update without providers is `stranded` or about to end, since nothing would reset
its state when a provider comes. `ProvidersAssumption` only keeps providers
apart from the values `"free"`, `"query"` and `NoOne`.

*Only model-checked:* liveness (`CallsReturn`, `Settles`, `DeadIsReplaced`,
`StopEnds`, `SessionEnds`, `ComesBack`, `Converges`, `FirstTurn`, `QueueGoesOn`,
`TimesRunOut`, `MovesEnd`, `EveryProviderIsAsked`), which is out of the prover's
reach.

## Where code and documents disagree

Checked by a run:

1. `MCSeedLost`. While a subscription is seeded, changes of clusters that are not
   in `seededClusterDetails` are dropped as "yet to come in seed"
   (`ServerSubscription.ts:314-320`). A cluster that the peer skips by its data
   version filter never gets an entry: a change that is committed after the
   filter was evaluated is neither in the seed nor in a report. The same drop hits
   unfiltered clusters when storing takes time: the version is incremented in the
   first commit phase (`Datasource.ts:794-861`), the value follows in the second.

Found while modelling; each is in the model as the code has it, and the
properties are stated with these as their exceptions.

*Video core*

2. A 404 of the local stream forces a hard restart from the loop itself
   (`watchdog.py:100-106`): neither cooldown nor attempt limit applies. The
   changelog promises both and exempts manual actions only.
3. An `OSError` inside the manager leaves the camera in `reconnecting` and ends
   its loop without a trace (`watchdog.py:53-62`). If uvicorn's task ends with an
   exception, `task.result()` raises it (`main.py:56-58`) before
   `watchdog.stop()` and `go2rtc.stop()` are called; the same holds of a port that
   cannot be bound, where uvicorn calls `sys.exit`, and of a signal before lines
   44-45. go2rtc then outlives its program unless the interpreter happens to
   collect the transport of the process. The shutdown properties except this end.

*Support access*

4. One deleted token out of two counts as a successful revocation
   (`support-tunnel:1494-1502`); after a failed revocation the nested status may
   clear the window (2417-2419); a status that could not look the user up clears
   it too (2241-2252), although the comment at 2270 says it is preserved.

*Identity reset*

5. `run` tests the lock once, before it looks up its options: a reset that begins
   in between does not hold tailscaled back, and its old identity may survive a
   reset that reports success.
6. Resets that overlap share the lock, and the EXIT trap of each removes it for
   the other, also at the very end of the first one. A lock that a container
   stop leaves behind delays every start by 60 s until a reset removes it.
7. The comment at 76-78 explains that SIGTERM is avoided because `finish` would
   halt the container. The fallback SIGKILL has the same effect outside debug
   mode: the pipeline exits with 137 and `finish` halts on every code but 0.
8. The path that aborts because tailscaled runs has removed its socket
   (lines 87-95), so the daemon that was left alone cannot be reached.
9. A user who logs in while the reset is in its late phase is logged out again
   by the forced reauthentication; `Stopped` counts as success.

*Subscriptions*

10. After the third failure that is not of the network the data are dropped and
    the log says that the subscription is canceled; it stays active (481-499).
11. A failed SubscribeResponse "will be cleaned up" (`InteractionServer.ts`,
    about 681), but the listeners of the subscription stay.
12. `SubscriptionsServer.ts:155-185` removes by an index that may be stale by
    then. `minIntervalFloor` is not respected when reports overlap.

*Updates, controller*

13. A device that reboots with the old version after applying is to leave the
    queue (`SoftwareUpdateManager.ts:634`: "the update failed"), but lines
    625-631 have reset the status that 636-641 test: the failed update is started
    again and again. TLC finds it with the instance of `MCSoftwareUpdate`.
14. `addUpdateConsent` reads `consents` before it waits and assigns after: of two
    overlapping additions one is lost, and a consent of another device that is
    withdrawn or used up meanwhile comes back. TLC refutes `AppliedAsConsented`
    without its exception (`clean`).
15. Offered is "this version or higher", `applyUpdateRequest` wants exactly this
    one. A download of more than 15 minutes counts as stalled. `#cancelUpdate`
    leaves the provider's details, which answer Busy for up to 15 minutes.
    Entries that do not answer keep their place in the stable sort.

*Updates, device*

16. A second activation may delete the download that is applied later
    (`OtaSoftwareUpdateRequestorServer.ts:543`); the image is then missing, never
    wrong.
17. `MAX_BUSY_RETRIES` (58: "After 3 BUSY responses in a row, we try another
    provider", and so 613) never takes effect: the retry resets the counter (588,
    458). A download that fails with a `MatterError` (862-875) never marks its
    provider, nor does a query that
    may not be consented to, an answer that makes the device wait or refuses the
    update, or an `applyUpdate` that returns. Such a provider is the next to be
    asked, and one that goes on like this keeps the others from being asked for
    ever, which `EveryProviderIsAsked` names as its exception. When
    `requestUserConsent` throws, as the default does with "Declining update" (1201),
    the update goes on (832-836). A file that is already there is applied without
    asking the provider, and nothing schedules a query when `applyUpdate` comes back. "After
    3 errors the provider is removed" has no counter. A timer object that was
    stopped by going offline prevents scheduling for a new default provider
    (323-339).

*Lights*

18. A command with on/off that dims past the minimum leaves the light on:
    `couple` compares the target with the minimum
    (`LevelControlServer.ts:496`), and `MoveWithOnOff` down aims at `-Infinity`
    (351-360), `StepWithOnOff` below the minimum when it is near (423). They take
    the branch "when moving toward on", so the light ends at the minimum and on, and
    one that was off is turned on, though the class promises the coupling "as
    defined by the Matter specification" (33-34).
19. `OnWithTimedOff` with an `offWaitTime` of 0 starts no timer: the light stays
    on. A late `timedOnTick` after an off and an on turns the light off.
20. The level cluster writes `onOff` without `on()` and `off()`: timers go on, so
    what is proved of `OnOff` alone does not carry over to `Light`, and
    `globalSceneControl` is not set although `clusters/on-off.ts:250-252` says so.
21. A command whose commit fails leaves its transition running, and if the level
    that was rolled back to is the target already, it never ends
    (`Transitions.ts:608-612`): TLC refutes `MovesEnd` with `Failing =
    {"command"}`. `blockOnOffCouplingOnce` stays set as well, so the next On
    ignores `onLevel`.

*Commissioning.* Removing the last fabric while another failsafe is armed throws
in `handleFabricChange`, so `commissioned` stays true (read, not modelled).

## Not modelled

* *Video core, support access.* The proxies and the read-only routes of the API,
  the dashboard, option parsing, logging and Telegram texts change no state these
  properties speak of. Processes of ffprobe that outlive their time-out are not
  counted, and the wall clock never steps back.
* *Control API.* `reconnect` is one call of `tailscale up`; the diagnostics only
  read.
* *Other services of the Tailscale add-on.* Sequential scripts around state that
  the kernel or tailscaled keeps; `PROJECT.json` has the reason for each.
* *Beta.* Its commands are those of the stable add-on line by line, plus
  `revoke-all`; the models stand for the stable one.
* *matter.js.* Of `OtaAnnouncements` the periodic announcements (only
  `announceOtaProvider` is in the model), the remaining time and the color
  temperature of a dimmer, the other messages of `InteractionServer`, color
  control, commissioning, sessions, storage and client nodes. Most of `package/`
  are generated tables of clusters and device types, which is why the map covers
  a small share of its lines.

## Plan

1. Periodic announcements of `OtaAnnouncements`: its queue, its delay timer and
   `close()` with a continuation that starts the timer again.
2. `ColorControl` over `Transitions`, as `Light` is for the level.
3. Beta `revoke-all`; `PostTailscaled` with the abstract specification "one
   notification for each URL"; rules of routes and forwarding across crashes.
4. Abstract specifications for the support access (who has access, until when)
   and for a device under update, which `SoftwareUpdateManager` and `OtaRequestor`
   both implement, on the way of the two theorems `OnlyForward`.
5. Client subscriptions (`node/client`): what a peer does with the reports of
   `ServerSubscription`, composed with it.
