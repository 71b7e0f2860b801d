------------------------- MODULE IdentityResetProofs -------------------------
(***************************************************************************)
(* Theorems about IdentityReset, for any number of resets, logins and      *)
(* faults and any limits that add up to less than the wait for the lock.   *)
(***************************************************************************)
EXTENDS IdentityReset, TLAPS

\* The limits of the steps in which a reset holds its lock.
Total == 2 * CmdTime + IntTime + KillTime

\* How long a reset that has n ticks left in a step may still hold it.
Span(step, n) ==
    IF step = "down" THEN n + CmdTime + IntTime + KillTime
    ELSE IF step = "logout" THEN n + IntTime + KillTime
    ELSE IF step = "int" THEN n + KillTime
    ELSE IF step = "intRm" THEN KillTime
    ELSE IF step = "kill" THEN n
    ELSE 0

TimeInv == \A r \in Resets :
    /\ pc[r] \notin Timed => left[r] = 0
    /\ Span(pc[r], left[r]) <= Total
    /\ old[r] <= logins

\* A lock in force keeps run from starting tailscaled: run waits longer than the
\* reset needs.  So tailscaled, once it was found gone, stays so for the wipe.
LockInv == \A r \in Resets : pc[r] \in Critical /\ r \notin exposed =>
    /\ lock
    /\ service # "options"
    /\ service = "wait" => waited + Span(pc[r], left[r]) <= Total
    /\ pc[r] \in {"rm", "wipe"} => ~Up

\* From the wipe on, neither copy of the identity is one the reset is to forget.
Wiped == {"release", "late", "judge", "reauth", "ok"}
ForgetInv ==
    /\ ~Up => mem = Nobody
    /\ \A r \in Resets : pc[r] \in Wiped /\ r \notin exposed =>
         Forgotten(r, files) /\ Forgotten(r, mem)

ResetInv == TypeOK /\ TimeInv /\ LockInv /\ ForgetInv

-----------------------------------------------------------------------------
(***************************************************************************)
(* Facts about the constants.                                              *)
(***************************************************************************)

LEMMA Limits ==
    /\ CmdTime \in Nat /\ IntTime \in Nat /\ KillTime \in Nat /\ LockWait \in Nat
    /\ CmdTime > 0 /\ IntTime > 0 /\ KillTime > 0
    /\ Total \in Nat /\ Total < LockWait
    /\ MaxLogins \in Nat /\ MaxFaults \in Nat
BY TimesAssumption, BoundsAssumption DEF Total

LEMMA NobodyIs == Nobody \in Identities /\ Nobody.id = 0
BY Limits DEF Nobody, Identities

LEMMA SpanIsNat ==
    ASSUME NEW s, NEW n \in Nat
    PROVE  Span(s, n) \in Nat
BY Limits DEF Span

LEMMA GoToFacts ==
    ASSUME TypeOK, NEW r \in Resets, NEW s \in Steps, NEW n \in Nat, GoTo(r, s, n)
    PROVE  /\ pc' \in [Resets -> Steps] /\ left' \in [Resets -> Nat]
           /\ pc'[r] = s /\ left'[r] = n
           /\ \A x \in Resets \ {r} : pc'[x] = pc[x] /\ left'[x] = left[x]
BY DEF TypeOK, GoTo

-----------------------------------------------------------------------------
(***************************************************************************)
(* A step of one reset.                                                    *)
(***************************************************************************)

\* What a step makes of the variables resets share: types, and no identity but
\* those there are.
Shared ==
    /\ lock' \in BOOLEAN /\ sock' \in BOOLEAN /\ faults' \in 0 .. MaxFaults
    /\ files' \in Identities /\ mem' \in Identities
    /\ {files'.id, mem'.id} \subseteq {0, files.id, mem.id}
    /\ ~Up => mem' = Nobody
    /\ exposed \subseteq exposed' /\ exposed' \subseteq Resets

\* A reset that goes on holds its lock no longer than before, and gets past the
\* wipe only with both copies gone.
LEMMA MoveKeeps ==
    ASSUME ResetInv, NEW r \in Resets, NEW s \in Steps, NEW n \in Nat,
           GoTo(r, s, n), Shared, UNCHANGED <<serviceVars, old, logins>>,
           lock' = lock \/ Others(r) \subseteq exposed',
           s \notin Timed => n = 0,
           Span(s, n) <= Span(pc[r], left[r]),
           s \in Critical => pc[r] \in Critical /\ lock' = lock,
           s \in {"rm", "wipe"} => r \in exposed' \/ ~Up,
           s \in Wiped => r \in exposed' \/ pc[r] \in Wiped \/ (files'.id = 0 /\ mem'.id = 0)
    PROVE  ResetInv'
<1>1. /\ pc' \in [Resets -> Steps] /\ left' \in [Resets -> Nat]
      /\ pc'[r] = s /\ left'[r] = n
      /\ \A x \in Resets \ {r} : pc'[x] = pc[x] /\ left'[x] = left[x]
  BY GoToFacts DEF ResetInv
<1>2. TypeOK'
  BY <1>1 DEF ResetInv, TypeOK, Shared, serviceVars
<1>3. TimeInv'
  <2> SUFFICES ASSUME NEW x \in Resets
               PROVE  (/\ pc[x] \notin Timed => left[x] = 0
                       /\ Span(pc[x], left[x]) <= Total
                       /\ old[x] <= logins)'
    BY DEF TimeInv
  <2>1. /\ pc[x] \notin Timed => left[x] = 0
        /\ Span(pc[x], left[x]) <= Total /\ old[x] <= logins
        /\ Span(pc[r], left[r]) <= Total
    BY DEF ResetInv, TimeInv
  <2>2. CASE x = r
    <3>1. Span(s, n) \in Nat /\ Span(pc[r], left[r]) \in Nat /\ Total \in Nat
      BY SpanIsNat, Limits DEF ResetInv, TypeOK
    <3>2. Span(pc'[x], left'[x]) = Span(s, n)
      BY <1>1, <2>2
    <3>3. Span(pc'[x], left'[x]) <= Total
      BY <2>1, <3>1, <3>2
    <3> QED
      BY <1>1, <2>1, <2>2, <3>3 DEF Span
  <2>3. CASE x # r
    BY <1>1, <2>1, <2>3 DEF Span
  <2> QED
    BY <2>2, <2>3
<1>4. LockInv'
  <2> SUFFICES ASSUME NEW x \in Resets, pc'[x] \in Critical, x \notin exposed'
               PROVE  (/\ lock
                       /\ service # "options"
                       /\ service = "wait" => waited + Span(pc[x], left[x]) <= Total
                       /\ pc[x] \in {"rm", "wipe"} => ~Up)'
    BY DEF LockInv
  <2>1. pc[x] \in Critical /\ x \notin exposed
    BY <1>1 DEF Shared
  <2>2. /\ lock /\ service # "options"
        /\ service = "wait" => waited + Span(pc[x], left[x]) <= Total
        /\ pc[x] \in {"rm", "wipe"} => ~Up
    BY <2>1 DEF ResetInv, LockInv
  <2>3. lock'
    BY <1>1, <2>1, <2>2 DEF Others
  <2>4. service' = service /\ waited' = waited /\ Up' = Up
    BY DEF serviceVars, Up
  <2>5. CASE x = r
    <3>1. /\ Span(s, n) \in Nat /\ Span(pc[x], left[x]) \in Nat /\ Total \in Nat
          /\ waited \in Nat
      BY SpanIsNat, Limits DEF ResetInv, TypeOK
    <3>2. Span(pc'[x], left'[x]) = Span(s, n) /\ Span(s, n) <= Span(pc[x], left[x])
      BY <1>1, <2>5
    <3>3. service = "wait" => waited + Span(pc'[x], left'[x]) <= Total
      BY <2>2, <3>1, <3>2
    <3> QED
      BY <1>1, <2>2, <2>3, <2>4, <2>5, <3>3 DEF Span
  <2>6. CASE x # r
    BY <1>1, <2>2, <2>3, <2>4, <2>6 DEF Span
  <2> QED
    BY <2>5, <2>6
<1>5. ForgetInv'
  <2>1. (~Up => mem = Nobody)'
    BY DEF Shared, serviceVars, Up
  <2> SUFFICES ASSUME NEW x \in Resets, pc'[x] \in Wiped, x \notin exposed'
               PROVE  (Forgotten(x, files) /\ Forgotten(x, mem))'
    BY <2>1 DEF ForgetInv
  <2>2. x \notin exposed /\ old'[x] = old[x] /\ old[x] \in Nat
    BY Limits DEF Shared, ResetInv, TypeOK
  <2>3. CASE pc[x] \in Wiped
    <3>1. files.id \notin 1 .. old[x] /\ mem.id \notin 1 .. old[x]
      BY <2>2, <2>3 DEF ResetInv, ForgetInv, Forgotten
    <3> QED
      BY <2>2, <3>1 DEF Shared, Forgotten
  <2>4. CASE pc[x] \notin Wiped
    <3>1. files'.id = 0 /\ mem'.id = 0
      BY <1>1, <2>4
    <3> QED
      BY <2>2, <3>1 DEF Forgotten
  <2> QED
    BY <2>3, <2>4
<1> QED
  BY <1>2, <1>3, <1>4, <1>5 DEF ResetInv

LEMMA Exited ==
    ASSUME TypeOK, NEW r \in Resets, NEW how \in {"ok", "failed"}, Exits(r, how)
    PROVE  /\ GoTo(r, how, 0) /\ lock' = FALSE
           /\ exposed \subseteq exposed' /\ exposed' \subseteq Resets
           /\ Others(r) \subseteq exposed'
           /\ how \in Steps /\ 0 \in Nat /\ how \notin Timed /\ how \notin Critical
           /\ how \notin {"rm", "wipe"} /\ Span(how, 0) = 0
BY DEF Exits, TypeOK, Others, Steps, Timed, Critical, Span

LEMMA StepNames ==
    /\ Timed \subseteq Steps /\ Critical \subseteq Steps /\ Wiped \subseteq Steps
    /\ Timed \subseteq Critical /\ Wiped \cap Critical = {}
    /\ {"intRm", "killRm", "look", "abort", "rm", "wipe"} \subseteq Critical \ Timed
BY DEF Steps, Timed, Critical, Wiped

\* What an ASSUME of a step of reset r gives.
LEMMA Before ==
    ASSUME ResetInv, NEW r \in Resets
    PROVE  /\ TypeOK /\ pc[r] \in Steps /\ left[r] \in Nat
           /\ Span(pc[r], left[r]) \in Nat
           /\ 0 \in Nat /\ CmdTime \in Nat /\ IntTime \in Nat /\ KillTime \in Nat
           /\ ~Up => mem = Nobody
           /\ lock \in BOOLEAN /\ sock \in BOOLEAN /\ faults \in 0 .. MaxFaults
           /\ files \in Identities /\ mem \in Identities /\ exposed \subseteq Resets
BY SpanIsNat, Limits DEF ResetInv, ForgetInv, TypeOK

\* A reset that exits has nothing more to hold a lock for.
LEMMA ExitKeeps ==
    ASSUME ResetInv, NEW r \in Resets, NEW how \in {"ok", "failed"}, Exits(r, how),
           Shared, UNCHANGED <<serviceVars, old, logins>>,
           how = "ok" => pc[r] \in Wiped
    PROVE  ResetInv'
<1>1. /\ GoTo(r, how, 0) /\ Others(r) \subseteq exposed'
      /\ how \in Steps /\ 0 \in Nat /\ how \notin Timed /\ how \notin Critical
      /\ how \notin {"rm", "wipe"} /\ Span(how, 0) = 0
  BY Before, Exited
<1>2. Span(how, 0) <= Span(pc[r], left[r])
  BY <1>1, Before
<1>3. how \in Wiped => r \in exposed' \/ pc[r] \in Wiped \/ (files'.id = 0 /\ mem'.id = 0)
  BY DEF Wiped
<1>4. UNCHANGED <<serviceVars, old, logins>>
  OBVIOUS
<1> QED
  BY <1>1, <1>2, <1>3, <1>4, MoveKeeps

\* Bringing the node down or up leaves its identity.
LEMMA SameIdentity ==
    ASSUME NEW m \in Identities, NEW want \in BOOLEAN
    PROVE  [m EXCEPT !.want = want] \in Identities /\ [m EXCEPT !.want = want].id = m.id
BY DEF Identities

LEMMA PreflightKeeps ==
    ASSUME ResetInv, NEW r \in Resets, NEW works \in BOOLEAN, Preflight(r, works)
    PROVE  ResetInv'
<1>1. Shared
  BY Before, NobodyIs, SameIdentity DEF Preflight, Shared
<1>2. CASE pc[r] = "down"
  <2>1. GoTo(r, "logout", CmdTime)
    BY <1>2 DEF Preflight
  <2>2. Span("logout", CmdTime) <= Span(pc[r], left[r])
    BY <1>2, Before, Limits DEF Span
  <2> QED
    BY <1>1, <1>2, <2>1, <2>2, Before, MoveKeeps DEF Preflight, serviceVars, Timed, Critical, Steps, Wiped
<1>3. CASE pc[r] = "logout"
  <2>1. GoTo(r, "int", IntTime)
    BY <1>3 DEF Preflight
  <2>2. Span("int", IntTime) <= Span(pc[r], left[r])
    BY <1>3, Before, Limits DEF Span
  <2> QED
    BY <1>1, <1>3, <2>1, <2>2, Before, MoveKeeps DEF Preflight, serviceVars, Timed, Critical, Steps, Wiped
<1> QED
  BY <1>2, <1>3 DEF Preflight

\* The end of a series of attempts.
LEMMA PastKeeps ==
    ASSUME ResetInv, NEW r \in Resets, NEW step \in {"int", "kill"}, GoPast(r, step),
           \/ pc[r] = step
           \/ pc[r] = "intRm" /\ step = "int"
           \/ pc[r] = "killRm" /\ step = "kill",
           Shared, UNCHANGED <<lock, serviceVars, identityVars, old, exposed, faults>>
    PROVE  ResetInv'
<1>1. CASE step = "int"
  <2>1. GoTo(r, "kill", KillTime)
    BY <1>1 DEF GoPast
  <2>2. Span("kill", KillTime) <= Span(pc[r], left[r])
    BY <1>1, Before, Limits DEF Span
  <2> QED
    BY <1>1, <2>1, <2>2, Before, MoveKeeps DEF identityVars, Timed, Critical, Steps, Wiped
<1>2. CASE step = "kill"
  <2>1. GoTo(r, "look", 0)
    BY <1>2 DEF GoPast
  <2>2. Span("look", 0) <= Span(pc[r], left[r])
    BY Before DEF Span
  <2> QED
    BY <1>2, <2>1, <2>2, Before, MoveKeeps DEF identityVars, Timed, Critical, Steps, Wiped
<1> QED
  BY <1>1, <1>2

LEMMA GivesUpKeeps ==
    ASSUME ResetInv, NEW r \in Resets, GivesUp(r)
    PROVE  ResetInv'
<1>1. Shared
  BY Before DEF GivesUp, Shared, identityVars
<1> QED
  BY <1>1, PastKeeps DEF GivesUp, Stopping

LEMMA FindsNoneKeeps ==
    ASSUME ResetInv, NEW r \in Resets, FindsNone(r)
    PROVE  ResetInv'
<1>1. Shared
  BY Before DEF FindsNone, Shared, identityVars
<1>2. CASE ~sock
  BY <1>1, <1>2, PastKeeps DEF FindsNone, Stopping
<1>3. CASE sock /\ pc[r] = "int"
  <2>1. GoTo(r, "intRm", 0)
    BY <1>3 DEF FindsNone
  <2>2. Span("intRm", 0) <= Span(pc[r], left[r])
    BY <1>3, Before, Limits DEF Span
  <2> QED
    BY <1>1, <1>3, <2>1, <2>2, Before, MoveKeeps
    DEF FindsNone, identityVars, Timed, Critical, Steps, Wiped
<1>4. CASE sock /\ pc[r] = "kill"
  <2>1. GoTo(r, "killRm", 0)
    BY <1>4 DEF FindsNone
  <2>2. Span("killRm", 0) <= Span(pc[r], left[r])
    BY Before DEF Span
  <2> QED
    BY <1>1, <1>4, <2>1, <2>2, Before, MoveKeeps
    DEF FindsNone, identityVars, Timed, Critical, Steps, Wiped
<1> QED
  BY <1>2, <1>3, <1>4 DEF FindsNone, Stopping

LEMMA RemovesSocketKeeps ==
    ASSUME ResetInv, NEW r \in Resets, RemovesSocket(r)
    PROVE  ResetInv'
<1>1. Shared
  BY Before DEF RemovesSocket, Shared, identityVars
<1> QED
  BY <1>1, PastKeeps DEF RemovesSocket

LEMMA LooksKeeps ==
    ASSUME ResetInv, NEW r \in Resets, Looks(r)
    PROVE  ResetInv'
<1>1. Shared
  BY Before DEF Looks, Shared, identityVars
<1>2. PICK s \in {"abort", "rm"} : GoTo(r, s, 0) /\ (s = "rm" => ~Up)
  BY DEF Looks
<1>3. Span(s, 0) <= Span(pc[r], left[r])
  BY Before DEF Span
<1> QED
  BY <1>1, <1>2, <1>3, Before, MoveKeeps DEF Looks, identityVars, Timed, Critical, Steps, Wiped

LEMMA AbortsKeeps ==
    ASSUME ResetInv, NEW r \in Resets, Aborts(r)
    PROVE  ResetInv'
<1>1. Exits(r, "failed")
  BY DEF Aborts
<1>2. Shared
  BY <1>1, Before, Exited DEF Aborts, Shared, identityVars
<1> QED
  BY <1>1, <1>2, ExitKeeps DEF Aborts, identityVars, Wiped

LEMMA ClearsKeeps ==
    ASSUME ResetInv, NEW r \in Resets, Clears(r)
    PROVE  ResetInv'
<1>1. Shared
  BY Before DEF Clears, Shared, identityVars
<1>2. r \in exposed \/ ~Up
  BY DEF Clears, ResetInv, LockInv, Critical
<1>3. Span("wipe", 0) <= Span(pc[r], left[r])
  BY Before DEF Span
<1> QED
  BY <1>1, <1>2, <1>3, Before, MoveKeeps
  DEF Clears, identityVars, Timed, Critical, Steps, Wiped

LEMMA WipesKeeps ==
    ASSUME ResetInv, NEW r \in Resets, Wipes(r)
    PROVE  ResetInv'
<1>1. CASE GoTo(r, "release", 0) /\ files' = Nobody /\ UNCHANGED <<lock, exposed, faults>>
  <2>1. Shared
    BY <1>1, Before, NobodyIs DEF Wipes, Shared
  <2>2. r \in exposed \/ mem = Nobody
    BY Before DEF Wipes, ResetInv, LockInv, Critical
  <2>3. Span("release", 0) <= Span(pc[r], left[r])
    BY Before DEF Span
  <2> QED
    BY <1>1, <2>1, <2>2, <2>3, Before, NobodyIs, MoveKeeps
    DEF Wipes, Timed, Critical, Steps
<1>2. CASE Exits(r, "failed") /\ Fault /\ files' \in {files, Nobody}
  <2>1. faults' \in 0 .. MaxFaults
    BY <1>2, Before, Limits DEF Fault
  <2>2. Shared
    BY <1>2, <2>1, Before, Exited, NobodyIs DEF Wipes, Shared
  <2> QED
    BY <1>2, <2>2, ExitKeeps DEF Wipes, Wiped
<1> QED
  BY <1>1, <1>2 DEF Wipes

LEMMA ReleasesKeeps ==
    ASSUME ResetInv, NEW r \in Resets, Releases(r)
    PROVE  ResetInv'
<1>1. Shared
  BY Before DEF Releases, Shared, identityVars, Others
<1>2. Span("late", 0) <= Span(pc[r], left[r])
  BY Before DEF Span
<1> QED
  BY <1>1, <1>2, Before, MoveKeeps
  DEF Releases, identityVars, Timed, Critical, Steps, Wiped

LEMMA ConfiguresKeeps ==
    ASSUME ResetInv, NEW r \in Resets, NEW works \in BOOLEAN, Configures(r, works)
    PROVE  ResetInv'
<1>1. Shared
  BY Before, SameIdentity DEF Configures, Shared
<1>2. Span("judge", 0) <= Span(pc[r], left[r])
  BY Before DEF Span
<1> QED
  BY <1>1, <1>2, Before, MoveKeeps
  DEF Configures, Timed, Critical, Steps, Wiped

LEMMA JudgesKeeps ==
    ASSUME ResetInv, NEW r \in Resets, Judges(r)
    PROVE  ResetInv'
<1>1. CASE GoTo(r, "reauth", 0) /\ UNCHANGED <<lock, exposed>>
  <2>1. Shared
    BY <1>1, Before DEF Judges, Shared, identityVars
  <2>2. Span("reauth", 0) <= Span(pc[r], left[r])
    BY Before DEF Span
  <2> QED
    BY <1>1, <2>1, <2>2, Before, MoveKeeps
    DEF Judges, identityVars, Timed, Critical, Steps, Wiped
<1>2. ASSUME NEW how \in {"ok", "failed"}, Exits(r, how) PROVE ResetInv'
  <2>1. Shared
    BY <1>2, Before, Exited DEF Judges, Shared, identityVars
  <2> QED
    BY <1>2, <2>1, ExitKeeps DEF Judges, identityVars, Wiped
<1> QED
  BY <1>1, <1>2 DEF Judges

LEMMA ReauthenticatesKeeps ==
    ASSUME ResetInv, NEW r \in Resets, NEW works \in BOOLEAN, Reauthenticates(r, works)
    PROVE  ResetInv'
<1>1. PICK how \in {"ok", "failed"} : Exits(r, how)
  BY DEF Reauthenticates
<1>2. Shared
  BY <1>1, Before, Exited, NobodyIs DEF Reauthenticates, Shared
<1> QED
  BY <1>1, <1>2, ExitKeeps DEF Reauthenticates, Wiped

LEMMA TimesOutKeeps ==
    ASSUME ResetInv, NEW r \in Resets, TimesOut(r)
    PROVE  ResetInv'
<1>1. Exits(r, "failed")
  BY DEF TimesOut
<1>2. Shared
  BY <1>1, Before, Exited DEF TimesOut, Shared, identityVars
<1> QED
  BY <1>1, <1>2, ExitKeeps DEF TimesOut, identityVars, Wiped

-----------------------------------------------------------------------------
(***************************************************************************)
(* Steps of the service and of tailscaled, in which no reset moves.        *)
(***************************************************************************)

\* A reset whose lock is in force.
InForce(r) == pc[r] \in Critical /\ r \notin exposed

\* run does not get past a lock in force.
LEMMA Held ==
    ASSUME ResetInv, NEW r \in Resets, InForce(r)
    PROVE  /\ lock /\ service # "options"
           /\ service = "wait" => waited # LockWait
<1>1. /\ lock /\ service # "options"
      /\ service = "wait" => waited + Span(pc[r], left[r]) <= Total
  BY DEF ResetInv, LockInv, InForce
<1>2. Span(pc[r], left[r]) \in Nat /\ waited \in Nat
  BY SpanIsNat, Limits DEF ResetInv, TypeOK
<1> QED
  BY <1>1, <1>2, Limits

\* As long as a lock is in force, a step of the service begins to wait or goes on
\* with it, but starts nothing; its identities are those there were, or new.
LEMMA ServiceKeeps ==
    ASSUME ResetInv, TypeOK', UNCHANGED <<lock, resetVars, exposed>>,
           logins' >= logins, (~Up => mem = Nobody)',
           \A r \in Resets : InForce(r) =>
             /\ service' # "options"
             /\ service' = "wait" => waited' = 0 \/ (service = "wait" /\ waited' = waited)
             /\ Up' => Up,
           \A i \in {files'.id, mem'.id} : i \in {0, files.id, mem.id} \/ i > logins
    PROVE  ResetInv'
<1>1. TimeInv'
  <2> SUFFICES ASSUME NEW x \in Resets
               PROVE  (/\ pc[x] \notin Timed => left[x] = 0
                       /\ Span(pc[x], left[x]) <= Total
                       /\ old[x] <= logins)'
    BY DEF TimeInv
  <2>1. /\ pc[x] \notin Timed => left[x] = 0
        /\ Span(pc[x], left[x]) <= Total /\ old[x] <= logins
        /\ old[x] \in Nat /\ logins \in Nat /\ logins' \in Nat
    BY Limits DEF ResetInv, TimeInv, TypeOK
  <2>2. pc' = pc /\ left' = left /\ old' = old
    BY DEF resetVars
  <2>3. Span(pc'[x], left'[x]) = Span(pc[x], left[x])
    BY <2>2
  <2> QED
    BY <2>1, <2>2, <2>3
<1>2. LockInv'
  <2> SUFFICES ASSUME NEW x \in Resets, pc'[x] \in Critical, x \notin exposed'
               PROVE  (/\ lock
                       /\ service # "options"
                       /\ service = "wait" => waited + Span(pc[x], left[x]) <= Total
                       /\ pc[x] \in {"rm", "wipe"} => ~Up)'
    BY DEF LockInv
  <2>1. /\ InForce(x) /\ pc'[x] = pc[x]
        /\ Span(pc'[x], left'[x]) = Span(pc[x], left[x])
    BY DEF InForce, resetVars
  <2>2. /\ lock /\ service # "options"
        /\ service = "wait" => waited + Span(pc[x], left[x]) <= Total
        /\ pc[x] \in {"rm", "wipe"} => ~Up
    BY <2>1 DEF ResetInv, LockInv, InForce
  <2>3. /\ Span(pc[x], left[x]) \in Nat /\ Span(pc[x], left[x]) <= Total
        /\ Total \in Nat
    BY SpanIsNat, Limits DEF ResetInv, TypeOK, TimeInv
  <2> QED
    BY <2>1, <2>2, <2>3
<1>3. ForgetInv'
  <2> SUFFICES ASSUME NEW x \in Resets, pc'[x] \in Wiped, x \notin exposed'
               PROVE  (Forgotten(x, files) /\ Forgotten(x, mem))'
    BY DEF ForgetInv
  <2>1. /\ pc[x] \in Wiped /\ x \notin exposed /\ old'[x] = old[x]
    BY DEF resetVars
  <2>2. /\ files.id \notin 1 .. old[x] /\ mem.id \notin 1 .. old[x]
        /\ old[x] \in Nat /\ old[x] <= logins /\ logins \in Nat
    BY <2>1, Limits DEF ResetInv, ForgetInv, TimeInv, Forgotten, TypeOK
  <2>3. \A i \in {files'.id, mem'.id} : i \notin 1 .. old[x]
    BY <2>2
  <2> QED
    BY <2>1, <2>3 DEF Forgotten
<1> QED
  BY <1>1, <1>2, <1>3 DEF ResetInv

LEMMA TestKeeps ==
    ASSUME ResetInv, Test
    PROVE  ResetInv'
<1>1. TypeOK'
  BY Limits DEF Test, ResetInv, TypeOK, resetVars, identityVars
<1>2. \A r \in Resets : InForce(r) => service' = "wait" /\ waited' = 0
  BY Held DEF Test
<1> QED
  BY <1>1, <1>2, Before, Limits, ServiceKeeps
  DEF Test, ResetInv, ForgetInv, TypeOK, resetVars, identityVars, Up

LEMMA WaitedKeeps ==
    ASSUME ResetInv, Waited
    PROVE  ResetInv'
<1>1. TypeOK'
  BY Limits DEF Waited, ResetInv, TypeOK, resetVars, identityVars
<1>2. \A r \in Resets : ~InForce(r)
  BY Held DEF Waited
<1> QED
  BY <1>1, <1>2, Limits, ServiceKeeps
  DEF Waited, ResetInv, ForgetInv, TypeOK, resetVars, identityVars, Up

LEMMA StartsKeeps ==
    ASSUME ResetInv, Starts
    PROVE  ResetInv'
<1>1. TypeOK'
  BY DEF Starts, ResetInv, TypeOK, resetVars
<1>2. \A r \in Resets : ~InForce(r)
  BY Held DEF Starts
<1> QED
  BY <1>1, <1>2, Limits, ServiceKeeps DEF Starts, ResetInv, TypeOK, Up

\* However tailscaled ends, nothing is up after that.
LEMMA EndedKeeps ==
    ASSUME ResetInv, NEW how, Ended(how), sock' \in BOOLEAN, faults' \in 0 .. MaxFaults,
           UNCHANGED <<lock, waited, debug, files, logins, resetVars, exposed>>
    PROVE  ResetInv'
<1>1. service' \in {"test", "halting"} /\ mem' = Nobody
  BY DEF Ended
<1>2. TypeOK'
  BY <1>1, NobodyIs DEF ResetInv, TypeOK, resetVars
<1> QED
  BY <1>1, <1>2, Limits, NobodyIs, ServiceKeeps DEF ResetInv, TypeOK, Up

LEMMA SignalsKeeps ==
    ASSUME ResetInv, NEW r \in Resets, Signals(r)
    PROVE  ResetInv'
<1>1. sock' \in BOOLEAN /\ faults' \in 0 .. MaxFaults
  BY DEF Signals, ResetInv, TypeOK
<1> QED
  BY <1>1, EndedKeeps DEF Signals

LEMMA DaemonFailsKeeps ==
    ASSUME ResetInv, DaemonFails
    PROVE  ResetInv'
<1>1. sock' = sock /\ faults > 0 /\ faults' = faults - 1
  BY DEF DaemonFails, Fault
<1>2. sock' \in BOOLEAN /\ faults' \in 0 .. MaxFaults
  BY <1>1, Limits DEF ResetInv, TypeOK
<1> QED
  BY <1>2, EndedKeeps DEF DaemonFails

\* A login is none a reset has to forget.
LEMMA LogsInKeeps ==
    ASSUME ResetInv, LogsIn
    PROVE  ResetInv'
<1>1. logins \in Nat /\ logins' = logins + 1 /\ logins' \in 0 .. MaxLogins
  BY Limits DEF LogsIn, ResetInv, TypeOK
<1>2. mem' \in Identities /\ files' = mem' /\ mem'.id = logins + 1
  BY <1>1 DEF LogsIn, Identities
<1>3. TypeOK'
  BY <1>1, <1>2 DEF LogsIn, ResetInv, TypeOK, serviceVars, resetVars
<1> QED
  BY <1>1, <1>2, <1>3, Held, ServiceKeeps DEF LogsIn, serviceVars, Up, ResetInv, TypeOK

LEMMA SavesKeeps ==
    ASSUME ResetInv, Saves
    PROVE  ResetInv'
<1>1. TypeOK'
  BY DEF Saves, ResetInv, TypeOK, serviceVars, resetVars
<1> QED
  BY <1>1, Held, Limits, ServiceKeeps DEF Saves, serviceVars, Up, ResetInv, TypeOK

\* The container starts with no reset under way.
LEMMA BootsKeeps ==
    ASSUME ResetInv, Boots
    PROVE  ResetInv'
<1>1. /\ pc' \in [Resets -> Steps] /\ left' = [r \in Resets |-> 0]
      /\ old' = [r \in Resets |-> 0]
      /\ \A r \in Resets : pc'[r] \in {"idle", "ok", "failed"}
  BY DEF Boots, ResetInv, TypeOK, Steps
<1>2. faults' \in 0 .. MaxFaults
  <2>1. faults' = faults \/ (faults > 0 /\ faults' = faults - 1)
    BY DEF Boots, Fault
  <2> QED
    BY <2>1, Limits DEF ResetInv, TypeOK
<1>3. TypeOK'
  <2>1. /\ lock' \in BOOLEAN /\ sock' \in BOOLEAN /\ debug' \in BOOLEAN
        /\ service' = "test" /\ waited' = 0
    BY DEF Boots, ResetInv, TypeOK
  <2>2. mem' \in Identities /\ UNCHANGED <<files, logins, exposed>>
    BY NobodyIs DEF Boots
  <2>3. /\ 0 \in 0 .. LockWait /\ left' \in [Resets -> Nat]
        /\ old' \in [Resets -> 0 .. MaxLogins]
    BY <1>1, Limits
  <2> QED
    BY <1>1, <1>2, <2>1, <2>2, <2>3 DEF ResetInv, TypeOK
<1>4. \A r \in Resets : Span(pc'[r], left'[r]) = 0
  BY <1>1 DEF Span
<1>5. TimeInv'
  BY <1>1, <1>4, Limits DEF Boots, TimeInv, ResetInv, TypeOK
<1>6. LockInv'
  BY <1>1 DEF LockInv, Critical, Timed
<1>7. ForgetInv'
  <2>1. mem' = Nobody
    BY DEF Boots
  <2>2. \A r \in Resets : 1 .. old'[r] = {}
    BY <1>1
  <2> QED
    BY <2>1, <2>2 DEF ForgetInv, Forgotten
<1> QED
  BY <1>3, <1>5, <1>6, <1>7 DEF ResetInv

-----------------------------------------------------------------------------
(***************************************************************************)
(* Beginnings, and the time that goes by.                                  *)
(***************************************************************************)

\* A lock in force is written before run looks for it.
LEMMA BeginKeeps ==
    ASSUME ResetInv, NEW r \in Resets, NEW written \in BOOLEAN, Begin(r, written)
    PROVE  ResetInv'
<1>1. PICK s \in {"down", "int"}, n \in {CmdTime, IntTime} :
        GoTo(r, s, n) /\ (s = "down" => n = CmdTime) /\ (s = "int" => n = IntTime)
  BY DEF Begin
<1>2. n \in Nat /\ s \in Steps /\ s \in Timed /\ s \in Critical /\ s \notin Wiped
  BY Limits DEF Steps, Timed, Critical, Wiped
<1>3. /\ pc' \in [Resets -> Steps] /\ left' \in [Resets -> Nat]
      /\ pc'[r] = s /\ left'[r] = n
      /\ \A x \in Resets \ {r} : pc'[x] = pc[x] /\ left'[x] = left[x]
  BY <1>1, <1>2, GoToFacts DEF ResetInv
<1>4. /\ old' \in [Resets -> 0 .. MaxLogins] /\ old'[r] = logins
      /\ \A x \in Resets \ {r} : old'[x] = old[x]
  BY DEF Begin, ResetInv, TypeOK
<1>5. /\ lock' \in BOOLEAN /\ (lock => lock') /\ faults' \in 0 .. MaxFaults
      /\ exposed \subseteq exposed' /\ exposed' \subseteq Resets
      /\ UNCHANGED <<sock, service, waited, debug, files, mem, logins>>
      /\ r \in exposed' \/ (lock' /\ service \notin {"wait", "options"})
  <2>1. UNCHANGED <<sock, service, waited, debug, files, mem, logins>>
    BY DEF Begin, serviceVars, identityVars
  <2>2. CASE written
    <3>1. lock' = TRUE /\ faults' = faults
      BY <2>2 DEF Begin
    <3>2. exposed' = IF service \notin {"wait", "options"} THEN exposed ELSE exposed \cup {r}
      BY <2>2 DEF Begin
    <3>3. exposed \subseteq exposed' /\ exposed' \subseteq Resets
      BY <3>2 DEF ResetInv, TypeOK
    <3>4. r \in exposed' \/ service \notin {"wait", "options"}
      BY <3>2
    <3> QED
      BY <2>1, <3>1, <3>3, <3>4 DEF ResetInv, TypeOK
  <2>3. CASE ~written
    <3>1. lock' = lock /\ faults > 0 /\ faults' = faults - 1 /\ exposed' = exposed \cup {r}
      BY <2>3 DEF Begin, Fault
    <3>2. faults' \in 0 .. MaxFaults
      BY <3>1, Limits DEF ResetInv, TypeOK
    <3>3. exposed \subseteq exposed' /\ exposed' \subseteq Resets /\ r \in exposed'
      BY <3>1 DEF ResetInv, TypeOK
    <3> QED
      BY <2>1, <3>1, <3>2, <3>3 DEF ResetInv, TypeOK
  <2> QED
    BY <2>2, <2>3
<1>6. TypeOK'
  BY <1>3, <1>4, <1>5 DEF ResetInv, TypeOK
<1>7. TimeInv'
  <2> SUFFICES ASSUME NEW x \in Resets
               PROVE  (/\ pc[x] \notin Timed => left[x] = 0
                       /\ Span(pc[x], left[x]) <= Total
                       /\ old[x] <= logins)'
    BY DEF TimeInv
  <2>1. CASE x = r
    <3>1. Span(s, n) <= Total /\ logins <= logins
      BY <1>1, Limits DEF Span, Total, ResetInv, TypeOK
    <3>2. Span(pc'[x], left'[x]) = Span(s, n)
      BY <1>3, <2>1
    <3> QED
      BY <1>2, <1>3, <1>4, <1>5, <2>1, <3>1, <3>2
  <2>2. CASE x # r
    <3>1. Span(pc'[x], left'[x]) = Span(pc[x], left[x])
      BY <1>3, <2>2
    <3> QED
      BY <1>3, <1>4, <1>5, <2>2, <3>1 DEF ResetInv, TimeInv
  <2> QED
    BY <2>1, <2>2
<1>8. LockInv'
  <2> SUFFICES ASSUME NEW x \in Resets, pc'[x] \in Critical, x \notin exposed'
               PROVE  (/\ lock
                       /\ service # "options"
                       /\ service = "wait" => waited + Span(pc[x], left[x]) <= Total
                       /\ pc[x] \in {"rm", "wipe"} => ~Up)'
    BY DEF LockInv
  <2>1. CASE x = r
    BY <1>1, <1>3, <1>5, <2>1
  <2>2. CASE x # r
    <3>1. /\ pc'[x] = pc[x] /\ Span(pc'[x], left'[x]) = Span(pc[x], left[x])
          /\ x \notin exposed
      BY <1>3, <1>5, <2>2
    <3> QED
      BY <1>5, <3>1 DEF ResetInv, LockInv, Up
  <2> QED
    BY <2>1, <2>2
<1>9. ForgetInv'
  <2>1. (~Up => mem = Nobody)'
    BY <1>5 DEF ResetInv, ForgetInv, Up
  <2> SUFFICES ASSUME NEW x \in Resets, pc'[x] \in Wiped, x \notin exposed'
               PROVE  (Forgotten(x, files) /\ Forgotten(x, mem))'
    BY <2>1 DEF ForgetInv
  <2>2. pc[x] \in Wiped /\ x \notin exposed /\ old'[x] = old[x]
    BY <1>2, <1>3, <1>4, <1>5
  <2> QED
    BY <1>5, <2>2 DEF ResetInv, ForgetInv, Forgotten
<1> QED
  BY <1>6, <1>7, <1>8, <1>9 DEF ResetInv

\* Time goes by for run and for the reset that holds the lock alike.
LEMMA TickKeeps ==
    ASSUME ResetInv, Tick
    PROVE  ResetInv'
<1>1. /\ UNCHANGED <<lock, sock, service, debug, files, mem, logins, pc, old, exposed, faults>>
      /\ service = "wait" => waited < LockWait /\ waited' = waited + 1
      /\ service # "wait" => waited' = waited
  BY DEF Tick, identityVars
<1>2. waited' \in 0 .. LockWait
  BY <1>1, Limits DEF ResetInv, TypeOK
<1>3. \A x \in Resets :
        /\ left[x] \in Nat
        /\ pc[x] \in {"idle", "late", "ok", "failed"} \/ left[x] > 0
        /\ pc[x] \in Timed => left'[x] = left[x] - 1
        /\ pc[x] \notin Timed => left'[x] = left[x] /\ left[x] = 0
  BY DEF Tick, ResetInv, TypeOK, TimeInv
<1>4. \A x \in Resets : left'[x] \in Nat
  BY <1>3 DEF Timed
<1>5. left' \in [Resets -> Nat]
  BY <1>4 DEF Tick
<1>6. TypeOK'
  BY <1>1, <1>2, <1>5 DEF ResetInv, TypeOK
<1>7. \A x \in Resets :
        /\ Span(pc[x], left[x]) \in Nat /\ Span(pc[x], left'[x]) \in Nat
        /\ Span(pc[x], left'[x]) <= Span(pc[x], left[x])
        /\ pc[x] \in Critical => Span(pc[x], left'[x]) = Span(pc[x], left[x]) - 1
  <2> SUFFICES ASSUME NEW x \in Resets
               PROVE  /\ Span(pc[x], left[x]) \in Nat /\ Span(pc[x], left'[x]) \in Nat
                      /\ Span(pc[x], left'[x]) <= Span(pc[x], left[x])
                      /\ pc[x] \in Critical => Span(pc[x], left'[x]) = Span(pc[x], left[x]) - 1
    OBVIOUS
  <2>1. Span(pc[x], left[x]) \in Nat /\ Span(pc[x], left'[x]) \in Nat
    BY <1>3, <1>4, SpanIsNat
  <2>2. CASE pc[x] \in Timed
    BY <1>3, <2>1, <2>2, Limits DEF Timed, Span
  <2>3. CASE pc[x] \notin Timed
    <3>1. left'[x] = left[x] /\ pc[x] \in {"idle", "late", "ok", "failed"}
      BY <1>3, <2>3
    <3> QED
      BY <2>1, <2>3, <3>1 DEF Critical, Timed
  <2> QED
    BY <2>2, <2>3
<1>8. TimeInv'
  BY <1>1, <1>3, <1>7, Limits DEF ResetInv, TimeInv
<1>9. LockInv'
  <2> SUFFICES ASSUME NEW x \in Resets, pc[x] \in Critical, x \notin exposed
               PROVE  /\ lock /\ service # "options"
                      /\ service = "wait" => waited' + Span(pc[x], left'[x]) <= Total
                      /\ pc[x] \in {"rm", "wipe"} => ~Up
    BY <1>1 DEF LockInv, Up
  <2>1. /\ lock /\ service # "options"
        /\ service = "wait" => waited + Span(pc[x], left[x]) <= Total
        /\ pc[x] \in {"rm", "wipe"} => ~Up
    BY DEF ResetInv, LockInv
  <2> QED
    BY <1>1, <1>7, <2>1, Limits DEF ResetInv, TypeOK
<1>10. ForgetInv'
  BY <1>1 DEF ResetInv, ForgetInv, Forgotten, Up
<1> QED
  BY <1>6, <1>8, <1>9, <1>10 DEF ResetInv

-----------------------------------------------------------------------------

LEMMA ResetInit == Init => ResetInv
<1> SUFFICES ASSUME Init PROVE ResetInv
  OBVIOUS
<1>1. files \in Identities /\ files.id \in 0 .. MaxLogins
  <2>1. 0 \in 0 .. MaxLogins /\ 1 \in 0 .. MaxLogins
    BY BoundsAssumption
  <2>2. CASE files = Nobody
    BY <2>1, <2>2, NobodyIs
  <2>3. CASE files = [id |-> 1, want |-> TRUE]
    BY <2>1, <2>3 DEF Identities
  <2> QED
    BY <2>2, <2>3 DEF Init
<1>2. /\ \A r \in Resets : pc[r] = "idle" /\ left[r] = 0 /\ old[r] = 0
      /\ pc \in [Resets -> Steps] /\ left \in [Resets -> Nat]
      /\ old \in [Resets -> 0 .. MaxLogins]
  BY Limits DEF Init, Steps
<1>3. TypeOK
  <2>1. waited \in 0 .. LockWait /\ faults \in 0 .. MaxFaults
    BY Limits DEF Init
  <2>2. logins \in 0 .. MaxLogins /\ mem \in Identities
    BY <1>1, NobodyIs DEF Init
  <2> QED
    BY <1>1, <1>2, <2>1, <2>2 DEF Init, TypeOK
<1>4. \A r \in Resets : Span(pc[r], left[r]) = 0
  BY <1>2 DEF Span
<1>5. TimeInv
  <2>1. 0 <= logins /\ 0 <= Total
    BY <1>3, Limits DEF TypeOK
  <2> QED
    BY <1>2, <1>4, <2>1 DEF TimeInv
<1>6. LockInv
  BY <1>2 DEF LockInv, Critical, Timed
<1>7. ForgetInv
  BY <1>2 DEF Init, ForgetInv, Wiped
<1> QED
  BY <1>3, <1>5, <1>6, <1>7 DEF ResetInv

LEMMA ResetStep == ResetInv /\ [Next]_vars => ResetInv'
<1> SUFFICES ASSUME ResetInv, [Next]_vars PROVE ResetInv'
  OBVIOUS
<1>1. CASE Service
  BY <1>1, TestKeeps, WaitedKeeps, StartsKeeps DEF Service
<1>2. CASE DaemonFails \/ LogsIn \/ Saves \/ Boots \/ Tick
  BY <1>2, DaemonFailsKeeps, LogsInKeeps, SavesKeeps, BootsKeeps, TickKeeps
<1>3. ASSUME NEW r \in Resets, NEW written \in BOOLEAN, Begin(r, written) PROVE ResetInv'
  BY <1>3, BeginKeeps
<1>4. ASSUME NEW r \in Resets, Reset(r) PROVE ResetInv'
  BY <1>4, PreflightKeeps, ConfiguresKeeps, ReauthenticatesKeeps, SignalsKeeps, GivesUpKeeps,
     FindsNoneKeeps, RemovesSocketKeeps, LooksKeeps, AbortsKeeps, ClearsKeeps, WipesKeeps,
     ReleasesKeeps, JudgesKeeps, TimesOutKeeps
  DEF Reset
<1>5. CASE UNCHANGED vars
  BY <1>5 DEF vars, serviceVars, identityVars, resetVars, ResetInv, TypeOK, TimeInv, LockInv,
     ForgetInv, Forgotten, Up
<1> QED
  BY <1>1, <1>2, <1>3, <1>4, <1>5 DEF Next

\* The inductive invariant: how long a lock in force may still be held against how
\* long run has waited for it, and what is left of the old identity.
THEOREM ResetInvariant == Spec => []ResetInv
BY ResetInit, ResetStep, PTL DEF Spec

\* Types, for any number of resets; no wait of run exceeds 60 s.
THEOREM TypesHold == Spec => []TypeOK
<1>1. ResetInv => TypeOK
  BY DEF ResetInv
<1> QED
  BY <1>1, ResetInvariant, PTL

\* A reset that reports success has got rid of the old identity, however slow
\* tailscaled is to stop, whatever fails and however often s6 starts it again, if
\* its lock was in force (tailscale-logauth-reset:61-107, tailscaled/run:17-33).
THEOREM IdentityForgotten == Spec => ResetForgets
<1>1. ResetInv' => [\A r \in Resets : pc[r] # "ok" /\ pc'[r] = "ok" =>
                      r \in exposed' \/ (Forgotten(r, files) /\ Forgotten(r, mem))']_vars
  <2> SUFFICES ASSUME ResetInv', NEW r \in Resets, pc[r] # "ok", pc'[r] = "ok", r \notin exposed'
               PROVE  (Forgotten(r, files) /\ Forgotten(r, mem))'
    OBVIOUS
  <2> QED
    BY DEF ResetInv, ForgetInv, Wiped
<1> QED
  BY <1>1, ResetInvariant, PTL DEF ResetForgets, Spec

\* A lock in force is never outlived by the wait of run: once tailscaled is down it
\* stays down, whichever reset, signal or tick comes, until that lock is gone
\* (tailscaled/run:17-33, tailscale-logauth-reset:46-86).
THEOREM LockKeepsItDown == Spec => [][\A r \in Resets : InForce(r) /\ ~Up => ~Up']_vars
<1>1. ASSUME ResetInv, [Next]_vars, NEW r \in Resets, InForce(r), ~Up
      PROVE  ~Up'
  <2>1. service # "options"
    BY <1>1, Held
  <2>2. service' \in {service, "test", "wait", "options", "halting"}
    <3>1. CASE Service
      BY <2>1, <3>1 DEF Service, Test, Waited, Starts
    <3>2. CASE DaemonFails \/ LogsIn \/ Saves \/ Boots \/ Tick
      BY <3>2 DEF DaemonFails, Ended, LogsIn, Saves, Boots, Tick, serviceVars
    <3>3. ASSUME NEW x \in Resets, (\E written \in BOOLEAN : Begin(x, written)) \/ Reset(x)
          PROVE  service' \in {service, "test", "halting"}
      BY <3>3 DEF Begin, Reset, Preflight, Configures, Reauthenticates, Signals, Ended, GivesUp,
                  FindsNone, RemovesSocket, Looks, Aborts, Clears, Wipes, Releases, Judges,
                  TimesOut, serviceVars
    <3>4. CASE UNCHANGED vars
      BY <3>4 DEF vars, serviceVars
    <3> QED
      BY <1>1, <3>1, <3>2, <3>3, <3>4 DEF Next
  <2> QED
    BY <1>1, <2>2 DEF Up
<1>2. ResetInv /\ [Next]_vars => [\A r \in Resets : InForce(r) /\ ~Up => ~Up']_vars
  BY <1>1
<1> QED
  BY <1>2, ResetInvariant, PTL DEF Spec

\* The state files are not removed under a tailscaled that runs and would write
\* them again, if the lock was in force (tailscale-logauth-reset:86-107).
THEOREM WipedWhileDown == Spec => [](\A r \in Resets : pc[r] = "wipe" /\ r \notin exposed => ~Up)
<1>1. ResetInv => \A r \in Resets : pc[r] = "wipe" /\ r \notin exposed => ~Up
  BY DEF ResetInv, LockInv, Critical
<1> QED
  BY <1>1, ResetInvariant, PTL
==============================================================================
