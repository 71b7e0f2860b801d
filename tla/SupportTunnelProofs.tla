--------------------------- MODULE SupportTunnelProofs ---------------------------
(***************************************************************************)
(* Theorems about the support access, for any number of processes and      *)
(* tokens and any times.  The types hold however the commands overlap; the *)
(* rest is about commands that do not (Serial), where one of them is under *)
(* way at a time.                                                          *)
(***************************************************************************)
EXTENDS SupportTunnel, TLAPS

-----------------------------------------------------------------------------
(* Types *)

\* A window keeps its type while time passes, and an end that has come stays.
LEMMA LaterWindow ==
    ASSUME NEW m \in Window \cup {NoMeta, Torn}
    PROVE  /\ Later(m) \in Window \cup {NoMeta, Torn}
           /\ Later(m) \in Window <=> m \in Window
           /\ m \in Window => /\ Later(m).left = Min0(m.left)
                              /\ m.left \in Nat
           /\ m \notin Window => Later(m) = m
BY TimesAssumption, SentinelAssumption DEF Later, Window, Min0

LEMMA FaultTypes ==
    ASSUME TypeOK, \/ UNCHANGED faultVars
                   \/ \E what \in Failures : Fails(what)
    PROVE  faults' \in 0 .. MaxFaults /\ clean' \in BOOLEAN
<1>1. CASE UNCHANGED faultVars
  BY <1>1 DEF TypeOK, faultVars
<1>2. ASSUME NEW what \in Failures, Fails(what)
      PROVE  faults' \in 0 .. MaxFaults /\ clean' \in BOOLEAN
  <2>1. faults > 0 /\ faults' = faults - 1
    BY <1>2 DEF Fails
  <2>2. faults' \in 0 .. MaxFaults
    BY <2>1, TimesAssumption DEF TypeOK
  <2>3. clean' = (clean /\ what = "abort")
    BY <1>2 DEF Fails
  <2>4. clean' \in BOOLEAN
    BY <2>3, Zenon
  <2> QED
    BY <2>2, <2>4
<1> QED
  BY <1>1, <1>2

LEMMA AfterDeletionTypes ==
    ASSUME TypeOK, NEW p \in Procs, NEW success, AfterDeletion(p, success)
    PROVE  /\ pc' \in [Procs -> Steps] /\ job' \in [Procs -> Jobs]
           /\ todo' \in [Procs -> SUBSET Tokens] /\ effect' \in [Procs -> BOOLEAN]
<1> USE DEF TypeOK, Jobs, Steps, Set
<1>1. pc' \in [Procs -> Steps]
  BY DEF AfterDeletion
<1>2. job' \in [Procs -> Jobs]
  BY DEF AfterDeletion
<1>3. todo' \in [Procs -> SUBSET Tokens] /\ effect' \in [Procs -> BOOLEAN]
  BY DEF AfterDeletion
<1> QED
  BY <1>1, <1>2, <1>3

LEMMA TypeStep ==
    ASSUME TypeOK, [Next]_vars
    PROVE  TypeOK'
<1> USE TimesAssumption DEF TypeOK, Procs, Jobs, Steps, Views, Set, Then
<1>1. ASSUME NEW p \in Procs, NEW j \in {"status", "enable", "disable"}, Begin(p, j)
      PROVE  TypeOK'
  BY <1>1 DEF Begin, fileVars, haVars, faultVars
<1>2. ASSUME NEW p \in Procs, Look(p)
      PROVE  TypeOK'
  <2>1. AfterLook[job[p]] \in Steps
    BY DEF AfterLook
  <2>2. Answer \in Views
    BY DEF Answer
  <2>3. faults' \in 0 .. MaxFaults /\ clean' \in BOOLEAN
    <3>1. UNCHANGED faultVars \/ \E what \in Failures : Fails(what)
      BY <1>2 DEF Look, Fails
    <3> QED
      BY <3>1, FaultTypes
  <2>4. view' \in [Procs -> Views]
    BY <1>2, <2>2 DEF Look
  <2> QED
    BY <1>2, <2>1, <2>3, <2>4 DEF Look, fileVars, haVars
<1>3. ASSUME NEW p \in Procs, Clear(p) \/ Write(p)
      PROVE  TypeOK'
  <2>1. CASE Clear(p)
    BY <2>1 DEF Clear, haVars, faultVars
  <2>2. CASE Write(p)
    <3>1. shown' \in BOOLEAN
      BY <2>2 DEF Write
    <3> QED
      BY <2>2, <3>1 DEF Write, haVars, faultVars
  <2> QED
    BY <1>3, <2>1, <2>2
<1>4. ASSUME NEW p \in Procs, List(p) \/ DeleteAborts(p) \/ DeleteDone(p)
      PROVE  TypeOK'
  <2>1. faults' \in 0 .. MaxFaults /\ clean' \in BOOLEAN
    <3>1. UNCHANGED faultVars \/ \E what \in Failures : Fails(what)
      BY <1>4 DEF List, DeleteAborts, DeleteDone, Fails
    <3> QED
      BY <3>1, FaultTypes
  <2>2. /\ pc' \in [Procs -> Steps] /\ job' \in [Procs -> Jobs]
        /\ todo' \in [Procs -> SUBSET Tokens] /\ effect' \in [Procs -> BOOLEAN]
    <3>1. CASE \E success \in BOOLEAN : AfterDeletion(p, success)
      BY <3>1, AfterDeletionTypes
    <3>2. CASE List(p) /\ ~AfterDeletion(p, TRUE) /\ ~AfterDeletion(p, FALSE)
      <4>1. /\ pc' = [pc EXCEPT ![p] = "delete"] /\ todo' = [todo EXCEPT ![p] = tokens]
            /\ UNCHANGED <<job, effect>>
        BY <3>2 DEF List
      <4> QED
        BY <4>1
    <3>3. CASE DeleteDone(p)
      <4>1. effect[p] \in BOOLEAN /\ AfterDeletion(p, effect[p])
        BY <3>3 DEF DeleteDone
      <4> QED
        BY <4>1, AfterDeletionTypes
    <3>4. CASE DeleteAborts(p)
      BY <3>4, AfterDeletionTypes DEF DeleteAborts
    <3>5. CASE List(p)
      BY <3>1, <3>2, <3>5
    <3> QED
      BY <1>4, <3>3, <3>4, <3>5
  <2>3. UNCHANGED <<fileVars, haVars, open, view, copy, out>>
    BY <1>4 DEF List, DeleteAborts, DeleteDone
  <2> QED
    BY <2>1, <2>2, <2>3 DEF fileVars, haVars
<1>5. ASSUME NEW p \in Procs, NEW k \in Tokens, DeleteOne(p, k)
      PROVE  TypeOK'
  <2>1. faults' \in 0 .. MaxFaults /\ clean' \in BOOLEAN
    <3>1. UNCHANGED faultVars \/ \E what \in Failures : Fails(what)
      BY <1>5 DEF DeleteOne, Fails
    <3> QED
      BY <3>1, FaultTypes
  <2>2. /\ todo' \in [Procs -> SUBSET Tokens] /\ effect' \in [Procs -> BOOLEAN]
        /\ tokens' \subseteq Tokens
    BY <1>5 DEF DeleteOne
  <2> QED
    BY <1>5, <2>1, <2>2 DEF DeleteOne, fileVars
<1>6. ASSUME NEW p \in Procs, BackoffRead(p)
      PROVE  TypeOK'
  <2>1. copy' \in [Procs -> Window \cup {NoMeta, Torn}]
    BY <1>6 DEF BackoffRead, Window
  <2> QED
    BY <1>6, <2>1 DEF BackoffRead, fileVars, haVars, faultVars
<1>7. ASSUME NEW p \in Procs, BackoffMove(p) \/ Decide(p) \/ Admit(p)
      PROVE  TypeOK'
  <2>1. pc' \in [Procs -> Steps] /\ out' \in [Procs -> BOOLEAN]
    <3>1. \E s \in Steps, active \in BOOLEAN : Then(p, s, active)
      BY <1>7 DEF BackoffMove, Decide, Admit
    <3> QED
      BY <3>1
  <2>2. CASE BackoffMove(p)
    BY <2>1, <2>2 DEF BackoffMove, haVars, faultVars
  <2>3. CASE Decide(p)
    BY <2>1, <2>3 DEF Decide, fileVars, haVars, faultVars
  <2>4. CASE Admit(p)
    BY <2>1, <2>4 DEF Admit, fileVars, haVars, faultVars
  <2> QED
    BY <1>7, <2>2, <2>3, <2>4
<1>8. ASSUME NEW p \in Procs, Create(p) \/ CreateFails(p)
      PROVE  TypeOK'
  <2>1. faults' \in 0 .. MaxFaults /\ clean' \in BOOLEAN
    <3>1. UNCHANGED faultVars \/ \E what \in Failures : Fails(what)
      BY <1>8 DEF Create, CreateFails, Fails
    <3> QED
      BY <3>1, FaultTypes
  <2>2. tokens' \subseteq Tokens /\ ttl' \in [Tokens -> 0 .. TTL]
    BY <1>8 DEF Create, CreateFails, NewToken
  <2> QED
    BY <1>8, <2>1, <2>2 DEF Create, CreateFails, fileVars
<1>9. ASSUME NEW p \in Procs, Truncate(p) \/ Fill(p)
      PROVE  TypeOK'
  <2>1. meta' \in Window \cup {NoMeta, Torn}
    BY <1>9 DEF Truncate, Fill, Window
  <2>2. CASE Truncate(p)
    BY <2>1, <2>2 DEF Truncate, haVars, faultVars
  <2>3. CASE Fill(p)
    BY <2>1, <2>3 DEF Fill, haVars, faultVars
  <2> QED
    BY <1>9, <2>2, <2>3
<1>10. CASE Crash
  BY <1>10 DEF Crash, Fails, haVars
<1>11. CASE GateMoves
  BY <1>11 DEF GateMoves, Fails, fileVars, haVars, procVars
<1>12. CASE Tick
  <2>1. ttl' \in [Tokens -> 0 .. TTL]
    BY <1>12 DEF Tick, Min0
  <2>2. meta' \in Window \cup {NoMeta, Torn}
    BY <1>12, LaterWindow DEF Tick
  <2>3. copy' \in [Procs -> Window \cup {NoMeta, Torn}]
    BY <1>12, LaterWindow DEF Tick
  <2> QED
    BY <1>12, <2>1, <2>2, <2>3 DEF Tick, faultVars
<1>13. CASE UNCHANGED vars
  BY <1>13 DEF vars, fileVars, haVars, procVars, faultVars
<1> QED
  BY <1>1, <1>2, <1>3, <1>4, <1>5, <1>6, <1>7, <1>8, <1>9, <1>10, <1>11, <1>12, <1>13
  DEF Next, Request, Run

LEMMA StartsTyped == Init => TypeOK
<1> SUFFICES ASSUME Init
             PROVE  TypeOK
  OBVIOUS
<1>1. open \in BOOLEAN /\ clean \in BOOLEAN /\ shown \in BOOLEAN
  BY DEF Init
<1>2. faults \in 0 .. MaxFaults /\ ttl \in [Tokens -> 0 .. TTL]
  BY TimesAssumption DEF Init
<1> QED
  BY <1>1, <1>2 DEF Init, TypeOK, Jobs, Steps, Views

\* However the commands overlap, whatever fails and whenever the container crashes,
\* the files, the tokens and the commands keep their types.
THEOREM TypesHold == Spec => []TypeOK
BY StartsTyped, TypeStep, PTL DEF Spec

-----------------------------------------------------------------------------
(* Commands one after another *)

\* One command is under way at a time.
Alone == \A p, q \in Procs : pc[p] # "idle" /\ pc[q] # "idle" => p = q

\* What a status knows of the window at each of its steps, whatever has failed.
Knows(p) ==
    /\ pc[p] # "idle" => job[p] # "none"
    /\ pc[p] \in {"decide", "list", "delete"} => job[p] # "enable"
    /\ pc[p] \in {"admit", "create", "truncate", "fill"} => job[p] = "enable"
    /\ pc[p] \in {"backoff", "move"} => job[p] \in {"status", "nested"}
    /\ pc[p] \in {"list", "delete", "backoff"} /\ job[p] # "disable" => HasWindow
    /\ pc[p] = "move" => copy[p] \in Window
    /\ pc[p] = "write" /\ job[p] \in {"status", "nested"} => (out[p] <=> HasWindow)

\* What every command knows of the tokens while no more than deletions have failed.
Sees(p) ==
    /\ pc[p] \in {"decide", "admit"} =>
         /\ view[p] # "token" => tokens = {}
         /\ view[p] # "blind" => open /\ user # "absent"
    /\ pc[p] = "create" => open /\ user = "regular"
    /\ pc[p] = "clear" => tokens = {}
    /\ pc[p] = "delete" => tokens \subseteq todo[p]
    /\ pc[p] = "fill" => p \in writers
    /\ pc[p] \in {"list", "delete", "backoff", "move"} /\ job[p] # "disable" => ~Unexpired
    /\ pc[p] = "move" => copy[p].left = 0
    /\ pc[p] = "write" => out[p] \/ Usable = {}

Granted == tokens # {} => open /\ user = "regular"

Tracked ==
    \A k \in Usable :
      \/ Unexpired /\ ttl[k] <= meta.left
      \/ \E p \in Procs : pc[p] \in {"truncate", "fill"}

Shown == Idle /\ Usable # {} => shown

SerialInv ==
    /\ TypeOK
    /\ Alone
    /\ \A p \in Procs : Knows(p)
    /\ clean => Granted /\ Tracked /\ Shown /\ \A p \in Procs : Sees(p)

LEMMA StartsSerial == Init => SerialInv
<1> SUFFICES ASSUME Init
             PROVE  SerialInv
  OBVIOUS
<1>1. TypeOK
  BY StartsTyped
<1>2. Usable = {} /\ \A p \in Procs : pc[p] = "idle"
  BY DEF Init, Usable
<1> QED
  BY <1>1, <1>2 DEF Init, SerialInv, Alone, Knows, Sees, Granted, Tracked, Shown

\* A command changes its own steps only.
LEMMA OwnSteps ==
    ASSUME TypeOK, NEW p \in Procs, Run(p)
    PROVE  pc[p] # "idle" /\ \A q \in Procs \ {p} : pc'[q] = pc[q]
<1> USE DEF TypeOK, Set, Then, Procs
<1>1. CASE Look(p) \/ Clear(p) \/ Write(p)
  BY <1>1 DEF Look, Clear, Write
<1>2. CASE List(p) \/ DeleteAborts(p) \/ DeleteDone(p)
  <2>1. ASSUME NEW success, AfterDeletion(p, success)
        PROVE  \A q \in Procs \ {p} : pc'[q] = pc[q]
    BY <2>1 DEF AfterDeletion
  <2>2. CASE List(p)
    BY <2>1, <2>2 DEF List
  <2>3. CASE DeleteAborts(p) \/ DeleteDone(p)
    BY <2>1, <2>3 DEF DeleteAborts, DeleteDone
  <2> QED
    BY <1>2, <2>2, <2>3
<1>3. CASE \E k \in Tokens : DeleteOne(p, k)
  BY <1>3 DEF DeleteOne
<1>4. CASE BackoffRead(p) \/ BackoffMove(p)
  BY <1>4 DEF BackoffRead, BackoffMove
<1>5. CASE Decide(p) \/ Admit(p)
  BY <1>5 DEF Decide, Admit
<1>6. CASE Create(p) \/ CreateFails(p) \/ Truncate(p) \/ Fill(p)
  BY <1>6 DEF Create, CreateFails, Truncate, Fill
<1> QED
  BY <1>1, <1>2, <1>3, <1>4, <1>5, <1>6 DEF Run

\* So it is enough to look at the command that is under way.
LEMMA OneCommand ==
    ASSUME SerialInv, NEW p \in Procs, Run(p), TypeOK', Knows(p)',
           clean' => Granted' /\ Tracked' /\ Shown' /\ Sees(p)'
    PROVE  SerialInv'
<1>1. \A q \in Procs \ {p} : pc'[q] = "idle"
  BY OwnSteps DEF SerialInv, Alone
<1>2. \A q \in Procs \ {p} : Knows(q)' /\ Sees(q)'
  BY <1>1 DEF Knows, Sees
<1> QED
  BY <1>1, <1>2 DEF SerialInv, Alone

\* Unless a command is about to write a window, there is one that covers every
\* token.
LEMMA Covers ==
    ASSUME SerialInv, clean, NEW p \in Procs, pc[p] \notin {"idle", "truncate", "fill"}
    PROVE  \A k \in Usable : Unexpired /\ ttl[k] <= meta.left
<1>1. \A q \in Procs : pc[q] \notin {"truncate", "fill"}
  BY DEF SerialInv, Alone
<1> QED
  BY <1>1 DEF SerialInv, Tracked

LEMMA LookSerial ==
    ASSUME SerialInv, NEW p \in Procs, Look(p)
    PROVE  Knows(p)' /\ (clean' => Granted' /\ Tracked' /\ Shown' /\ Sees(p)')
<1> USE DEF SerialInv, TypeOK, Set
<1>1. /\ pc[p] = "look" /\ job'[p] = job[p] /\ job[p] # "none"
      /\ pc'[p] = AfterLook[job[p]]
      /\ UNCHANGED <<fileVars, haVars, open>>
  BY DEF Look, Knows
<1>2. /\ pc'[p] \in {"decide", "admit", "list"}
      /\ pc'[p] = "list" => job[p] = "disable"
      /\ pc'[p] = "admit" <=> job[p] = "enable"
  BY <1>1 DEF AfterLook, Jobs
<1>3. Knows(p)'
  BY <1>1, <1>2 DEF Knows
<1>4. ASSUME clean'
      PROVE  Granted' /\ Tracked' /\ Shown' /\ Sees(p)'
  <2>1. clean /\ \/ ~open /\ view'[p] = "blind"
                 \/ open /\ view'[p] = Answer
    BY <1>4 DEF Look, Fails, faultVars
  <2>2. Granted' /\ ~Idle'
    BY <1>1, <1>2, <2>1 DEF Granted, haVars, Idle
  <2>3. Tracked'
    BY <1>1, <2>1, Covers DEF Tracked, Usable, Unexpired, HasWindow, haVars, fileVars
  <2>4. /\ view'[p] # "token" => tokens = {}
        /\ view'[p] # "blind" => open /\ user # "absent"
    BY <2>1 DEF Answer, Granted
  <2>5. Sees(p)'
    BY <1>1, <1>2, <2>4 DEF Sees, haVars
  <2> QED
    BY <2>2, <2>3, <2>5 DEF Shown
<1> QED
  BY <1>3, <1>4

\* What is left as it is by a step that changes neither window nor tokens.
LEMMA SameWindow ==
    ASSUME SerialInv, clean, NEW p \in Procs, pc[p] \notin {"idle", "truncate", "fill"},
           UNCHANGED <<meta, tokens, ttl, open, user>>
    PROVE  Granted' /\ Tracked'
<1>1. Granted'
  BY DEF SerialInv, Granted
<1>2. Tracked'
  BY Covers DEF Tracked, Usable, Unexpired, HasWindow
<1> QED
  BY <1>1, <1>2

LEMMA ClearWriteSerial ==
    ASSUME SerialInv, NEW p \in Procs, Clear(p) \/ Write(p)
    PROVE  Knows(p)' /\ (clean' => Granted' /\ Tracked' /\ Shown' /\ Sees(p)')
<1> USE DEF SerialInv, TypeOK, Set, Then
<1>1. CASE Clear(p)
  <2>1. /\ pc[p] = "clear" /\ pc'[p] = "write" /\ ~out'[p] /\ job'[p] = job[p]
        /\ ~HasWindow' /\ clean' = clean
        /\ UNCHANGED <<tokens, ttl, open, user>>
    BY <1>1, SentinelAssumption DEF Clear, HasWindow, haVars, faultVars
  <2>2. Knows(p)'
    BY <2>1 DEF Knows
  <2>3. ASSUME clean'
        PROVE  Granted' /\ Tracked' /\ Shown' /\ Sees(p)'
    <3>1. tokens' = {} /\ Usable' = {}
      BY <2>1, <2>3 DEF Sees, Usable
    <3> QED
      BY <2>1, <3>1 DEF Granted, Tracked, Shown, Sees
  <2> QED
    BY <2>2, <2>3
<1>2. CASE Write(p)
  <2>1. /\ pc[p] = "write" /\ pc'[p] = "idle" /\ shown' = out[p] /\ clean' = clean
        /\ UNCHANGED <<meta, tokens, ttl, open, user>>
    BY <1>2 DEF Write, haVars, faultVars
  <2>2. Knows(p)' /\ Sees(p)'
    BY <2>1 DEF Knows, Sees
  <2>3. ASSUME clean'
        PROVE  Shown'
    BY <2>1, <2>3 DEF Shown, Sees, Usable
  <2> QED
    BY <2>1, <2>2, <2>3, SameWindow
<1> QED
  BY <1>1, <1>2

LEMMA AfterDeletionSerial ==
    ASSUME SerialInv, NEW p \in Procs, pc[p] \in {"list", "delete"},
           NEW success \in BOOLEAN, AfterDeletion(p, success),
           UNCHANGED <<meta, tokens, ttl, open, user>>,
           clean' => clean /\ (success => tokens = {})
    PROVE  Knows(p)' /\ (clean' => Granted' /\ Tracked' /\ Shown' /\ Sees(p)')
<1> USE DEF SerialInv, TypeOK, Set
<1>1. /\ success => pc'[p] = "clear" /\ job'[p] = job[p]
      /\ ~success /\ job[p] = "disable" => pc'[p] = "look" /\ job'[p] = "nested"
      /\ ~success /\ job[p] # "disable" => pc'[p] = "backoff" /\ job'[p] = job[p]
      /\ pc'[p] \in {"clear", "look", "backoff"}
  BY DEF AfterDeletion
<1>2. Knows(p)'
  <2>1. job[p] \in {"status", "nested", "disable"}
    BY DEF Knows, Jobs
  <2> QED
    BY <1>1, <2>1 DEF Knows, HasWindow
<1>3. clean' => Sees(p)'
  BY <1>1 DEF Sees, Unexpired, HasWindow
<1>4. clean' => Shown'
  BY <1>1 DEF Shown, Idle
<1> QED
  BY <1>2, <1>3, <1>4, SameWindow

LEMMA ListSerial ==
    ASSUME SerialInv, NEW p \in Procs, List(p) \/ DeleteAborts(p) \/ DeleteDone(p)
    PROVE  Knows(p)' /\ (clean' => Granted' /\ Tracked' /\ Shown' /\ Sees(p)')
<1> USE DEF SerialInv, TypeOK, Set
<1>1. UNCHANGED <<meta, tokens, ttl, open, user>> /\ pc[p] \in {"list", "delete"}
  BY DEF List, DeleteAborts, DeleteDone, fileVars, haVars
<1>2. clean' => clean
  BY DEF List, DeleteAborts, DeleteDone, Fails, faultVars
<1>3. CASE \E success \in BOOLEAN : AfterDeletion(p, success) /\ (success => tokens = {})
  BY <1>1, <1>2, <1>3, AfterDeletionSerial
<1>4. CASE DeleteDone(p)
  <2>1. /\ effect[p] \in BOOLEAN /\ AfterDeletion(p, effect[p])
        /\ pc[p] = "delete" /\ todo[p] = {} /\ clean' = clean
    BY <1>4 DEF DeleteDone, faultVars
  <2>2. clean' => tokens = {}
    BY <2>1 DEF Sees
  <2> QED
    BY <1>1, <2>1, <2>2, AfterDeletionSerial
<1>5. CASE List(p) /\ tokens # {} /\ pc' = [pc EXCEPT ![p] = "delete"]
           /\ todo' = [todo EXCEPT ![p] = tokens] /\ UNCHANGED job
  <2>1. pc[p] = "list" /\ pc'[p] = "delete" /\ todo'[p] = tokens /\ job'[p] = job[p]
    BY <1>5 DEF List
  <2>2. Knows(p)'
    BY <1>1, <2>1 DEF Knows, HasWindow
  <2>3. clean' => Sees(p)'
    BY <1>1, <1>2, <2>1 DEF Sees, Unexpired, HasWindow
  <2>4. clean' => Shown'
    BY <2>1 DEF Shown, Idle
  <2> QED
    BY <1>1, <1>2, <2>2, <2>3, <2>4, SameWindow
<1>6. CASE List(p) /\ ~(\E success \in BOOLEAN : AfterDeletion(p, success)
                                                 /\ (success => tokens = {}))
  <2>1. /\ tokens # {} /\ pc' = [pc EXCEPT ![p] = "delete"]
        /\ todo' = [todo EXCEPT ![p] = tokens] /\ UNCHANGED job
    BY <1>6 DEF List
  <2> QED
    BY <1>5, <1>6, <2>1
<1>7. CASE DeleteAborts(p)
  BY <1>3, <1>7 DEF DeleteAborts
<1> QED
  BY <1>3, <1>4, <1>6, <1>7

LEMMA DeleteOneSerial ==
    ASSUME SerialInv, NEW p \in Procs, NEW k \in Tokens, DeleteOne(p, k)
    PROVE  Knows(p)' /\ (clean' => Granted' /\ Tracked' /\ Shown' /\ Sees(p)')
<1> USE DEF SerialInv, TypeOK, Set
<1>1. /\ pc[p] = "delete" /\ UNCHANGED <<meta, ttl, open, user, pc, job>>
      /\ tokens' \subseteq tokens
  BY DEF DeleteOne, fileVars
<1>2. Knows(p)'
  BY <1>1 DEF Knows, HasWindow
<1>3. ASSUME clean'
      PROVE  Granted' /\ Tracked' /\ Shown' /\ Sees(p)'
  <2>1. clean /\ todo'[p] = todo[p] \ {k} /\ (tokens' = tokens \ {k} \/ k \notin tokens)
              /\ (k \notin tokens => tokens' = tokens)
    BY <1>3 DEF DeleteOne, Fails, faultVars
  <2>2. Sees(p)'
    BY <1>1, <2>1 DEF Sees, Unexpired, HasWindow
  <2>3. Granted' /\ Shown'
    BY <1>1, <2>1 DEF Granted, Shown, Idle
  <2>4. Usable' \subseteq Usable
    BY <1>1 DEF Usable
  <2>5. Tracked'
    BY <1>1, <2>1, <2>4, Covers DEF Tracked, Unexpired, HasWindow
  <2> QED
    BY <2>2, <2>3, <2>5
<1> QED
  BY <1>2, <1>3

LEMMA BackoffSerial ==
    ASSUME SerialInv, NEW p \in Procs, BackoffRead(p) \/ BackoffMove(p)
    PROVE  Knows(p)' /\ (clean' => Granted' /\ Tracked' /\ Shown' /\ Sees(p)')
<1> USE DEF SerialInv, TypeOK, Set, Then
<1>1. CASE BackoffRead(p)
  <2>1. /\ pc[p] = "backoff" /\ job[p] \in {"status", "nested"} /\ meta \in Window
        /\ UNCHANGED <<meta, tokens, ttl, open, user, job>> /\ clean' = clean
    BY <1>1 DEF BackoffRead, Knows, HasWindow, fileVars, haVars, faultVars
  <2>2. pc'[p] = "move" /\ copy'[p] = [meta EXCEPT !.wait = Backoff]
    BY <1>1, <2>1, SentinelAssumption DEF BackoffRead
  <2>3. copy'[p] \in Window /\ copy'[p].left = meta.left /\ meta.left \in Nat
    BY <2>1, <2>2, TimesAssumption DEF Window
  <2>4. Knows(p)'
    BY <2>1, <2>2, <2>3 DEF Knows
  <2>5. clean' => Sees(p)' /\ Shown'
    BY <2>1, <2>2, <2>3 DEF Sees, Shown, Idle, Unexpired, HasWindow
  <2> QED
    BY <2>1, <2>4, <2>5, SameWindow
<1>2. CASE BackoffMove(p)
  <2>1. /\ pc[p] = "move" /\ pc'[p] = "write" /\ out'[p] = TRUE /\ HasWindow'
        /\ UNCHANGED <<tokens, ttl, open, user, job>> /\ clean' = clean
    BY <1>2 DEF BackoffMove, Knows, HasWindow, haVars, faultVars
  <2>2. Knows(p)'
    BY <2>1 DEF Knows
  <2>3. ASSUME clean'
        PROVE  Granted' /\ Tracked' /\ Shown' /\ Sees(p)'
    <3>1. Usable = {}
      BY <2>1, <2>3, Covers DEF Sees, Knows
    <3>2. Usable' = {}
      BY <2>1, <3>1 DEF Usable
    <3> QED
      BY <2>1, <2>3, <3>2 DEF Granted, Tracked, Shown, Sees
  <2> QED
    BY <2>2, <2>3
<1> QED
  BY <1>1, <1>2

\* The window ends for want of a token, or is about to be taken back, only when no
\* token opens sessions.
LEMMA DecideSerial ==
    ASSUME SerialInv, NEW p \in Procs, Decide(p)
    PROVE  Knows(p)' /\ (clean' => Granted' /\ Tracked' /\ Shown' /\ Sees(p)')
<1> USE DEF SerialInv, TypeOK, Set, Then
<1>1. /\ pc[p] = "decide" /\ UNCHANGED <<meta, tokens, ttl, open, user, job>>
      /\ clean' = clean /\ job[p] # "none" /\ pc'[p] # "idle"
  BY DEF Decide, Knows, fileVars, haVars, faultVars
<1>2. clean => \A k \in Usable : Unexpired
  BY <1>1, Covers
<1>3. clean => Granted' /\ Tracked' /\ Shown'
  BY <1>1, SameWindow DEF Shown, Idle
<1>4. CASE ~HasWindow /\ pc'[p] = "write" /\ out'[p] = FALSE
  <2>1. clean => Usable' = {}
    BY <1>1, <1>2, <1>4 DEF Usable, Unexpired
  <2> QED
    BY <1>1, <1>3, <1>4, <2>1 DEF Knows, Sees, HasWindow
<1>5. CASE HasWindow /\ pc'[p] = "write" /\ out'[p] = TRUE
  BY <1>1, <1>3, <1>5 DEF Knows, Sees, HasWindow
<1>6. CASE view[p] # "token" /\ pc'[p] = "clear"
  BY <1>1, <1>3, <1>6 DEF Knows, Sees
<1>7. CASE HasWindow /\ ~Unexpired /\ pc'[p] = "list" /\ job[p] # "enable"
  BY <1>1, <1>3, <1>7 DEF Knows, Sees, Unexpired, HasWindow
<1>8. job[p] # "enable"
  BY <1>1 DEF Knows
<1>9. \/ ~HasWindow /\ pc'[p] = "write" /\ out'[p] = FALSE
      \/ HasWindow /\ pc'[p] = "write" /\ out'[p] = TRUE
      \/ view[p] # "token" /\ pc'[p] = "clear"
      \/ HasWindow /\ ~Unexpired /\ pc'[p] = "list"
  BY DEF Decide, Unexpired
<1> QED
  BY <1>4, <1>5, <1>6, <1>7, <1>8, <1>9

LEMMA EnableSerial ==
    ASSUME SerialInv, NEW p \in Procs, Admit(p) \/ Create(p) \/ CreateFails(p)
    PROVE  Knows(p)' /\ (clean' => Granted' /\ Tracked' /\ Shown' /\ Sees(p)')
<1> USE DEF SerialInv, TypeOK, Set, Then
<1>1. CASE Admit(p)
  <2>1. /\ pc[p] = "admit" /\ UNCHANGED <<meta, tokens, ttl, open, user, job>>
        /\ clean' = clean /\ job[p] = "enable"
    BY <1>1 DEF Admit, Knows, fileVars, haVars, faultVars
  <2>2. \/ ~Admissible(p) /\ pc'[p] = "write" /\ out'[p] = FALSE
        \/ pc'[p] = "write" /\ out'[p] = TRUE
        \/ Admissible(p) /\ pc'[p] = "create"
    BY <1>1 DEF Admit
  <2>3. clean /\ ~Admissible(p) => tokens = {}
    BY <2>1 DEF Admissible, Sees, Granted
  <2>4. Knows(p)'
    BY <2>1, <2>2 DEF Knows
  <2>5. clean' => Sees(p)'
    <3>1. clean /\ Admissible(p) => open /\ user = "regular"
      BY <2>1, FailuresAssumption DEF Admissible, Sees
    <3>2. clean /\ ~Admissible(p) => Usable' = {}
      BY <2>1, <2>3 DEF Usable
    <3> QED
      BY <2>1, <2>2, <3>1, <3>2 DEF Sees
  <2>6. clean' => Shown'
    BY <2>2 DEF Shown, Idle
  <2> QED
    BY <2>1, <2>4, <2>5, <2>6, SameWindow
<1>2. CASE Create(p)
  <2>1. /\ pc[p] = "create" /\ pc'[p] = "truncate"
        /\ UNCHANGED <<open, user, job>> /\ clean' = clean
    BY <1>2 DEF Create, faultVars
  <2> QED
    BY <2>1 DEF Knows, Sees, Granted, Tracked, Shown, Idle
<1>3. CASE CreateFails(p)
  <2>1. /\ pc[p] = "create" /\ pc'[p] = "write" /\ job'[p] = job[p] /\ ~clean'
    BY <1>3 DEF CreateFails, Fails
  <2> QED
    BY <2>1 DEF Knows
<1> QED
  BY <1>1, <1>2, <1>3

LEMMA WindowSerial ==
    ASSUME SerialInv, NEW p \in Procs, Truncate(p) \/ Fill(p)
    PROVE  Knows(p)' /\ (clean' => Granted' /\ Tracked' /\ Shown' /\ Sees(p)')
<1> USE DEF SerialInv, TypeOK, Set, Then
<1>1. CASE Truncate(p)
  <2>1. /\ pc[p] = "truncate" /\ pc'[p] = "fill" /\ p \in writers' /\ job'[p] = job[p]
        /\ UNCHANGED <<tokens, open, user>> /\ clean' = clean
    BY <1>1 DEF Truncate, haVars, faultVars
  <2> QED
    BY <2>1 DEF Knows, Sees, Granted, Tracked, Shown, Idle
<1>2. CASE Fill(p)
  <2>1. /\ pc[p] = "fill" /\ pc'[p] = "write" /\ out'[p] = TRUE /\ job'[p] = job[p]
        /\ UNCHANGED <<tokens, ttl, open, user>> /\ clean' = clean
        /\ job[p] = "enable"
    BY <1>2 DEF Fill, Knows, haVars, faultVars
  <2>2. p \in writers => meta' = [left |-> TTL, wait |-> 0]
    BY <1>2 DEF Fill
  <2>3. p \in writers => Unexpired' /\ meta'.left = TTL
    BY <2>2, TimesAssumption DEF Unexpired, HasWindow, Window
  <2>4. Knows(p)'
    BY <2>1 DEF Knows
  <2>5. ASSUME clean'
        PROVE  Granted' /\ Tracked' /\ Shown' /\ Sees(p)'
    <3>1. p \in writers
      BY <2>1, <2>5 DEF Sees
    <3>2. \A k \in Usable' : ttl'[k] <= TTL
      BY <2>1, TimesAssumption DEF Usable
    <3>3. Tracked'
      BY <2>3, <3>1, <3>2 DEF Tracked
    <3> QED
      BY <2>1, <2>5, <3>3 DEF Granted, Shown, Idle, Sees
  <2> QED
    BY <2>4, <2>5
<1> QED
  BY <1>1, <1>2

LEMMA RunSerial ==
    ASSUME SerialInv, NEW p \in Procs, Run(p), TypeOK'
    PROVE  SerialInv'
<1>1. Knows(p)' /\ (clean' => Granted' /\ Tracked' /\ Shown' /\ Sees(p)')
  <2>1. CASE Look(p)
    BY <2>1, LookSerial
  <2>2. CASE Clear(p) \/ Write(p)
    BY <2>2, ClearWriteSerial
  <2>3. CASE List(p) \/ DeleteAborts(p) \/ DeleteDone(p)
    BY <2>3, ListSerial
  <2>4. CASE \E k \in Tokens : DeleteOne(p, k)
    BY <2>4, DeleteOneSerial
  <2>5. CASE BackoffRead(p) \/ BackoffMove(p)
    BY <2>5, BackoffSerial
  <2>6. CASE Decide(p)
    BY <2>6, DecideSerial
  <2>7. CASE Admit(p) \/ Create(p) \/ CreateFails(p)
    BY <2>7, EnableSerial
  <2>8. CASE Truncate(p) \/ Fill(p)
    BY <2>8, WindowSerial
  <2> QED
    BY <2>1, <2>2, <2>3, <2>4, <2>5, <2>6, <2>7, <2>8 DEF Run
<1> QED
  BY <1>1, OneCommand

\* A command begins when no other is under way.
LEMMA BeginSerial ==
    ASSUME Serial, SerialInv, NEW p \in Procs,
           NEW j \in {"status", "enable", "disable"}, Begin(p, j), TypeOK'
    PROVE  SerialInv'
<1> USE DEF SerialInv, TypeOK, Set
<1>1. /\ \A q \in Procs : pc[q] = "idle"
      /\ pc'[p] = "look" /\ job'[p] = j
      /\ \A q \in Procs \ {p} : pc'[q] = "idle"
      /\ UNCHANGED <<meta, tokens, ttl, open, user>> /\ clean' = clean
  BY DEF Begin, Idle, fileVars, haVars, faultVars
<1>2. Alone'
  BY <1>1 DEF Alone
<1>3. \A q \in Procs : Knows(q)' /\ Sees(q)'
  BY <1>1 DEF Knows, Sees
<1>4. clean => Granted' /\ Tracked' /\ Shown'
  BY <1>1 DEF Granted, Tracked, Shown, Idle, Usable, Unexpired, HasWindow
<1> QED
  BY <1>1, <1>2, <1>3, <1>4

LEMMA EnvironmentSerial ==
    ASSUME SerialInv, Crash \/ GateMoves, TypeOK'
    PROVE  SerialInv'
<1>1. ~clean'
  BY DEF Crash, GateMoves, Fails
<1>2. CASE Crash
  BY <1>1, <1>2 DEF Crash, SerialInv, Alone, Knows
<1>3. CASE GateMoves
  BY <1>1, <1>3 DEF GateMoves, SerialInv, Alone, Knows, HasWindow, procVars, fileVars
<1> QED
  BY <1>2, <1>3

\* Time runs for the tokens as it runs for the window.
LEMMA TickSerial ==
    ASSUME SerialInv, Tick, TypeOK'
    PROVE  SerialInv'
<1> USE DEF SerialInv, TypeOK
<1>1. /\ UNCHANGED <<writers, shown, tokens, user, open, job, pc, view, todo, out>>
      /\ clean' = clean
      /\ \A k \in Tokens : ttl'[k] = Min0(ttl[k]) /\ ttl[k] \in Nat
      /\ meta' = Later(meta) /\ \A p \in Procs : copy'[p] = Later(copy[p])
  BY TimesAssumption DEF Tick, faultVars
<1>2. HasWindow' <=> HasWindow
  BY <1>1, LaterWindow DEF HasWindow
<1>3. HasWindow => meta'.left = Min0(meta.left) /\ meta.left \in Nat
  BY <1>1, LaterWindow DEF HasWindow
<1>4. Unexpired' => Unexpired
  BY <1>2, <1>3 DEF Unexpired, Min0
<1>5. Usable' \subseteq Usable
  BY <1>1 DEF Usable, Min0
<1>6. \A p \in Procs : Knows(p)'
  <2>1. ASSUME NEW p \in Procs
        PROVE  copy'[p] \in Window <=> copy[p] \in Window
    BY <1>1, LaterWindow
  <2> QED
    BY <1>1, <1>2, <2>1 DEF Knows
<1>7. ASSUME clean
      PROVE  Granted' /\ Tracked' /\ Shown'
  <2>1. Granted' /\ Shown'
    BY <1>1, <1>5, <1>7 DEF Granted, Shown, Idle
  <2>2. ASSUME NEW k \in Usable', Unexpired, ttl[k] <= meta.left
        PROVE  Unexpired' /\ ttl'[k] <= meta'.left
    <3>1. ttl[k] \in Nat /\ ttl[k] > 1 /\ ttl'[k] = ttl[k] - 1
      BY <1>1 DEF Usable, Min0
    <3> QED
      BY <1>2, <1>3, <2>2, <3>1 DEF Unexpired, Min0
  <2>3. Tracked'
    BY <1>1, <1>5, <1>7, <2>2 DEF Tracked
  <2> QED
    BY <2>1, <2>3
<1>8. ASSUME clean, NEW p \in Procs
      PROVE  Sees(p)'
  <2>1. pc[p] = "move" => copy'[p].left = 0
    BY <1>1, <1>8, LaterWindow DEF Sees, Knows, Min0
  <2>2. Usable = {} => Usable' = {}
    BY <1>5
  <2> QED
    BY <1>1, <1>4, <1>8, <2>1, <2>2 DEF Sees
<1> QED
  BY <1>1, <1>6, <1>7, <1>8 DEF Alone

LEMMA SerialStep ==
    ASSUME Serial, SerialInv, [Next]_vars
    PROVE  SerialInv'
<1>1. TypeOK'
  BY TypeStep DEF SerialInv
<1>2. CASE UNCHANGED vars
  BY <1>2 DEF vars, fileVars, haVars, procVars, faultVars, SerialInv, TypeOK, Alone, Knows,
              Sees, Granted, Tracked, Shown, Idle, Usable, Unexpired, HasWindow
<1>3. CASE \E p \in Procs, j \in {"status", "enable", "disable"} : Begin(p, j)
  BY <1>1, <1>3, BeginSerial
<1>4. CASE \E p \in Procs : Run(p)
  BY <1>1, <1>4, RunSerial
<1>5. CASE Crash \/ GateMoves \/ Tick
  BY <1>1, <1>5, EnvironmentSerial, TickSerial
<1> QED
  BY <1>2, <1>3, <1>4, <1>5 DEF Next, Request, Procs

LEMMA SerialHolds ==
    ASSUME Serial
    PROVE  Spec => []SerialInv
BY StartsSerial, SerialStep, PTL DEF Spec

\* While commands do not overlap and deletions fail as a whole, every token that
\* opens sessions is covered by a window that lasts at least as long
\* (support-tunnel:2182-2298, 2335-2369).
THEOREM TokensAreTracked ==
    ASSUME Serial
    PROVE  Spec => []TokenTracked
<1>1. SerialInv => TokenTracked
  BY DEF SerialInv, Tracked, TokenTracked
<1> QED
  BY <1>1, SerialHolds, PTL

\* Under the same conditions the panel shows every access there is
\* (support-tunnel:2211-2239, 2417-2432).
THEOREM PanelIsRight ==
    ASSUME Serial
    PROVE  Spec => []PanelTellsAccess
<1>1. SerialInv => PanelTellsAccess
  BY DEF SerialInv, Shown, PanelTellsAccess
<1> QED
  BY <1>1, SerialHolds, PTL

\* A status that no other command meets writes for the panel what it leaves on
\* disk, whatever has failed before (support-tunnel:2220-2298).
THEOREM StatusTellsTheTruth ==
    ASSUME Serial
    PROVE  Spec => StatusIsTruthful
<1>1. SerialInv => [\A p \in Procs :
         Write(p) /\ job[p] \in {"status", "nested"} => (out[p] <=> HasWindow)]_vars
  BY DEF SerialInv, Knows, Write
<1> QED
  BY <1>1, SerialHolds, PTL DEF StatusIsTruthful

=============================================================================
