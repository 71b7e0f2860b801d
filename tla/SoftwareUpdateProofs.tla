------------------------ MODULE SoftwareUpdateProofs ------------------------
(***************************************************************************)
(* Theorems about SoftwareUpdateManager, for any devices, versions and     *)
(* budgets: its queue keeps its order (QueueInv), and consents are what    *)
(* the application left in force, unless an addition undid other changes   *)
(* that came while it waited (ConsentInv).                                 *)
(***************************************************************************)
EXTENDS SoftwareUpdateManager, SequenceTheorems, FiniteSetTheorems, TLAPS

\* The peers that have an entry, and queues with one entry per peer.
PeersOf(q) == {q[i].peer : i \in DOMAIN q}
Distinct(q) == \A i, j \in DOMAIN q : q[i].peer = q[j].peer => i = j

\* A queue and the announcements that belong to it.
Sound(q, c) == q \in Seq(Entry) /\ Distinct(q) /\ c \subseteq PeersOf(q)

QueueInv ==
    /\ Sound(queue, calls) /\ timer \in BOOLEAN
    /\ QueueIsWatched

\* What the application and the manager's waits keep.
ApplicationTypes ==
    /\ consents \in Consents /\ told \in Consents
    /\ ready \in BOOLEAN /\ clean \in BOOLEAN
    /\ adds \in [Peers -> {NoAdd} \cup [target : Versions, force : BOOLEAN, others : Consents]]
    /\ cancels \subseteq Peers
    /\ checks \in [Peers -> Versions \cup {None}]
    /\ asks \in 0 .. MaxAsks

\* What the provider and the devices keep.
DeviceTypes ==
    /\ bdx \subseteq Peers /\ booted \subseteq Peers
    /\ details \in [Peers -> {NoDetails} \cup [state : Moving, age : Ages]]
    /\ device \in [Peers -> {Idle} \cup [step : {"applied"}]
                    \cup [step : {"offered", "loaded", "applying"}, to : Versions]
                    \cup [step : {"loading"}, to : Versions, watched : BOOLEAN]]
    /\ runs \in [Peers -> Versions]
    /\ talks \in [Peers -> Nat]

\* As long as no addition has saved consents of other devices that changed while it
\* waited, the consent to an update is the one the application has left in force, or
\* has ended with the update.
ConsentInv == clean => \A p \in Peers : consents[p] \in {None, told[p]}

ManagerInv == QueueInv /\ ApplicationTypes /\ DeviceTypes /\ ConsentInv

-----------------------------------------------------------------------------
(***************************************************************************)
(* Sequences.                                                              *)
(***************************************************************************)

\* What RemoveAt leaves.
LEMMA RemoveAtFacts ==
    ASSUME NEW S, NEW s \in Seq(S), NEW i \in 1 .. Len(s)
    PROVE  /\ RemoveAt(s, i) \in Seq(S) /\ Len(RemoveAt(s, i)) = Len(s) - 1
           /\ \A j \in 1 .. Len(s) - 1 : RemoveAt(s, i)[j] = IF j < i THEN s[j] ELSE s[j + 1]
<1> DEFINE a == SubSeq(s, 1, i - 1)
           b == SubSeq(s, i + 1, Len(s))
<1>1. Len(s) \in Nat /\ \A j \in 1 .. Len(s) : s[j] \in S
  BY LenProperties, ElementOfSeq
<1>2. /\ a \in Seq(S) /\ Len(a) = i - 1
      /\ \A j \in 1 .. i - 1 : a[j] = s[j]
  BY <1>1, SubSeqProperties
<1>3. /\ b \in Seq(S) /\ Len(b) = Len(s) - i
      /\ \A j \in 1 .. Len(s) - i : b[j] = s[j + i]
  BY <1>1, SubSeqProperties
<1>4. RemoveAt(s, i) = a \o b
  BY DEF RemoveAt
<1> HIDE DEF a, b
<1>5. /\ a \o b \in Seq(S) /\ Len(a \o b) = Len(s) - 1
      /\ \A j \in 1 .. Len(s) - 1 : (a \o b)[j] = IF j <= i - 1 THEN a[j] ELSE b[j - (i - 1)]
  <2>1. /\ a \o b \in Seq(S) /\ Len(a \o b) = Len(a) + Len(b)
        /\ \A j \in 1 .. Len(a) + Len(b) : (a \o b)[j] = IF j <= Len(a) THEN a[j] ELSE b[j - Len(a)]
    BY <1>2, <1>3, ConcatProperties
  <2>2. Len(a) + Len(b) = Len(s) - 1
    BY <1>1, <1>2, <1>3
  <2> QED
    BY <1>2, <2>1, <2>2
<1> QED
  BY <1>1, <1>2, <1>3, <1>4, <1>5

\* An injection of 1 .. n into itself reaches every number.
LEMMA OrdersReachAll ==
    ASSUME NEW n \in Nat, NEW o \in [1 .. n -> 1 .. n],
           \A i, j \in 1 .. n : i # j => o[i] # o[j]
    PROVE  \A k \in 1 .. n : \E i \in 1 .. n : o[i] = k
<1>1. IsFiniteSet(1 .. n)
  BY FS_Interval
<1>2. \A i, j \in 1 .. n : o[i] = o[j] => i = j
  OBVIOUS
<1>3. o \in Injection(1 .. n, 1 .. n)
  BY <1>2 DEF Injection, IsInjective
<1>4. o \in Surjection(1 .. n, 1 .. n)
  BY <1>1, <1>3, FS_Injection
<1> QED
  BY <1>4 DEF Surjection

-----------------------------------------------------------------------------
(***************************************************************************)
(* The queue.                                                              *)
(***************************************************************************)

\* The numbers that entries are made of.
LEMMA EntryTypes ==
    /\ StallAge \in Nat /\ MaxVersion \in Nat \ {0} /\ Never = -1 /\ None = 0
    /\ 0 \in Ages /\ Never \notin Ages /\ Ages \subseteq Nat /\ Versions \subseteq Nat \ {0}
    /\ \A e \in Entry : e.since \in Ages \cup {Never} /\ e.since \in Int /\ e.peer \in Peers
                        /\ Reset(e) \in Entry /\ Reset(e).peer = e.peer /\ Reset(e).since = Never
<1>1. /\ StallAge \in Nat /\ MaxVersion \in Nat \ {0} /\ Never = -1 /\ None = 0
      /\ 0 \in Ages /\ Never \notin Ages /\ Ages \subseteq Nat /\ Versions \subseteq Nat \ {0}
  BY BoundsAssumption DEF Ages, Never, None, Versions
<1>2. ASSUME NEW e \in Entry
      PROVE  /\ e.since \in Ages \cup {Never} /\ e.peer \in Peers /\ Reset(e) \in Entry
             /\ Reset(e).peer = e.peer /\ Reset(e).since = Never
  BY DEF Entry, Reset, NotStarted
<1>3. \A a \in Ages \cup {Never} : a \in Int
  BY <1>1
<1> QED
  BY <1>1, <1>2, <1>3

\* A sequence made entry by entry.
LEMMA EntriesMake ==
    ASSUME NEW n \in Nat, NEW q \in [1 .. n -> Entry]
    PROVE  q \in Seq(Entry) /\ Len(q) = n /\ DOMAIN q = 1 .. n
OBVIOUS

\* A queue is a function on the places of its entries.
LEMMA QueueFacts ==
    ASSUME NEW q \in Seq(Entry)
    PROVE  /\ Len(q) \in Nat /\ DOMAIN q = 1 .. Len(q) /\ q \in [1 .. Len(q) -> Entry]
           /\ \A i \in DOMAIN q : q[i] \in Entry
           /\ q = <<>> <=> Len(q) = 0
           /\ q = <<>> <=> DOMAIN q = {}
OBVIOUS

\* Replacing entries one by one for the same peers keeps the queue sound.
LEMMA StaysSound ==
    ASSUME NEW q, NEW r, NEW c, Sound(q, c), r \in [DOMAIN q -> Entry],
           \A i \in DOMAIN q : r[i].peer = q[i].peer
    PROVE  Sound(r, c) /\ DOMAIN r = DOMAIN q /\ (r = <<>> <=> q = <<>>) /\ PeersOf(r) = PeersOf(q)
<1>1. q \in Seq(Entry) /\ Len(q) \in Nat /\ DOMAIN q = 1 .. Len(q)
  BY QueueFacts DEF Sound
<1>2. r \in Seq(Entry) /\ DOMAIN r = DOMAIN q
  BY <1>1, EntriesMake
<1>3. PeersOf(r) = PeersOf(q) /\ Distinct(r)
  BY <1>2 DEF PeersOf, Distinct, Sound
<1> QED
  BY <1>1, <1>2, <1>3, QueueFacts DEF Sound

\* Looking for stalled updates puts none in progress.
LEMMA RevivedSound ==
    ASSUME NEW q, NEW c, Sound(q, c)
    PROVE  /\ Sound(Revived(q), c) /\ PeersOf(Revived(q)) = PeersOf(q)
           /\ DOMAIN Revived(q) = DOMAIN q
           /\ Revived(q) = <<>> <=> q = <<>>
           /\ Underway(Revived(q)) => Underway(q)
<1>1. \A i \in DOMAIN q : q[i] \in Entry
  BY QueueFacts DEF Sound
<1>2. /\ Revived(q) \in [DOMAIN q -> Entry]
      /\ \A i \in DOMAIN q : /\ Revived(q)[i].peer = q[i].peer
                             /\ InProgress(Revived(q)[i]) => InProgress(q[i])
  BY <1>1, EntryTypes DEF Revived, InProgress
<1> QED
  BY <1>2, StaysSound DEF Underway

\* Sorting loses no entry and doubles none.
LEMMA SortedSound ==
    ASSUME NEW q, NEW c, Sound(q, c), NEW o \in StableOrders(q)
    PROVE  LET s == [i \in DOMAIN q |-> q[o[i]]]
           IN  Sound(s, c) /\ PeersOf(s) = PeersOf(q) /\ DOMAIN s = DOMAIN q
<1> DEFINE s == [i \in DOMAIN q |-> q[o[i]]]
<1>1. q \in Seq(Entry) /\ Len(q) \in Nat /\ DOMAIN q = 1 .. Len(q)
      /\ \A i \in DOMAIN q : q[i] \in Entry
  BY QueueFacts DEF Sound
<1>2. o \in [DOMAIN q -> DOMAIN q]
      /\ \A i, j \in DOMAIN q : i < j =>
           \/ Rank(q[o[i]]) < Rank(q[o[j]])
           \/ Rank(q[o[i]]) = Rank(q[o[j]]) /\ o[i] < o[j]
  BY DEF StableOrders
<1>3. \A e : Rank(e) \in Int
  BY DEF Rank
<1>4. \A i, j \in DOMAIN q : i < j => o[i] # o[j]
  BY <1>1, <1>2, <1>3
<1>5. \A i, j \in DOMAIN q : i # j => o[i] # o[j]
  BY <1>1, <1>4
<1>6. \A k \in DOMAIN q : \E i \in DOMAIN q : o[i] = k
  <2>1. o \in [1 .. Len(q) -> 1 .. Len(q)] /\ \A i, j \in 1 .. Len(q) : i # j => o[i] # o[j]
    BY <1>1, <1>2, <1>5
  <2>2. \A k \in 1 .. Len(q) : \E i \in 1 .. Len(q) : o[i] = k
    BY <1>1, <2>1, OrdersReachAll
  <2> QED
    BY <1>1, <2>2
<1>7. s \in [1 .. Len(q) -> Entry]
  BY <1>1, <1>2
<1>8. s \in Seq(Entry) /\ DOMAIN s = DOMAIN q
  BY <1>1, <1>7, EntriesMake
<1>9. PeersOf(s) = PeersOf(q)
  BY <1>2, <1>6 DEF PeersOf
<1>10. Distinct(s)
  BY <1>2, <1>5 DEF Distinct, Sound
<1> QED
  BY <1>8, <1>9, <1>10 DEF Sound

\* #triggerQueuedUpdate keeps the queue sound and watched, whatever it is given, if
\* the timer runs for what is in progress.
LEMMA Triggered ==
    ASSUME NEW q, NEW c, Sound(q, c), timer \in BOOLEAN, Underway(q) => timer, Trigger(q, c)
    PROVE  QueueInv'
<1> DEFINE r == Revived(q)
<1>1. /\ Sound(r, c) /\ PeersOf(r) = PeersOf(q) /\ (r = <<>> <=> q = <<>>)
      /\ Underway(r) => Underway(q)
  BY RevivedSound
<1>2. CASE q = <<>> \/ Underway(r)
  <2>1. queue' = r /\ calls' = c /\ timer' = (timer /\ q # <<>>)
    BY <1>2 DEF Trigger
  <2>2. r # <<>> => timer
    BY <1>1, <1>2
  <2>3. queue' # <<>> => timer'
    BY <1>1, <2>1, <2>2
  <2> QED
    BY <1>1, <2>1, <2>3 DEF QueueInv, QueueIsWatched
<1>3. CASE ~(q = <<>> \/ Underway(r))
  <2>1. PICK o \in StableOrders(r) : queue' = [i \in DOMAIN r |-> r[o[i]]]
    BY <1>3 DEF Trigger
  <2>2. timer' = TRUE /\ (calls' = c \/ calls' = c \cup {queue'[1].peer})
    BY <1>3 DEF Trigger
  <2>3. Sound(queue', c) /\ PeersOf(queue') = PeersOf(r) /\ DOMAIN queue' = DOMAIN r
    BY <1>1, <2>1, SortedSound
  <2>4. 1 \in DOMAIN queue'
    <3>1. r \in Seq(Entry) /\ r # <<>>
      BY <1>1, <1>3 DEF Sound
    <3>2. Len(r) \in Nat \ {0} /\ DOMAIN r = 1 .. Len(r)
      BY <3>1, QueueFacts
    <3> QED
      BY <2>3, <3>2
  <2>5. calls' \subseteq PeersOf(queue')
    BY <2>2, <2>3, <2>4 DEF Sound, PeersOf
  <2> QED
    BY <2>2, <2>3, <2>5 DEF QueueInv, QueueIsWatched, Sound
<1> QED
  BY <1>2, <1>3

\* The place of a peer in the queue.
LEMMA Placed ==
    ASSUME QueueInv, NEW p, InQueue(p)
    PROVE  /\ Place(p) \in DOMAIN queue /\ queue[Place(p)].peer = p
           /\ queue # <<>> /\ timer /\ queue[Place(p)] \in Entry /\ p \in Peers
<1>1. Place(p) \in DOMAIN queue /\ queue[Place(p)].peer = p
  BY DEF InQueue, Place
<1>2. queue \in Seq(Entry)
  BY DEF QueueInv, Sound
<1>3. queue # <<>> /\ queue[Place(p)] \in Entry
  BY <1>1, <1>2, QueueFacts
<1> QED
  BY <1>1, <1>3, EntryTypes DEF QueueInv, QueueIsWatched

\* Splicing the entry of a peer out leaves the other entries.
LEMMA Spliced ==
    ASSUME QueueInv, NEW p, InQueue(p)
    PROVE  Sound(Splice(p), calls \ {p})
<1> DEFINE n == Len(queue)
           k == Place(p)
           s == Splice(p)
<1>1. queue \in Seq(Entry) /\ n \in Nat /\ DOMAIN queue = 1 .. n
  BY QueueFacts DEF QueueInv, Sound
<1>2. k \in 1 .. n /\ queue[k].peer = p
  BY <1>1, Placed
<1>3. /\ s \in Seq(Entry) /\ Len(s) = n - 1
      /\ \A j \in 1 .. n - 1 : s[j] = IF j < k THEN queue[j] ELSE queue[j + 1]
  BY <1>1, <1>2, RemoveAtFacts DEF Splice
<1>4. DOMAIN s = 1 .. n - 1
  BY <1>1, <1>2, <1>3, QueueFacts
<1> HIDE DEF s, k, n
<1>5. Distinct(s)
  <2> SUFFICES ASSUME NEW i \in 1 .. n - 1, NEW j \in 1 .. n - 1, s[i].peer = s[j].peer
               PROVE  i = j
    BY <1>4 DEF Distinct
  <2> DEFINE a(x) == IF x < k THEN x ELSE x + 1
  <2>1. a(i) \in 1 .. n /\ a(j) \in 1 .. n /\ s[i] = queue[a(i)] /\ s[j] = queue[a(j)]
    BY <1>1, <1>2, <1>3
  <2>2. a(i) = a(j)
    BY <1>1, <2>1 DEF QueueInv, Sound, Distinct
  <2> QED
    BY <1>1, <1>2, <2>2
<1>6. ASSUME NEW x \in calls \ {p}
      PROVE  x \in PeersOf(s)
  <2>1. PICK i \in 1 .. n : queue[i].peer = x
    BY <1>1 DEF QueueInv, Sound, PeersOf
  <2>2. i # k
    BY <1>2, <2>1
  <2>3. CASE i < k
    <3>1. i \in 1 .. n - 1 /\ s[i] = queue[i]
      BY <1>1, <1>2, <1>3, <2>3
    <3> QED
      BY <1>4, <2>1, <3>1 DEF PeersOf
  <2>4. CASE i > k
    <3>1. i - 1 \in 1 .. n - 1 /\ s[i - 1] = queue[i]
      BY <1>1, <1>2, <1>3, <2>4
    <3> QED
      BY <1>4, <2>1, <3>1 DEF PeersOf
  <2> QED
    BY <1>1, <1>2, <2>2, <2>3, <2>4
<1> QED
  BY <1>3, <1>5, <1>6 DEF Sound, s

\* The entry of a peer leaves the queue.
LEMMA Dequeued ==
    ASSUME QueueInv, NEW p, InQueue(p), Dequeue(p)
    PROVE  QueueInv'
<1>1. Sound(Splice(p), calls \ {p}) /\ timer \in BOOLEAN /\ timer
  BY Spliced, Placed DEF QueueInv
<1> QED
  BY <1>1, Triggered DEF Dequeue

\* One entry is replaced.
LEMMA Replaced ==
    ASSUME QueueInv, NEW p, InQueue(p), NEW e \in Entry, e.peer = p, NEW c, c \subseteq calls \cup {p}
    PROVE  LET q == [queue EXCEPT ![Place(p)] = e]
           IN  Sound(q, c) /\ (q = <<>> <=> queue = <<>>)
<1> DEFINE q == [queue EXCEPT ![Place(p)] = e]
<1>1. queue \in Seq(Entry) /\ Place(p) \in DOMAIN queue /\ queue[Place(p)].peer = p
      /\ \A i \in DOMAIN queue : queue[i] \in Entry
  BY Placed, QueueFacts DEF QueueInv, Sound
<1>2. c \subseteq PeersOf(queue)
  BY <1>1 DEF QueueInv, Sound, PeersOf
<1>3. q \in [DOMAIN queue -> Entry] /\ \A i \in DOMAIN queue : q[i].peer = queue[i].peer
  <2>1. queue \in [DOMAIN queue -> Entry]
    BY <1>1, QueueFacts
  <2> QED
    BY <1>1, <2>1
<1>4. Sound(queue, c)
  BY <1>2 DEF QueueInv, Sound
<1> QED
  BY <1>3, <1>4, StaysSound

\* One entry is replaced and nothing else happens.
LEMMA ReplacedOnly ==
    ASSUME QueueInv, NEW p, InQueue(p), NEW e \in Entry, e.peer = p,
           queue' = [queue EXCEPT ![Place(p)] = e], calls' \subseteq calls, UNCHANGED timer
    PROVE  QueueInv'
<1>1. Sound(queue', calls') /\ (queue' = <<>> <=> queue = <<>>)
  BY Replaced
<1> QED
  BY <1>1 DEF QueueInv, QueueIsWatched

\* #queueUpdate, with announcements to peers that have an entry, and to its own.
LEMMA QueuedUpdate ==
    ASSUME QueueInv, NEW p \in Peers, NEW target \in Versions, NEW c,
           c = calls \/ (c = calls \cup {p} /\ \E i \in DOMAIN queue : queue[i].peer # p),
           QueueUpdate(p, target, c)
    PROVE  QueueInv'
<1>0. /\ queue \in Seq(Entry) /\ Len(queue) \in Nat /\ DOMAIN queue = 1 .. Len(queue)
      /\ \A i \in DOMAIN queue : queue[i] \in Entry
      /\ timer \in BOOLEAN /\ calls \subseteq PeersOf(queue) /\ Distinct(queue)
  BY QueueFacts DEF QueueInv, Sound
<1>1. Underway(queue) => timer
  <2>1. Underway(queue) => queue # <<>>
    BY <1>0, QueueFacts DEF Underway
  <2> QED
    BY <2>1 DEF QueueInv, QueueIsWatched
<1>2. CASE InQueue(p) /\ InProgress(queue[Place(p)])
  <2>1. calls' = c /\ UNCHANGED <<queue, timer>>
    BY <1>2 DEF QueueUpdate
  <2>2. p \in PeersOf(queue)
    BY <1>2 DEF InQueue, PeersOf
  <2> QED
    BY <2>1, <2>2 DEF QueueInv, QueueIsWatched, Sound
<1>3. CASE InQueue(p) /\ ~InProgress(queue[Place(p)])
  <2> DEFINE e == [queue[Place(p)] EXCEPT !.target = target]
             q == [queue EXCEPT ![Place(p)] = e]
  <2>1. queue[Place(p)] \in Entry /\ queue[Place(p)].peer = p /\ timer
    BY <1>3, Placed
  <2>2. e \in Entry /\ e.peer = p
    BY <2>1 DEF Entry
  <2>3. Sound(q, c)
    BY <1>3, <2>2, Replaced
  <2>4. Trigger(q, c)
    BY <1>3 DEF QueueUpdate
  <2> HIDE DEF q
  <2> QED
    BY <1>0, <2>1, <2>3, <2>4, Triggered
<1>4. CASE ~InQueue(p)
  <2> DEFINE e == [peer |-> p, target |-> target, since |-> Never, status |-> "undefined"]
             q == Append(queue, e)
  <2>1. e \in Entry /\ e.peer = p /\ e.since = Never
    BY DEF Entry, NotStarted
  <2>2. /\ q \in Seq(Entry) /\ Len(q) = Len(queue) + 1 /\ q[Len(queue) + 1] = e
        /\ \A i \in 1 .. Len(queue) : q[i] = queue[i]
    <3> HIDE DEF e
    <3> QED
      BY <1>0, <2>1, AppendProperties
  <2>3. Trigger(q, c)
    BY <1>4 DEF QueueUpdate
  <2> HIDE DEF q, e
  <2>4. DOMAIN q = 1 .. Len(queue) + 1
    BY <1>0, <2>2, QueueFacts
  <2>5. \A i \in DOMAIN queue : queue[i].peer # p
    BY <1>4 DEF InQueue
  <2>6. Distinct(q)
    BY <1>0, <2>1, <2>2, <2>4, <2>5 DEF Distinct
  <2>7. p \in PeersOf(q) /\ calls \subseteq PeersOf(q)
    BY <1>0, <2>1, <2>2, <2>4 DEF PeersOf
  <2>8. Underway(q) => Underway(queue)
    BY <1>0, <2>1, <2>2, <2>4 DEF Underway, InProgress
  <2> QED
    BY <1>0, <1>1, <2>2, <2>3, <2>6, <2>7, <2>8, Triggered DEF Sound
<1> QED
  BY <1>2, <1>3, <1>4

\* onOtaStatusChange.
LEMMA StatusChanged ==
    ASSUME QueueInv, NEW p \in Peers, NEW status \in Moving \cup {"Done", "Cancelled"},
           OnOtaStatusChange(p, status)
    PROVE  QueueInv'
<1>1. CASE ~InQueue(p)
  <2>1. UNCHANGED <<queue, timer, calls>>
    BY <1>1 DEF OnOtaStatusChange, queueVars
  <2> QED
    BY <2>1 DEF QueueInv, QueueIsWatched, Sound
<1>2. CASE InQueue(p) /\ status \in {"Done", "Cancelled"}
  BY <1>2, Dequeued DEF OnOtaStatusChange
<1>3. CASE InQueue(p) /\ status \in Moving
  <2> DEFINE e == [queue[Place(p)] EXCEPT !.since = 0, !.status = status]
  <2>1. queue[Place(p)] \in Entry /\ queue[Place(p)].peer = p /\ Place(p) \in DOMAIN queue
    BY <1>3, Placed
  <2>2. e \in Entry /\ e.peer = p
    BY <1>3, <2>1, EntryTypes DEF Entry
  <2>3. queue' = [queue EXCEPT ![Place(p)].since = 0, ![Place(p)].status = status]
        /\ UNCHANGED <<timer, calls>>
    BY <1>3 DEF OnOtaStatusChange, Moving
  <2>4. queue' = [queue EXCEPT ![Place(p)] = e]
    BY <2>1, <2>3
  <2> QED
    BY <1>3, <2>2, <2>3, <2>4, ReplacedOnly
<1> QED
  BY <1>1, <1>2, <1>3

\* The provider's record of a transfer changes with the queue.
LEMMA TransferChanged ==
    ASSUME QueueInv, DeviceTypes, NEW p \in Peers,
           \/ \E status \in Moving \cup {"Done", "Cancelled"} : Update(p, status)
           \/ SessionClosed(p)
           \/ DisablePeer(p)
    PROVE  /\ QueueInv'
           /\ details' \in [Peers -> {NoDetails} \cup [state : Moving, age : Ages]]
<1>1. ASSUME NEW status \in Moving \cup {"Done", "Cancelled"}, Update(p, status)
      PROVE  /\ QueueInv'
             /\ details' \in [Peers -> {NoDetails} \cup [state : Moving, age : Ages]]
  <2>1. QueueInv'
    BY <1>1, StatusChanged DEF Update
  <2>2. status \notin {"Done", "Cancelled"} =>
          [state |-> status, age |-> 0] \in [state : Moving, age : Ages]
    BY EntryTypes
  <2>3. details' = [details EXCEPT ![p] = IF status \in {"Done", "Cancelled"} THEN NoDetails
                                         ELSE [state |-> status, age |-> 0]]
    BY <1>1 DEF Update
  <2> QED
    BY <2>1, <2>2, <2>3 DEF DeviceTypes
<1>2. ASSUME UNCHANGED queueVars, details' \in {details, [details EXCEPT ![p] = NoDetails]}
      PROVE  /\ QueueInv'
             /\ details' \in [Peers -> {NoDetails} \cup [state : Moving, age : Ages]]
  BY <1>2 DEF QueueInv, QueueIsWatched, Sound, queueVars, DeviceTypes
<1>3. ASSUME SessionClosed(p)
      PROVE  /\ QueueInv'
             /\ details' \in [Peers -> {NoDetails} \cup [state : Moving, age : Ages]]
  <2>1. CASE Update(p, "Cancelled")
    BY <1>1, <2>1
  <2>2. CASE UNCHANGED queueVars /\ details' \in {details, [details EXCEPT ![p] = NoDetails]}
    BY <1>2, <2>2
  <2> QED
    BY <1>3, <2>1, <2>2 DEF SessionClosed
<1>4. ASSUME DisablePeer(p)
      PROVE  /\ QueueInv'
             /\ details' \in [Peers -> {NoDetails} \cup [state : Moving, age : Ages]]
  <2>1. SessionClosed(p) \/ (UNCHANGED queueVars /\ UNCHANGED details)
    BY <1>4 DEF DisablePeer, queueVars
  <2> QED
    BY <1>2, <1>3, <2>1
<1> QED
  BY <1>1, <1>3, <1>4

\* Every step keeps the queue sound and watched.
LEMMA QueueStep ==
    ASSUME ManagerInv, [Next]_vars
    PROVE  QueueInv'
<1> USE DEF queueVars, applicationVars, deviceVars
<1>0. /\ QueueInv /\ ApplicationTypes /\ DeviceTypes
      /\ queue \in Seq(Entry) /\ timer \in BOOLEAN /\ Sound(queue, calls)
      /\ \A i \in DOMAIN queue : queue[i] \in Entry
  BY QueueFacts DEF ManagerInv, QueueInv, Sound
<1>1. CASE \/ NodeOnline \/ UNCHANGED vars
           \/ \E p \in Peers : \/ \E target \in Versions : AddUpdateConsent(p, target)
                               \/ CheckBegins(p) \/ GivesUp(p)
                               \/ \E updated \in BOOLEAN : Boots(p, updated)
  <2>1. UNCHANGED queueVars
    BY <1>1 DEF NodeOnline, AddUpdateConsent, CheckBegins, GivesUp, Boots, vars
  <2> QED
    BY <1>0, <2>1 DEF QueueInv, QueueIsWatched, Sound
<1>2. CASE TimerFires
  <2>1. timer /\ Trigger(queue, calls)
    BY <1>2 DEF TimerFires
  <2> QED
    BY <1>0, <2>1, Triggered
<1>3. CASE Tick
  <2>1. queue' = [i \in DOMAIN queue |-> [queue[i] EXCEPT !.since = Older(@)]]
        /\ UNCHANGED <<timer, calls>>
    BY <1>3 DEF Tick
  <2>2. \A e \in Entry : /\ [e EXCEPT !.since = Older(@)] \in Entry
                         /\ [e EXCEPT !.since = Older(@)].peer = e.peer
    <3>1. \A a \in Ages \cup {Never} : Older(a) \in Ages \cup {Never}
      BY BoundsAssumption DEF Ages, Never, Older
    <3> QED
      BY <3>1 DEF Entry
  <2>3. queue' \in [DOMAIN queue -> Entry] /\ \A i \in DOMAIN queue : queue'[i].peer = queue[i].peer
    BY <1>0, <2>1, <2>2
  <2>4. Sound(queue', calls) /\ (queue' = <<>> <=> queue = <<>>)
    BY <1>0, <2>3, StaysSound
  <2> QED
    BY <1>0, <2>1, <2>4 DEF QueueInv, QueueIsWatched
<1>4. ASSUME NEW p \in Peers, NEW ok \in BOOLEAN, Announced(p, ok)
      PROVE  QueueInv'
  <2>1. InQueue(p)
    <3>1. p \in PeersOf(queue)
      BY <1>0, <1>4 DEF Announced, Sound
    <3> QED
      BY <3>1 DEF PeersOf, InQueue
  <2>2. /\ Place(p) \in DOMAIN queue /\ queue[Place(p)] \in Entry /\ queue[Place(p)].peer = p /\ timer
    BY <1>0, <2>1, Placed
  <2>3. CASE ok
    <3> DEFINE e == [queue[Place(p)] EXCEPT !.since = 0]
    <3>1. e \in Entry /\ e.peer = p
      BY <2>2, EntryTypes DEF Entry
    <3>2. queue' = [queue EXCEPT ![Place(p)].since = 0] /\ calls' \subseteq calls /\ UNCHANGED timer
      BY <1>4, <2>3 DEF Announced
    <3>3. queue' = [queue EXCEPT ![Place(p)] = e]
      BY <2>2, <3>2
    <3> HIDE DEF e
    <3> QED
      BY <1>0, <2>1, <3>1, <3>2, <3>3, ReplacedOnly
  <2>4. CASE ~ok
    <3> DEFINE q == [queue EXCEPT ![Place(p)] = Reset(queue[Place(p)])]
    <3>1. Reset(queue[Place(p)]) \in Entry /\ Reset(queue[Place(p)]).peer = p
      BY <2>2, EntryTypes
    <3>2. Sound(q, calls \ {p})
      BY <1>0, <2>1, <3>1, Replaced
    <3>3. Trigger(q, calls \ {p})
      BY <1>4, <2>2, <2>4 DEF Announced
    <3> HIDE DEF q
    <3> QED
      BY <1>0, <2>2, <3>2, <3>3, Triggered
  <2> QED
    BY <2>3, <2>4
<1>5. ASSUME NEW p \in Peers, NEW target \in Versions, ForceUpdate(p, target)
      PROVE  QueueInv'
  <2>1. \/ UNCHANGED <<queue, calls>>
        \/ InQueue(p) /\ queue' = Splice(p) /\ calls' = calls \ {p}
    BY <1>5 DEF ForceUpdate
  <2>2. UNCHANGED timer
    BY <1>5 DEF ForceUpdate
  <2>3. CASE UNCHANGED <<queue, calls>>
    BY <1>0, <2>2, <2>3 DEF QueueInv, QueueIsWatched
  <2>4. CASE InQueue(p) /\ queue' = Splice(p) /\ calls' = calls \ {p}
    <3>1. Sound(queue', calls') /\ timer
      BY <1>0, <2>4, Spliced, Placed
    <3> QED
      BY <2>2, <3>1 DEF QueueInv, QueueIsWatched
  <2> QED
    BY <2>1, <2>3, <2>4
<1>6. ASSUME NEW p \in Peers, NEW outcome, AddEnds(p, outcome)
      PROVE  QueueInv'
  <2>1. adds[p].target \in Versions
    <3>1. adds[p] \in [target : Versions, force : BOOLEAN, others : Consents]
      BY <1>0, <1>6 DEF AddEnds, ApplicationTypes
    <3> QED
      BY <3>1
  <2>2. CASE UNCHANGED queueVars
    BY <1>0, <2>2 DEF QueueInv, QueueIsWatched
  <2>3. CASE QueueUpdate(p, adds[p].target, Forced(p, adds[p]))
    <3>1. Forced(p, adds[p]) = calls
          \/ (Forced(p, adds[p]) = calls \cup {p} /\ \E i \in DOMAIN queue : queue[i].peer # p)
      BY DEF Forced
    <3> QED
      BY <1>0, <2>1, <2>3, <3>1, QueuedUpdate
  <2> QED
    BY <1>6, <2>2, <2>3 DEF AddEnds
<1>7. ASSUME NEW p \in Peers, NEW target, RemoveConsent(p, target)
      PROVE  QueueInv'
  BY <1>0, <1>7, TransferChanged DEF RemoveConsent
<1>8. ASSUME NEW p \in Peers, CancelEnds(p)
      PROVE  QueueInv'
  <2>1. UNCHANGED queueVars \/ (InQueue(p) /\ Dequeue(p))
    BY <1>8 DEF CancelEnds
  <2>2. CASE UNCHANGED queueVars
    BY <1>0, <2>2 DEF QueueInv, QueueIsWatched
  <2> QED
    BY <1>0, <2>1, <2>2, Dequeued
<1>9. ASSUME NEW p \in Peers, NEW found \in Versions \cup {None}, CheckEnds(p, found)
      PROVE  QueueInv'
  <2>1. CASE UNCHANGED queueVars
    BY <1>0, <2>1 DEF QueueInv, QueueIsWatched
  <2>2. CASE found > checks[p] /\ QueueUpdate(p, found, calls)
    <3>1. checks[p] \in Versions
      BY <1>0, <1>9 DEF CheckEnds, ApplicationTypes
    <3>2. found \in Versions
      BY <2>2, <3>1, BoundsAssumption DEF Versions, None
    <3> QED
      BY <1>0, <2>2, <3>2, QueuedUpdate
  <2> QED
    BY <1>9, <2>1, <2>2 DEF CheckEnds
<1>10. ASSUME NEW p \in Peers, OnSoftwareVersionChanged(p)
       PROVE  QueueInv'
  <2>1. CASE ~InQueue(p)
    <3>1. UNCHANGED queueVars
      BY <1>10, <2>1 DEF OnSoftwareVersionChanged
    <3> QED
      BY <1>0, <3>1 DEF QueueInv, QueueIsWatched
  <2>2. CASE InQueue(p)
    <3> DEFINE e == IF InProgress(queue[Place(p)]) THEN Reset(queue[Place(p)]) ELSE queue[Place(p)]
    <3>1. queue[Place(p)] \in Entry /\ queue[Place(p)].peer = p
      BY <1>0, <2>2, Placed
    <3>2. e \in Entry /\ e.peer = p
      BY <3>1, EntryTypes
    <3>3. \/ Dequeue(p)
          \/ queue' = [queue EXCEPT ![Place(p)] = e] /\ UNCHANGED <<timer, calls>>
      BY <1>10, <2>2 DEF OnSoftwareVersionChanged
    <3> HIDE DEF e
    <3>4. CASE Dequeue(p)
      BY <1>0, <2>2, <3>4, Dequeued
    <3>5. CASE queue' = [queue EXCEPT ![Place(p)] = e] /\ UNCHANGED <<timer, calls>>
      BY <1>0, <2>2, <3>2, <3>5, ReplacedOnly
    <3> QED
      BY <3>3, <3>4, <3>5
  <2> QED
    BY <2>1, <2>2
<1>11. ASSUME NEW p \in Peers,
              \/ \E v \in Versions, enabled \in BOOLEAN : QueryImage(p, v, enabled)
              \/ TransferStarts(p) \/ TransferFinishes(p)
              \/ \E cancelled \in BOOLEAN : TransferFails(p, cancelled)
              \/ \E heard \in BOOLEAN : ApplyUpdateRequest(p, heard)
              \/ NotifyUpdateApplied(p)
       PROVE  QueueInv'
  <2>1. \/ UNCHANGED queueVars
        \/ \E status \in Moving \cup {"Done", "Cancelled"} : Update(p, status)
        \/ SessionClosed(p)
    BY <1>11 DEF QueryImage, TransferStarts, TransferFinishes, TransferFails, ApplyUpdateRequest,
                 NotifyUpdateApplied, Moving
  <2>2. CASE UNCHANGED queueVars
    BY <1>0, <2>2 DEF QueueInv, QueueIsWatched
  <2> QED
    BY <1>0, <2>1, <2>2, TransferChanged
<1> QED
  BY <1>1, <1>2, <1>3, <1>4, <1>5, <1>6, <1>7, <1>8, <1>9, <1>10, <1>11
     DEF Next, Application, Waits, Device

-----------------------------------------------------------------------------
(***************************************************************************)
(* The application and the devices.                                        *)
(***************************************************************************)

\* Every step keeps the types of what the application and the waits keep.
LEMMA ApplicationStep ==
    ASSUME ManagerInv, [Next]_vars
    PROVE  ApplicationTypes'
<1> USE DEF queueVars, applicationVars, deviceVars
<1>0. ApplicationTypes /\ DeviceTypes /\ NoAdd \notin [target : Versions, force : BOOLEAN, others : Consents]
      /\ asks \in 0 .. MaxAsks /\ MaxAsks \in Nat /\ None \notin Versions
  BY BoundsAssumption DEF ManagerInv, ApplicationTypes, NoAdd, Versions, None
<1>1. asks' = asks \/ (asks > 0 /\ asks' = asks - 1) => asks' \in 0 .. MaxAsks
  BY <1>0
<1>2. \A f \in Consents, p \in Peers, v \in Versions \cup {None} :
        [f EXCEPT ![p] = v] \in Consents /\ Others(f, p) \in Consents
  BY DEF Consents, Others
<1>3. CASE TimerFires \/ Tick \/ UNCHANGED vars \/ (\E p \in Peers : Device(p))
  <2>1. UNCHANGED <<ready, consents, adds, cancels, checks, told, clean, asks>>
    BY <1>3 DEF TimerFires, Tick, vars, Device, QueryImage, TransferStarts, TransferFinishes,
                TransferFails, ApplyUpdateRequest, NotifyUpdateApplied, GivesUp, Boots
  <2> QED
    BY <1>0, <2>1 DEF ApplicationTypes
<1>4. CASE NodeOnline \/ (\E p \in Peers, ok \in BOOLEAN : Announced(p, ok))
  <2>1. /\ ready' \in BOOLEAN /\ UNCHANGED <<consents, adds, cancels, checks, told, clean>>
        /\ asks' = asks \/ (asks > 0 /\ asks' = asks - 1)
    BY <1>0, <1>4 DEF NodeOnline, Announced, ApplicationTypes
  <2> QED
    BY <1>0, <1>1, <2>1 DEF ApplicationTypes
<1>5. ASSUME NEW p \in Peers, NEW target \in Versions,
             AddUpdateConsent(p, target) \/ ForceUpdate(p, target)
      PROVE  ApplicationTypes'
  <2>1. /\ asks' \in 0 .. MaxAsks /\ UNCHANGED <<ready, consents, cancels, checks, told, clean>>
        /\ \E force \in BOOLEAN : adds' = BeginAdd(p, target, force)
    BY <1>1, <1>5 DEF AddUpdateConsent, ForceUpdate, Ask
  <2>2. \A force \in BOOLEAN : BeginAdd(p, target, force)
          \in [Peers -> {NoAdd} \cup [target : Versions, force : BOOLEAN, others : Consents]]
    BY <1>0 DEF BeginAdd, ApplicationTypes
  <2> QED
    BY <1>0, <2>1, <2>2 DEF ApplicationTypes
<1>6. ASSUME NEW p \in Peers, NEW outcome, AddEnds(p, outcome)
      PROVE  ApplicationTypes'
  <2>1. adds[p] \in [target : Versions, force : BOOLEAN, others : Consents]
    BY <1>0, <1>6 DEF AddEnds, ApplicationTypes
  <2>2. adds[p].target \in Versions /\ adds[p].others \in Consents
    BY <2>1
  <2>3. consents' \in Consents /\ told' \in Consents
    BY <1>0, <1>2, <1>6, <2>2 DEF AddEnds, ApplicationTypes
  <2>4. clean' \in BOOLEAN
    BY <1>0, <1>6 DEF AddEnds, ApplicationTypes
  <2>5. adds' = [adds EXCEPT ![p] = NoAdd] /\ UNCHANGED <<ready, cancels, checks, asks>>
    BY <1>6 DEF AddEnds
  <2> QED
    BY <1>0, <2>3, <2>4, <2>5 DEF ApplicationTypes
<1>7. ASSUME NEW p \in Peers, NEW target, RemoveConsent(p, target)
      PROVE  ApplicationTypes'
  <2>1. consents' \in {consents, Others(consents, p)} /\ told' \in {told, Others(told, p)}
    BY <1>7 DEF RemoveConsent
  <2>2. asks' \in 0 .. MaxAsks /\ cancels' = cancels \cup {p} /\ UNCHANGED <<ready, adds, checks, clean>>
    BY <1>1, <1>7 DEF RemoveConsent, Ask
  <2> QED
    BY <1>0, <1>2, <2>1, <2>2 DEF ApplicationTypes
<1>8. ASSUME NEW p \in Peers,
             CheckBegins(p) \/ CancelEnds(p) \/ (\E found \in Versions \cup {None} : CheckEnds(p, found))
      PROVE  ApplicationTypes'
  <2>1. asks' \in 0 .. MaxAsks /\ UNCHANGED <<ready, consents, adds, told, clean>>
        /\ cancels' \subseteq cancels
    BY <1>1, <1>8 DEF CheckBegins, CancelEnds, CheckEnds, Ask
  <2>2. checks' \in {checks, [checks EXCEPT ![p] = runs[p]], [checks EXCEPT ![p] = None]}
    BY <1>8 DEF CheckBegins, CancelEnds, CheckEnds
  <2>3. runs[p] \in Versions
    BY <1>0 DEF DeviceTypes
  <2> QED
    BY <1>0, <2>1, <2>2, <2>3 DEF ApplicationTypes
<1>9. ASSUME NEW p \in Peers, OnSoftwareVersionChanged(p)
      PROVE  ApplicationTypes'
  <2>1. consents' \in {consents, Others(consents, p)}
        /\ UNCHANGED <<ready, adds, cancels, checks, told, clean, asks>>
    BY <1>9 DEF OnSoftwareVersionChanged
  <2> QED
    BY <1>0, <1>2, <2>1 DEF ApplicationTypes
<1> QED
  BY <1>3, <1>4, <1>5, <1>6, <1>7, <1>8, <1>9 DEF Next, Application, Waits

\* What a device does leaves the other devices alone.
LEMMA DeviceChanges ==
    ASSUME DeviceTypes, NEW p \in Peers, NEW d,
           d \in {Idle} \cup [step : {"applied"}]
                 \cup [step : {"offered", "loaded", "applying"}, to : Versions]
                 \cup [step : {"loading"}, to : Versions, watched : BOOLEAN]
    PROVE  [device EXCEPT ![p] = d] \in
             [Peers -> {Idle} \cup [step : {"applied"}]
                \cup [step : {"offered", "loaded", "applying"}, to : Versions]
                \cup [step : {"loading"}, to : Versions, watched : BOOLEAN]]
BY DEF DeviceTypes

\* A device that has been offered an image knows its version.
LEMMA DeviceTargets ==
    ASSUME DeviceTypes, NEW p \in Peers,
           device[p].step \in {"offered", "loaded", "applying", "loading"}
    PROVE  device[p].to \in Versions
<1>1. device[p] \in {Idle} \cup [step : {"applied"}]
                    \cup [step : {"offered", "loaded", "applying"}, to : Versions]
                    \cup [step : {"loading"}, to : Versions, watched : BOOLEAN]
  BY DEF DeviceTypes
<1>2. device[p] # Idle /\ device[p] \notin [step : {"applied"}]
  BY DEF Idle
<1> QED
  BY <1>1, <1>2

\* Every step keeps the types of what the provider and the devices keep.
LEMMA DeviceStep ==
    ASSUME ManagerInv, [Next]_vars
    PROVE  DeviceTypes'
<1> USE DEF queueVars, applicationVars, deviceVars
<1>0. QueueInv /\ ApplicationTypes /\ DeviceTypes
  BY DEF ManagerInv
<1> DEFINE D == {Idle} \cup [step : {"applied"}]
                 \cup [step : {"offered", "loaded", "applying"}, to : Versions]
                 \cup [step : {"loading"}, to : Versions, watched : BOOLEAN]
           R == [Peers -> {NoDetails} \cup [state : Moving, age : Ages]]
<1>1. \A p \in Peers : talks' = talks \/ Talk(p) => talks' \in [Peers -> Nat]
  BY <1>0 DEF Talk, DeviceTypes
<1>2. CASE \/ NodeOnline \/ TimerFires \/ UNCHANGED vars
           \/ \E p \in Peers :
                \/ \E ok \in BOOLEAN : Announced(p, ok)
                \/ \E target \in Versions : AddUpdateConsent(p, target)
                \/ CheckBegins(p)
                \/ \E outcome \in {"applicable", "later", "refused"} : AddEnds(p, outcome)
                \/ CancelEnds(p)
                \/ \E found \in Versions \cup {None} : CheckEnds(p, found)
  <2>1. UNCHANGED <<details, bdx, device, runs, booted, talks>>
    BY <1>2 DEF NodeOnline, TimerFires, vars, Announced, AddUpdateConsent, CheckBegins, AddEnds,
                CancelEnds, CheckEnds
  <2> QED
    BY <1>0, <2>1 DEF DeviceTypes
<1>3. ASSUME NEW p \in Peers,
             (\E target \in Versions : ForceUpdate(p, target)) \/ OnSoftwareVersionChanged(p)
      PROVE  DeviceTypes'
  <2>1. bdx' \subseteq bdx /\ booted' \subseteq booted /\ UNCHANGED <<details, device, runs, talks>>
    BY <1>3 DEF ForceUpdate, OnSoftwareVersionChanged
  <2> QED
    BY <1>0, <2>1 DEF DeviceTypes
<1>4. CASE Tick
  <2>1. details' = [p \in Peers |-> IF details[p] = NoDetails THEN NoDetails
                                    ELSE [details[p] EXCEPT !.age = Older(@)]]
        /\ UNCHANGED <<bdx, device, runs, booted, talks>>
    BY <1>4 DEF Tick
  <2>2. \A a \in Ages : Older(a) \in Ages
    BY BoundsAssumption DEF Ages, Older
  <2>3. \A d \in [state : Moving, age : Ages] :
          [d EXCEPT !.age = Older(@)] \in [state : Moving, age : Ages]
    BY <2>2
  <2>4. details' \in R
    BY <1>0, <2>1, <2>3 DEF DeviceTypes
  <2> QED
    BY <1>0, <2>1, <2>4 DEF DeviceTypes
<1>5. ASSUME NEW p \in Peers, NEW target, RemoveConsent(p, target)
      PROVE  DeviceTypes'
  <2>1. DisablePeer(p) /\ UNCHANGED <<runs, booted, talks>>
    BY <1>5 DEF RemoveConsent
  <2>2. details' \in R
    BY <1>0, <2>1, TransferChanged
  <2>3. bdx' \subseteq bdx /\ device' \in {device, [device EXCEPT ![p] = Idle]}
    BY <2>1 DEF DisablePeer
  <2> QED
    BY <1>0, <2>1, <2>2, <2>3 DEF DeviceTypes
<1>6. ASSUME NEW p \in Peers, NEW v \in Versions, NEW enabled \in BOOLEAN, QueryImage(p, v, enabled)
      PROVE  DeviceTypes'
  <2>1. Update(p, "Querying") /\ UNCHANGED <<runs, booted>> /\ Talk(p)
        /\ bdx' \in {bdx, bdx \cup {p}}
        /\ device' \in {device, [device EXCEPT ![p] = [step |-> "offered", to |-> v]]}
    BY <1>6 DEF QueryImage, Become
  <2>2. details' \in R
    BY <1>0, <2>1, TransferChanged DEF Moving
  <2>3. device' \in [Peers -> D]
    BY <1>0, <2>1, DeviceChanges DEF DeviceTypes
  <2> QED
    BY <1>0, <1>1, <2>1, <2>2, <2>3 DEF DeviceTypes
<1>7. ASSUME NEW p \in Peers, TransferStarts(p)
      PROVE  DeviceTypes'
  <2>1. PICK w \in BOOLEAN :
          /\ device' = [device EXCEPT ![p] = [step |-> "loading", to |-> device[p].to, watched |-> w]]
          /\ UNCHANGED <<bdx, runs, booted, talks>>
          /\ Update(p, "Downloading") \/ details' = [details EXCEPT ![p] = NoDetails]
    BY <1>7 DEF TransferStarts, Become
  <2>2. details' \in R
    BY <1>0, <2>1, TransferChanged DEF Moving, DeviceTypes
  <2>3. device[p].to \in Versions
    BY <1>0, <1>7, DeviceTargets DEF TransferStarts
  <2>4. device' \in [Peers -> D]
    BY <1>0, <2>1, <2>3, DeviceChanges
  <2> QED
    BY <1>0, <2>1, <2>2, <2>4 DEF DeviceTypes
<1>8. ASSUME NEW p \in Peers, TransferFinishes(p)
      PROVE  DeviceTypes'
  <2>1. /\ device' = [device EXCEPT ![p] = [step |-> "loaded", to |-> device[p].to]]
        /\ UNCHANGED <<bdx, runs, booted, talks>>
        /\ Update(p, "WaitForApply") \/ UNCHANGED details
    BY <1>8 DEF TransferFinishes, Become
  <2>2. details' \in R
    BY <1>0, <2>1, TransferChanged DEF Moving, DeviceTypes
  <2>3. device[p].to \in Versions
    BY <1>0, <1>8, DeviceTargets DEF TransferFinishes
  <2>4. device' \in [Peers -> D]
    BY <1>0, <2>1, <2>3, DeviceChanges
  <2> QED
    BY <1>0, <2>1, <2>2, <2>4 DEF DeviceTypes
<1>9. ASSUME NEW p \in Peers,
             \/ \E cancelled \in BOOLEAN : TransferFails(p, cancelled)
             \/ NotifyUpdateApplied(p) \/ GivesUp(p)
      PROVE  DeviceTypes'
  <2>1. /\ device' = [device EXCEPT ![p] = Idle] /\ UNCHANGED <<bdx, runs, booted, talks>>
        /\ \/ UNCHANGED details \/ SessionClosed(p)
           \/ \E status \in {"Done", "Cancelled"} : Update(p, status)
    BY <1>9 DEF TransferFails, NotifyUpdateApplied, GivesUp, Become
  <2>2. details' \in R
    BY <1>0, <2>1, TransferChanged DEF DeviceTypes
  <2>3. device' \in [Peers -> D]
    BY <1>0, <2>1, DeviceChanges
  <2> QED
    BY <1>0, <2>1, <2>2, <2>3 DEF DeviceTypes
<1>10. ASSUME NEW p \in Peers, NEW heard \in BOOLEAN, ApplyUpdateRequest(p, heard)
       PROVE  DeviceTypes'
  <2>1. /\ \/ device' \in {device, [device EXCEPT ![p] = Idle]}
           \/ device' = [device EXCEPT ![p] = [step |-> "applying", to |-> device[p].to]]
        /\ bdx' \subseteq bdx /\ UNCHANGED <<runs, booted>> /\ (talks' = talks \/ Talk(p))
        /\ \E status \in {"Applying", "Cancelled"} : Update(p, status)
    BY <1>10 DEF ApplyUpdateRequest, Become
  <2>2. details' \in R
    BY <1>0, <2>1, TransferChanged DEF Moving
  <2>3. device[p].to \in Versions
    BY <1>0, <1>10, DeviceTargets DEF ApplyUpdateRequest
  <2>4. device' \in [Peers -> D]
    BY <1>0, <2>1, <2>3, DeviceChanges DEF DeviceTypes
  <2> QED
    BY <1>0, <1>1, <2>1, <2>2, <2>4 DEF DeviceTypes
<1>11. ASSUME NEW p \in Peers, NEW updated \in BOOLEAN, Boots(p, updated)
       PROVE  DeviceTypes'
  <2>1. /\ device' \in {[device EXCEPT ![p] = Idle], [device EXCEPT ![p] = [step |-> "applied"]]}
        /\ booted' = booted \cup {p} /\ UNCHANGED <<details, bdx>> /\ (talks' = talks \/ Talk(p))
        /\ \/ runs' = runs
           \/ device[p].step = "applying" /\ runs' = [runs EXCEPT ![p] = device[p].to]
    BY <1>11 DEF Boots, Become
  <2>2. runs' \in [Peers -> Versions]
    BY <1>0, <2>1, DeviceTargets DEF DeviceTypes
  <2>3. device' \in [Peers -> D]
    BY <1>0, <2>1, DeviceChanges
  <2> QED
    BY <1>0, <1>1, <2>1, <2>2, <2>3 DEF DeviceTypes
<1> QED
  BY <1>2, <1>3, <1>4, <1>5, <1>6, <1>7, <1>8, <1>9, <1>10, <1>11 DEF Next, Application, Waits, Device

-----------------------------------------------------------------------------
(***************************************************************************)
(* The consents.                                                           *)
(***************************************************************************)

\* An addition that ends while the other consents are what they were when it
\* began keeps them, and a removal takes from both sides or from neither.
LEMMA ConsentStep ==
    ASSUME ManagerInv, [Next]_vars
    PROVE  ConsentInv'
<1> USE DEF queueVars, applicationVars, deviceVars
<1>0. ApplicationTypes /\ ConsentInv
  BY DEF ManagerInv
<1>1. ASSUME NEW p \in Peers, NEW outcome, AddEnds(p, outcome), clean'
      PROVE  ConsentInv'
  <2>1. adds[p] \in [target : Versions, force : BOOLEAN, others : Consents]
    BY <1>0, <1>1 DEF AddEnds, ApplicationTypes
  <2>2. adds[p].others \in Consents
    BY <2>1
  <2>3. CASE outcome = "refused"
    BY <1>0, <1>1, <2>3 DEF AddEnds, ConsentInv
  <2>4. CASE outcome # "refused"
    <3>1. /\ consents' = [adds[p].others EXCEPT ![p] = adds[p].target]
          /\ told' = [told EXCEPT ![p] = adds[p].target]
          /\ clean /\ Others(adds[p].others, p) = Others(consents, p)
      BY <1>1, <2>4 DEF AddEnds
    <3>2. \A r \in Peers \ {p} : adds[p].others[r] = consents[r]
      <4> TAKE r \in Peers \ {p}
      <4>1. Others(adds[p].others, p)[r] = adds[p].others[r] /\ Others(consents, p)[r] = consents[r]
        BY <1>0, <2>2 DEF Others, Consents, ApplicationTypes
      <4> QED
        BY <3>1, <4>1
    <3>3. consents'[p] = told'[p]
      BY <1>0, <2>2, <3>1 DEF Consents, ApplicationTypes
    <3>4. \A r \in Peers \ {p} : consents'[r] = consents[r] /\ told'[r] = told[r]
      BY <1>0, <2>2, <3>1, <3>2 DEF Consents, ApplicationTypes
    <3> QED
      BY <1>0, <3>1, <3>3, <3>4 DEF ConsentInv
  <2> QED
    BY <2>3, <2>4
<1>2. ASSUME NEW p \in Peers, NEW target, RemoveConsent(p, target)
      PROVE  ConsentInv'
  <2>1. /\ clean' = clean
        /\ consents' = IF consents[p] # None /\ target \in {None, consents[p]}
                       THEN Others(consents, p) ELSE consents
        /\ told' = IF target \in {None, told[p]} THEN Others(told, p) ELSE told
    BY <1>2 DEF RemoveConsent
  <2>2. \A f \in Consents : /\ Others(f, p)[p] = None
                            /\ \A r \in Peers \ {p} : Others(f, p)[r] = f[r]
    BY DEF Consents, Others
  <2>3. \A r \in Peers \ {p} : consents'[r] = consents[r] /\ told'[r] = told[r]
    BY <1>0, <2>1, <2>2 DEF ApplicationTypes
  <2>4. clean => consents'[p] \in {None, told'[p]}
    BY <1>0, <2>1, <2>2 DEF ApplicationTypes, ConsentInv
  <2> QED
    BY <1>0, <2>1, <2>3, <2>4 DEF ConsentInv
<1>3. ASSUME NEW p \in Peers, OnSoftwareVersionChanged(p)
      PROVE  ConsentInv'
  <2>1. consents' \in {consents, Others(consents, p)} /\ UNCHANGED <<told, clean>>
    BY <1>3 DEF OnSoftwareVersionChanged
  <2>2. \A r \in Peers : consents'[r] \in {None, consents[r]}
    BY <1>0, <2>1 DEF Others, Consents, ApplicationTypes
  <2> QED
    BY <1>0, <2>1, <2>2 DEF ConsentInv
<1>4. UNCHANGED <<consents, told, clean>> => ConsentInv'
  BY <1>0 DEF ConsentInv
<1>5. CASE NodeOnline \/ TimerFires \/ Tick \/ UNCHANGED vars
           \/ (\E p \in Peers, ok \in BOOLEAN : Announced(p, ok))
  BY <1>4, <1>5 DEF NodeOnline, TimerFires, Tick, vars, Announced
<1>6. ASSUME NEW p \in Peers,
             \/ \E target \in Versions : AddUpdateConsent(p, target) \/ ForceUpdate(p, target)
             \/ CheckBegins(p) \/ CancelEnds(p)
             \/ \E found \in Versions \cup {None} : CheckEnds(p, found)
      PROVE  ConsentInv'
  BY <1>4, <1>6 DEF AddUpdateConsent, ForceUpdate, CheckBegins, CancelEnds, CheckEnds
<1>7. CASE \E p \in Peers : Device(p)
  BY <1>4, <1>7 DEF Device, QueryImage, TransferStarts, TransferFinishes, TransferFails,
                    ApplyUpdateRequest, NotifyUpdateApplied, GivesUp, Boots
<1>8. ASSUME NEW p \in Peers, NEW outcome, AddEnds(p, outcome)
      PROVE  ConsentInv'
  BY <1>1, <1>8 DEF ConsentInv
<1> QED
  BY <1>2, <1>3, <1>5, <1>6, <1>7, <1>8 DEF Next, Application, Waits

-----------------------------------------------------------------------------
(***************************************************************************)
(* The theorems.                                                           *)
(***************************************************************************)

\* Everything is at rest, and the consents are those of an earlier run.
LEMMA ManagerInit == Init => ManagerInv
<1> SUFFICES ASSUME Init PROVE ManagerInv
  OBVIOUS
<1>1. Sound(queue, calls) /\ timer \in BOOLEAN /\ QueueIsWatched
  <2>1. queue = <<>> /\ calls = {} /\ timer = FALSE
    BY DEF Init
  <2>2. queue \in Seq(Entry) /\ DOMAIN queue = {}
    BY <2>1
  <2> QED
    BY <2>1, <2>2 DEF Sound, Distinct, PeersOf, QueueIsWatched
<1>2. ApplicationTypes
  BY BoundsAssumption DEF Init, ApplicationTypes, Consents, NoAdd, None
<1>3. DeviceTypes
  BY BoundsAssumption DEF Init, DeviceTypes, Versions, Idle, NoDetails
<1>4. ConsentInv
  BY DEF Init, ConsentInv
<1> QED
  BY <1>1, <1>2, <1>3, <1>4 DEF ManagerInv, QueueInv

\* The inductive invariant of the controller's side of the updates.
THEOREM ManagerInvariant == Spec => []ManagerInv
<1>1. ManagerInv /\ [Next]_vars => ManagerInv'
  BY QueueStep, ApplicationStep, DeviceStep, ConsentStep DEF ManagerInv
<1> QED
  BY ManagerInit, <1>1, PTL DEF Spec

\* Type correctness, with announcements under way only to peers in the queue
\* (#triggerUpdateOnNode looks at the entry again when the announcement ends).
THEOREM TypesHold == Spec => []TypeOK
<1>1. ManagerInv => TypeOK
  BY DEF ManagerInv, QueueInv, Sound, PeersOf, ApplicationTypes, DeviceTypes, TypeOK
<1> QED
  BY ManagerInvariant, <1>1, PTL

\* A device has one entry in the updateQueue, however the additions, checks and
\* forced updates that queue it meet (#queueUpdate).
THEOREM OneUpdateEach == Spec => []OneEntryPerPeer
<1>1. ManagerInv => OneEntryPerPeer
  BY DEF ManagerInv, QueueInv, Sound, Distinct, OneEntryPerPeer
<1> QED
  BY ManagerInvariant, <1>1, PTL

\* The timer that revives stalled updates runs while anything is queued.
THEOREM QueueWatched == Spec => []QueueIsWatched
<1>1. ManagerInv => QueueIsWatched
  BY DEF ManagerInv, QueueInv
<1> QED
  BY ManagerInvariant, <1>1, PTL

\* applyUpdateRequest lets a device apply only the version the application has
\* consented to and not withdrawn, unless the consent of another device was given,
\* withdrawn or used up while an addUpdateConsent waited, which saves what it read
\* before (SoftwareUpdateManager.ts:905-931).
THEOREM ConsentHonoured == Spec => AppliedAsConsented
<1> USE DEF queueVars, applicationVars, deviceVars
<1>1. ASSUME ManagerInv, [Next]_vars, NEW p \in Peers, clean,
             device'[p].step = "applying", device[p].step # "applying"
      PROVE  told[p] = device[p].to
  <2>0. DeviceTypes /\ ConsentInv /\ ApplicationTypes
    BY <1>1 DEF ManagerInv
  <2>1. \A d : \A r \in Peers : device' = [device EXCEPT ![r] = d] => r = p /\ d.step = "applying"
    BY <1>1, <2>0 DEF DeviceTypes
  <2>2. device' # device
    BY <1>1
  <2>3. Idle.step # "applying"
    BY DEF Idle
  <2>4. PICK r \in Peers : Device(r) \/ (\E target \in Versions \cup {None} : RemoveConsent(r, target))
    BY <1>1, <2>2 DEF Next, Application, Waits, vars, NodeOnline, TimerFires, Tick, Announced,
                AddUpdateConsent, ForceUpdate, AddEnds, CancelEnds, CheckBegins, CheckEnds,
                OnSoftwareVersionChanged
  <2>5. ~ \E target \in Versions \cup {None} : RemoveConsent(r, target)
    BY <2>1, <2>2, <2>3 DEF RemoveConsent, DisablePeer
  <2>6. PICK heard \in BOOLEAN : ApplyUpdateRequest(r, heard)
    BY <2>1, <2>2, <2>3, <2>4, <2>5 DEF Device, QueryImage, TransferStarts, TransferFinishes,
       TransferFails, NotifyUpdateApplied, GivesUp, Boots, Become
  <2>7. r = p /\ HasUpdateConsent(p, device[p].to)
    BY <2>1, <2>2, <2>3, <2>6 DEF ApplyUpdateRequest, Become
  <2>8. device[p].to \in Versions
    BY <2>0, <2>6, <2>7, DeviceTargets DEF ApplyUpdateRequest
  <2> QED
    BY <1>1, <2>0, <2>7, <2>8 DEF HasUpdateConsent, ConsentInv, Versions, None
<1>2. ManagerInv /\ [Next]_vars =>
        [\A p \in Peers :
           device'[p].step = "applying" /\ device[p].step # "applying" /\ clean
             => told[p] = device[p].to]_vars
  BY <1>1
<1> QED
  BY ManagerInvariant, <1>2, PTL DEF Spec, AppliedAsConsented

-----------------------------------------------------------------------------
(***************************************************************************)
(* Versions.                                                               *)
(***************************************************************************)

\* What a device has been offered, loads, has loaded or applies is newer than what
\* it runs.
Targeted == {"offered", "loading", "loaded", "applying"}
NewerInv == \A p \in Peers : device[p].step \in Targeted => device[p].to > runs[p]

\* A step of the devices moves one of them: to an image that is newer, on with the
\* image it has, back to no image, or to the version that it applies.
LEMMA DeviceMoves ==
    ASSUME ManagerInv, NewerInv, [Next]_vars
    PROVE  \/ UNCHANGED <<device, runs>>
           \/ \E p \in Peers : \E d :
                /\ device' = [device EXCEPT ![p] = d] /\ runs' = runs
                /\ d.step \in Targeted => d.to > runs[p]
           \/ \E p \in Peers :
                /\ device[p].step = "applying"
                /\ device' = [device EXCEPT ![p] = [step |-> "applied"]]
                /\ runs' = [runs EXCEPT ![p] = device[p].to]
<1> USE DEF queueVars, applicationVars, deviceVars
<1> DEFINE Applied(p) == /\ device[p].step = "applying"
                         /\ device' = [device EXCEPT ![p] = [step |-> "applied"]]
                         /\ runs' = [runs EXCEPT ![p] = device[p].to]
           Moves(p) == \E d : /\ device' = [device EXCEPT ![p] = d] /\ runs' = runs
                              /\ d.step \in Targeted => d.to > runs[p]
<1>1. Idle.step \notin Targeted
  BY DEF Idle, Targeted
<1>2. ASSUME NEW p \in Peers, device' = [device EXCEPT ![p] = Idle], runs' = runs
      PROVE  Moves(p)
  BY <1>1, <1>2
<1>3. ASSUME NEW p \in Peers, NEW d, device' = [device EXCEPT ![p] = d], runs' = runs,
             d.to > runs[p]
      PROVE  Moves(p)
  BY <1>3
<1> HIDE DEF Moves
<1>4. ASSUME \/ NodeOnline \/ TimerFires \/ Tick \/ UNCHANGED vars
             \/ \E p \in Peers :
                  \/ \E ok \in BOOLEAN : Announced(p, ok)
                  \/ \E target \in Versions : AddUpdateConsent(p, target) \/ ForceUpdate(p, target)
                  \/ CheckBegins(p) \/ Waits(p)
      PROVE  UNCHANGED <<device, runs>>
  BY <1>4 DEF NodeOnline, TimerFires, Tick, vars, Announced, AddUpdateConsent, ForceUpdate, CheckBegins,
              Waits, AddEnds, CancelEnds, CheckEnds, OnSoftwareVersionChanged
<1>5. ASSUME NEW p \in Peers,
             \/ \E target \in Versions \cup {None} : RemoveConsent(p, target)
             \/ \E cancelled \in BOOLEAN : TransferFails(p, cancelled)
             \/ NotifyUpdateApplied(p) \/ GivesUp(p)
      PROVE  UNCHANGED <<device, runs>> \/ Moves(p)
  BY <1>2, <1>5 DEF RemoveConsent, DisablePeer, TransferFails, NotifyUpdateApplied, GivesUp, Become
<1>6. ASSUME NEW p \in Peers, \E v \in Versions, enabled \in BOOLEAN : QueryImage(p, v, enabled)
      PROVE  UNCHANGED <<device, runs>> \/ Moves(p)
  <2>1. PICK v \in Versions :
          /\ v > runs[p] /\ runs' = runs
          /\ device' \in {device, [device EXCEPT ![p] = [step |-> "offered", to |-> v]]}
    BY <1>6 DEF QueryImage, UpdateExistsFor, Become
  <2> QED
    BY <1>3, <2>1
<1>7. ASSUME NEW p \in Peers, TransferStarts(p) \/ TransferFinishes(p)
      PROVE  Moves(p)
  <2>1. /\ device[p].to > runs[p] /\ runs' = runs
        /\ \E d : device' = [device EXCEPT ![p] = d] /\ d.to = device[p].to
    BY <1>7 DEF TransferStarts, TransferFinishes, Become, NewerInv, Targeted
  <2> QED
    BY <1>3, <2>1
<1>8. ASSUME NEW p \in Peers, \E heard \in BOOLEAN : ApplyUpdateRequest(p, heard)
      PROVE  UNCHANGED <<device, runs>> \/ Moves(p)
  <2>1. /\ device[p].to > runs[p] /\ runs' = runs
        /\ device' \in {device, [device EXCEPT ![p] = Idle],
                        [device EXCEPT ![p] = [step |-> "applying", to |-> device[p].to]]}
    BY <1>8 DEF ApplyUpdateRequest, Become, NewerInv, Targeted
  <2> QED
    BY <1>2, <1>3, <2>1
<1>9. ASSUME NEW p \in Peers, \E updated \in BOOLEAN : Boots(p, updated)
      PROVE  Moves(p) \/ Applied(p)
  <2>1. Applied(p) \/ (device' = [device EXCEPT ![p] = Idle] /\ runs' = runs)
    BY <1>9 DEF Boots, Become
  <2> QED
    BY <1>2, <2>1
<1> HIDE DEF Applied
<1>10. ASSUME NEW p \in Peers, Application(p) \/ Waits(p) \/ Device(p)
       PROVE  UNCHANGED <<device, runs>> \/ Moves(p) \/ Applied(p)
  BY <1>4, <1>5, <1>6, <1>7, <1>8, <1>9, <1>10 DEF Application, Device
<1>11. UNCHANGED <<device, runs>> \/ \E p \in Peers : Moves(p) \/ Applied(p)
  BY <1>4, <1>10 DEF Next
<1> QED
  BY <1>11 DEF Moves, Applied

\* So no device is ever told of, or given, a version that is not newer.
LEMMA NewerStep ==
    ASSUME ManagerInv, NewerInv, [Next]_vars
    PROVE  NewerInv'
<1>1. device \in [Peers -> {device[p] : p \in Peers}] /\ runs \in [Peers -> Versions]
  BY DEF ManagerInv, DeviceTypes
<1>2. CASE UNCHANGED <<device, runs>>
  BY <1>2 DEF NewerInv
<1>3. ASSUME NEW p \in Peers, NEW d, device' = [device EXCEPT ![p] = d], runs' = runs,
             d.step \in Targeted => d.to > runs[p]
      PROVE  NewerInv'
  <2>1. \A r \in Peers : device'[r] = IF r = p THEN d ELSE device[r]
    BY <1>1, <1>3
  <2> QED
    BY <1>3, <2>1 DEF NewerInv
<1>4. ASSUME NEW p \in Peers, device' = [device EXCEPT ![p] = [step |-> "applied"]],
             runs' = [runs EXCEPT ![p] = device[p].to]
      PROVE  NewerInv'
  <2>1. \A r \in Peers : /\ device'[r] = IF r = p THEN [step |-> "applied"] ELSE device[r]
                         /\ r # p => runs'[r] = runs[r]
    BY <1>1, <1>4
  <2>2. [step |-> "applied"].step \notin Targeted
    BY DEF Targeted
  <2> QED
    BY <2>1, <2>2 DEF NewerInv
<1> QED
  BY <1>2, <1>3, <1>4, DeviceMoves

\* A device never goes back to an older version, and comes to a newer one only by
\* an update that applyUpdateRequest has let it apply, whatever is offered,
\* cancelled, forced and lost in between (updateExistsFor, applyUpdateRequest).
THEOREM OnlyForward ==
    Spec => [][\A p \in Peers : runs'[p] # runs[p] =>
                 device[p].step = "applying" /\ runs'[p] = device[p].to /\ runs'[p] > runs[p]]_vars
<1> DEFINE Forward == \A p \in Peers : runs'[p] # runs[p] =>
                        device[p].step = "applying" /\ runs'[p] = device[p].to /\ runs'[p] > runs[p]
<1>1. Init => NewerInv
  BY DEF Init, NewerInv, Idle, Targeted
<1>2. ManagerInv /\ NewerInv /\ [Next]_vars => NewerInv'
  BY NewerStep
<1>3. ManagerInv /\ NewerInv /\ [Next]_vars => [Forward]_vars
  <2> SUFFICES ASSUME ManagerInv, NewerInv, [Next]_vars, NEW p \in Peers, runs'[p] # runs[p]
               PROVE  device[p].step = "applying" /\ runs'[p] = device[p].to /\ runs'[p] > runs[p]
    OBVIOUS
  <2>1. PICK r \in Peers : device[r].step = "applying" /\ runs' = [runs EXCEPT ![r] = device[r].to]
    BY DeviceMoves
  <2>2. r = p /\ runs'[p] = device[p].to
    BY <2>1 DEF ManagerInv, DeviceTypes
  <2> QED
    BY <2>1, <2>2 DEF NewerInv, Targeted
<1> QED
  BY <1>1, <1>2, <1>3, ManagerInvariant, PTL DEF Spec
=============================================================================
