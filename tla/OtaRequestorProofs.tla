-------------------------- MODULE OtaRequestorProofs --------------------------
(***************************************************************************)
(* Theorems about OtaRequestor, for any providers, versions and failures.  *)
(***************************************************************************)
EXTENDS OtaRequestor, SequenceTheorems, TLAPS

\* The steps of a query, and what an answer may offer.
Steps == {"off", "check", "delete", "asking", "consent", "delay", "download", "cleanup",
          "request", "applyWait", "applyDelay", "apply", "applyFile"}

IsOffer(o) == o = [from |-> o.from, to |-> o.to] /\ o.to \in Versions \cup {None}

\* The types of what decides about the file.
FileTypes ==
    /\ step \in Steps /\ second \in {"off", "check", "delete"}
    /\ IsOffer(offer)
    /\ file \in Files /\ runs \in Versions
    /\ installed \in [to : Versions \cup {None}, file : Files]

\* The file is the download of the version offered until it is deleted, partial
\* while it is downloaded and whole from then on; only a newer version is offered.
FileInv ==
    /\ FileTypes
    /\ step \in {"consent", "delay", "download", "request", "applyWait", "applyDelay"} =>
         offer.to \in Versions /\ offer.to > runs
    /\ step = "download" => file \in {NoFile, [version |-> offer.to, whole |-> FALSE]}
    /\ step \in {"request", "applyWait", "applyDelay"} =>
         file \in {NoFile, [version |-> offer.to, whole |-> TRUE]}
    /\ AppliesValidated

\* The first version and the values that stand for nothing.
LEMMA Constants ==
    /\ MaxVersion \in Nat /\ 1 \in Versions /\ Versions \subseteq Int /\ None \notin Versions
    /\ NoFile \in Files /\ NoFile.version = None /\ IsOffer(NoOffer)
    /\ NotCalled \in [to : Versions \cup {None}, file : Files]
BY BoundsAssumption DEF Versions, None, NoFile, Files, NoOffer, NotCalled, IsOffer

\* A step that leaves the file, the offer and the version alone.
LEMMA FileKept ==
    ASSUME FileInv, UNCHANGED <<file, offer, runs, installed>>, second' \in {"off", "check", "delete"},
           step' \in Steps,
           step' \in {"consent", "delay", "download", "request", "applyWait", "applyDelay"} =>
             \/ step' = step
             \/ step \in {"request", "applyWait", "applyDelay"} /\ step' # "download"
    PROVE  FileInv'
BY DEF FileInv, FileTypes, AppliesValidated, NotCalled, IsOffer

\* A query begins or has ended, with the file or without it.
LEMMA QueryOver ==
    ASSUME FileInv, file' \in {file, NoFile}, UNCHANGED <<runs, installed, second>>,
           step' \in {"off", "asking", "cleanup"}, IsOffer(offer')
    PROVE  FileInv'
BY Constants DEF FileInv, FileTypes, AppliesValidated, Steps, NotCalled, IsOffer

\* A call of applyUpdate for a valid file, or for a newer version without one.
LEMMA Applied ==
    ASSUME FileInv, NEW v \in Versions, v > runs, file \in {NoFile, [version |-> v, whole |-> TRUE]},
           installed' = [to |-> v, file |-> file], UNCHANGED <<offer, runs, file, second>>,
           step' \in {"apply", "applyFile"}
    PROVE  FileInv'
BY Constants DEF FileInv, FileTypes, AppliesValidated, Steps, NotCalled, IsOffer

\* Every step keeps it.  A second activation that has found a partial file deletes
\* whatever is there by then, so a query may lose its file at any time.
LEMMA FileStep == FileInv /\ [Next]_vars => FileInv'
<1> SUFFICES ASSUME FileInv, [Next]_vars
             PROVE  FileInv'
  OBVIOUS
<1> USE DEF timerVars, stateVars, queryVars, deviceVars, historyVars
<1>0. FileTypes
  BY DEF FileInv
<1>1. CASE Fire
  <2>1. UNCHANGED <<offer, file, runs, installed>>
        /\ second' \in {second, "check"} /\ step' \in {step, "check"}
    BY <1>1 DEF Fire
  <2> QED
    BY <1>0, <2>1, FileKept DEF FileTypes, Steps
<1>2. ASSUME BeginQuery, file' \in {file, NoFile}, UNCHANGED <<runs, second>>
      PROVE  FileInv'
  <2>1. /\ step' \in {"off", "asking"} /\ installed' = installed
        /\ \/ offer' = offer
           \/ \E p \in Candidates : offer' = [from |-> p, to |-> None]
    BY <1>2 DEF BeginQuery, Throws
  <2>2. IsOffer(offer')
    BY <1>0, <2>1 DEF IsOffer, FileTypes
  <2> QED
    BY <1>2, <2>1, <2>2, QueryOver
<1>3. CASE CheckFile
  <2>1. UNCHANGED <<second, file, runs>> /\ step = "check"
    BY <1>3 DEF CheckFile
  <2>2. CASE file = NoFile
    BY <1>2, <1>3, <2>1, <2>2 DEF CheckFile
  <2>3. CASE step' \in {"delete", "off"} /\ UNCHANGED <<offer, installed>>
    BY <1>0, <2>1, <2>3, FileKept DEF FileTypes, Steps
  <2>4. CASE file # NoFile /\ Valid(file) /\ CallApply(file.version, NoOne, "applyFile") /\ offer' = offer
    <3>1. file \in [version : Versions, whole : BOOLEAN] /\ file.whole /\ file.version > runs
      BY <1>0, <2>4 DEF FileTypes, Files, Valid
    <3>2. file.version \in Versions /\ file = [version |-> file.version, whole |-> TRUE]
      BY <3>1
    <3>3. installed' = [to |-> file.version, file |-> file] /\ step' = "applyFile"
      BY <2>4 DEF CallApply
    <3> QED
      BY <2>1, <2>4, <3>1, <3>2, <3>3, Applied
  <2> QED
    BY <1>3, <2>2, <2>3, <2>4 DEF CheckFile, Throws
<1>4. ASSUME NEW ok \in BOOLEAN, DeleteFile(ok)
      PROVE  FileInv'
  <2>1. UNCHANGED <<second, runs>>
    BY <1>4 DEF DeleteFile
  <2>2. CASE BeginQuery /\ file' = NoFile
    BY <1>2, <2>1, <2>2
  <2>3. CASE Throws /\ UNCHANGED file
    BY <1>0, <2>1, <2>3, FileKept DEF FileTypes, Steps, Throws
  <2> QED
    BY <1>4, <2>2, <2>3 DEF DeleteFile
<1>5. CASE SecondActivation
  <2>1. /\ UNCHANGED <<offer, runs, installed>> /\ second' \in {"off", "check", "delete"}
        /\ \/ step = "off" /\ step' \in {"check", "delete"} /\ file' = file
           \/ step' = step /\ file' \in {file, NoFile}
    BY <1>0, <1>5 DEF SecondActivation, FileTypes
  <2>2. step' \in Steps
    BY <1>0, <2>1 DEF FileTypes, Steps
  <2> QED
    BY <2>1, <2>2, Constants DEF FileInv, FileTypes, AppliesValidated, NotCalled, IsOffer
<1>6. CASE AnswersNo \/ MayNotAsk \/ AnswersBusy \/ ProtocolNotSupported \/ Declines
           \/ (\E keeps \in BOOLEAN : MayNotApply(keeps)) \/ (\E ok \in BOOLEAN : Cleanup(ok))
           \/ DownloadThrows \/ ApplyReturns \/ ApplyThrows
  <2>1. file' \in {file, NoFile} /\ step' = "off" /\ offer' \in {offer, NoOffer}
        /\ UNCHANGED <<runs, second, installed>>
    BY <1>6 DEF AnswersNo, MayNotAsk, AnswersBusy, ProtocolNotSupported, Declines, MayNotApply, Cleanup,
                DownloadThrows, ApplyReturns, ApplyThrows, Ends
  <2>2. IsOffer(offer')
    BY <1>0, <2>1, Constants DEF FileTypes
  <2> QED
    BY <2>1, <2>2, QueryOver
<1>7. ASSUME NEW v \in Versions, NEW next \in {"consent", "delay", "download"}, Offers(v, next)
      PROVE  FileInv'
  <2>1. /\ v > runs /\ offer' = [offer EXCEPT !.to = v] /\ step' = next
        /\ UNCHANGED <<runs, installed, second>>
        /\ file' = IF next = "download" THEN [version |-> v, whole |-> FALSE] ELSE file
    BY <1>7 DEF Offers, Proceed
  <2>2. offer' = [from |-> offer.from, to |-> v]
    BY <1>0, <2>1 DEF FileTypes, IsOffer
  <2> QED
    BY <1>0, <2>1, <2>2, Constants
       DEF FileInv, FileTypes, AppliesValidated, Steps, IsOffer, Files, NotCalled
<1>8. ASSUME step \in {"consent", "delay"}, UNCHANGED <<offer, runs, installed, second>>,
             NEW next \in {"delay", "download"}, NEW s, Proceed(next, s, offer.to)
      PROVE  FileInv'
  <2>1. step' = next /\ file' = IF next = "download" THEN [version |-> offer.to, whole |-> FALSE] ELSE file
    BY <1>8 DEF Proceed
  <2> QED
    BY <1>0, <1>8, <2>1, Constants
       DEF FileInv, FileTypes, AppliesValidated, Steps, IsOffer, Files, NotCalled
<1>9. ASSUME NEW next \in {"delay", "download"}, Consents(next)
      PROVE  FileInv'
  BY <1>8, <1>9 DEF Consents
<1>10. ASSUME NEW next \in {"delay", "download"}, ConsentFails(next)
       PROVE  FileInv'
  BY <1>8, <1>10 DEF ConsentFails
<1>11. CASE DelayEnds
  BY <1>8, <1>11 DEF DelayEnds
<1>12. CASE DownloadEnds
  <2>1. /\ step = "download" /\ file # NoFile /\ file' = [file EXCEPT !.whole = TRUE] /\ step' = "request"
        /\ UNCHANGED <<offer, second, runs, installed>>
    BY <1>12 DEF DownloadEnds
  <2>2. file = [version |-> offer.to, whole |-> FALSE]
    BY <2>1 DEF FileInv
  <2>3. file' = [version |-> offer.to, whole |-> TRUE]
    BY <2>1, <2>2
  <2> QED
    BY <1>0, <2>1, <2>3, Constants
       DEF FileInv, FileTypes, AppliesValidated, Steps, IsOffer, Files, NotCalled
<1>13. CASE DownloadFails
  <2>1. step' = "cleanup" /\ UNCHANGED <<offer, second, runs, file, installed>>
    BY <1>13 DEF DownloadFails
  <2> QED
    BY <1>0, <2>1, QueryOver DEF FileTypes
<1>14. CASE MayApply
  <2>1. /\ step \in {"request", "applyDelay"} /\ installed' = [to |-> offer.to, file |-> file]
        /\ step' = "apply" /\ UNCHANGED <<offer, second, runs, file>>
    BY <1>14 DEF MayApply, CallApply
  <2> QED
    BY <2>1, Applied DEF FileInv
<1>15. CASE (\E next \in {"applyWait", "applyDelay"} : MustWait(next)) \/ AsksAgain
  <2>1. /\ step \in {"request", "applyWait"} /\ step' \in {"applyWait", "applyDelay", "request"}
        /\ UNCHANGED <<offer, second, runs, file, installed>>
    BY <1>15 DEF MustWait, AsksAgain
  <2> QED
    BY <1>0, <2>1, FileKept DEF FileTypes, Steps
<1>16. CASE \/ \E p \in Providers : AnnounceBegins(p) \/ SetDefault(p) \/ ClearDefault(p)
            \/ (\E urgent \in BOOLEAN : AnnounceEnds(urgent)) \/ AnnounceFails
            \/ Commissioned \/ TogglePossible \/ GoOffline \/ GoOnline
            \/ UNCHANGED vars
  <2>1. UNCHANGED <<step, second, offer, file, runs, installed>>
    BY <1>16 DEF AnnounceBegins, SetDefault, ClearDefault, AnnounceEnds, AnnounceFails, Commissioned,
                 TogglePossible, GoOffline, GoOnline, vars
  <2> QED
    BY <1>0, <2>1, FileKept DEF FileTypes
<1>17. CASE Restart
  <2>1. /\ step' = "off" /\ second' = "off" /\ offer' = NoOffer /\ file' = file /\ installed' = NotCalled
        /\ runs' \in {runs} \cup ({installed.to} \ {None})
    BY <1>17 DEF Restart
  <2>2. runs' \in Versions
    BY <1>0, <2>1 DEF FileTypes
  <2> QED
    BY <1>0, <2>1, <2>2, Constants DEF FileInv, FileTypes, AppliesValidated, Steps
<1> QED
  BY <1>1, <1>3, <1>4, <1>5, <1>6, <1>7, <1>9, <1>10, <1>11, <1>12, <1>13, <1>14, <1>15, <1>16, <1>17
     DEF Next, Query, Announce

\* A device starts without a file.
LEMMA FileInit == Init => FileInv
BY Constants DEF Init, FileInv, FileTypes, AppliesValidated, Steps

\* The file and the version keep their meaning in every state.
THEOREM FileInvariant == Spec => []FileInv
BY FileInit, FileStep, PTL DEF Spec

\* applyUpdate is called for a newer version only, and finds the whole image of
\* that version or none, for all providers, versions and failures
\* (OtaSoftwareUpdateRequestorServer.ts, #performUpdateQuery to #triggerApplyUpdate).
THEOREM OnlyValidatedApplied == Spec => []AppliesValidated
<1>1. FileInv => AppliesValidated
  BY DEF FileInv
<1> QED
  BY <1>1, FileInvariant, PTL

\* A device never goes back to an older version, and comes to a newer one only by
\* what applyUpdate was called with, whatever is queried, interrupted and restarted.
THEOREM OnlyForward == Spec => [][runs' # runs => runs' = installed.to /\ runs' > runs]_vars
<1>1. ASSUME FileInv, [Next]_vars, runs' # runs
      PROVE  runs' = installed.to /\ runs' > runs
  <2> USE DEF timerVars, stateVars, queryVars, deviceVars, historyVars
  <2>1. Restart
    BY <1>1 DEF Next, Query, Announce, vars, Fire, SecondActivation, BeginQuery, CheckFile, DeleteFile,
       AnswersNo, MayNotAsk, AnswersBusy, ProtocolNotSupported, Declines, Cleanup, MayNotApply, Offers,
       Consents, ConsentFails, DelayEnds, DownloadEnds, DownloadFails, DownloadThrows, MayApply, AsksAgain, MustWait,
       ApplyReturns, ApplyThrows, AnnounceBegins, AnnounceEnds, AnnounceFails, SetDefault, ClearDefault,
       Commissioned, TogglePossible, GoOffline, GoOnline, CallApply
  <2>2. runs' = installed.to /\ installed.to # None
    BY <1>1, <2>1 DEF Restart
  <2>3. installed # NotCalled
    BY <2>2 DEF NotCalled
  <2> QED
    BY <1>1, <2>2, <2>3 DEF FileInv, AppliesValidated
<1>2. FileInv /\ [Next]_vars => [runs' # runs => runs' = installed.to /\ runs' > runs]_vars
  BY <1>1
<1> QED
  BY <1>2, FileInvariant, PTL DEF Spec

-----------------------------------------------------------------------------
(***************************************************************************)
(* The attributes.                                                         *)
(***************************************************************************)

\* The attributes of a device: no provider is listed twice.
WellFormed(s) ==
    s \in Attributes /\ IsInjective(s.asked) /\ s.fresh \cap ToSet(s.asked) = {}

Updates == {"Idle", "Querying", "DelayedOnQuery", "DelayedOnUserConsent", "Downloading",
            "Applying", "DelayedOnApply"}
Details == {NoDetails} \cup [to : Versions, from : Providers \cup {NoOne}]
Timings == {"undefined", "stopped", "running"}

\* What RemoveAt leaves.
LEMMA RemoveAtFacts ==
    ASSUME NEW S, NEW s \in Seq(S), NEW i \in 1 .. Len(s)
    PROVE  /\ RemoveAt(s, i) \in Seq(S) /\ Len(RemoveAt(s, i)) = Len(s) - 1
           /\ \A j \in 1 .. Len(s) - 1 : RemoveAt(s, i)[j] = IF j < i THEN s[j] ELSE s[j + 1]
<1> DEFINE a == SubSeq(s, 1, i - 1)
           b == SubSeq(s, i + 1, Len(s))
<1>1. Len(s) \in Nat
  BY LenProperties
<1>2. /\ a \in Seq(S) /\ Len(a) = i - 1
      /\ \A j \in 1 .. i - 1 : a[j] = s[j]
  BY <1>1, SubSeqProperties
<1>3. /\ b \in Seq(S) /\ Len(b) = Len(s) - i
      /\ \A j \in 1 .. Len(s) - i : b[j] = s[j + i]
  BY <1>1, SubSeqProperties
<1>4. RemoveAt(s, i) = a \o b
  BY DEF RemoveAt
<1> HIDE DEF a, b
<1>5. /\ a \o b \in Seq(S) /\ Len(a \o b) = Len(a) + Len(b)
      /\ \A j \in 1 .. Len(a) + Len(b) : (a \o b)[j] = IF j <= Len(a) THEN a[j] ELSE b[j - Len(a)]
  BY <1>2, <1>3, ConcatProperties
<1>6. Len(a) + Len(b) = Len(s) - 1
  BY <1>1, <1>2, <1>3
<1>7. \A j \in 1 .. Len(s) - 1 : (a \o b)[j] = IF j < i THEN s[j] ELSE s[j + 1]
  BY <1>1, <1>2, <1>3, <1>5, <1>6
<1> QED
  BY <1>4, <1>5, <1>6, <1>7

\* A provider that is removed from the list is the only one that goes.
LEMMA WithoutFacts ==
    ASSUME NEW seq \in Seq(Providers), IsInjective(seq), NEW p \in Providers
    PROVE  /\ Without(seq, p) \in Seq(Providers) /\ IsInjective(Without(seq, p))
           /\ ToSet(Without(seq, p)) \subseteq ToSet(seq) \ {p}
<1>0. DOMAIN seq = 1 .. Len(seq) /\ Len(seq) \in Nat
  BY LenProperties
<1>1. CASE p \notin ToSet(seq)
  BY <1>1 DEF Without
<1>2. CASE p \in ToSet(seq)
  <2>1. PICK i \in 1 .. Len(seq) : seq[i] = p /\ Without(seq, p) = RemoveAt(seq, i)
    BY <1>0, <1>2 DEF Without, ToSet
  <2>2. /\ RemoveAt(seq, i) \in Seq(Providers) /\ Len(RemoveAt(seq, i)) = Len(seq) - 1
        /\ \A j \in 1 .. Len(seq) - 1 : RemoveAt(seq, i)[j] = IF j < i THEN seq[j] ELSE seq[j + 1]
    BY RemoveAtFacts
  <2>3. DOMAIN RemoveAt(seq, i) = 1 .. Len(seq) - 1
    BY <2>2, LenProperties
  <2>4. \A j, k \in 1 .. Len(seq) : seq[j] = seq[k] => j = k
    BY <1>0 DEF IsInjective
  <2>5. \A j \in 1 .. Len(seq) - 1 :
          \E k \in 1 .. Len(seq) : k # i /\ RemoveAt(seq, i)[j] = seq[k] /\ k = IF j < i THEN j ELSE j + 1
    BY <1>0, <2>2
  <2>6. IsInjective(RemoveAt(seq, i))
    <3> SUFFICES ASSUME NEW j \in 1 .. Len(seq) - 1, NEW k \in 1 .. Len(seq) - 1,
                        RemoveAt(seq, i)[j] = RemoveAt(seq, i)[k]
                 PROVE  j = k
      BY <2>3 DEF IsInjective
    <3>1. PICK m \in 1 .. Len(seq) : RemoveAt(seq, i)[j] = seq[m] /\ m = IF j < i THEN j ELSE j + 1
      BY <2>5
    <3>2. PICK n \in 1 .. Len(seq) : RemoveAt(seq, i)[k] = seq[n] /\ n = IF k < i THEN k ELSE k + 1
      BY <2>5
    <3>3. m = n
      BY <2>4, <3>1, <3>2
    <3> QED
      BY <1>0, <3>1, <3>2, <3>3
  <2>7. \A j \in 1 .. Len(seq) - 1 : RemoveAt(seq, i)[j] \in ToSet(seq) \ {p}
    BY <1>0, <2>1, <2>4, <2>5 DEF ToSet
  <2>8. ToSet(RemoveAt(seq, i)) \subseteq ToSet(seq) \ {p}
    BY <2>3, <2>7 DEF ToSet
  <2> QED
    BY <2>1, <2>2, <2>6, <2>8
<1> QED
  BY <1>1, <1>2

\* A provider that is appended is one more.
LEMMA AppendFacts ==
    ASSUME NEW seq \in Seq(Providers), IsInjective(seq), NEW p \in Providers, p \notin ToSet(seq)
    PROVE  /\ Append(seq, p) \in Seq(Providers) /\ IsInjective(Append(seq, p))
           /\ ToSet(Append(seq, p)) = ToSet(seq) \cup {p}
<1>1. DOMAIN seq = 1 .. Len(seq) /\ Len(seq) \in Nat
  BY LenProperties
<1>2. /\ Append(seq, p) \in Seq(Providers) /\ Len(Append(seq, p)) = Len(seq) + 1
      /\ \A i \in 1 .. Len(seq) : Append(seq, p)[i] = seq[i]
      /\ Append(seq, p)[Len(seq) + 1] = p
  BY AppendProperties
<1>3. DOMAIN Append(seq, p) = 1 .. Len(seq) + 1
  BY <1>2, LenProperties
<1>4. \A i \in 1 .. Len(seq) : seq[i] # p
  BY <1>1 DEF ToSet
<1>5. IsInjective(Append(seq, p))
  BY <1>1, <1>2, <1>3, <1>4 DEF IsInjective
<1>6. ToSet(Append(seq, p)) = ToSet(seq) \cup {p}
  BY <1>1, <1>2, <1>3 DEF ToSet
<1> QED
  BY <1>2, <1>5, <1>6

\* What the writes of the attributes leave.
LEMMA Added ==
    ASSUME NEW s, WellFormed(s), NEW p \in Providers
    PROVE  /\ WellFormed(Add(s, p)) /\ Active(Add(s, p)) # {}
           /\ Add(s, p).update = s.update /\ Add(s, p).details = s.details
<1>1. s \in Attributes /\ s.asked \in Seq(Providers)
  BY DEF WellFormed, Attributes
<1>2. /\ Without(s.asked, p) \in Seq(Providers) /\ IsInjective(Without(s.asked, p))
      /\ ToSet(Without(s.asked, p)) \subseteq ToSet(s.asked) \ {p}
  BY <1>1, WithoutFacts DEF WellFormed
<1>3. Add(s, p) \in Attributes
  BY <1>1, <1>2 DEF Add, Attributes
<1>4. /\ Add(s, p).fresh = s.fresh \cup {p} /\ Add(s, p).asked = Without(s.asked, p)
      /\ Add(s, p).update = s.update /\ Add(s, p).details = s.details
  BY <1>1 DEF Add, Attributes
<1> QED
  BY <1>2, <1>3, <1>4 DEF WellFormed, Active

LEMMA Marked ==
    ASSUME NEW s, WellFormed(s), NEW p \in Providers
    PROVE  WellFormed(Mark(s, p))
<1>1. s \in Attributes /\ s.asked \in Seq(Providers)
  BY DEF WellFormed, Attributes
<1>2. /\ Without(s.asked, p) \in Seq(Providers) /\ IsInjective(Without(s.asked, p))
      /\ ToSet(Without(s.asked, p)) \subseteq ToSet(s.asked) \ {p}
  BY <1>1, WithoutFacts DEF WellFormed
<1> DEFINE q == Append(Without(s.asked, p), p)
<1>3. q \in Seq(Providers) /\ IsInjective(q) /\ ToSet(q) \subseteq ToSet(s.asked) \cup {p}
  BY <1>2, AppendFacts
<1>4. Mark(s, p) = [s EXCEPT !.fresh = s.fresh \ {p}, !.asked = q]
  BY DEF Mark
<1> HIDE DEF q
<1>5. Mark(s, p) \in Attributes
  BY <1>1, <1>3, <1>4 DEF Attributes
<1>6. Mark(s, p).fresh = s.fresh \ {p} /\ Mark(s, p).asked = q
  BY <1>1, <1>4 DEF Attributes
<1> QED
  BY <1>3, <1>5, <1>6 DEF WellFormed

LEMMA Forgot ==
    ASSUME NEW s, WellFormed(s), NEW p \in Providers
    PROVE  WellFormed(Forget(s, p))
<1>1. s \in Attributes /\ s.asked \in Seq(Providers)
  BY DEF WellFormed, Attributes
<1>2. /\ Without(s.asked, p) \in Seq(Providers) /\ IsInjective(Without(s.asked, p))
      /\ ToSet(Without(s.asked, p)) \subseteq ToSet(s.asked) \ {p}
  BY <1>1, WithoutFacts DEF WellFormed
<1>3. Forget(s, p) \in Attributes
  BY <1>1, <1>2 DEF Forget, Attributes
<1>4. Forget(s, p).fresh = s.fresh \ {p} /\ Forget(s, p).asked = Without(s.asked, p)
  BY <1>1 DEF Forget, Attributes
<1> QED
  BY <1>2, <1>3, <1>4 DEF WellFormed

LEMMA Became ==
    ASSUME NEW s, WellFormed(s), NEW u \in Updates
    PROVE  /\ WellFormed(Becomes(s, u)) /\ Active(Becomes(s, u)) = Active(s)
           /\ Becomes(s, u).update = u /\ Becomes(s, u).details = s.details
<1>1. s \in Attributes
  BY DEF WellFormed
<1>2. Becomes(s, u) \in Attributes
  BY <1>1 DEF Becomes, Attributes, Updates
<1>3. /\ Becomes(s, u).fresh = s.fresh /\ Becomes(s, u).asked = s.asked
      /\ Becomes(s, u).update = u /\ Becomes(s, u).details = s.details
  BY <1>1 DEF Becomes, Attributes
<1> QED
  BY <1>2, <1>3 DEF WellFormed, Active

LEMMA Detailed ==
    ASSUME NEW s, WellFormed(s), NEW d \in Details
    PROVE  LET n == [s EXCEPT !.details = d]
           IN  WellFormed(n) /\ Active(n) = Active(s) /\ n.update = s.update /\ n.details = d
<1> DEFINE n == [s EXCEPT !.details = d]
<1>1. s \in Attributes
  BY DEF WellFormed
<1>2. n \in Attributes
  BY <1>1 DEF Attributes, Details
<1>3. n.fresh = s.fresh /\ n.asked = s.asked /\ n.update = s.update /\ n.details = d
  BY <1>1 DEF Attributes
<1> HIDE DEF n
<1>4. WellFormed(n) /\ Active(n) = Active(s)
  BY <1>2, <1>3 DEF WellFormed, Active
<1> QED
  BY <1>3, <1>4 DEF n

LEMMA Defaulted ==
    ASSUME NEW s, WellFormed(s), NEW d \in SUBSET Providers
    PROVE  LET n == [s EXCEPT !.defaults = d]
           IN  WellFormed(n) /\ Active(n) = Active(s) /\ n.update = s.update /\ n.details = s.details
<1> DEFINE n == [s EXCEPT !.defaults = d]
<1>1. s \in Attributes
  BY DEF WellFormed
<1>2. n \in Attributes
  BY <1>1 DEF Attributes
<1>3. n.fresh = s.fresh /\ n.asked = s.asked /\ n.update = s.update /\ n.details = s.details
  BY <1>1 DEF Attributes
<1> HIDE DEF n
<1>4. WellFormed(n) /\ Active(n) = Active(s)
  BY <1>2, <1>3 DEF WellFormed, Active
<1> QED
  BY <1>3, <1>4 DEF n

\* Without active providers the default ones are added.
LEMMA Refreshed ==
    ASSUME NEW s, WellFormed(s), Active(s) = {}
    PROVE  LET n == [s EXCEPT !.fresh = s.fresh \cup s.defaults]
           IN  WellFormed(n) /\ n.update = s.update /\ n.details = s.details
<1> DEFINE n == [s EXCEPT !.fresh = s.fresh \cup s.defaults]
<1>1. s \in Attributes /\ s.defaults \subseteq Providers /\ s.fresh \subseteq Providers
  BY DEF WellFormed, Attributes
<1>2. n \in Attributes
  BY <1>1 DEF Attributes
<1>3. n.asked = s.asked /\ n.update = s.update /\ n.details = s.details
  BY <1>1 DEF Attributes
<1> HIDE DEF n
<1>4. ToSet(n.asked) = {}
  BY <1>3 DEF Active
<1>5. WellFormed(n)
  BY <1>2, <1>3, <1>4 DEF WellFormed
<1> QED
  BY <1>3, <1>5 DEF n

-----------------------------------------------------------------------------
(***************************************************************************)
(* The lock and the timer.                                                 *)
(***************************************************************************)

\* Where a query is before it holds the lock.
Waits == {"off", "check", "delete"}

OwnTypes ==
    /\ possible \in BOOLEAN /\ online \in BOOLEAN /\ stranded \in BOOLEAN
    /\ timer \in Timings /\ selected \in Providers \cup {NoOne}
    /\ retries \in 0 .. MaxRetries + 1 /\ faults \in 0 .. MaxFaults
    /\ WellFormed(state) /\ WellFormed(saved)
    /\ lock \in {"free", "query"} \cup Providers
    /\ offer.from \in Providers \cup {NoOne}

\* A query holds the lock from its first write to its end, and what is written
\* differs from what is saved only under the lock.
LockInv ==
    /\ (lock = "query") <=> step \notin Waits
    /\ lock = "free" => state = saved
    /\ lock \in Providers => state = Add(saved, lock)
    /\ step \notin Waits \cup {"applyFile"} => offer.from \in Providers

\* An update that was left unfinished is one to a newer version, or the node has
\* been online since.
Unfinished == saved.update # "Idle"
DetailsInv ==
    /\ Unfinished => saved.details = NoDetails \/ saved.details.to > runs
    /\ step = "applyFile" => state.details.to > runs

\* Without a provider nothing is scheduled, which is no harm: the first one that
\* comes finds the state idle.  A device that has providers has its timer.
TimerInv ==
    /\ timer = "running" => possible
    /\ Unfinished /\ Active(saved) = {} =>
         /\ lock # "query" => stranded
         /\ step \in Waits \cup {"applyFile"} /\ saved.details = NoDetails => timer # "running"
    /\ step = "off" /\ second = "off" /\ possible /\ online /\ ~stranded =>
         timer = "running" \/ (Active(saved) = {} /\ timer = "undefined")

Own == OwnTypes /\ LockInv /\ DetailsInv /\ TimerInv
ReqInv == FileInv /\ Own

\* The values that stand for something else.
LEMMA Sentinels ==
    /\ "free" \notin Providers /\ "query" \notin Providers
    /\ NoDetails \in Details /\ NoDetails.to = 0 /\ NoOffer.from = NoOne
    /\ \A v \in Versions : v \in Int /\ v > 0
    /\ \A d \in Details : d # NoDetails => d.to \in Versions /\ d.from \in Providers \cup {NoOne}
    /\ 0 \in 0 .. MaxRetries + 1 /\ 1 \in 0 .. MaxRetries + 1
BY ProvidersAssumption, BoundsAssumption DEF NoDetails, Details, NoOffer, None, Versions

LEMMA Spent ==
    ASSUME OwnTypes, faults' = faults \/ Fault
    PROVE  faults' \in 0 .. MaxFaults
<1>1. faults' = faults \/ (faults > 0 /\ faults' = faults - 1)
  BY DEF Fault
<1> QED
  BY <1>1, BoundsAssumption DEF OwnTypes

LEMMA DetailsAre ==
    ASSUME NEW s, WellFormed(s)
    PROVE  s.details \in Details /\ s.update \in Updates /\ s.defaults \subseteq Providers
BY DEF WellFormed, Attributes, Details, Updates

\* What #scheduleUpdateQuery makes of a timer.
LEMMA Scheduled ==
    ASSUME OwnTypes, NEW s, NEW t \in Timings
    PROVE  /\ ScheduleSoon(s) \in {"undefined", "running"}
           /\ ScheduleSoon(s) = "running" <=> possible /\ Active(s) # {}
           /\ Schedule(t, s) \in {"undefined", "running"}
           /\ t = "running" => Schedule(t, s) = "running"
           /\ t # "running" => (Schedule(t, s) = "running" <=> s.update = "Idle" /\ possible /\ Active(s) # {})
BY DEF ScheduleSoon, Schedule, OwnTypes

\* A query that ends has its successor scheduled.
LEMMA EndKept ==
    ASSUME ReqInv, NEW s, WellFormed(s), NEW t \in Timings, t = "running" => possible,
           Ends(s, t), selected' \in Providers \cup {NoOne}, faults' = faults \/ Fault,
           UNCHANGED <<possible, online>>
    PROVE  Own'
<1> DEFINE i == Becomes(s, "Idle")
<1>1. WellFormed(i) /\ Active(i) = Active(s) /\ i.update = "Idle"
  BY Became DEF Updates
<1>2. /\ state' = i /\ saved' = i /\ timer' = Schedule(t, i) /\ retries' = 0
      /\ lock' = "free" /\ step' = "off" /\ offer' = NoOffer /\ stranded' = FALSE
  BY DEF Ends, ResetToIdle
<1> HIDE DEF i
<1>3. /\ timer' \in {"undefined", "running"}
      /\ timer' = "running" <=> t = "running" \/ (possible /\ Active(i) # {})
  BY <1>1, <1>2, Scheduled DEF ReqInv, Own
<1>4. OwnTypes'
  BY <1>1, <1>2, <1>3, Sentinels, Spent DEF ReqInv, Own, OwnTypes, Timings
<1>5. LockInv'
  BY <1>2, Sentinels DEF LockInv, Waits
<1>6. DetailsInv'
  BY <1>1, <1>2 DEF DetailsInv, Unfinished
<1>7. TimerInv'
  BY <1>1, <1>2, <1>3 DEF TimerInv, Unfinished
<1> QED
  BY <1>4, <1>5, <1>6, <1>7 DEF Own

\* A step within a query touches nothing that is saved.
LEMMA WithinKept ==
    ASSUME ReqInv, step \notin Waits \cup {"applyFile"}, step' \notin Waits \cup {"applyFile"},
           WellFormed(state'), timer' \in Timings, timer' = "running" => possible,
           retries' \in {retries, 0}, faults' = faults \/ Fault, offer'.from = offer.from,
           UNCHANGED <<possible, online, selected, saved, lock, runs, stranded>>
    PROVE  Own'
<1>1. OwnTypes'
  BY Sentinels, Spent DEF ReqInv, Own, OwnTypes
<1>2. LockInv'
  BY Sentinels DEF ReqInv, Own, LockInv
<1>3. DetailsInv'
  BY DEF ReqInv, Own, DetailsInv, Unfinished
<1>4. TimerInv'
  BY <1>2 DEF ReqInv, Own, TimerInv, LockInv, Unfinished, Waits
<1> QED
  BY <1>1, <1>2, <1>3, <1>4 DEF Own

\* Every answer but an offer ends the query, and so does the end of the update.
LEMMA AnswerKept ==
    ASSUME ReqInv,
           \/ AnswersNo \/ MayNotAsk \/ AnswersBusy \/ ProtocolNotSupported \/ Declines
           \/ (\E ok \in BOOLEAN : Cleanup(ok)) \/ (\E keeps \in BOOLEAN : MayNotApply(keeps))
           \/ DownloadThrows
           \/ step = "apply" /\ (ApplyReturns \/ ApplyThrows)
    PROVE  Own'
<1> USE DEF deviceVars
<1>1. /\ timer \in Timings /\ (timer = "running" => possible)
      /\ WellFormed(state) /\ selected \in Providers \cup {NoOne}
  BY DEF ReqInv, Own, OwnTypes, TimerInv
<1>2. ASSUME step \notin Waits \cup {"applyFile"}
      PROVE  /\ offer.from \in Providers
             /\ WellFormed(Mark(state, offer.from)) /\ WellFormed(Forget(state, offer.from))
  <2>1. offer.from \in Providers
    BY <1>2 DEF ReqInv, Own, LockInv
  <2> QED
    BY <1>1, <2>1, Marked, Forgot
<1>3. ASSUME NEW s, s \in {state, Mark(state, offer.from), Forget(state, offer.from)},
             step \notin Waits \cup {"applyFile"}, Ends(s, timer), UNCHANGED selected,
             faults' = faults \/ Fault, UNCHANGED <<possible, online>>
      PROVE  Own'
  <2>1. WellFormed(s)
    BY <1>1, <1>2, <1>3
  <2> QED
    BY <1>1, <1>3, <2>1, EndKept
<1>4. CASE AnswersNo \/ MayNotAsk \/ ProtocolNotSupported \/ Declines \/ DownloadThrows
  BY <1>3, <1>4 DEF AnswersNo, MayNotAsk, ProtocolNotSupported, Declines, DownloadThrows, Waits
<1>5. CASE AnswersBusy
  <2>1. CASE retries <= MaxRetries
    <3>1. /\ Ends(state, ScheduleSoon(state)) /\ selected' = offer.from /\ step = "asking"
          /\ UNCHANGED <<possible, online, faults>>
      BY <1>5, <2>1 DEF AnswersBusy
    <3>2. ScheduleSoon(state) \in Timings /\ (ScheduleSoon(state) = "running" => possible)
      BY DEF ScheduleSoon, Timings
    <3>3. offer.from \in Providers
      BY <1>2, <3>1 DEF Waits
    <3> QED
      BY <1>1, <3>1, <3>2, <3>3, EndKept
  <2>2. CASE ~(retries <= MaxRetries)
    BY <1>3, <1>5, <2>2 DEF AnswersBusy, Waits
  <2> QED
    BY <2>1, <2>2
<1>6. ASSUME NEW ok \in BOOLEAN, Cleanup(ok)
      PROVE  Own'
  BY <1>3, <1>6 DEF Cleanup, Waits
<1>7. ASSUME NEW keeps \in BOOLEAN, MayNotApply(keeps)
      PROVE  Own'
  BY <1>3, <1>7 DEF MayNotApply, Waits
<1>8. CASE step = "apply" /\ (ApplyReturns \/ ApplyThrows)
  BY <1>3, <1>8 DEF ApplyReturns, ApplyThrows, Waits
<1> QED
  BY <1>4, <1>5, <1>6, <1>7, <1>8

\* An offer and what comes of it, up to the call of applyUpdate.
LEMMA OfferKept ==
    ASSUME ReqInv,
           \/ \E v \in Versions, next \in {"consent", "delay", "download"} : Offers(v, next)
           \/ \E next \in {"delay", "download"} : Consents(next) \/ ConsentFails(next)
           \/ DelayEnds \/ DownloadEnds \/ DownloadFails \/ MayApply \/ AsksAgain
           \/ \E next \in {"applyWait", "applyDelay"} : MustWait(next)
    PROVE  Own'
<1> USE DEF timerVars, deviceVars, historyVars
<1>1. /\ timer \in Timings /\ (timer = "running" => possible) /\ WellFormed(state)
  BY DEF ReqInv, Own, OwnTypes, TimerInv
<1>2. \A u \in Updates : WellFormed(Becomes(state, u))
  BY <1>1, Became
<1>3. step \notin Waits \cup {"applyFile"} => offer.from \in Providers
  BY DEF ReqInv, Own, LockInv
<1>4. ASSUME NEW next \in {"delay", "download"}, NEW s, NEW v, WellFormed(s), Proceed(next, s, v)
      PROVE  WellFormed(state') /\ step' \notin Waits \cup {"applyFile"}
  <2>1. state' \in {Becomes(s, "DelayedOnQuery"), Becomes(s, "Downloading")} /\ step' = next
    BY <1>4 DEF Proceed
  <2> QED
    BY <1>4, <2>1, Became DEF Updates, Waits
<1>5. ASSUME NEW v \in Versions, NEW next \in {"consent", "delay", "download"}, Offers(v, next)
      PROVE  Own'
  <2>1. /\ step = "asking" /\ UNCHANGED faults /\ offer' = [offer EXCEPT !.to = v]
        /\ UNCHANGED <<timerVars, saved, lock, possible, online, runs, historyVars>>
    BY <1>5 DEF Offers
  <2>2. offer'.from = offer.from
    BY <2>1 DEF ReqInv, FileInv, FileTypes, IsOffer
  <2>3. WellFormed(state') /\ step' \notin Waits \cup {"applyFile"}
    <3>1. CASE next = "consent"
      BY <1>2, <1>5, <3>1 DEF Offers, Goes, Updates, Waits
    <3>2. CASE next # "consent"
      BY <1>1, <1>4, <1>5, <3>2 DEF Offers
    <3> QED
      BY <3>1, <3>2
  <2> QED
    BY <1>1, <2>1, <2>2, <2>3, WithinKept DEF Waits
<1>6. ASSUME NEW next \in {"delay", "download"}, Consents(next) \/ (next = "download" /\ DelayEnds)
      PROVE  Own'
  <2>1. /\ step \in {"consent", "delay"} /\ Proceed(next, state, offer.to)
        /\ UNCHANGED <<timerVars, saved, lock, offer, possible, online, runs, faults, historyVars>>
    BY <1>6 DEF Consents, DelayEnds
  <2>2. WellFormed(state') /\ step' \notin Waits \cup {"applyFile"}
    BY <1>1, <1>4, <2>1
  <2> QED
    BY <1>1, <2>1, <2>2, WithinKept DEF Waits
<1>7. ASSUME NEW next \in {"delay", "download"}, ConsentFails(next)
      PROVE  Own'
  <2> DEFINE s == Becomes(Mark(state, offer.from), "Idle")
  <2>1. /\ step = "consent" /\ Fault /\ timer' = Schedule(timer, s) /\ retries' = 0
        /\ Proceed(next, s, offer.to)
        /\ UNCHANGED <<selected, saved, lock, offer, possible, online, runs, historyVars>>
    BY <1>7 DEF ConsentFails
  <2>2. WellFormed(s)
    BY <1>1, <1>3, <2>1, Marked, Became DEF Updates, Waits
  <2> HIDE DEF s
  <2>3. WellFormed(state') /\ step' \notin Waits \cup {"applyFile"}
    BY <1>4, <2>1, <2>2
  <2>4. timer' \in Timings /\ (timer' = "running" => possible)
    BY <1>1, <2>1, Scheduled DEF ReqInv, Own, Timings
  <2> QED
    BY <2>1, <2>3, <2>4, WithinKept DEF Waits
<1>8. CASE DownloadEnds \/ AsksAgain \/ \E next \in {"applyWait", "applyDelay"} : MustWait(next)
  <2>1. /\ step \in {"download", "applyWait", "request"}
        /\ step' \in {"request", "applyWait", "applyDelay"}
        /\ faults' = faults \/ Fault
        /\ UNCHANGED <<timerVars, saved, lock, offer, possible, online, runs, historyVars>>
    BY <1>8 DEF DownloadEnds, AsksAgain, MustWait
  <2>2. WellFormed(state')
    BY <1>2, <1>8 DEF DownloadEnds, AsksAgain, MustWait, Goes, Updates
  <2> QED
    BY <1>1, <2>1, <2>2, WithinKept DEF Waits
<1>9. CASE DownloadFails
  <2>1. /\ step = "download" /\ step' = "cleanup" /\ (faults' = faults \/ Fault)
        /\ state' = Becomes(state, "Idle") /\ retries' = 0
        /\ timer' = Schedule(timer, Becomes(state, "Idle"))
        /\ UNCHANGED <<selected, saved, lock, offer, possible, online, runs, historyVars>>
    BY <1>9 DEF DownloadFails, ResetToIdle
  <2>2. WellFormed(state')
    BY <1>2, <2>1 DEF Updates
  <2>3. timer' \in Timings /\ (timer' = "running" => possible)
    BY <1>1, <2>1, Scheduled DEF ReqInv, Own, Timings
  <2> QED
    BY <2>1, <2>2, <2>3, WithinKept DEF Waits
<1>10. CASE MayApply
  <2> DEFINE d == [to |-> offer.to, from |-> offer.from]
             s == [state EXCEPT !.details = d]
  <2>1. /\ step \in {"request", "applyDelay"} /\ step' = "apply"
        /\ state' = Becomes(s, "Applying")
        /\ UNCHANGED <<timerVars, saved, lock, offer, possible, online, runs, faults, stranded>>
    BY <1>10 DEF MayApply, CallApply
  <2>2. offer.to \in Versions /\ offer.from \in Providers
    BY <1>3, <2>1 DEF ReqInv, FileInv, Waits
  <2>3. d \in Details
    BY <2>2 DEF Details
  <2>4. WellFormed(s)
    BY <1>1, <2>3, Detailed
  <2>5. WellFormed(state')
    BY <2>1, <2>4, Became DEF Updates
  <2> QED
    BY <1>1, <2>1, <2>5, WithinKept DEF Waits
<1> QED
  BY <1>5, <1>6, <1>7, <1>8, <1>9, <1>10

\* An activation that fails says so.
LEMMA ThrowKept ==
    ASSUME ReqInv, step \in {"check", "delete"}, Throws, faults' = faults \/ Fault,
           UNCHANGED <<possible, online, runs>>
    PROVE  Own'
<1> USE DEF timerVars, stateVars
<1>1. step' = "off" /\ stranded' = TRUE /\ UNCHANGED <<timerVars, stateVars, offer>>
  BY DEF Throws
<1>2. OwnTypes'
  BY <1>1, Spent DEF ReqInv, Own, OwnTypes
<1>3. LockInv'
  BY <1>1 DEF ReqInv, Own, LockInv, Waits
<1>4. DetailsInv'
  BY <1>1 DEF ReqInv, Own, DetailsInv, Unfinished
<1>5. TimerInv'
  BY <1>1 DEF ReqInv, Own, TimerInv, Unfinished, Active, Waits
<1> QED
  BY <1>2, <1>3, <1>4, <1>5 DEF Own

\* A query takes the lock, or finds that there is no provider to ask.
LEMMA BeginKept ==
    ASSUME ReqInv, step \in {"check", "delete"}, BeginQuery, faults' = faults,
           UNCHANGED <<possible, online, runs, second>>
    PROVE  Own'
<1> USE DEF timerVars, stateVars, historyVars
<1>1. CASE lock # "free"
  BY <1>1, ThrowKept DEF BeginQuery
<1>2. CASE lock = "free" /\ Candidates = {}
  <2>1. /\ step' = "off" /\ timer' = "undefined"
        /\ UNCHANGED <<selected, retries, stateVars, offer, historyVars>>
    BY <1>2 DEF BeginQuery
  <2>2. state = saved
    BY <1>2 DEF ReqInv, Own, LockInv
  <2>3. state.asked \in Seq(Providers)
    BY DEF ReqInv, Own, OwnTypes, WellFormed, Attributes
  <2>4. state.fresh = {} /\ state.asked = <<>>
    BY <1>2 DEF Candidates
  <2>5. ToSet(<<>>) = {}
    BY DEF ToSet
  <2>6. Active(saved) = {} /\ Active(saved)' = {}
    BY <2>1, <2>2, <2>4, <2>5 DEF Active
  <2>7. OwnTypes'
    BY <2>1 DEF ReqInv, Own, OwnTypes, Timings
  <2>8. LockInv'
    BY <2>1 DEF ReqInv, Own, LockInv, Waits
  <2>9. DetailsInv'
    BY <2>1 DEF ReqInv, Own, DetailsInv, Unfinished
  <2>10. TimerInv'
    BY <2>1, <2>6 DEF ReqInv, Own, TimerInv, Unfinished
  <2> QED
    BY <2>7, <2>8, <2>9, <2>10 DEF Own
<1>3. CASE lock = "free" /\ Candidates # {}
  <2>1. PICK p \in Candidates : offer' = [from |-> p, to |-> None]
    BY <1>3 DEF BeginQuery
  <2>2. /\ selected' = NoOne /\ lock' = "query" /\ state' = Becomes(state, "Querying")
        /\ step' = "asking" /\ UNCHANGED <<timer, retries, saved, historyVars>>
    BY <1>3 DEF BeginQuery, Goes
  <2>3. p \in Providers
    <3>1. /\ selected \in Providers \cup {NoOne} /\ state.fresh \subseteq Providers
          /\ state.asked \in Seq(Providers)
      BY DEF ReqInv, Own, OwnTypes, WellFormed, Attributes
    <3>2. state.asked # <<>> => Head(state.asked) \in Providers
      BY <3>1, HeadTailProperties
    <3> QED
      BY <2>1, <3>1, <3>2 DEF Candidates
  <2>4. WellFormed(state')
    BY <2>2, Became DEF ReqInv, Own, OwnTypes, Updates
  <2>5. OwnTypes'
    BY <2>1, <2>2, <2>3, <2>4 DEF ReqInv, Own, OwnTypes
  <2>6. LockInv'
    BY <2>1, <2>2, <2>3, Sentinels DEF LockInv, Waits
  <2>7. DetailsInv'
    BY <2>2 DEF ReqInv, Own, DetailsInv, Unfinished
  <2>8. TimerInv'
    BY <2>2 DEF ReqInv, Own, TimerInv, Unfinished, Waits
  <2> QED
    BY <2>5, <2>6, <2>7, <2>8 DEF Own
<1> QED
  BY <1>1, <1>2, <1>3

\* A file that is there already: the version it is applied for is newer.
LEMMA FileApplyKept ==
    ASSUME ReqInv, step = "check", file # NoFile, Valid(file), lock = "free",
           CallApply(file.version, NoOne, "applyFile"), lock' = "query",
           UNCHANGED <<timerVars, saved, offer, stranded, second, deviceVars, faults>>
    PROVE  Own'
<1> USE DEF timerVars, deviceVars
<1> DEFINE d == [to |-> file.version, from |-> NoOne]
           s == [state EXCEPT !.details = d]
<1>1. step' = "applyFile" /\ state' = Becomes(s, "Applying")
  BY DEF CallApply
<1>2. file.version \in Versions /\ file.version > runs
  BY DEF ReqInv, FileInv, FileTypes, Files, Valid
<1>3. d \in Details /\ d.to = file.version
  BY <1>2 DEF Details
<1>4. WellFormed(s) /\ s.details = d
  BY <1>3, Detailed DEF ReqInv, Own, OwnTypes
<1> HIDE DEF d, s
<1>5. WellFormed(state') /\ state'.details = d
  BY <1>1, <1>4, Became DEF Updates
<1>6. OwnTypes'
  BY <1>5 DEF ReqInv, Own, OwnTypes
<1>7. LockInv'
  BY <1>1, Sentinels DEF LockInv, Waits
<1>8. DetailsInv'
  BY <1>1, <1>2, <1>3, <1>5 DEF ReqInv, Own, DetailsInv, Unfinished
<1>9. TimerInv'
  BY <1>1 DEF ReqInv, Own, TimerInv, Unfinished, Active, Waits
<1> QED
  BY <1>6, <1>7, <1>8, <1>9 DEF Own

\* When it comes back nothing is scheduled; what it wrote is saved or undone.
LEMMA FileDoneKept ==
    ASSUME ReqInv, step = "applyFile", ApplyReturns \/ ApplyThrows
    PROVE  Own'
<1> USE DEF deviceVars
<1>1. /\ step' = "off" /\ lock' = "free" /\ stranded' = TRUE
      /\ state' = saved' /\ saved' \in {state, saved}
      /\ UNCHANGED <<timer, retries, offer, selected, second, possible, online, runs>>
      /\ faults' = faults \/ Fault
  BY DEF ApplyReturns, ApplyThrows
<1>2. OwnTypes'
  BY <1>1, Spent DEF ReqInv, Own, OwnTypes
<1>3. LockInv'
  BY <1>1, Sentinels DEF LockInv, Waits
<1>4. runs \in Versions /\ state.details.to > runs /\ state.details # NoDetails
  BY Sentinels DEF ReqInv, FileInv, FileTypes, Own, DetailsInv
<1>5. DetailsInv'
  BY <1>1, <1>4 DEF ReqInv, Own, DetailsInv, Unfinished
<1>6. TimerInv'
  <2>1. CASE saved' = saved
    BY <1>1, <2>1 DEF ReqInv, Own, TimerInv, Unfinished, Active, Waits
  <2>2. CASE saved' = state
    BY <1>1, <1>4, <2>2 DEF ReqInv, Own, TimerInv
  <2> QED
    BY <1>1, <2>1, <2>2
<1> QED
  BY <1>2, <1>3, <1>5, <1>6 DEF Own

LEMMA CheckKept ==
    ASSUME ReqInv, CheckFile
    PROVE  Own'
<1> USE DEF deviceVars
<1>1. step = "check" /\ UNCHANGED <<second, deviceVars, faults>>
  BY DEF CheckFile
<1>2. CASE BeginQuery
  BY <1>1, <1>2, BeginKept
<1>3. CASE Throws
  BY <1>1, <1>3, ThrowKept
<1>4. CASE step' = "delete" /\ UNCHANGED <<timerVars, stateVars, offer, historyVars>>
  <2> USE DEF timerVars, stateVars, historyVars
  <2>1. OwnTypes'
    BY <1>1, <1>4 DEF ReqInv, Own, OwnTypes
  <2>2. LockInv'
    BY <1>1, <1>4 DEF ReqInv, Own, LockInv, Waits
  <2>3. DetailsInv'
    BY <1>1, <1>4 DEF ReqInv, Own, DetailsInv, Unfinished
  <2>4. TimerInv'
    BY <1>1, <1>4 DEF ReqInv, Own, TimerInv, Unfinished, Active, Waits
  <2> QED
    BY <2>1, <2>2, <2>3, <2>4 DEF Own
<1>5. CASE /\ file # NoFile /\ Valid(file) /\ lock = "free" /\ lock' = "query"
           /\ CallApply(file.version, NoOne, "applyFile")
           /\ UNCHANGED <<timerVars, saved, offer, stranded>>
  BY <1>1, <1>5, FileApplyKept
<1> QED
  BY <1>2, <1>3, <1>4, <1>5 DEF CheckFile

LEMMA DeleteKept ==
    ASSUME ReqInv, NEW ok \in BOOLEAN, DeleteFile(ok)
    PROVE  Own'
<1>1. step = "delete" /\ UNCHANGED <<second, possible, online, runs>>
  BY DEF DeleteFile
<1>2. CASE BeginQuery /\ faults' = faults
  BY <1>1, <1>2, BeginKept
<1>3. CASE Throws /\ Fault
  BY <1>1, <1>3, ThrowKept
<1> QED
  BY <1>2, <1>3 DEF DeleteFile

\* The timer runs out, or another activation is looked at.
LEMMA ActivationKept ==
    ASSUME ReqInv, Fire \/ SecondActivation
    PROVE  Own'
<1> USE DEF stateVars, deviceVars, historyVars, timerVars
<1>1. /\ UNCHANGED <<selected, retries, state, saved, lock, offer, possible, online, runs, faults, stranded>>
      /\ timer' = timer \/ timer' = "stopped"
      /\ step' = step \/ (step = "off" /\ step' \in {"check", "delete"})
      /\ step' = "off" => second' = "check" \/ (timer' = timer /\ second = "off" /\ second' = second)
  <2>1. second \in {"off", "check", "delete"}
    BY DEF ReqInv, FileInv, FileTypes
  <2>2. CASE Fire
    BY <2>2 DEF Fire, ReqInv, Own, LockInv, Waits
  <2>3. CASE SecondActivation
    BY <2>1, <2>3 DEF SecondActivation
  <2> QED
    BY <2>2, <2>3
<1>2. OwnTypes'
  BY <1>1 DEF ReqInv, Own, OwnTypes, Timings
<1>3. LockInv'
  BY <1>1 DEF ReqInv, Own, LockInv, Waits
<1>4. DetailsInv'
  BY <1>1 DEF ReqInv, Own, DetailsInv, Unfinished
<1>5. TimerInv'
  BY <1>1 DEF ReqInv, Own, TimerInv, Unfinished, Active, Waits
<1> QED
  BY <1>2, <1>3, <1>4, <1>5 DEF Own

\* An announcement writes its provider under the lock,
LEMMA AnnounceBeginsKept ==
    ASSUME ReqInv, NEW p \in Providers, AnnounceBegins(p)
    PROVE  Own'
<1> USE DEF timerVars, queryVars, deviceVars, historyVars
<1>1. /\ lock = "free" /\ Fault /\ lock' = p /\ state' = Add(state, p)
      /\ UNCHANGED <<timerVars, saved, queryVars, deviceVars, historyVars>>
  BY DEF AnnounceBegins
<1>2. state = saved /\ WellFormed(state) /\ step \in Waits
  BY <1>1 DEF ReqInv, Own, LockInv, OwnTypes
<1>3. WellFormed(state')
  BY <1>1, <1>2, Added
<1>4. OwnTypes'
  BY <1>1, <1>3, Spent DEF ReqInv, Own, OwnTypes
<1>5. LockInv'
  BY <1>1, <1>2, Sentinels DEF LockInv, Waits
<1>6. DetailsInv'
  BY <1>1, <1>2 DEF ReqInv, Own, DetailsInv, Unfinished, Waits
<1>7. TimerInv'
  BY <1>1, Sentinels DEF ReqInv, Own, TimerInv, Unfinished, Active
<1> QED
  BY <1>4, <1>5, <1>6, <1>7 DEF Own

\* and saves it: the provider is one, so the timer is started if it may be.
LEMMA AnnounceEndsKept ==
    ASSUME ReqInv, NEW urgent \in BOOLEAN, AnnounceEnds(urgent)
    PROVE  Own'
<1> USE DEF queryVars, deviceVars
<1>1. /\ lock \in Providers /\ lock' = "free" /\ saved' = state
      /\ stranded' = (stranded /\ timer' # "running")
      /\ UNCHANGED <<state, queryVars, deviceVars, faults>>
      /\ selected' \in {selected, lock} /\ retries' \in {retries, 0}
      /\ timer' \in {ScheduleSoon(state), Schedule(timer, state)}
  BY DEF AnnounceEnds
<1>2. WellFormed(saved) /\ timer \in Timings /\ state = Add(saved, lock) /\ step \in Waits
  BY <1>1, Sentinels DEF ReqInv, Own, LockInv, OwnTypes
<1>3. /\ WellFormed(state) /\ Active(state) # {}
      /\ state.update = saved.update /\ state.details = saved.details
  BY <1>1, <1>2, Added
<1>4. /\ timer' \in {"undefined", "running"} /\ (timer' = "running" => possible)
      /\ timer = "running" /\ possible => timer' = "running"
      /\ timer # "running" /\ possible /\ state.update = "Idle" => timer' = "running"
  <2>1. timer = "running" => possible
    BY DEF ReqInv, Own, TimerInv
  <2> QED
    BY <1>1, <1>2, <1>3, <2>1, Scheduled DEF ReqInv, Own
<1>5. stranded' \in BOOLEAN
  BY <1>1, Zenon
<1>6. OwnTypes'
  BY <1>1, <1>3, <1>4, <1>5, Sentinels DEF ReqInv, Own, OwnTypes, Timings
<1>7. LockInv'
  BY <1>1, <1>2, Sentinels DEF LockInv, Waits
<1>8. DetailsInv'
  BY <1>1, <1>2, <1>3 DEF ReqInv, Own, DetailsInv, Unfinished, Waits
<1>9. Active(saved)' # {}
  BY <1>1, <1>3 DEF Active
<1>10. TimerInv'
  <2>1. possible' => timer' = "running" \/ stranded' \/ step # "off" \/ second # "off" \/ ~online
    <3> SUFFICES ASSUME possible, ~stranded, step = "off", second = "off", online
                 PROVE  timer' = "running"
      BY <1>1, <1>4, Zenon
    <3>1. timer = "running" \/ (Active(saved) = {} /\ timer = "undefined")
      BY DEF ReqInv, Own, TimerInv
    <3>2. lock # "query"
      BY <1>1, Sentinels
    <3>3. timer = "running" \/ saved.update = "Idle"
      BY <3>1, <3>2 DEF ReqInv, Own, TimerInv, Unfinished
    <3> QED
      BY <1>3, <1>4, <3>3
  <2> QED
    BY <1>1, <1>4, <1>9, <2>1 DEF TimerInv
<1> QED
  BY <1>6, <1>7, <1>8, <1>10 DEF Own

LEMMA AnnounceFailsKept ==
    ASSUME ReqInv, AnnounceFails
    PROVE  Own'
<1> USE DEF timerVars, queryVars, deviceVars, historyVars
<1>1. /\ lock \in Providers /\ Fault /\ lock' = "free" /\ state' = saved
      /\ UNCHANGED <<timerVars, saved, queryVars, deviceVars, historyVars>>
  BY DEF AnnounceFails
<1>2. step \in Waits
  BY <1>1, Sentinels DEF ReqInv, Own, LockInv
<1>3. OwnTypes'
  BY <1>1, Spent DEF ReqInv, Own, OwnTypes
<1>4. LockInv'
  BY <1>1, <1>2, Sentinels DEF LockInv, Waits
<1>5. DetailsInv'
  BY <1>1, <1>2 DEF ReqInv, Own, DetailsInv, Unfinished, Waits
<1>6. TimerInv'
  BY <1>1, Sentinels DEF ReqInv, Own, TimerInv, Unfinished, Active
<1> QED
  BY <1>3, <1>4, <1>5, <1>6 DEF Own

\* A default provider that is written is an active one; a timer that has been
\* stopped is not started again, which is why TimerInv asks for no such timer.
LEMMA SetDefaultKept ==
    ASSUME ReqInv, NEW p \in Providers, SetDefault(p)
    PROVE  Own'
<1> USE DEF queryVars, deviceVars, historyVars
<1> DEFINE s == [state EXCEPT !.defaults = state.defaults \cup {p}]
<1>1. /\ lock = "free" /\ Fault /\ state' = Add(s, p) /\ saved' = state'
      /\ UNCHANGED <<selected, lock, queryVars, deviceVars, historyVars>>
      /\ IF timer = "undefined" THEN timer' = ScheduleSoon(state') /\ retries' = 0
         ELSE UNCHANGED <<timer, retries>>
  BY DEF SetDefault
<1>2. state = saved /\ WellFormed(state) /\ step \in Waits
  BY <1>1 DEF ReqInv, Own, LockInv, OwnTypes
<1>3. WellFormed(s) /\ s.update = state.update /\ s.details = state.details
  BY <1>2, DetailsAre, Defaulted
<1> HIDE DEF s
<1>4. /\ WellFormed(state') /\ Active(state') # {}
      /\ state'.update = saved.update /\ state'.details = saved.details
  BY <1>1, <1>2, <1>3, Added
<1>5. /\ timer' \in Timings /\ (timer' = "running" => possible)
      /\ timer = "running" => timer' = "running"
      /\ timer = "undefined" /\ possible => timer' = "running"
  <2>1. timer \in Timings /\ (timer = "running" => possible)
    BY DEF ReqInv, Own, OwnTypes, TimerInv
  <2> QED
    BY <1>1, <1>4, <2>1, Scheduled DEF ReqInv, Own, Timings
<1>6. OwnTypes'
  BY <1>1, <1>4, <1>5, Sentinels, Spent DEF ReqInv, Own, OwnTypes
<1>7. LockInv'
  BY <1>1, <1>2, Sentinels DEF LockInv, Waits
<1>8. DetailsInv'
  BY <1>1, <1>2, <1>4 DEF ReqInv, Own, DetailsInv, Unfinished, Waits
<1>9. Active(saved)' # {}
  BY <1>1, <1>4 DEF Active
<1>10. TimerInv'
  BY <1>1, <1>5, <1>9 DEF ReqInv, Own, TimerInv
<1> QED
  BY <1>6, <1>7, <1>8, <1>10 DEF Own

LEMMA ClearDefaultKept ==
    ASSUME ReqInv, NEW p \in Providers, ClearDefault(p)
    PROVE  Own'
<1> USE DEF timerVars, queryVars, deviceVars, historyVars
<1> DEFINE d == state.defaults \ {p}
<1>1. /\ lock = "free" /\ Fault /\ state' = [state EXCEPT !.defaults = d] /\ saved' = state'
      /\ UNCHANGED <<timerVars, lock, queryVars, deviceVars, historyVars>>
  BY DEF ClearDefault
<1>2. state = saved /\ WellFormed(state) /\ step \in Waits
  BY <1>1 DEF ReqInv, Own, LockInv, OwnTypes
<1>3. d \in SUBSET Providers
  BY <1>2, DetailsAre
<1> HIDE DEF d
<1>4. /\ WellFormed(state') /\ Active(state') = Active(saved)
      /\ state'.update = saved.update /\ state'.details = saved.details
  BY <1>1, <1>2, <1>3, Defaulted
<1>5. OwnTypes'
  BY <1>1, <1>4, Spent DEF ReqInv, Own, OwnTypes
<1>6. LockInv'
  BY <1>1, <1>2, Sentinels DEF LockInv, Waits
<1>7. DetailsInv'
  BY <1>1, <1>2, <1>4 DEF ReqInv, Own, DetailsInv, Unfinished, Waits
<1>8. Active(saved)' = Active(saved)
  BY <1>1, <1>4 DEF Active
<1>9. TimerInv'
  BY <1>1, <1>4, <1>8 DEF ReqInv, Own, TimerInv, Unfinished
<1> QED
  BY <1>5, <1>6, <1>7, <1>9 DEF Own

LEMMA CommissionedKept ==
    ASSUME ReqInv, Commissioned
    PROVE  Own'
<1> USE DEF stateVars, queryVars, deviceVars
<1>1. /\ Fault /\ timer' = ScheduleSoon(saved) /\ retries' = 0
      /\ stranded' = (stranded /\ timer' # "running")
      /\ UNCHANGED <<selected, stateVars, queryVars, deviceVars, installed>>
  BY DEF Commissioned
<1>2. /\ timer' \in {"undefined", "running"}
      /\ timer' = "running" <=> possible /\ Active(saved) # {}
  BY <1>1, Scheduled DEF ReqInv, Own, ScheduleSoon
<1>3. stranded' \in BOOLEAN
  BY <1>1, Zenon
<1>4. timer' # "running" => (stranded' <=> stranded)
  BY <1>1, Zenon
<1>5. OwnTypes'
  BY <1>1, <1>2, <1>3, Sentinels, Spent DEF ReqInv, Own, OwnTypes, Timings
<1>6. LockInv'
  BY <1>1 DEF ReqInv, Own, LockInv
<1>7. DetailsInv'
  BY <1>1 DEF ReqInv, Own, DetailsInv, Unfinished
<1>8. Active(saved)' = Active(saved)
  BY <1>1 DEF Active
<1>9. TimerInv'
  BY <1>1, <1>2, <1>4, <1>8 DEF ReqInv, Own, TimerInv, Unfinished
<1> QED
  BY <1>5, <1>6, <1>7, <1>9 DEF Own

\* The attribute is written under the lock, so what is looked at is what is saved.
LEMMA ToggleKept ==
    ASSUME ReqInv, TogglePossible
    PROVE  Own'
<1> USE DEF stateVars, queryVars
<1>1. /\ lock = "free" /\ Fault /\ possible' = ~possible
      /\ stranded' = (stranded /\ timer' # "running")
      /\ UNCHANGED <<selected, stateVars, queryVars, online, runs, file, installed>>
  BY DEF TogglePossible
<1>2. state = saved
  BY <1>1 DEF ReqInv, Own, LockInv
<1>3. /\ timer' \in {"undefined", "running"} /\ retries' \in {retries, 0}
      /\ possible => timer' = "undefined"
      /\ ~possible => (timer' = "running" <=> Active(saved) # {})
  <2>1. timer = "running" => possible
    BY DEF ReqInv, Own, TimerInv
  <2> QED
    BY <1>2, <2>1 DEF TogglePossible
<1>4. possible' \in BOOLEAN /\ (possible' <=> ~possible) /\ stranded' \in BOOLEAN
  BY <1>1, Zenon
<1>5. timer' # "running" => (stranded' <=> stranded)
  BY <1>1, Zenon
<1>6. OwnTypes'
  BY <1>1, <1>3, <1>4, Sentinels, Spent DEF ReqInv, Own, OwnTypes, Timings
<1>7. LockInv'
  BY <1>1 DEF ReqInv, Own, LockInv
<1>8. DetailsInv'
  BY <1>1 DEF ReqInv, Own, DetailsInv, Unfinished
<1>9. Active(saved)' = Active(saved)
  BY <1>1 DEF Active
<1>10. TimerInv'
  BY <1>1, <1>3, <1>4, <1>5, <1>9 DEF ReqInv, Own, TimerInv, Unfinished
<1> QED
  BY <1>6, <1>7, <1>8, <1>10 DEF Own

LEMMA GoOfflineKept ==
    ASSUME ReqInv, GoOffline
    PROVE  Own'
<1> USE DEF stateVars, queryVars, historyVars
<1>1. /\ Fault /\ online' = FALSE
      /\ timer' = IF timer = "running" THEN "stopped" ELSE timer
      /\ UNCHANGED <<selected, retries, stateVars, queryVars, possible, runs, file, historyVars>>
  BY DEF GoOffline
<1>2. OwnTypes'
  BY <1>1, Spent DEF ReqInv, Own, OwnTypes, Timings
<1>3. LockInv'
  BY <1>1 DEF ReqInv, Own, LockInv
<1>4. DetailsInv'
  BY <1>1 DEF ReqInv, Own, DetailsInv, Unfinished
<1>5. Active(saved)' = Active(saved)
  BY <1>1 DEF Active
<1>6. TimerInv'
  BY <1>1, <1>5 DEF ReqInv, Own, TimerInv, Unfinished
<1> QED
  BY <1>2, <1>3, <1>4, <1>6 DEF Own

LEMMA RestartKept ==
    ASSUME ReqInv, Restart
    PROVE  Own'
<1>1. /\ Fault /\ state' = Becomes(saved, "Idle") /\ saved' = state' /\ lock' = "free"
      /\ timer' = "undefined" /\ selected' = NoOne /\ retries' = 0
      /\ step' = "off" /\ offer' = NoOffer
      /\ online' = FALSE /\ stranded' = FALSE /\ possible' = possible
  BY DEF Restart
<1>2. WellFormed(state') /\ state'.update = "Idle"
  BY <1>1, Became DEF ReqInv, Own, OwnTypes, Updates
<1>3. OwnTypes'
  BY <1>1, <1>2, Sentinels, Spent DEF ReqInv, Own, OwnTypes, Timings
<1>4. LockInv'
  BY <1>1, Sentinels DEF LockInv, Waits
<1>5. DetailsInv'
  BY <1>1, <1>2 DEF DetailsInv, Unfinished
<1>6. TimerInv'
  BY <1>1, <1>2 DEF TimerInv, Unfinished
<1> QED
  BY <1>3, <1>4, <1>5, <1>6 DEF Own

\* A node that comes back looks at what is saved.  While a query holds the lock
\* it may only start the timer; without it the update that was left is closed,
\* and DetailsInv says that one whose state was not reset had failed.
LEMMA GoOnlineKept ==
    ASSUME ReqInv, GoOnline
    PROVE  Own'
<1> USE DEF timerVars, stateVars, queryVars
<1> DEFINE s == IF Active(saved) = {} THEN [saved EXCEPT !.fresh = saved.fresh \cup saved.defaults]
                ELSE saved
           t == IF Active(s) = {} THEN timer
                ELSE IF s.details = NoDetails THEN ScheduleSoon(s) ELSE Schedule(timer, s)
<1>1. /\ lock \in {"free", "query"} /\ online' = TRUE
      /\ UNCHANGED <<queryVars, possible, runs, faults>>
      /\ IF lock = "query" /\ s # saved
         THEN UNCHANGED <<timerVars, stateVars, stranded>>
         ELSE /\ IF Failed(s)
                 THEN /\ timer' = ScheduleSoon(s)
                      /\ selected' = IF s.details.from = NoOne THEN selected ELSE s.details.from
                      /\ retries' = IF s.details.from = NoOne THEN 0 ELSE 1
                 ELSE /\ timer' = t /\ UNCHANGED selected
                      /\ retries' = IF Active(s) = {} THEN retries ELSE 0
              /\ IF lock = "query" THEN UNCHANGED <<state, saved>>
                 ELSE state' = [s EXCEPT !.details = NoDetails] /\ saved' = state'
              /\ stranded' = (timer' # "running" /\ (stranded \/ timer = "stopped"))
              /\ UNCHANGED lock
  BY DEF GoOnline
<1>2. WellFormed(saved) /\ OwnTypes /\ LockInv /\ DetailsInv /\ TimerInv
  BY DEF ReqInv, Own, OwnTypes
<1>3. /\ WellFormed(s) /\ s.update = saved.update /\ s.details = saved.details
      /\ Active(s) = {} => Active(saved) = {}
  BY <1>2, Refreshed
<1>4. t \in {timer, ScheduleSoon(s), Schedule(timer, s)}
      /\ (Active(s) = {} => t = timer)
      /\ (Active(s) # {} => t = IF s.details = NoDetails THEN ScheduleSoon(s) ELSE Schedule(timer, s))
  OBVIOUS
<1> HIDE DEF s, t
<1>5. CASE lock = "query" /\ s # saved
  <2>1. UNCHANGED <<timerVars, stateVars, stranded>>
    BY <1>1, <1>5
  <2>2. OwnTypes'
    BY <1>1, <1>2, <2>1 DEF OwnTypes
  <2>3. LockInv'
    BY <1>1, <1>2, <2>1 DEF LockInv
  <2>4. DetailsInv'
    BY <1>1, <1>2, <2>1 DEF DetailsInv, Unfinished
  <2>5. step # "off"
    BY <1>2, <1>5 DEF LockInv, Waits
  <2>6. Active(saved)' = Active(saved)
    BY <2>1 DEF Active
  <2>7. TimerInv'
    BY <1>1, <1>2, <2>1, <2>5, <2>6 DEF TimerInv, Unfinished
  <2> QED
    BY <2>2, <2>3, <2>4, <2>7 DEF Own
<1>6. CASE ~(lock = "query" /\ s # saved)
  <2>1. /\ lock' = lock
        /\ timer' = IF Failed(s) THEN ScheduleSoon(s) ELSE t
        /\ selected' \in {selected, s.details.from} /\ retries' \in {retries, 0, 1}
        /\ Failed(s) \/ selected' = selected
        /\ stranded' = (timer' # "running" /\ (stranded \/ timer = "stopped"))
        /\ lock = "query" => s = saved /\ UNCHANGED <<state, saved>>
        /\ lock = "free" => state' = [s EXCEPT !.details = NoDetails] /\ saved' = state'
    BY <1>1, <1>6
  <2>2. s.details \in Details /\ saved.update \in Updates /\ timer \in Timings /\ runs \in Int
    BY <1>2, <1>3, DetailsAre, Sentinels DEF OwnTypes, ReqInv, FileInv, FileTypes
  <2>3. selected' \in Providers \cup {NoOne}
    <3>1. Failed(s) => s.details # NoDetails
      BY DEF Failed
    <3> QED
      BY <1>2, <2>1, <2>2, <3>1, Sentinels DEF OwnTypes
  <2>4. timer' \in Timings /\ (timer' = "running" => possible)
    BY <1>2, <1>4, <2>1, <2>2, Scheduled DEF TimerInv, Timings
  <2>5. Active(s) = {} => timer' \in {timer, "undefined"} /\ (Failed(s) => timer' = "undefined")
    BY <1>2, <1>4, <2>1, <2>2, Scheduled
  <2>6. saved.update # "Idle" => s.details = NoDetails \/ Failed(s)
    BY <1>2, <1>3, <2>2 DEF DetailsInv, Unfinished, Failed
  <2>7. Active(s) # {} /\ possible => timer' = "running"
    <3>1. CASE Failed(s)
      BY <1>2, <2>1, <2>2, <3>1, Scheduled
    <3>2. CASE ~Failed(s) /\ s.details = NoDetails
      BY <1>2, <1>4, <2>1, <2>2, <3>2, Scheduled
    <3>3. CASE ~Failed(s) /\ s.details # NoDetails
      BY <1>2, <1>3, <1>4, <2>1, <2>2, <2>6, <3>3, Scheduled
    <3> QED
      BY <3>1, <3>2, <3>3
  <2>8. /\ WellFormed(state') /\ WellFormed(saved')
        /\ saved'.update = saved.update
        /\ Active(saved') = Active(s)
        /\ lock = "free" => saved'.details = NoDetails /\ state' = saved'
    <3>1. CASE lock = "query"
      BY <1>2, <2>1, <3>1 DEF OwnTypes
    <3>2. CASE lock = "free"
      <4>1. LET n == [s EXCEPT !.details = NoDetails]
            IN  WellFormed(n) /\ Active(n) = Active(s) /\ n.update = s.update /\ n.details = NoDetails
        BY <1>3, Detailed, Sentinels
      <4> QED
        BY <1>3, <2>1, <3>2, <4>1
    <3> QED
      BY <1>1, <3>1, <3>2
  <2>9. Active(saved)' = Active(s)
    BY <2>8 DEF Active
  <2>10. stranded' \in BOOLEAN /\ (timer' # "running" => (stranded' <=> stranded \/ timer = "stopped"))
    BY <2>1, Zenon
  <2>11. OwnTypes'
    BY <1>1, <1>2, <2>1, <2>3, <2>4, <2>8, <2>10, Sentinels DEF OwnTypes
  <2>12. LockInv'
    BY <1>1, <1>2, <2>1, <2>8, Sentinels DEF LockInv
  <2>13. DetailsInv'
    BY <1>1, <1>2, <2>1, <2>8 DEF DetailsInv, LockInv, Unfinished, Waits
  <2>14. TimerInv'
    <3>1. ASSUME saved.update # "Idle", Active(s) = {}, lock = "free"
          PROVE  stranded' /\ timer' # "running"
      <4>1. stranded /\ Active(saved) = {} /\ step \in Waits
        BY <1>2, <1>3, <3>1, Sentinels DEF TimerInv, LockInv, Unfinished
      <4>2. timer' # "running"
        BY <1>2, <1>3, <2>5, <2>6, <3>1, <4>1 DEF TimerInv, Unfinished
      <4> QED
        BY <2>10, <4>1, <4>2
    <3>2. ASSUME saved.update # "Idle", Active(s) = {}, lock = "query", step = "applyFile",
                 saved'.details = NoDetails
          PROVE  timer' # "running"
      <4>1. s = saved /\ s.details = NoDetails
        BY <2>1, <3>2
      <4> QED
        BY <1>2, <2>5, <3>2, <4>1 DEF TimerInv, Unfinished
    <3>3. ASSUME step = "off", possible, ~stranded', timer' # "running"
          PROVE  Active(s) = {} /\ timer' = "undefined"
      <4>1. Active(s) = {}
        BY <2>7, <3>3
      <4>2. timer # "stopped"
        BY <2>10, <3>3
      <4> QED
        BY <2>2, <2>5, <3>3, <4>1, <4>2 DEF Timings
    <3>4. (lock = "query") <=> step \notin Waits
      BY <1>2 DEF LockInv
    <3> QED
      BY <1>1, <2>1, <2>4, <2>8, <2>9, <3>1, <3>2, <3>3, <3>4 DEF TimerInv, Unfinished, Waits
  <2> QED
    BY <2>11, <2>12, <2>13, <2>14 DEF Own
<1> QED
  BY <1>5, <1>6

-----------------------------------------------------------------------------

LEMMA OwnInit == Init => Own
<1> SUFFICES ASSUME Init
             PROVE  Own
  OBVIOUS
<1>1. PICK d \in SUBSET Providers :
        state = [fresh |-> {}, asked |-> <<>>, defaults |-> d, details |-> NoDetails, update |-> "Idle"]
  BY DEF Init
<1>2. /\ possible = TRUE /\ online = FALSE /\ timer = "undefined" /\ selected = NoOne /\ retries = 0
      /\ saved = state /\ lock = "free" /\ step = "off" /\ offer = NoOffer
      /\ faults = MaxFaults /\ stranded = FALSE
  BY DEF Init
<1>3. /\ <<>> \in Seq(Providers) /\ IsInjective(<<>>) /\ ToSet(<<>>) = {}
  BY DEF IsInjective, ToSet
<1>4. WellFormed(state)
  <2>1. state \in Attributes
    BY <1>1, <1>3 DEF Attributes
  <2>2. state.fresh = {} /\ state.asked = <<>>
    BY <1>1
  <2> QED
    BY <1>3, <2>1, <2>2 DEF WellFormed
<1>5. OwnTypes
  <2>1. faults \in 0 .. MaxFaults /\ retries \in 0 .. MaxRetries + 1
    BY <1>2, BoundsAssumption
  <2>2. offer.from = NoOne
    BY <1>2, Sentinels
  <2>3. WellFormed(state) /\ WellFormed(saved)
    BY <1>2, <1>4
  <2> QED
    BY <1>2, <2>1, <2>2, <2>3 DEF OwnTypes, Timings
<1>6. LockInv
  BY <1>2, Sentinels DEF LockInv, Waits
<1>7. ~Unfinished
  BY <1>1, <1>2 DEF Unfinished
<1>8. DetailsInv /\ TimerInv
  BY <1>2, <1>7 DEF DetailsInv, TimerInv
<1> QED
  BY <1>5, <1>6, <1>8 DEF Own

LEMMA ReqStep == ReqInv /\ [Next]_vars => ReqInv'
<1> SUFFICES ASSUME ReqInv, [Next]_vars
             PROVE  Own'
  BY FileStep DEF ReqInv
<1>1. CASE Fire \/ SecondActivation
  BY <1>1, ActivationKept
<1>2. CASE CheckFile \/ \E ok \in BOOLEAN : DeleteFile(ok)
  BY <1>2, CheckKept, DeleteKept
<1>3. CASE \/ AnswersNo \/ MayNotAsk \/ AnswersBusy \/ ProtocolNotSupported \/ Declines
           \/ (\E ok \in BOOLEAN : Cleanup(ok)) \/ (\E keeps \in BOOLEAN : MayNotApply(keeps))
           \/ DownloadThrows
  BY <1>3, AnswerKept
<1>4. CASE \/ \E v \in Versions, next \in {"consent", "delay", "download"} : Offers(v, next)
           \/ \E next \in {"delay", "download"} : Consents(next) \/ ConsentFails(next)
           \/ DelayEnds \/ DownloadEnds \/ DownloadFails \/ MayApply \/ AsksAgain
           \/ \E next \in {"applyWait", "applyDelay"} : MustWait(next)
  BY <1>4, OfferKept
<1>5. CASE ApplyReturns \/ ApplyThrows
  <2>1. CASE step = "apply"
    BY <1>5, <2>1, AnswerKept
  <2>2. CASE step = "applyFile"
    BY <1>5, <2>2, FileDoneKept
  <2> QED
    BY <1>5, <2>1, <2>2 DEF ApplyReturns, ApplyThrows
<1>6. CASE \/ \E p \in Providers : AnnounceBegins(p) \/ SetDefault(p) \/ ClearDefault(p)
           \/ (\E urgent \in BOOLEAN : AnnounceEnds(urgent)) \/ AnnounceFails
  BY <1>6, AnnounceBeginsKept, AnnounceEndsKept, AnnounceFailsKept, SetDefaultKept, ClearDefaultKept
<1>7. CASE Commissioned \/ TogglePossible \/ GoOffline \/ GoOnline \/ Restart
  BY <1>7, CommissionedKept, ToggleKept, GoOfflineKept, GoOnlineKept, RestartKept
<1>8. CASE UNCHANGED vars
  <2> USE DEF vars, timerVars, stateVars, queryVars, deviceVars, historyVars
  <2>1. OwnTypes' /\ LockInv'
    BY <1>8 DEF ReqInv, Own, OwnTypes, LockInv
  <2>2. DetailsInv' /\ TimerInv'
    BY <1>8 DEF ReqInv, Own, DetailsInv, TimerInv, Unfinished, Active
  <2> QED
    BY <2>1, <2>2 DEF Own
<1> QED
  BY <1>1, <1>2, <1>3, <1>4, <1>5, <1>6, <1>7, <1>8 DEF Next, Query, Announce

\* The file, the lock, the unfinished update and the timer fit together.
THEOREM RequestorInvariant == Spec => []ReqInv
<1>1. Init => ReqInv
  BY FileInit, OwnInit DEF ReqInv
<1> QED
  BY <1>1, ReqStep, PTL DEF Spec

\* Types of the variables, for all providers, versions, retries and failures: no
\* provider is listed twice, and nothing is unsaved without the lock
\* (OtaSoftwareUpdateRequestorServer.ts, the attributes and #scheduleUpdateQuery).
THEOREM TypesHold == Spec => []TypeOK
<1>1. ReqInv => TypeOK
  <2> SUFFICES ASSUME ReqInv
               PROVE  TypeOK
    OBVIOUS
  <2>1. /\ step \in Steps /\ second \in {"off", "check", "delete"} /\ IsOffer(offer)
        /\ file \in Files /\ runs \in Versions
        /\ installed \in [to : Versions \cup {None}, file : Files]
    BY DEF ReqInv, FileInv, FileTypes
  <2>2. /\ possible \in BOOLEAN /\ online \in BOOLEAN /\ stranded \in BOOLEAN
        /\ timer \in Timings /\ selected \in Providers \cup {NoOne}
        /\ retries \in 0 .. MaxRetries + 1 /\ faults \in 0 .. MaxFaults
        /\ lock \in {"free", "query"} \cup Providers
        /\ offer.from \in Providers \cup {NoOne}
    BY DEF ReqInv, Own, OwnTypes
  <2>3. lock = "free" => state = saved
    BY DEF ReqInv, Own, LockInv
  <2>4. \A s \in {state, saved} : s \in Attributes /\ IsInjective(s.asked) /\ s.fresh \cap ToSet(s.asked) = {}
    BY DEF ReqInv, Own, OwnTypes, WellFormed
  <2>5. offer \in [from : Providers \cup {NoOne}, to : Versions \cup {None}]
    BY <2>1, <2>2 DEF IsOffer
  <2> QED
    BY <2>1, <2>2, <2>3, <2>4, <2>5 DEF TypeOK, Steps, Timings
<1> QED
  BY <1>1, RequestorInvariant, PTL

\* A device that may be updated and knows providers has a query under way or
\* scheduled, for any number of providers, failures, announcements and restarts,
\* unless (stranded) applyUpdate came back from a file that was there already, the
\* old file could not be deleted, the timer ran out during an announcement that
\* then failed, or a default provider was written while a stopped timer was there
\* (OtaSoftwareUpdateRequestorServer.ts, #resetStateToIdle, #scheduleUpdateQuery, #online).
THEOREM QueryScheduled == Spec => []QueryIsScheduled
<1>1. ReqInv => QueryIsScheduled
  BY DEF ReqInv, Own, LockInv, TimerInv, QueryIsScheduled
<1> QED
  BY <1>1, RequestorInvariant, PTL
==============================================================================
