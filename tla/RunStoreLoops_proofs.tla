------------------------- MODULE RunStoreLoops_proofs -------------------------
(***************************************************************************)
(* Proofs about the loop counters of a run and the overrides of their hard *)
(* caps.  Every operation either leaves entries and counters alone or      *)
(* makes one entry and counts it, and only a start spends an override.     *)
(***************************************************************************)
EXTENDS RunStore_proofs, FiniteSetTheorems

MadeOn(s, k) == {i \in 1..Len(s.entries) : s.entries[i].key = k}

EntriesCounted(s) == \A k \in Keys : s.counts[k] = Cardinality(MadeOn(s, k))

Enters(s, t, e) ==
    /\ e.key \in Keys
    /\ e.count = s.counts[e.key] + 1
    /\ t.counts = [s.counts EXCEPT ![e.key] = e.count]
    /\ t.entries = Append(s.entries, e)

SameLoops(s, t) == t.counts = s.counts /\ t.entries = s.entries

\* The override of s is spent in t, if it is pending no more, by entering its
\* target with the count it allows.
Spends(s, t) ==
    s.hardOverride # None /\ t.hardOverride # s.hardOverride =>
       LET o == s.hardOverride
       IN  /\ t.hardOverride = None
           /\ t.active # None
           /\ t.active.step = o.target
           /\ s.counts[o.key] = o.before
           /\ t.counts[o.key] = o.after

\* What an operation may make of the loops of a status.
LoopStep(s, t) ==
    /\ SameLoops(s, t) \/ \E e \in Entry : Enters(s, t, e)
    /\ Spends(s, t)

Quiet(s, t) == SameLoops(s, t) /\ (s.hardOverride = None \/ t.hardOverride = s.hardOverride)

LEMMA QuietStep == ASSUME NEW s, NEW t, Quiet(s, t) PROVE LoopStep(s, t)
  BY DEF Quiet, LoopStep, Spends

-----------------------------------------------------------------------------
(* Counting.                                                               *)

LEMMA MadeOnFinite ==
    ASSUME NEW s \in Status, NEW k
    PROVE  IsFiniteSet(MadeOn(s, k)) /\ Cardinality(MadeOn(s, k)) \in Nat
  <1>1. s.entries \in Seq(Entry)
    BY DEF Status
  <1>2. Len(s.entries) \in Nat
    BY <1>1
  <1>3. IsFiniteSet(1..Len(s.entries))
    BY <1>2, FS_Interval
  <1>4. MadeOn(s, k) \subseteq 1..Len(s.entries)
    BY DEF MadeOn
  <1>5. IsFiniteSet(MadeOn(s, k))
    BY <1>3, <1>4, FS_Subset
  <1> QED
    BY <1>5, FS_CardinalityType

\* One more entry, on one key, is one more to count there and nowhere else.
LEMMA EntersCounted ==
    ASSUME NEW s \in Status, NEW t, EntriesCounted(s), NEW e \in Entry, Enters(s, t, e)
    PROVE  EntriesCounted(t)
  <1> DEFINE n == Len(s.entries)
  <1>1. s.entries \in Seq(Entry) /\ s.counts \in [Keys -> Nat]
    BY DEF Status
  <1>2. /\ n \in Nat /\ Len(t.entries) = n + 1 /\ t.entries[n + 1] = e
        /\ \A i \in 1..n : t.entries[i] = s.entries[i]
    BY <1>1 DEF Enters
  <1> HIDE DEF n
  <1>3. ASSUME NEW k \in Keys PROVE t.counts[k] = Cardinality(MadeOn(t, k))
    <2>1. s.counts[k] = Cardinality(MadeOn(s, k))
      BY DEF EntriesCounted
    <2>2. MadeOn(s, k) = {i \in 1..n : s.entries[i].key = k}
      BY DEF MadeOn, n
    <2>3. MadeOn(t, k) = {i \in 1..(n + 1) : t.entries[i].key = k}
      BY <1>2 DEF MadeOn
    <2>4. CASE e.key = k
      <3>1. MadeOn(t, k) = MadeOn(s, k) \union {n + 1}
        BY <1>2, <2>2, <2>3, <2>4
      <3>2. n + 1 \notin MadeOn(s, k)
        BY <1>2, <2>2
      <3>3. Cardinality(MadeOn(t, k)) = Cardinality(MadeOn(s, k)) + 1
        BY <3>1, <3>2, MadeOnFinite, FS_AddElement
      <3>4. t.counts[k] = s.counts[k] + 1
        BY <1>1, <2>4 DEF Enters
      <3> QED
        BY <2>1, <3>3, <3>4
    <2>5. CASE e.key # k
      <3>1. MadeOn(t, k) = MadeOn(s, k)
        BY <1>2, <2>2, <2>3, <2>5
      <3>2. t.counts[k] = s.counts[k]
        BY <1>1, <2>5 DEF Enters
      <3> QED
        BY <2>1, <3>1, <3>2
    <2> QED
      BY <2>4, <2>5
  <1> QED
    BY <1>3 DEF EntriesCounted

LEMMA LoopStepCounted ==
    ASSUME NEW s \in Status, NEW t, EntriesCounted(s), LoopStep(s, t)
    PROVE  EntriesCounted(t)
  <1>1. CASE SameLoops(s, t)
    BY <1>1 DEF SameLoops, EntriesCounted, MadeOn
  <1>2. CASE \E e \in Entry : Enters(s, t, e)
    BY <1>2, EntersCounted
  <1> QED
    BY <1>1, <1>2 DEF LoopStep

-----------------------------------------------------------------------------
(* The operations that make entries.                                       *)

LEMMA RequestedEntry ==
    ASSUME NEW s \in Status, NEW r \in EntryRequest \union {None}, NEW t,
           t.counts = CountsAfter(s, EntryFor(s, r)),
           t.entries = EntriesAfter(s, EntryFor(s, r))
    PROVE  /\ SameLoops(s, t) \/ \E e \in Entry : Enters(s, t, e)
           /\ r # None =>
                 /\ EntryFor(s, r).state = r.state
                 /\ EntryFor(s, r).key \in Keys
                 /\ t.counts = [s.counts EXCEPT ![EntryFor(s, r).key] = EntryFor(s, r).count]
  <1>1. s.counts \in [Keys -> Nat]
    BY DEF Status
  <1>2. CASE r = None
    BY <1>2 DEF EntryFor, CountsAfter, EntriesAfter, SameLoops
  <1>3. CASE r # None
    <2> DEFINE e == NextEntry(s, r)
    <2>1. r \in EntryRequest
      BY <1>3
    <2>2. /\ e \in Entry /\ e.key \in Keys /\ e.count = s.counts[e.key] + 1
          /\ e.state = r.state
      BY <1>1, <2>1 DEF NextEntry, EntryRequest, Entry
    <2>3. e.count # 0
      BY <1>1, <2>2
    <2>4. EntryFor(s, r) = e /\ e # None
      BY <1>3, <2>2, NoneAssumption DEF EntryFor
    <2> HIDE DEF e
    <2>5. Enters(s, t, e)
      BY <2>2, <2>3, <2>4 DEF Enters, CountsAfter, EntriesAfter
    <2> QED
      BY <2>2, <2>4, <2>5 DEF Enters
  <1> QED
    BY <1>2, <1>3

LEMMA StartLoop ==
    ASSUME NEW s \in Status, NEW req \in StartRequest, LiveStartOK(s, req),
           req.entry # None => req.entry.state = req.step
    PROVE  LoopStep(s, ReplayStart(s, StartEvent(s, req)))
  <1> DEFINE ev == StartEvent(s, req)
             t == ReplayStart(s, ev)
             e == EntryFor(s, req.entry)
  <1>1. req.entry \in EntryRequest \union {None}
    BY DEF StartRequest
  <1>2. /\ ev.entry = e /\ ev.hardOverride = req.hardOverride
        /\ ev.attempt = NewAttempt(Len(s.attempts) + 1, req.step, req.fix)
    BY DEF StartEvent
  <1>3. /\ t.counts = CountsAfter(s, ev.entry) /\ t.entries = EntriesAfter(s, ev.entry)
        /\ t.hardOverride = IF ev.hardOverride # None THEN None ELSE s.hardOverride
        /\ t.active = ev.attempt
    BY DEF ReplayStart, Status
  <1> HIDE DEF ev, t
  <1>4. SameLoops(s, t) \/ \E x \in Entry : Enters(s, t, x)
    BY <1>1, <1>2, <1>3, RequestedEntry
  <1>5. ASSUME s.hardOverride # None, t.hardOverride # s.hardOverride
        PROVE  /\ t.hardOverride = None
               /\ t.active # None
               /\ t.active.step = s.hardOverride.target
               /\ s.counts[s.hardOverride.key] = s.hardOverride.before
               /\ t.counts[s.hardOverride.key] = s.hardOverride.after
    <2>1. req.hardOverride # None /\ t.hardOverride = None
      BY <1>2, <1>3, <1>5
    <2>2. HardOverrideConsumable(s, e, req.hardOverride) /\ e # None
      BY <2>1 DEF LiveStartOK
    <2>3. req.entry # None
      BY <2>2 DEF EntryFor
    <2>4. /\ s.hardOverride = req.hardOverride
          /\ e.state = s.hardOverride.target /\ e.key = s.hardOverride.key
          /\ e.count = s.hardOverride.after /\ s.counts[e.key] = s.hardOverride.before
      BY <2>2 DEF HardOverrideConsumable
    <2>5. /\ e.state = req.step /\ e.key \in Keys
          /\ t.counts = [s.counts EXCEPT ![e.key] = e.count]
      BY <1>1, <1>2, <1>3, <2>3, RequestedEntry
    <2>6. s.counts \in [Keys -> Nat]
      BY DEF Status
    <2> HIDE DEF e
    <2>7. t.counts[s.hardOverride.key] = s.hardOverride.after
      BY <2>4, <2>5, <2>6
    <2>8. t.active.step = req.step /\ t.active \in Attempt
      <3>1. /\ req.step \in Steps /\ Len(s.attempts) + 1 \in Nat
            /\ req.fix \in Targets \union {NoTarget}
        BY DEF StartRequest, Status
      <3>2. NewAttempt(Len(s.attempts) + 1, req.step, req.fix) \in Attempt
        BY <3>1 DEF NewAttempt, Attempt, AttemptStates, LiveStates
      <3>3. NewAttempt(Len(s.attempts) + 1, req.step, req.fix).step = req.step
        BY DEF NewAttempt
      <3> QED
        BY <1>2, <1>3, <3>2, <3>3
    <2>9. t.active # None
      BY <2>8, NoneAssumption
    <2> QED
      BY <2>1, <2>4, <2>5, <2>7, <2>8, <2>9
  <1>6. LoopStep(s, t)
    BY <1>4, <1>5 DEF LoopStep, Spends
  <1> QED
    BY <1>6 DEF t, ev

LEMMA SkipLoop ==
    ASSUME NEW s \in Status, NEW req \in SkipRequest
    PROVE  LoopStep(s, ReplaySkip(s, SkipEvent(s, req)))
  <1> DEFINE ev == SkipEvent(s, req)
             t == ReplaySkip(s, ev)
  <1>1. ev.entry = EntryFor(s, req.entry) /\ req.entry \in EntryRequest \union {None}
    BY DEF SkipEvent, SkipRequest
  <1>2. /\ t.counts = CountsAfter(s, ev.entry) /\ t.entries = EntriesAfter(s, ev.entry)
        /\ t.hardOverride = s.hardOverride
    BY DEF ReplaySkip, Status
  <1> HIDE DEF ev, t
  <1>3. LoopStep(s, t)
    BY <1>1, <1>2, RequestedEntry DEF LoopStep, Spends
  <1> QED
    BY <1>3 DEF t, ev

LEMMA UpdateLoop ==
    ASSUME NEW s \in Status, NEW req \in UpdateRequest
    PROVE  LoopStep(s, InState(s, req))
  <1> DEFINE t == InState(s, req)
  <1>1. req.entry \in EntryRequest \union {None}
    BY DEF UpdateRequest
  <1>2. /\ t.counts = CountsAfter(s, EntryFor(s, req.entry))
        /\ t.entries = EntriesAfter(s, EntryFor(s, req.entry))
        /\ t.hardOverride = s.hardOverride
    BY DEF InState, Status
  <1> HIDE DEF t
  <1>3. LoopStep(s, t)
    BY <1>1, <1>2, RequestedEntry DEF LoopStep, Spends
  <1> QED
    BY <1>3 DEF t

-----------------------------------------------------------------------------
(* Steps of the specification.                                             *)

\* An event that replay rejects leaves what replay yields as it was.
LEMMA CommitLoop ==
    ASSUME NEW live, NEW ok, NEW replay, Commit(live, ok, replay), LoopStep(replayed, replay)
    PROVE  LoopStep(replayed, replayed')
  <1>1. Quiet(replayed, replayed)
    BY DEF Quiet, SameLoops
  <1>2. replayed' = replay \/ replayed' = replayed
    BY DEF Commit
  <1> QED
    BY <1>1, <1>2, QuietStep

LEMMA AttemptLoop ==
    ASSUME TypeOK, NEW id,
           \/ \E ref : RecordAttemptPrompt(id, ref) \/ RecordAttemptLog(id, ref)
           \/ RecordAttemptProcess(id)
           \/ \E state \in EndStates, recovered \in BOOLEAN :
                 TerminalizeAttempt(id, state, recovered)
           \/ \E req : RecordAttemptReport(id, req)
    PROVE  LoopStep(replayed, replayed')
  <1>1. \A a : Quiet(replayed, ReplayUpdate(replayed, a)) /\ Quiet(replayed, ReplayEnd(replayed, a))
    BY DEF TypeOK, Status, ReplayUpdate, ReplayEnd, Quiet, SameLoops
  <1>2. \A a, req : Quiet(replayed, ReplayReport(replayed, a, req))
    BY DEF TypeOK, Status, ReplayReport, ReplayUpdate, Quiet, SameLoops
  <1> QED
    BY <1>1, <1>2, QuietStep, CommitLoop
       DEF RecordAttemptPrompt, RecordAttemptLog, RecordAttemptProcess, TerminalizeAttempt,
           RecordAttemptReport

LEMMA BesideLoop ==
    ASSUME TypeOK,
           \/ \E id : RecordAttemptWarning(id)
           \/ \E ref : WriteArtifact(ref)
           \/ RecordIgnoredReport
           \/ \E cap : RecordWorkflowLoopSoftCap(cap)
    PROVE  LoopStep(replayed, replayed')
  <1>1. /\ \A x : Quiet(replayed, [replayed EXCEPT !.warned = @ \union {x}])
        /\ \A x : Quiet(replayed, [replayed EXCEPT !.artifacts = @ \union {x}])
        /\ \A x : Quiet(replayed, [replayed EXCEPT !.softCaps = @ \union {x}])
        /\ Quiet(replayed, replayed)
    BY DEF TypeOK, Status, Quiet, SameLoops
  <1> QED
    BY <1>1, QuietStep, CommitLoop
       DEF RecordAttemptWarning, WriteArtifact, RecordIgnoredReport, RecordWorkflowLoopSoftCap

LEMMA HumanLoop ==
    ASSUME TypeOK,
           \/ \E cap : BlockWorkflowLoopHardCap(cap)
           \/ \E block : BlockRepeatedReviewFinding(block)
           \/ AllowWorkflowLoopHardCap \/ AllowRepeatedReviewFinding \/ ResolveHumanBlock
    PROVE  LoopStep(replayed, replayed')
  <1> USE DEF TypeOK
  <1>1. /\ \A cap : Quiet(replayed, HardCapped(replayed, cap))
        /\ \A block : Quiet(replayed, FindingBlocked(replayed, block))
        /\ Quiet(replayed, FindingOverridden(replayed))
        /\ Quiet(replayed, Continued(replayed))
    BY DEF Status, Quiet, SameLoops, HardCapped, FindingBlocked, FindingOverridden, Continued
  <1>2. AllowWorkflowLoopHardCap =>
           Quiet(replayed, HardCapOverridden(replayed, replayed.hardBlock))
    BY DEF AllowWorkflowLoopHardCap, Status, Quiet, SameLoops, HardCapOverridden
  <1> QED
    BY <1>1, <1>2, QuietStep, CommitLoop
       DEF BlockWorkflowLoopHardCap, BlockRepeatedReviewFinding, AllowWorkflowLoopHardCap,
           AllowRepeatedReviewFinding, ResolveHumanBlock

LEMMA NextLoop == TypeOK /\ [Next]_storeVars => LoopStep(replayed, replayed')
  <1> SUFFICES ASSUME TypeOK, [Next]_storeVars PROVE LoopStep(replayed, replayed')
    OBVIOUS
  <1>1. CASE UNCHANGED storeVars
    BY <1>1, QuietStep DEF storeVars, Quiet, SameLoops
  <1>2. ASSUME NEW req \in StartRequests, StartAttempt(req) PROVE LoopStep(replayed, replayed')
    BY <1>2, RequestAssumption, StartLoop, CommitLoop DEF TypeOK, StartAttempt, CanStart
  <1>3. ASSUME NEW req \in SkipRequests, RecordStepSkip(req) PROVE LoopStep(replayed, replayed')
    BY <1>3, RequestAssumption, SkipLoop, CommitLoop DEF TypeOK, RecordStepSkip
  <1>4. ASSUME NEW req \in UpdateRequests, UpdateStatus(req) PROVE LoopStep(replayed, replayed')
    BY <1>4, RequestAssumption, UpdateLoop, CommitLoop DEF TypeOK, UpdateStatus
  <1> QED
    BY <1>1, <1>2, <1>3, <1>4, AttemptLoop, BesideLoop, HumanLoop DEF Next

LEMMA InitCounted == Init => EntriesCounted(replayed)
  <1> SUFFICES ASSUME Init PROVE EntriesCounted(replayed)
    OBVIOUS
  <1>1. PICK step \in Steps : replayed = InitialStatus(step)
    BY DEF Init
  <1>2. /\ replayed.counts = [k \in Keys |-> 0]
        /\ replayed.entries = <<InitialEntry(step)>>
    BY <1>1 DEF InitialStatus
  <1>3. ASSUME NEW k \in Keys PROVE MadeOn(replayed, k) = {}
    <2>1. InitialEntry(step).key # k
      BY WorkflowAssumption DEF InitialEntry
    <2> QED
      BY <1>2, <2>1 DEF MadeOn
  <1> QED
    BY <1>2, <1>3, FS_EmptySet DEF EntriesCounted

\* The counter of a loop is the number of entries made on it, whatever order
\* requests arrive in: no start, skip or update is counted twice or forgotten.
THEOREM CountersCount == Spec => []CountsMatchEntries
  <1>1. TypeOK /\ EntriesCounted(replayed) /\ [Next]_storeVars => EntriesCounted(replayed)'
    <2>1. ASSUME TypeOK, EntriesCounted(replayed), LoopStep(replayed, replayed') PROVE EntriesCounted(replayed')
      BY <2>1, LoopStepCounted DEF TypeOK
    <2> QED
      BY <2>1, NextLoop
  <1>2. EntriesCounted(replayed) => CountsMatchEntries
    BY DEF EntriesCounted, MadeOn, CountsMatchEntries
  <1> QED
    BY <1>1, <1>2, InitCounted, TypeCorrect, PTL DEF Spec

\* The override of a hard cap is spent by the start it was given for, and by
\* nothing else: it enters the target and takes the counter from the count the
\* human saw to the count he allowed.
THEOREM OverrideSpent == Spec => OverrideSpentOnTarget
  <1>1. TypeOK /\ [Next]_storeVars =>
          [replayed.hardOverride # None /\ replayed'.hardOverride # replayed.hardOverride =>
             LET o == replayed.hardOverride
             IN  /\ replayed'.hardOverride = None
                 /\ replayed'.active # None
                 /\ replayed'.active.step = o.target
                 /\ replayed.counts[o.key] = o.before
                 /\ replayed'.counts[o.key] = o.after]_storeVars
    BY NextLoop DEF LoopStep, Spends
  <1> QED
    BY <1>1, TypeCorrect, PTL DEF Spec, OverrideSpentOnTarget
=============================================================================
