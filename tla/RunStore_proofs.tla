--------------------------- MODULE RunStore_proofs ---------------------------
(***************************************************************************)
(* Proofs about the run store.  Each operation has one lemma about what it *)
(* does to a status, free of primes: the live path yields a well-typed     *)
(* status with a good history, replay accepts the event, and both paths    *)
(* yield the same status.  The steps of the specification follow.          *)
(***************************************************************************)
EXTENDS RunStore, TLAPS, SequenceTheorems

\* The phases of a history, one of them changed, and what a step of the life
\* cycle, or a stutter, makes of them.
PhasesOf(h) == [i \in 1..Len(h) |-> PhaseOf(h[i])]

WithPhase(p, k, phase) == [p EXCEPT ![k] = phase]

PhaseStep(p, q) ==
    \/ q = p
    \/ (p = <<>> \/ p[Len(p)] # "live") /\ q = Append(p, "live")
    \/ /\ p # <<>> /\ p[Len(p)] = "ended"
       /\ q = Append([p EXCEPT ![Len(p)] = "routed"], "live")
    \/ p # <<>> /\ p[Len(p)] = "live" /\ q = [p EXCEPT ![Len(p)] = "ended"]
    \/ p # <<>> /\ p[Len(p)] = "ended" /\ q = [p EXCEPT ![Len(p)] = "routed"]

\* What an operation on status s owes, when it writes live and appends an
\* event that replays to replay if ok.
Sound(s, live, ok, replay) ==
    /\ live \in Status
    /\ GoodHistory(live)
    /\ OutcomesKept(s.attempts, live.attempts)
    /\ PhaseStep(PhasesOf(s.attempts), PhasesOf(live.attempts))
    /\ ok
    /\ replay = live

-----------------------------------------------------------------------------
LEMMA NoLiveAttempt ==
    ASSUME NEW s \in Status, GoodHistory(s), s.active = None
    PROVE  \A i \in 1..Len(s.attempts) : s.attempts[i].state \notin LiveStates
  BY DEF GoodHistory

LEMMA LastAttemptType ==
    ASSUME NEW s \in Status, s.attempts # <<>>
    PROVE  /\ Len(s.attempts) \in 1..Len(s.attempts)
           /\ LastAttempt(s) \in Attempt
  <1>1. s.attempts \in Seq(Attempt)
    BY DEF Status
  <1>2. Len(s.attempts) \in Nat /\ Len(s.attempts) # 0
    BY <1>1
  <1> QED
    BY <1>1, <1>2 DEF LastAttempt

LEMMA LatestConsumableType ==
    ASSUME NEW s \in Status
    PROVE  /\ LatestConsumable(s) \in 0..Len(s.attempts)
           /\ LatestConsumable(s) # 0 =>
                 /\ LatestConsumable(s) = Len(s.attempts)
                 /\ s.attempts # <<>>
                 /\ RoutingOutcome(LastAttempt(s))
  <1>1. Len(s.attempts) \in Nat
    BY DEF Status
  <1> QED
    BY <1>1, LastAttemptType DEF LatestConsumable

LEMMA LengthType ==
    ASSUME NEW s \in Status
    PROVE  Len(s.attempts) \in Nat
  BY DEF Status

LEMMA HistoryKeepsItself ==
    ASSUME NEW s \in Status
    PROVE  OutcomesKept(s.attempts, s.attempts)
  <1>1. s.attempts \in Seq(Attempt)
    BY DEF Status
  <1>2. \A a \in Attempt : SameOutcome(a, a)
    BY DEF SameOutcome, Attempt
  <1> QED
    BY <1>1, <1>2 DEF OutcomesKept

LEMMA EntryForType ==
    ASSUME NEW s \in Status, NEW r \in EntryRequest \union {None}
    PROVE  /\ EntryFor(s, r) \in Entry \union {None}
           /\ EntryFor(s, r) = None <=> r = None
           /\ CountsAfter(s, EntryFor(s, r)) \in [Keys -> Nat]
           /\ EntriesAfter(s, EntryFor(s, r)) \in Seq(Entry)
           /\ ReplayEntryOK(s, EntryFor(s, r))
  <1>1. s.counts \in [Keys -> Nat] /\ s.entries \in Seq(Entry)
    BY DEF Status
  <1>2. CASE r = None
    BY <1>1, <1>2 DEF EntryFor, CountsAfter, EntriesAfter, ReplayEntryOK
  <1>3. CASE r # None
    <2> DEFINE e == NextEntry(s, r)
    <2>1. r \in EntryRequest
      BY <1>3
    <2>2. e \in Entry /\ e.key \in Keys /\ e.count \in Nat /\ e.count = s.counts[e.key] + 1
      BY <1>1, <2>1 DEF NextEntry, EntryRequest, Entry
    <2>3. EntryFor(s, r) = e /\ e # None
      BY <1>3, <2>2, NoneAssumption DEF EntryFor
    <2> HIDE DEF e
    <2>4. CountsAfter(s, e) \in [Keys -> Nat]
      BY <1>1, <2>2 DEF CountsAfter
    <2>5. EntriesAfter(s, e) \in Seq(Entry)
      BY <1>1, <2>2, <2>3 DEF EntriesAfter
    <2>6. ReplayEntryOK(s, e)
      BY <2>2 DEF ReplayEntryOK
    <2> QED
      BY <1>3, <2>2, <2>3, <2>4, <2>5, <2>6
  <1> QED
    BY <1>2, <1>3

-----------------------------------------------------------------------------
(* The phases of the histories operations write.                           *)

LEMMA PhasesType ==
    ASSUME NEW h \in Seq(Attempt)
    PROVE  /\ PhasesOf(h) \in Seq({"live", "ended", "routed"})
           /\ Len(PhasesOf(h)) = Len(h)
           /\ \A i \in 1..Len(h) : PhasesOf(h)[i] = PhaseOf(h[i])
           /\ h # <<>> => PhasesOf(h) # <<>> /\ Len(h) \in 1..Len(h)
           /\ h = <<>> => PhasesOf(h) = <<>>
  <1>1. Len(h) \in Nat /\ (h = <<>> <=> Len(h) = 0)
    OBVIOUS
  <1>2. \A i \in 1..Len(h) : PhaseOf(h[i]) \in {"live", "ended", "routed"}
    BY DEF PhaseOf
  <1> DEFINE p == [i \in 1..Len(h) |-> PhaseOf(h[i])]
  <1>3. p \in Seq({"live", "ended", "routed"}) /\ Len(p) = Len(h)
    BY <1>1, <1>2
  <1>4. \A i \in 1..Len(h) : p[i] = PhaseOf(h[i])
    OBVIOUS
  <1>5. PhasesOf(h) = p
    BY DEF PhasesOf
  <1> HIDE DEF p
  <1>6. h = <<>> => p = <<>>
    BY <1>1, <1>3
  <1>7. h # <<>> => p # <<>> /\ Len(h) \in 1..Len(h)
    BY <1>1, <1>3
  <1> QED
    BY <1>3, <1>4, <1>5, <1>6, <1>7

\* Editing one attempt changes one phase.
LEMMA PhasesAfterEdit ==
    ASSUME NEW h \in Seq(Attempt), NEW f \in Seq(Attempt), Len(f) = Len(h),
           NEW k \in 1..Len(h), \A i \in 1..Len(h) : i # k => f[i] = h[i]
    PROVE  PhasesOf(f) = WithPhase(PhasesOf(h), k, PhaseOf(f[k]))
  BY DEF PhasesOf, WithPhase

LEMMA PhasesAfterAppend ==
    ASSUME NEW h \in Seq(Attempt), NEW a \in Attempt
    PROVE  PhasesOf(Append(h, a)) = Append(PhasesOf(h), PhaseOf(a))
  <1> DEFINE f == Append(h, a)
             p == PhasesOf(h)
             q == Append(p, PhaseOf(a))
  <1>1. /\ f \in Seq(Attempt) /\ Len(f) = Len(h) + 1 /\ f[Len(h) + 1] = a
        /\ \A i \in 1..Len(h) : f[i] = h[i]
        /\ Len(h) \in Nat
    OBVIOUS
  <1>2. /\ p \in Seq({"live", "ended", "routed"}) /\ Len(p) = Len(h)
        /\ \A i \in 1..Len(h) : p[i] = PhaseOf(h[i])
    BY PhasesType
  <1>3. PhaseOf(a) \in {"live", "ended", "routed"}
    BY DEF PhaseOf
  <1> HIDE DEF p
  <1>4. /\ q \in Seq({"live", "ended", "routed"}) /\ Len(q) = Len(h) + 1
        /\ q[Len(h) + 1] = PhaseOf(a)
        /\ \A i \in 1..Len(h) : q[i] = PhaseOf(h[i])
    BY <1>1, <1>2, <1>3
  <1>5. /\ PhasesOf(f) \in Seq({"live", "ended", "routed"}) /\ Len(PhasesOf(f)) = Len(f)
        /\ \A i \in 1..Len(f) : PhasesOf(f)[i] = PhaseOf(f[i])
    BY <1>1, PhasesType
  <1> HIDE DEF f, q
  <1>6. \A i \in 1..Len(q) : PhasesOf(f)[i] = q[i]
    BY <1>1, <1>4, <1>5
  <1>7. PhasesOf(f) = q
    BY <1>1, <1>4, <1>5, <1>6
  <1> QED
    BY <1>7 DEF f, q, p

-----------------------------------------------------------------------------
(* Updates of the active attempt.                                          *)

\* The active attempt and its place in the history.
LEMMA ActivePlace ==
    ASSUME NEW s \in Status, GoodHistory(s), s.active # None
    PROVE  /\ s.active \in Attempt
           /\ s.active.id = Len(s.attempts)
           /\ Len(s.attempts) \in 1..Len(s.attempts)
           /\ s.active.state \in LiveStates
           /\ ~s.active.consumed /\ ~s.active.superseded
  <1>1. s.active \in Attempt
    BY DEF Status
  <1>2. s.attempts # <<>> /\ s.active = LastAttempt(s) /\ s.active.state \in LiveStates
    BY DEF GoodHistory
  <1>3. Len(s.attempts) \in 1..Len(s.attempts)
    BY <1>2, LastAttemptType
  <1>4. s.active = s.attempts[Len(s.attempts)]
    BY <1>2 DEF LastAttempt
  <1> QED
    BY <1>1, <1>2, <1>3, <1>4 DEF GoodHistory, Attempt

\* Writing an edited copy of the active attempt to the history.
LEMMA ReplaceLast ==
    ASSUME NEW s \in Status, GoodHistory(s), s.active # None,
           NEW a \in Attempt, a.id = s.active.id
    PROVE  /\ [s.attempts EXCEPT ![a.id] = a] \in Seq(Attempt)
           /\ Len([s.attempts EXCEPT ![a.id] = a]) = Len(s.attempts)
           /\ a.id = Len(s.attempts)
           /\ [s.attempts EXCEPT ![a.id] = a][a.id] = a
           /\ \A i \in 1..Len(s.attempts) :
                 i # a.id => [s.attempts EXCEPT ![a.id] = a][i] = s.attempts[i]
           /\ OutcomesKept(s.attempts, [s.attempts EXCEPT ![a.id] = a])
           /\ a.state \in LiveStates \/ ~a.consumed =>
                 PhaseStep(PhasesOf(s.attempts), PhasesOf([s.attempts EXCEPT ![a.id] = a]))
  <1> DEFINE f == [s.attempts EXCEPT ![a.id] = a]
  <1>1. s.attempts \in Seq(Attempt)
    BY DEF Status
  <1>2. /\ f \in Seq(Attempt) /\ Len(f) = Len(s.attempts) /\ a.id = Len(s.attempts)
        /\ f[a.id] = a
        /\ \A i \in 1..Len(s.attempts) : i # a.id => f[i] = s.attempts[i]
    BY <1>1, ActivePlace
  <1> HIDE DEF f
  <1>3. s.attempts[a.id] = s.active
    BY <1>2 DEF GoodHistory, LastAttempt
  <1>4. SameOutcome(s.attempts[a.id], f[a.id])
    BY <1>3, ActivePlace DEF SameOutcome
  <1>5. \A b \in Attempt : SameOutcome(b, b)
    BY DEF SameOutcome, Attempt
  <1>6. OutcomesKept(s.attempts, f)
    BY <1>1, <1>2, <1>4, <1>5 DEF OutcomesKept
  <1>7. ASSUME a.state \in LiveStates \/ ~a.consumed
        PROVE  PhaseStep(PhasesOf(s.attempts), PhasesOf(f))
    <2> DEFINE p == PhasesOf(s.attempts)
    <2>1. a.id \in 1..Len(s.attempts) /\ s.attempts # <<>>
      BY <1>2, ActivePlace DEF GoodHistory
    <2>2. PhaseOf(s.attempts[a.id]) = "live"
      BY <1>3, ActivePlace DEF PhaseOf
    <2>3. p # <<>> /\ Len(p) = a.id /\ p[a.id] = "live"
          /\ p \in Seq({"live", "ended", "routed"})
      BY <1>1, <1>2, <2>1, <2>2, PhasesType
    <2>4. PhasesOf(f) = [p EXCEPT ![a.id] = PhaseOf(a)]
      <3>1. /\ f \in Seq(Attempt) /\ Len(f) = Len(s.attempts) /\ f[a.id] = a
            /\ \A i \in 1..Len(s.attempts) : i # a.id => f[i] = s.attempts[i]
        BY <1>2
      <3> HIDE DEF p
      <3>2. PhasesOf(f) = WithPhase(PhasesOf(s.attempts), a.id, PhaseOf(f[a.id]))
        BY <1>1, <2>1, <3>1, PhasesAfterEdit
      <3> QED
        BY <3>1, <3>2 DEF p, WithPhase
    <2>5. PhaseOf(a) = "live" \/ PhaseOf(a) = "ended"
      BY <1>7 DEF PhaseOf
    <2> HIDE DEF p
    <2>6. PhaseOf(a) = "live" => PhasesOf(f) = p
      BY <2>3, <2>4
    <2>7. PhaseStep(p, PhasesOf(f))
      BY <2>3, <2>4, <2>5, <2>6 DEF PhaseStep
    <2> QED
      BY <2>7 DEF p
  <1> QED
    BY <1>2, <1>6, <1>7 DEF f

LEMMA UpdateSound ==
    ASSUME NEW s \in Status, GoodHistory(s), s.active # None,
           NEW a \in Attempt, a.id = s.active.id, a.state \in LiveStates,
           ~a.consumed, ~a.superseded
    PROVE  Sound(s, LiveUpdate(s, a), TRUE, ReplayUpdate(s, a))
  <1> DEFINE f == [s.attempts EXCEPT ![a.id] = a]
             t == [s EXCEPT !.attempts = f, !.active = a]
  <1>1. LiveUpdate(s, a) = t /\ ReplayUpdate(s, a) = t
    BY DEF LiveUpdate, ReplayUpdate, Status
  <1>2. /\ f \in Seq(Attempt) /\ Len(f) = Len(s.attempts) /\ a.id = Len(s.attempts)
        /\ f[a.id] = a
        /\ \A i \in 1..Len(s.attempts) : i # a.id => f[i] = s.attempts[i]
        /\ OutcomesKept(s.attempts, f)
        /\ PhaseStep(PhasesOf(s.attempts), PhasesOf(f))
    BY ReplaceLast
  <1>3. Len(s.attempts) \in 1..Len(s.attempts) /\ s.state = Running
    BY ActivePlace DEF GoodHistory
  <1> HIDE DEF f
  <1>4. t \in Status
    BY <1>2 DEF Status
  <1>5. t.active = a /\ t.attempts = f /\ t.state = Running /\ a # None
    BY <1>3, NoneAssumption DEF Status
  <1> HIDE DEF t
  <1>6. f # <<>> /\ a = LastAttempt(t)
    BY <1>2, <1>3, <1>5 DEF LastAttempt
  <1>7. GoodHistory(t)
    BY <1>2, <1>3, <1>5, <1>6 DEF GoodHistory
  <1>8. /\ OutcomesKept(s.attempts, t.attempts)
        /\ PhaseStep(PhasesOf(s.attempts), PhasesOf(t.attempts))
    BY <1>2, <1>5
  <1> QED
    BY <1>1, <1>4, <1>7, <1>8 DEF Sound

\* Ending the active attempt, with artifacts recorded in the same event.
LEMMA EndSound ==
    ASSUME NEW s \in Status, GoodHistory(s), s.active # None,
           NEW a \in Attempt, a.id = s.active.id, a.state \notin LiveStates,
           ~a.superseded, ~a.consumed, NEW arts \in SUBSET Artifact
    PROVE  LET t == [s EXCEPT !.attempts[a.id] = a, !.active = None, !.artifacts = arts]
           IN  Sound(s, t, TRUE, t)
  <1> DEFINE f == [s.attempts EXCEPT ![a.id] = a]
             t == [s EXCEPT !.attempts = f, !.active = None, !.artifacts = arts]
  <1>1. /\ f \in Seq(Attempt) /\ Len(f) = Len(s.attempts) /\ a.id = Len(s.attempts)
        /\ f[a.id] = a
        /\ \A i \in 1..Len(s.attempts) : i # a.id => f[i] = s.attempts[i]
        /\ OutcomesKept(s.attempts, f)
        /\ PhaseStep(PhasesOf(s.attempts), PhasesOf(f))
    BY ReplaceLast
  <1>2. Len(s.attempts) \in 1..Len(s.attempts)
    BY ActivePlace
  <1> HIDE DEF f
  <1>3. t \in Status
    BY <1>1 DEF Status
  <1>4. t.active = None /\ t.attempts = f
    BY DEF Status
  <1> HIDE DEF t
  <1>5. GoodHistory(t)
    BY <1>1, <1>2, <1>4 DEF GoodHistory
  <1>6. /\ OutcomesKept(s.attempts, t.attempts)
        /\ PhaseStep(PhasesOf(s.attempts), PhasesOf(t.attempts))
    BY <1>1, <1>4
  <1>7. Sound(s, t, TRUE, t)
    BY <1>3, <1>5, <1>6 DEF Sound
  <1> QED
    BY <1>7 DEF t, f

LEMMA PromptSound ==
    ASSUME NEW s \in Status, GoodHistory(s), s.active # None, s.active.state = "starting"
    PROVE  /\ Sound(s, LiveUpdate(s, Prompted(s.active)), TRUE, ReplayUpdate(s, Prompted(s.active)))
           /\ Sound(s, LiveUpdate(s, Logged(s.active)), TRUE, ReplayUpdate(s, Logged(s.active)))
           /\ Sound(s, LiveUpdate(s, Processed(s.active)), TRUE,
                    ReplayUpdate(s, Processed(s.active)))
  <1> DEFINE a == s.active
  <1>1. a \in Attempt /\ ~a.consumed /\ ~a.superseded
    BY ActivePlace
  <1>2. /\ Prompted(a) \in Attempt /\ Prompted(a).id = a.id /\ Prompted(a).state \in LiveStates
        /\ ~Prompted(a).consumed /\ ~Prompted(a).superseded
    BY <1>1 DEF Prompted, Attempt, LiveStates
  <1>3. /\ Logged(a) \in Attempt /\ Logged(a).id = a.id /\ Logged(a).state \in LiveStates
        /\ ~Logged(a).consumed /\ ~Logged(a).superseded
    BY <1>1 DEF Logged, Attempt, LiveStates
  <1>4. /\ Processed(a) \in Attempt /\ Processed(a).id = a.id
        /\ Processed(a).state \in LiveStates
        /\ ~Processed(a).consumed /\ ~Processed(a).superseded
    BY <1>1 DEF Processed, Attempt, LiveStates, AttemptStates
  <1> QED
    BY <1>2, <1>3, <1>4, UpdateSound

LEMMA SystemPairType ==
    \A state \in EndStates \union {"invalid_report"} : SystemPair[state] \in Pairs
  <1>1. EndStates \union {"invalid_report"} \subseteq DOMAIN SystemPair
    BY DEF SystemPair, EndStates
  <1> QED
    BY <1>1, WorkflowAssumption

LEMMA TerminalizeSound ==
    ASSUME NEW s \in Status, GoodHistory(s), s.active # None,
           NEW state \in EndStates, NEW recovered \in BOOLEAN
    PROVE  Sound(s, LiveUpdate(s, Ended(s.active, state, recovered)), TRUE,
                 ReplayEnd(s, Ended(s.active, state, recovered)))
  <1> DEFINE a == Ended(s.active, state, recovered)
  <1>1. s.active \in Attempt /\ ~s.active.superseded /\ ~s.active.consumed
    BY ActivePlace
  <1>2. /\ a \in Attempt /\ a.id = s.active.id /\ a.state \notin LiveStates
        /\ ~a.superseded /\ ~a.consumed
    BY <1>1, SystemPairType DEF Ended, Attempt, LiveStates, EndStates, AttemptStates
  <1> HIDE DEF a
  <1>3. s.artifacts \in SUBSET Artifact
    BY DEF Status
  <1>4. LiveUpdate(s, a) = [s EXCEPT !.attempts[a.id] = a, !.active = None,
                                     !.artifacts = s.artifacts]
        /\ ReplayEnd(s, a) = LiveUpdate(s, a)
    BY <1>2 DEF LiveUpdate, ReplayEnd, Status
  <1> QED
    <2> DEFINE t == [s EXCEPT !.attempts[a.id] = a, !.active = None, !.artifacts = s.artifacts]
    <2>1. Sound(s, t, TRUE, t)
      BY <1>1, <1>2, <1>3, EndSound
    <2> HIDE DEF t
    <2>2. Sound(s, LiveUpdate(s, a), TRUE, ReplayEnd(s, a))
      BY <1>4, <2>1 DEF Sound, t
    <2> QED
      BY <2>2 DEF a

LEMMA ReportSound ==
    ASSUME NEW s \in Status, GoodHistory(s), s.active # None, NEW req \in ReportRequest,
           ReportOK(s.active, req.allowStarting)
    PROVE  Sound(s, LiveReport(s, s.active, req), ReportOK(s.active, s.active.state = "starting"),
                 ReplayReport(s, s.active, req))
  <1> DEFINE a == Reported(s.active, req)
             arts == s.artifacts \union ReportArtifacts(s.active, req)
             t == [s EXCEPT !.attempts[a.id] = a, !.active = None, !.artifacts = arts]
  <1>1. s.active \in Attempt /\ ~s.active.superseded /\ ~s.active.consumed
    BY ActivePlace
  <1>2. a.state \in ReportedStates /\ a.pair \in Pairs /\ a.findings \in SUBSET Findings
    BY <1>1 DEF Reported, Attempt, ReportRequest
  <1>2a. a \in Attempt /\ a.id = s.active.id /\ ~a.superseded /\ ~a.consumed
    BY <1>1, <1>2 DEF Reported, Attempt, ReportRequest, ReportedStates, AttemptStates
  <1>2b. a.state \notin LiveStates
    BY <1>2 DEF LiveStates, ReportedStates
  <1>3. arts \in SUBSET Artifact
    BY <1>1 DEF Status, ReportArtifacts, Artifact, Attempt
  <1>4. LiveReport(s, s.active, req) = t /\ ReplayReport(s, s.active, req) = t
    BY <1>2a DEF LiveReport, ReplayReport, ReplayUpdate, Status
  <1>5. ReportOK(s.active, s.active.state = "starting")
    BY DEF ReportOK
  <1> HIDE DEF a, arts
  <1>6. Sound(s, t, TRUE, t)
    BY <1>1, <1>2a, <1>2b, <1>3, EndSound
  <1> QED
    BY <1>4, <1>5, <1>6 DEF Sound

-----------------------------------------------------------------------------
(* Starting an attempt.                                                    *)

\* What a start takes for granted about routing names an ended attempt.
LEMMA ConsumedAttempt ==
    ASSUME NEW s \in Status, GoodHistory(s), s.active = None, NEW consume \in Nat,
           consume # 0 => consume = LatestConsumable(s)
    PROVE  consume # 0 => /\ consume \in 1..Len(s.attempts)
                          /\ consume = Len(s.attempts)
                          /\ s.attempts[consume].state \notin LiveStates
  BY LatestConsumableType, NoLiveAttempt DEF Status

LEMMA HistoryAfterStartSound ==
    ASSUME NEW s \in Status, GoodHistory(s), s.active = None,
           NEW consume \in Nat, consume # 0 => consume = LatestConsumable(s),
           NEW retry, NEW a \in Attempt, a.id = Len(s.attempts) + 1,
           a.state \in LiveStates
    PROVE  LET f == HistoryAfterStart(s, consume, retry, a)
           IN  /\ f \in Seq(Attempt)
               /\ Len(f) = Len(s.attempts) + 1
               /\ f[Len(f)] = a
               /\ \A i \in 1..Len(s.attempts) :
                     /\ f[i].id = i
                     /\ f[i].state \notin LiveStates
                     /\ f[i].superseded => f[i].consumed
               /\ OutcomesKept(s.attempts, f)
               /\ PhaseStep(PhasesOf(s.attempts), PhasesOf(f))
  <1> DEFINE g == IF consume = 0 THEN s.attempts
                  ELSE [s.attempts EXCEPT ![consume].consumed = TRUE,
                                          ![consume].superseded = @ \/ retry # None]
  <1>1. s.attempts \in Seq(Attempt)
    BY DEF Status
  <1>2. g \in Seq(Attempt) /\ Len(g) = Len(s.attempts)
        /\ \A i \in 1..Len(s.attempts) :
              /\ g[i].id = i
              /\ g[i].state \notin LiveStates
              /\ g[i].superseded => g[i].consumed
              /\ SameOutcome(s.attempts[i], g[i])
    <2>1. CASE consume = 0
      <3>1. g = s.attempts
        BY <2>1
      <3> QED
        BY <1>1, <3>1, NoLiveAttempt, HistoryKeepsItself DEF GoodHistory, OutcomesKept
    <2>2. CASE consume # 0
      <3> DEFINE b == [s.attempts[consume] EXCEPT !.consumed = TRUE,
                                                 !.superseded = @ \/ retry # None]
      <3>1. consume \in 1..Len(s.attempts) /\ s.attempts[consume] \in Attempt
        BY <1>1, <2>2, ConsumedAttempt
      <3>2. g = [s.attempts EXCEPT ![consume] = b]
        BY <1>1, <2>2, <3>1
      <3>3. b \in Attempt /\ b.id = s.attempts[consume].id
            /\ b.state = s.attempts[consume].state /\ b.consumed
        BY <3>1 DEF Attempt
      <3>3a. SameOutcome(s.attempts[consume], b)
        BY <3>1 DEF SameOutcome, Attempt
      <3> HIDE DEF b, g
      <3>4. g \in Seq(Attempt) /\ Len(g) = Len(s.attempts) /\ g[consume] = b
            /\ \A i \in 1..Len(s.attempts) : i # consume => g[i] = s.attempts[i]
        BY <1>1, <3>1, <3>2, <3>3
      <3>5. \A i \in 1..Len(s.attempts) : SameOutcome(s.attempts[i], g[i])
        BY <3>3a, <3>4, HistoryKeepsItself DEF OutcomesKept
      <3> QED
        BY <3>1, <3>3, <3>4, <3>5, NoLiveAttempt DEF GoodHistory
    <2> QED
      BY <2>1, <2>2
  <1>3. HistoryAfterStart(s, consume, retry, a) = Append(g, a)
    BY DEF HistoryAfterStart
  <1> HIDE DEF g
  <1>4. LET f == Append(g, a)
        IN  /\ f \in Seq(Attempt)
            /\ Len(f) = Len(s.attempts) + 1
            /\ f[Len(f)] = a
            /\ \A i \in 1..Len(s.attempts) : f[i] = g[i]
    BY <1>1, <1>2
  <1>5. OutcomesKept(s.attempts, Append(g, a))
    BY <1>1, <1>2, <1>4 DEF OutcomesKept
  <1>6. PhaseStep(PhasesOf(s.attempts), PhasesOf(Append(g, a)))
    <2> DEFINE p == PhasesOf(s.attempts)
    <2>1. PhasesOf(Append(g, a)) = Append(PhasesOf(g), "live")
      BY <1>2, PhasesAfterAppend DEF PhaseOf
    <2>2. CASE consume = 0
      <3>1. p = <<>> \/ p[Len(p)] # "live"
        <4>1. \A i \in 1..Len(s.attempts) : PhaseOf(s.attempts[i]) # "live"
          BY NoLiveAttempt DEF PhaseOf
        <4> QED
          BY <1>1, <4>1, PhasesType
      <3>2. PhasesOf(g) = p
        BY <2>2 DEF g
      <3> QED
        BY <2>1, <3>1, <3>2 DEF PhaseStep
    <2>3. CASE consume # 0
      <3>1. /\ consume \in 1..Len(s.attempts) /\ consume = Len(s.attempts)
            /\ s.attempts # <<>> /\ RoutingOutcome(s.attempts[consume])
            /\ s.attempts[consume].state \notin LiveStates
        BY <2>3, ConsumedAttempt, LatestConsumableType DEF LastAttempt
      <3>2. PhaseOf(s.attempts[consume]) = "ended"
        BY <3>1 DEF PhaseOf, RoutingOutcome
      <3>3. /\ g[consume].consumed /\ \A i \in 1..Len(s.attempts) : i # consume => g[i] = s.attempts[i]
        BY <1>1, <2>3, <3>1 DEF g, Attempt
      <3>4. PhaseOf(g[consume]) = "routed"
        BY <1>2, <3>1, <3>3 DEF PhaseOf
      <3>5. PhasesOf(g) = [p EXCEPT ![consume] = "routed"]
        <4>1. /\ g \in Seq(Attempt) /\ Len(g) = Len(s.attempts)
              /\ \A i \in 1..Len(s.attempts) : i # consume => g[i] = s.attempts[i]
          BY <1>2, <3>3
        <4>2. PhasesOf(g) = WithPhase(PhasesOf(s.attempts), consume, PhaseOf(g[consume]))
          BY <1>1, <3>1, <4>1, PhasesAfterEdit
        <4> QED
          BY <3>4, <4>2 DEF WithPhase
      <3>6. p # <<>> /\ Len(p) = consume /\ p[consume] = "ended"
        BY <1>1, <3>1, <3>2, PhasesType
      <3> QED
        BY <2>1, <3>5, <3>6 DEF PhaseStep
    <2> QED
      BY <2>2, <2>3
  <1> QED
    BY <1>2, <1>3, <1>4, <1>5, <1>6

LEMMA StartSound ==
    ASSUME NEW s \in Status, GoodHistory(s), NEW req \in StartRequest,
           req.entry # None => req.entry.state = req.step,
           LiveStartOK(s, req)
    PROVE  Sound(s, LiveStart(s, req), ReplayStartOK(s, StartEvent(s, req)),
                 ReplayStart(s, StartEvent(s, req)))
  <1> DEFINE e == EntryFor(s, req.entry)
             a == NewAttempt(Len(s.attempts) + 1, req.step, req.fix)
             f == HistoryAfterStart(s, req.consume, req.retry, a)
             t == LiveStart(s, req)
             ev == StartEvent(s, req)
  <1>1. /\ req.step \in Steps /\ req.consume \in Nat /\ req.retry \in Lineage \union {None}
        /\ req.fix \in Targets \union {NoTarget}
        /\ req.entry \in EntryRequest \union {None}
        /\ req.hardOverride \in Cap \union {None}
        /\ req.findOverride \in FindingBlock \union {None}
    BY DEF StartRequest
  <1>2. /\ s.state = Running /\ s.active = None
        /\ req.consume # 0 => req.consume = LatestConsumable(s)
    BY DEF LiveStartOK, StartRoutingOK
  <1>3. Len(s.attempts) \in Nat
    BY DEF Status
  <1>4. a \in Attempt /\ a.id = Len(s.attempts) + 1 /\ a.state = "starting" /\ ~a.pid
        /\ a.step = req.step /\ ~a.consumed /\ ~a.superseded /\ a.state \in LiveStates
    BY <1>1, <1>3 DEF NewAttempt, Attempt, LiveStates, AttemptStates
  <1>5. /\ e \in Entry \union {None} /\ (e = None <=> req.entry = None)
        /\ CountsAfter(s, e) \in [Keys -> Nat] /\ EntriesAfter(s, e) \in Seq(Entry)
        /\ ReplayEntryOK(s, e)
    BY <1>1, EntryForType
  <1>6. req.entry # None => e.state = req.step
    BY DEF EntryFor, NextEntry
  <1>7. /\ ev.attempt = a /\ ev.consume = req.consume /\ ev.retry = req.retry /\ ev.entry = e
        /\ ev.hardOverride = req.hardOverride /\ ev.findOverride = req.findOverride
    BY DEF StartEvent
  <1> HIDE DEF a, e
  <1>8. /\ f \in Seq(Attempt) /\ Len(f) = Len(s.attempts) + 1 /\ f[Len(f)] = a
        /\ \A i \in 1..Len(s.attempts) :
              /\ f[i].id = i
              /\ f[i].state \notin LiveStates
              /\ f[i].superseded => f[i].consumed
        /\ OutcomesKept(s.attempts, f)
        /\ PhaseStep(PhasesOf(s.attempts), PhasesOf(f))
    BY <1>1, <1>2, <1>4, HistoryAfterStartSound
  <1> HIDE DEF ev
  <1>9. ReplayStart(s, ev) = t
    BY <1>7 DEF ReplayStart, LiveStart, e, a
  <1> HIDE DEF f
  <1>10. /\ t.active = a /\ t.attempts = f /\ t.state = Running
    BY <1>2 DEF LiveStart, Status, e, a, f
  <1>11. t \in Status
    <2> DEFINE hard == IF req.hardOverride # None THEN None ELSE s.hardOverride
               find == IF req.findOverride # None THEN None ELSE s.findOverride
               counts == CountsAfter(s, e)
               entries == EntriesAfter(s, e)
    <2>1. t = [s EXCEPT !.counts = counts, !.entries = entries, !.hardOverride = hard,
                        !.findOverride = find, !.continued = None, !.lineage = req.retry,
                        !.active = a, !.attempts = f]
      BY DEF LiveStart, Status, e, a, f
    <2>2. /\ counts \in [Keys -> Nat] /\ entries \in Seq(Entry)
          /\ hard \in Cap \union {None} /\ find \in FindingBlock \union {None}
      BY <1>5 DEF Status
    <2>3. a \in Attempt /\ f \in Seq(Attempt) /\ req.retry \in Lineage \union {None}
      BY <1>1, <1>4, <1>8
    <2> HIDE DEF counts, entries, hard, find, t
    <2> QED
      BY <2>1, <2>2, <2>3 DEF Status
  <1> HIDE DEF t
  <1>12. GoodHistory(t)
    BY <1>3, <1>4, <1>8, <1>10, NoneAssumption DEF GoodHistory, LastAttempt, LiveStates
  <1>13. ReplayStartOK(s, ev)
    BY <1>2, <1>4, <1>5, <1>6, <1>7
       DEF ReplayStartOK, LiveStartOK, StartRoutingOK, HardOverrideConsumable, e
  <1>14. /\ OutcomesKept(s.attempts, t.attempts)
         /\ PhaseStep(PhasesOf(s.attempts), PhasesOf(t.attempts))
    BY <1>8, <1>10
  <1> QED
    BY <1>9, <1>11, <1>12, <1>13, <1>14 DEF Sound, t, ev

-----------------------------------------------------------------------------
(* Operations that leave the attempts alone.                               *)

LEMMA SameHistory ==
    ASSUME NEW s \in Status, GoodHistory(s), NEW t \in Status,
           t.active = s.active, t.attempts = s.attempts,
           s.active # None => t.state = Running
    PROVE  GoodHistory(t)
  BY DEF GoodHistory, LastAttempt

LEMMA ArtifactSound ==
    ASSUME NEW s \in Status, GoodHistory(s), NEW ref \in Artifact
    PROVE  /\ [s EXCEPT !.artifacts = @ \union {ref}] \in Status
           /\ GoodHistory([s EXCEPT !.artifacts = @ \union {ref}])
  <1> DEFINE arts == s.artifacts \union {ref}
             t == [s EXCEPT !.artifacts = arts]
  <1>1. arts \in SUBSET Artifact
    BY DEF Status
  <1> HIDE DEF arts
  <1>2. t \in Status /\ t.active = s.active /\ t.attempts = s.attempts /\ t.state = s.state
    BY <1>1 DEF Status
  <1> HIDE DEF t
  <1>3. s.active # None => s.state = Running
    BY DEF GoodHistory
  <1>4. GoodHistory(t)
    BY <1>2, <1>3, SameHistory
  <1> QED
    BY <1>2, <1>4 DEF t, arts

LEMMA WarningSound ==
    ASSUME NEW s \in Status, GoodHistory(s), NEW id, WarningOK(s, id)
    PROVE  /\ [s EXCEPT !.warned = @ \union {id}] \in Status
           /\ GoodHistory([s EXCEPT !.warned = @ \union {id}])
  <1> DEFINE warned == s.warned \union {id}
             t == [s EXCEPT !.warned = warned]
  <1>1. warned \in SUBSET Nat
    BY DEF WarningOK, Status
  <1> HIDE DEF warned
  <1>2. t \in Status /\ t.active = s.active /\ t.attempts = s.attempts /\ t.state = s.state
    BY <1>1 DEF Status
  <1> HIDE DEF t
  <1>3. s.active # None => s.state = Running
    BY DEF GoodHistory
  <1>4. GoodHistory(t)
    BY <1>2, <1>3, SameHistory
  <1> QED
    BY <1>2, <1>4 DEF t, warned

LEMMA SoftCapSound ==
    ASSUME NEW s \in Status, GoodHistory(s), NEW cap \in Cap
    PROVE  /\ [s EXCEPT !.softCaps = @ \union {cap.key}] \in Status
           /\ GoodHistory([s EXCEPT !.softCaps = @ \union {cap.key}])
  <1> DEFINE caps == s.softCaps \union {cap.key}
             t == [s EXCEPT !.softCaps = caps]
  <1>1. caps \in SUBSET Keys
    BY DEF Status, Cap
  <1> HIDE DEF caps
  <1>2. t \in Status /\ t.active = s.active /\ t.attempts = s.attempts /\ t.state = s.state
    BY <1>1 DEF Status
  <1> HIDE DEF t
  <1>3. s.active # None => s.state = Running
    BY DEF GoodHistory
  <1>4. GoodHistory(t)
    BY <1>2, <1>3, SameHistory
  <1> QED
    BY <1>2, <1>4 DEF t, caps

LEMMA InStateSound ==
    ASSUME NEW s \in Status, GoodHistory(s), s.active = None, NEW req \in UpdateRequest
    PROVE  /\ InState(s, req) \in Status
           /\ GoodHistory(InState(s, req))
           /\ ReplayEntryOK(s, EntryFor(s, req.entry))
  <1> DEFINE e == EntryFor(s, req.entry)
             counts == CountsAfter(s, e)
             entries == EntriesAfter(s, e)
             t == [s EXCEPT !.counts = counts, !.entries = entries, !.state = req.state]
  <1>1. req.entry \in EntryRequest \union {None} /\ req.state \in RunStates
    BY DEF UpdateRequest, RunStates
  <1>2. counts \in [Keys -> Nat] /\ entries \in Seq(Entry) /\ ReplayEntryOK(s, e)
    BY <1>1, EntryForType
  <1>3. InState(s, req) = t
    BY DEF InState
  <1> HIDE DEF counts, entries, e
  <1>4. t \in Status /\ t.active = s.active /\ t.attempts = s.attempts
    BY <1>1, <1>2 DEF Status
  <1> QED
    BY <1>2, <1>3, <1>4, SameHistory DEF e

LEMMA RunStatesType == {Running, Blocked} \subseteq RunStates
  BY DEF RunStates, TerminalStates

\* Blocks and overrides: no attempt is active before or after.
LEMMA BlockSound ==
    ASSUME NEW s \in Status, GoodHistory(s), s.active = None
    PROVE  /\ \A cap \in Cap :
                 HardCapped(s, cap) \in Status /\ GoodHistory(HardCapped(s, cap))
           /\ \A block \in FindingBlock :
                 FindingBlocked(s, block) \in Status /\ GoodHistory(FindingBlocked(s, block))
           /\ HardCapOverridden(s, s.hardBlock) \in Status
           /\ GoodHistory(HardCapOverridden(s, s.hardBlock))
           /\ FindingOverridden(s) \in Status
           /\ GoodHistory(FindingOverridden(s))
  <1>1. ASSUME NEW cap \in Cap
        PROVE  HardCapped(s, cap) \in Status /\ GoodHistory(HardCapped(s, cap))
    <2> DEFINE t == HardCapped(s, cap)
    <2>1. t \in Status /\ t.active = s.active /\ t.attempts = s.attempts
      BY RunStatesType DEF HardCapped, Status
    <2> QED
      BY <2>1, SameHistory
  <1>2. ASSUME NEW block \in FindingBlock
        PROVE  FindingBlocked(s, block) \in Status /\ GoodHistory(FindingBlocked(s, block))
    <2> DEFINE t == FindingBlocked(s, block)
    <2>1. t \in Status /\ t.active = s.active /\ t.attempts = s.attempts
      BY RunStatesType DEF FindingBlocked, Status
    <2> QED
      BY <2>1, SameHistory
  <1>3. /\ HardCapOverridden(s, s.hardBlock) \in Status
        /\ GoodHistory(HardCapOverridden(s, s.hardBlock))
    <2> DEFINE t == HardCapOverridden(s, s.hardBlock)
    <2>1. t \in Status /\ t.active = s.active /\ t.attempts = s.attempts
      BY RunStatesType DEF HardCapOverridden, Status
    <2> QED
      BY <2>1, SameHistory
  <1>4. FindingOverridden(s) \in Status /\ GoodHistory(FindingOverridden(s))
    <2> DEFINE t == FindingOverridden(s)
    <2>1. t \in Status /\ t.active = s.active /\ t.attempts = s.attempts
      BY RunStatesType DEF FindingOverridden, Status
    <2> QED
      BY <2>1, SameHistory
  <1> QED
    BY <1>1, <1>2, <1>3, <1>4

LEMMA ContinuedSound ==
    ASSUME NEW s \in Status, GoodHistory(s), ContinuedOK(s)
    PROVE  Continued(s) \in Status /\ GoodHistory(Continued(s))
  <1> DEFINE a == LastAttempt(s)
             c == [attempt |-> Len(s.attempts), step |-> a.step, pair |-> a.pair]
             t == [s EXCEPT !.state = Running, !.continued = c]
  <1>1. s.active = None /\ s.attempts # <<>> /\ RoutingOutcome(a)
    BY DEF ContinuedOK, ResolvableBlock
  <1>2. a \in Attempt /\ Len(s.attempts) \in Nat
    BY <1>1, LastAttemptType
  <1>3. a.pair \in Pairs
    <2>1. CASE a.pair # None
      BY <1>2, <2>1 DEF Attempt
    <2>2. CASE a.state \in DOMAIN SystemPair /\ a.pair = SystemPair[a.state]
      BY <2>2, WorkflowAssumption
    <2> QED
      BY <1>1, <2>1, <2>2 DEF RoutingOutcome
  <1>4. c \in Continuation
    BY <1>2, <1>3 DEF Continuation, Attempt
  <1>5. Continued(s) = t
    BY DEF Continued
  <1> HIDE DEF c
  <1>6. t \in Status /\ t.active = s.active /\ t.attempts = s.attempts
    BY <1>4 DEF Status, RunStates
  <1> QED
    BY <1>1, <1>5, <1>6, SameHistory

LEMMA SkippedHistorySound ==
    ASSUME NEW s \in Status, GoodHistory(s), s.active = None
    PROVE  LET f == SkippedHistory(s, LatestConsumable(s))
           IN  /\ f \in Seq(Attempt)
               /\ Len(f) = Len(s.attempts)
               /\ \A i \in 1..Len(s.attempts) :
                     /\ f[i].id = i
                     /\ f[i].state \notin LiveStates
                     /\ f[i].superseded => f[i].consumed
               /\ OutcomesKept(s.attempts, f)
               /\ PhaseStep(PhasesOf(s.attempts), PhasesOf(f))
  <1> DEFINE latest == LatestConsumable(s)
             f == SkippedHistory(s, latest)
  <1>1. s.attempts \in Seq(Attempt)
    BY DEF Status
  <1>2. latest \in Nat /\ (latest # 0 => latest \in 1..Len(s.attempts))
    BY <1>1, LatestConsumableType
  <1> HIDE DEF latest
  <1>3. CASE latest = 0
    <2>1. f = s.attempts
      BY <1>3 DEF SkippedHistory
    <2>2. PhaseStep(PhasesOf(s.attempts), PhasesOf(f))
      BY <2>1 DEF PhaseStep
    <2> HIDE DEF f
    <2>3. /\ f \in Seq(Attempt)
          /\ Len(f) = Len(s.attempts)
          /\ \A i \in 1..Len(s.attempts) :
                /\ f[i].id = i
                /\ f[i].state \notin LiveStates
                /\ f[i].superseded => f[i].consumed
          /\ OutcomesKept(s.attempts, f)
      BY <1>1, <2>1, NoLiveAttempt, HistoryKeepsItself DEF GoodHistory
    <2> QED
      BY <2>2, <2>3 DEF f, latest
  <1>4. CASE latest # 0
    <2> DEFINE b == [s.attempts[latest] EXCEPT !.consumed = TRUE]
    <2>1. latest \in 1..Len(s.attempts) /\ s.attempts[latest] \in Attempt
      BY <1>1, <1>2, <1>4
    <2>2. f = [s.attempts EXCEPT ![latest] = b]
      BY <1>1, <1>4, <2>1 DEF SkippedHistory
    <2>3. b \in Attempt /\ b.id = s.attempts[latest].id
          /\ b.state = s.attempts[latest].state /\ b.consumed
      BY <2>1 DEF Attempt
    <2>3a. SameOutcome(s.attempts[latest], b)
      BY <2>1 DEF SameOutcome, Attempt
    <2> HIDE DEF b, f
    <2>4. f \in Seq(Attempt) /\ Len(f) = Len(s.attempts) /\ f[latest] = b
          /\ \A i \in 1..Len(s.attempts) : i # latest => f[i] = s.attempts[i]
      BY <1>1, <2>1, <2>2, <2>3
    <2>5. /\ f \in Seq(Attempt)
          /\ Len(f) = Len(s.attempts)
          /\ \A i \in 1..Len(s.attempts) :
                /\ f[i].id = i
                /\ f[i].state \notin LiveStates
                /\ f[i].superseded => f[i].consumed
      BY <2>1, <2>3, <2>4, NoLiveAttempt DEF GoodHistory
    <2>6. OutcomesKept(s.attempts, f)
      BY <1>1, <2>3a, <2>4, HistoryKeepsItself DEF OutcomesKept
    <2>7. PhaseStep(PhasesOf(s.attempts), PhasesOf(f))
      <3> DEFINE p == PhasesOf(s.attempts)
      <3>1. /\ latest = Len(s.attempts) /\ s.attempts # <<>>
            /\ RoutingOutcome(s.attempts[latest]) /\ s.attempts[latest].state \notin LiveStates
        BY <1>4, <2>1, LatestConsumableType, NoLiveAttempt DEF LastAttempt, latest
      <3>2. PhaseOf(s.attempts[latest]) = "ended" /\ PhaseOf(f[latest]) = "routed"
        BY <2>3, <2>4, <3>1 DEF PhaseOf, RoutingOutcome
      <3>3. PhasesOf(f) = [p EXCEPT ![latest] = "routed"]
        <4>1. /\ f \in Seq(Attempt) /\ Len(f) = Len(s.attempts)
              /\ \A i \in 1..Len(s.attempts) : i # latest => f[i] = s.attempts[i]
          BY <2>4
        <4>2. PhasesOf(f) = WithPhase(PhasesOf(s.attempts), latest, PhaseOf(f[latest]))
          BY <1>1, <2>1, <4>1, PhasesAfterEdit
        <4> QED
          BY <3>2, <4>2 DEF WithPhase
      <3>4. p # <<>> /\ Len(p) = latest /\ p[latest] = "ended"
        BY <1>1, <2>1, <3>1, <3>2, PhasesType
      <3> QED
        BY <3>3, <3>4 DEF PhaseStep
    <2> QED
      BY <2>5, <2>6, <2>7 DEF f, latest
  <1> QED
    BY <1>3, <1>4

LEMMA SkipSound ==
    ASSUME NEW s \in Status, GoodHistory(s), NEW req \in SkipRequest, SkipValidator(s)
    PROVE  Sound(s, LiveSkip(s, req), ReplaySkipOK(s, SkipEvent(s, req)),
                 ReplaySkip(s, SkipEvent(s, req)))
  <1> DEFINE e == EntryFor(s, req.entry)
             f == SkippedHistory(s, LatestConsumable(s))
             counts == CountsAfter(s, e)
             entries == EntriesAfter(s, e)
             skipped == Append(s.skipped, req.step)
             t == [s EXCEPT !.counts = counts, !.entries = entries, !.attempts = f,
                            !.skipped = skipped, !.state = req.state,
                            !.lineage = None, !.continued = None]
             ev == SkipEvent(s, req)
  <1>1. /\ req.step \in Steps /\ req.state \in RunStates
        /\ req.entry \in EntryRequest \union {None}
    BY DEF SkipRequest
  <1>2. s.active = None /\ s.state = Running
    BY DEF SkipValidator
  <1>3. counts \in [Keys -> Nat] /\ entries \in Seq(Entry) /\ ReplayEntryOK(s, e)
    BY <1>1, EntryForType
  <1>4. /\ f \in Seq(Attempt) /\ Len(f) = Len(s.attempts)
        /\ \A i \in 1..Len(s.attempts) :
              /\ f[i].id = i
              /\ f[i].state \notin LiveStates
              /\ f[i].superseded => f[i].consumed
        /\ OutcomesKept(s.attempts, f)
        /\ PhaseStep(PhasesOf(s.attempts), PhasesOf(f))
    BY <1>2, SkippedHistorySound
  <1>5. skipped \in Seq(Steps)
    BY <1>1 DEF Status
  <1>6. LiveSkip(s, req) = t /\ ReplaySkip(s, ev) = t
    BY DEF LiveSkip, ReplaySkip, SkipEvent
  <1>7. ReplaySkipOK(s, ev)
    BY <1>2, <1>3 DEF ReplaySkipOK, SkipEvent
  <1> HIDE DEF counts, entries, f, skipped, ev
  <1>8. t \in Status
    <2>1. /\ f \in Seq(Attempt) /\ counts \in [Keys -> Nat] /\ entries \in Seq(Entry)
          /\ skipped \in Seq(Steps) /\ req.state \in RunStates
      BY <1>1, <1>3, <1>4, <1>5
    <2> QED
      BY <2>1 DEF Status
  <1>9. t.active = None /\ t.attempts = f
    BY <1>2 DEF Status
  <1> HIDE DEF t
  <1>10. GoodHistory(t)
    BY <1>4, <1>9 DEF GoodHistory
  <1>11. /\ OutcomesKept(s.attempts, t.attempts)
         /\ PhaseStep(PhasesOf(s.attempts), PhasesOf(t.attempts))
    BY <1>4, <1>9
  <1> QED
    BY <1>6, <1>7, <1>8, <1>10, <1>11 DEF Sound, ev

-----------------------------------------------------------------------------
(* Steps of the specification.                                             *)

\* What every step of the store does, and never does.
StepEffect ==
    /\ TypeOK'
    /\ HistoryOK'
    /\ OutcomesKept(replayed.attempts, replayed'.attempts)
    /\ PhaseStep(PhasesOf(replayed.attempts), PhasesOf(replayed'.attempts))
    /\ accepted' /\ file' # file => file' = replayed'
    /\ accepted' \/ replayed.findBlock # None \/ replayed.findOverride # None

LEMMA CommitSound ==
    ASSUME TypeOK, HistoryOK, NEW live, NEW ok \in BOOLEAN, NEW replay,
           Sound(replayed, live, ok, replay), Commit(live, ok, replay)
    PROVE  StepEffect
  <1>1. accepted' = TRUE /\ replayed' = live /\ (file' = live \/ file' = file)
    BY DEF Commit, Sound
  <1>2. TypeOK' /\ HistoryOK'
    BY <1>1 DEF Sound, TypeOK, HistoryOK
  <1>3. /\ OutcomesKept(replayed.attempts, replayed'.attempts)
        /\ PhaseStep(PhasesOf(replayed.attempts), PhasesOf(replayed'.attempts))
    BY <1>1 DEF Sound
  <1> QED
    BY <1>1, <1>2, <1>3 DEF StepEffect

\* An operation that leaves the attempts alone.
LEMMA CommitBeside ==
    ASSUME TypeOK, HistoryOK, NEW live, NEW ok \in BOOLEAN,
           live \in Status, GoodHistory(live), live.attempts = replayed.attempts, ok,
           Commit(live, ok, live)
    PROVE  StepEffect
  <1>1. /\ OutcomesKept(replayed.attempts, replayed.attempts)
        /\ PhaseStep(PhasesOf(replayed.attempts), PhasesOf(replayed.attempts))
    BY HistoryKeepsItself DEF TypeOK, PhaseStep
  <1> QED
    BY <1>1, CommitSound DEF Sound

LEMMA StartStep ==
    ASSUME TypeOK, HistoryOK, NEW req \in StartRequest,
           req.entry # None => req.entry.state = req.step, StartAttempt(req)
    PROVE  StepEffect
  <1>2. LiveStartOK(replayed, req)
    BY DEF StartAttempt, CanStart
  <1>3. Sound(replayed, LiveStart(replayed, req), ReplayStartOK(replayed, StartEvent(replayed, req)),
              ReplayStart(replayed, StartEvent(replayed, req)))
    BY <1>2, StartSound DEF TypeOK, HistoryOK
  <1>4. ReplayStartOK(replayed, StartEvent(replayed, req)) \in BOOLEAN
    BY DEF ReplayStartOK
  <1> QED
    BY <1>3, <1>4, CommitSound DEF StartAttempt

LEMMA AttemptStep ==
    ASSUME TypeOK, HistoryOK, NEW id,
           \/ \E ref : RecordAttemptPrompt(id, ref) \/ RecordAttemptLog(id, ref)
           \/ RecordAttemptProcess(id)
    PROVE  StepEffect
  <1>1. replayed.active # None /\ replayed.active.state = "starting"
    BY DEF RecordAttemptPrompt, RecordAttemptLog, RecordAttemptProcess, CanPrompt, CanLog,
           CanProcess, ActiveIs, PromptOK, LogOK, ProcessOK
  <1> QED
    BY <1>1, PromptSound, CommitSound
       DEF TypeOK, HistoryOK, RecordAttemptPrompt, RecordAttemptLog, RecordAttemptProcess

LEMMA TerminalizeStep ==
    ASSUME TypeOK, HistoryOK, NEW id, NEW state \in EndStates, NEW recovered \in BOOLEAN,
           TerminalizeAttempt(id, state, recovered)
    PROVE  StepEffect
  BY TerminalizeSound, CommitSound DEF TypeOK, HistoryOK, TerminalizeAttempt, CanEnd, ActiveIs

LEMMA ReportStep ==
    ASSUME TypeOK, HistoryOK, NEW id, NEW req \in ReportRequest, RecordAttemptReport(id, req)
    PROVE  StepEffect
  <1>2. ReportOK(replayed.active, replayed.active.state = "starting") \in BOOLEAN
    BY DEF ReportOK
  <1> QED
    BY <1>2, ReportSound, CommitSound DEF TypeOK, HistoryOK, RecordAttemptReport, ActiveIs

LEMMA SkipStep ==
    ASSUME TypeOK, HistoryOK, NEW req \in SkipRequest, RecordStepSkip(req)
    PROVE  StepEffect
  <1>2. ReplaySkipOK(replayed, SkipEvent(replayed, req)) \in BOOLEAN
    BY DEF ReplaySkipOK
  <1> QED
    BY <1>2, SkipSound, CommitSound DEF TypeOK, HistoryOK, RecordStepSkip

LEMMA BesideStep ==
    ASSUME TypeOK, HistoryOK,
           \/ \E id : RecordAttemptWarning(id)
           \/ \E ref \in Artifact : WriteArtifact(ref)
           \/ RecordIgnoredReport
           \/ \E cap \in Cap : RecordWorkflowLoopSoftCap(cap)
    PROVE  StepEffect
  <1> USE DEF TypeOK, HistoryOK
  <1>1. ASSUME NEW id, RecordAttemptWarning(id)
        PROVE  StepEffect
    <2> DEFINE t == [replayed EXCEPT !.warned = @ \union {id}]
    <2>1. WarningOK(replayed, id) /\ Commit(t, WarningOK(replayed, id), t)
      BY <1>1 DEF RecordAttemptWarning
    <2>2. t.attempts = replayed.attempts /\ WarningOK(replayed, id) \in BOOLEAN
      BY DEF Status, WarningOK
    <2>3. t \in Status /\ GoodHistory(t)
      BY <2>1, WarningSound
    <2> QED
      BY <2>1, <2>2, <2>3, CommitBeside
  <1>2. ASSUME NEW ref \in Artifact, WriteArtifact(ref)
        PROVE  StepEffect
    <2> DEFINE t == [replayed EXCEPT !.artifacts = @ \union {ref}]
    <2>1. Commit(t, TRUE, t)
      BY <1>2 DEF WriteArtifact
    <2>2. t.attempts = replayed.attempts
      BY DEF Status
    <2> QED
      BY <2>1, <2>2, ArtifactSound, CommitBeside
  <1>3. ASSUME RecordIgnoredReport
        PROVE  StepEffect
    BY <1>3, CommitBeside DEF RecordIgnoredReport
  <1>4. ASSUME NEW cap \in Cap, RecordWorkflowLoopSoftCap(cap)
        PROVE  StepEffect
    <2> DEFINE t == [replayed EXCEPT !.softCaps = @ \union {cap.key}]
    <2>1. Commit(t, TRUE, t)
      BY <1>4 DEF RecordWorkflowLoopSoftCap
    <2>2. t.attempts = replayed.attempts
      BY DEF Status
    <2> QED
      BY <2>1, <2>2, SoftCapSound, CommitBeside
  <1> QED
    BY <1>1, <1>2, <1>3, <1>4

LEMMA UpdateStep ==
    ASSUME TypeOK, HistoryOK, NEW req \in UpdateRequest, UpdateStatus(req)
    PROVE  StepEffect
  <1> DEFINE ok == /\ replayed.active = None
                   /\ ReplayEntryOK(replayed, EntryFor(replayed, req.entry))
             t == InState(replayed, req)
  <1>1. replayed.active = None /\ Commit(t, ok, t)
    BY DEF UpdateStatus, CanUpdate
  <1>2. t \in Status /\ GoodHistory(t) /\ ok
    BY <1>1, InStateSound DEF TypeOK, HistoryOK
  <1>3. t.attempts = replayed.attempts
    BY DEF InState, TypeOK, Status
  <1> QED
    BY <1>1, <1>2, <1>3, CommitBeside

LEMMA BlockStep ==
    ASSUME TypeOK, HistoryOK,
           \/ \E cap \in Cap : BlockWorkflowLoopHardCap(cap)
           \/ \E block \in FindingBlock : BlockRepeatedReviewFinding(block)
    PROVE  StepEffect
  <1>1. ASSUME NEW cap \in Cap, BlockWorkflowLoopHardCap(cap)
        PROVE  StepEffect
    <2> DEFINE t == HardCapped(replayed, cap)
    <2>1. replayed.active = None /\ Commit(t, replayed.active = None, t)
      BY <1>1 DEF BlockWorkflowLoopHardCap, CanBlock
    <2>2. t \in Status /\ GoodHistory(t)
      BY <2>1, BlockSound DEF TypeOK, HistoryOK
    <2>3. t.attempts = replayed.attempts
      BY DEF HardCapped, TypeOK, Status
    <2> QED
      BY <2>1, <2>2, <2>3, CommitBeside
  <1>2. ASSUME NEW block \in FindingBlock, BlockRepeatedReviewFinding(block)
        PROVE  StepEffect
    <2> DEFINE t == FindingBlocked(replayed, block)
               ok == ReplayFindingBlockOK(replayed)
    <2>1. /\ replayed.active = None /\ replayed.state = Running
          /\ Commit(t, ok, t)
      BY <1>2 DEF BlockRepeatedReviewFinding, CanBlock
    <2>2. t \in Status /\ GoodHistory(t)
      BY <2>1, BlockSound DEF TypeOK, HistoryOK
    <2>3. t.attempts = replayed.attempts
      BY DEF FindingBlocked, TypeOK, Status
    <2>4. ok \in BOOLEAN
      BY DEF ReplayFindingBlockOK
    <2>5. CASE ok
      BY <2>1, <2>2, <2>3, <2>4, <2>5, CommitBeside
    <2>6. CASE ~ok
      <3>1. accepted' = FALSE /\ replayed' = replayed /\ (file' = t \/ file' = file)
        BY <2>1, <2>4, <2>6 DEF Commit
      <3>2. replayed.findBlock # None \/ replayed.findOverride # None
        BY <2>1, <2>6 DEF ReplayFindingBlockOK
      <3>3. /\ OutcomesKept(replayed.attempts, replayed'.attempts)
            /\ PhaseStep(PhasesOf(replayed.attempts), PhasesOf(replayed'.attempts))
        BY <3>1, HistoryKeepsItself DEF TypeOK, PhaseStep
      <3>4. TypeOK' /\ HistoryOK'
        BY <3>1, <2>2 DEF TypeOK, HistoryOK
      <3> QED
        BY <3>1, <3>2, <3>3, <3>4 DEF StepEffect
    <2> QED
      BY <2>5, <2>6
  <1> QED
    BY <1>1, <1>2

LEMMA ContinueStep ==
    ASSUME TypeOK, HistoryOK,
           AllowWorkflowLoopHardCap \/ AllowRepeatedReviewFinding \/ ResolveHumanBlock
    PROVE  StepEffect
  <1>1. Blocked # Running
    BY DEF Blocked, Running
  <1>2. replayed.state = Blocked => replayed.active = None
    BY <1>1 DEF HistoryOK, GoodHistory
  <1>3. ASSUME AllowWorkflowLoopHardCap
        PROVE  StepEffect
    <2> DEFINE t == HardCapOverridden(replayed, replayed.hardBlock)
               ok == replayed.state = Blocked /\ replayed.hardBlock # None
    <2>1. replayed.active = None /\ ok /\ Commit(t, ok, t)
      BY <1>2, <1>3 DEF AllowWorkflowLoopHardCap
    <2>2. t \in Status /\ GoodHistory(t)
      BY <2>1, BlockSound DEF TypeOK, HistoryOK
    <2>3. t.attempts = replayed.attempts
      BY DEF HardCapOverridden, TypeOK, Status
    <2> QED
      BY <2>1, <2>2, <2>3, CommitBeside
  <1>4. ASSUME AllowRepeatedReviewFinding
        PROVE  StepEffect
    <2> DEFINE t == FindingOverridden(replayed)
    <2>1. replayed.active = None /\ Commit(t, replayed.active = None, t)
      BY <1>2, <1>4 DEF AllowRepeatedReviewFinding
    <2>2. t \in Status /\ GoodHistory(t)
      BY <2>1, BlockSound DEF TypeOK, HistoryOK
    <2>3. t.attempts = replayed.attempts
      BY DEF FindingOverridden, TypeOK, Status
    <2> QED
      BY <2>1, <2>2, <2>3, CommitBeside
  <1>5. ASSUME ResolveHumanBlock
        PROVE  StepEffect
    <2> DEFINE t == Continued(replayed)
    <2>1. ContinuedOK(replayed) /\ Commit(t, ContinuedOK(replayed), t)
      BY <1>5 DEF ResolveHumanBlock
    <2>2. ContinuedOK(replayed) \in BOOLEAN
      BY DEF ContinuedOK
    <2>3. t \in Status /\ GoodHistory(t) /\ t.attempts = replayed.attempts
      BY <2>1, ContinuedSound DEF TypeOK, HistoryOK, Continued, Status
    <2> QED
      BY <2>1, <2>2, <2>3, CommitBeside
  <1> QED
    BY <1>3, <1>4, <1>5

LEMMA StepSound ==
    ASSUME TypeOK, HistoryOK, Next
    PROVE  StepEffect
  <1>1. CASE \E req \in StartRequests : StartAttempt(req)
    BY <1>1, StartStep, RequestAssumption
  <1>2. CASE \E id \in AttemptIds :
               \/ \E ref \in ArtifactRequests :
                     RecordAttemptPrompt(id, ref) \/ RecordAttemptLog(id, ref)
               \/ RecordAttemptProcess(id)
    BY <1>2, AttemptStep
  <1>3. CASE \E id \in AttemptIds, state \in EndStates, recovered \in BOOLEAN :
               TerminalizeAttempt(id, state, recovered)
    BY <1>3, TerminalizeStep
  <1>4. CASE \E id \in AttemptIds, req \in ReportRequests : RecordAttemptReport(id, req)
    BY <1>4, ReportStep, RequestAssumption
  <1>5. CASE \/ \E id \in AttemptIds : RecordAttemptWarning(id)
             \/ \E ref \in ArtifactRequests : WriteArtifact(ref)
             \/ RecordIgnoredReport
             \/ \E cap \in CapRequests : RecordWorkflowLoopSoftCap(cap)
    BY <1>5, BesideStep, RequestAssumption
  <1>6. CASE \E req \in UpdateRequests : UpdateStatus(req)
    BY <1>6, UpdateStep, RequestAssumption
  <1>7. CASE \/ \E cap \in CapRequests : BlockWorkflowLoopHardCap(cap)
             \/ \E block \in BlockRequests : BlockRepeatedReviewFinding(block)
    BY <1>7, BlockStep, RequestAssumption
  <1>8. CASE AllowWorkflowLoopHardCap \/ AllowRepeatedReviewFinding \/ ResolveHumanBlock
    BY <1>8, ContinueStep
  <1>9. CASE \E req \in SkipRequests : RecordStepSkip(req)
    BY <1>9, SkipStep, RequestAssumption
  <1> QED
    BY <1>1, <1>2, <1>3, <1>4, <1>5, <1>6, <1>7, <1>8, <1>9 DEF Next

LEMMA InitSound ==
    ASSUME Init
    PROVE  TypeOK /\ HistoryOK
  <1>1. PICK step \in Steps : replayed = InitialStatus(step)
    BY DEF Init
  <1> DEFINE e == InitialEntry(step)
             counts == [k \in Keys |-> 0]
  <1>2. e \in Entry
    BY DEF InitialEntry, Entry, Targets
  <1>3. counts \in [Keys -> Nat]
    OBVIOUS
  <1> HIDE DEF e, counts
  <1>4. <<e>> \in Seq(Entry) /\ <<>> \in Seq(Attempt) /\ <<>> \in Seq(Steps)
    BY <1>2
  <1>5. replayed =
          [state |-> Running, active |-> None, attempts |-> <<>>, lineage |-> None,
           continued |-> None, entries |-> <<e>>, counts |-> counts, softCaps |-> {},
           hardBlock |-> None, hardOverride |-> None,
           findBlock |-> None, findOverride |-> None,
           skipped |-> <<>>, artifacts |-> {}, warned |-> {}]
    BY <1>1 DEF InitialStatus, e, counts
  <1>6. replayed \in Status
    BY <1>3, <1>4, <1>5, RunStatesType DEF Status
  <1>7. GoodHistory(replayed)
    BY <1>5 DEF GoodHistory
  <1> QED
    BY <1>6, <1>7 DEF Init, TypeOK, HistoryOK

-----------------------------------------------------------------------------
(* Theorems.                                                               *)

LEMMA StoreInvariant == Spec => [](TypeOK /\ HistoryOK)
  <1>1. Init => TypeOK /\ HistoryOK
    BY InitSound
  <1>2. TypeOK /\ HistoryOK /\ [Next]_storeVars => (TypeOK /\ HistoryOK)'
    <2>1. ASSUME TypeOK, HistoryOK, UNCHANGED storeVars
          PROVE  (TypeOK /\ HistoryOK)'
      BY <2>1 DEF TypeOK, HistoryOK, storeVars
    <2> QED
      BY <2>1, StepSound DEF StepEffect
  <1> QED
    BY <1>1, <1>2, PTL DEF Spec

\* The status that replaying the log yields, and the one in status.json, are
\* statuses of the documented shape, whatever requests the store receives
\* and wherever a rewrite of status.json fails.
THEOREM TypeCorrect == Spec => []TypeOK
  BY StoreInvariant, PTL

\* The active attempt and the history never tell two stories: at most the
\* last attempt is live, it is the active one, and the run is running then.
THEOREM HistoryCorrect == Spec => []HistoryOK
  BY StoreInvariant, PTL

\* No operation changes, unmarks or drops the recorded outcome of an attempt.
THEOREM OutcomesStayFinal == Spec => OutcomesFinal
  <1>1. TypeOK /\ HistoryOK /\ [Next]_storeVars =>
           [OutcomesKept(replayed.attempts, replayed'.attempts)]_storeVars
    BY StepSound DEF StepEffect
  <1> QED
    BY <1>1, StoreInvariant, PTL DEF Spec, OutcomesFinal

\* The live path of every operation and the replay of its event agree on the
\* status that results.
THEOREM LiveIsReplay == Spec => LiveAgreesWithReplay
  <1>1. TypeOK /\ HistoryOK /\ [Next]_storeVars =>
           [accepted' /\ file' # file => file' = replayed']_storeVars
    BY StepSound DEF StepEffect
  <1> QED
    BY <1>1, StoreInvariant, PTL DEF Spec, LiveAgreesWithReplay

\* Replay accepts the event of every operation, whatever the order of the
\* requests, except a finding block on top of a pending one.
THEOREM ReplayAccepts == Spec => OnlyFindingBlockBreaksLog
  <1>1. TypeOK /\ HistoryOK /\ [Next]_storeVars =>
           [accepted /\ ~accepted' =>
               replayed.findBlock # None \/ replayed.findOverride # None]_storeVars
    BY StepSound DEF StepEffect
  <1> QED
    BY <1>1, StoreInvariant, PTL DEF Spec, OnlyFindingBlockBreaksLog

\* The store implements the life cycle of attempts: at most one is live and it
\* is the latest, it ends once, and its outcome is routed at most once.
THEOREM StoreImplementsLifecycle == Spec => ImplementsLifecycle
  <1>1. Init => Lifecycle!Init
    <2>1. Init => replayed.attempts = <<>>
      BY DEF Init, InitialStatus
    <2> QED
      BY <2>1 DEF Lifecycle!Init
  <1>2. TypeOK /\ HistoryOK /\ [Next]_storeVars =>
           [Lifecycle!Next]_(PhasesOf(replayed.attempts))
    <2>1. ASSUME PhaseStep(PhasesOf(replayed.attempts), PhasesOf(replayed'.attempts))
          PROVE  [Lifecycle!Next]_(PhasesOf(replayed.attempts))
      BY <2>1 DEF PhaseStep, PhasesOf, Lifecycle!Next, Lifecycle!Start, Lifecycle!Idle,
                  Lifecycle!RouteAndStart, Lifecycle!End, Lifecycle!Route
    <2>2. UNCHANGED storeVars => UNCHANGED PhasesOf(replayed.attempts)
      BY DEF storeVars, PhasesOf, PhaseOf
    <2> QED
      BY <2>1, <2>2, StepSound DEF StepEffect
  <1> QED
    BY <1>1, <1>2, StoreInvariant, PTL DEF Spec, ImplementsLifecycle, Lifecycle!Spec, PhasesOf
=============================================================================
