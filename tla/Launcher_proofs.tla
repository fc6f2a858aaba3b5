--------------------------- MODULE Launcher_proofs ---------------------------
(***************************************************************************)
(* Proofs about any number of commands, workers and humans on one run, who *)
(* die, time out and are interrupted whenever they may.                    *)
(*                                                                         *)
(* The store is proved correct for callers that send well-formed requests; *)
(* here is why the commands are such callers, and what their steps between *)
(* two operations rely on.                                                 *)
(***************************************************************************)
EXTENDS Launcher, RunStoreLoops_proofs, WellFoundedInduction

\* An attempt keeps its place, its step and its recorded process.
Carried(h, g) ==
    /\ Len(g) >= Len(h)
    /\ \A i \in 1..Len(h) : g[i].step = h[i].step /\ (h[i].pid => g[i].pid)

OwnedBy(i, recovered) ==
    \E c \in Commands :
       /\ plan[c].id = i
       /\ pc[c] \in IF recovered THEN {"recover"} ELSE {"fail", "finish"}

\* Some command is at one of steps with attempt i.
At(steps, i) == \E c \in Commands : pc[c] \in steps /\ plan[c].id = i

AtWork(i) == IsAgent(i) /\ proc[i] = "running"

\* Who may do what to an attempt: its owner or a recovery gives it up, its agent
\* at work or the command that runs its step reports it, and its launcher puts
\* its process on record.
OwnedAttempt(i, a, b) ==
    /\ a.state \in LiveStates /\ b.state \in EndStates => OwnedBy(i, b.recovered)
    /\ a.state \in LiveStates /\ b.state \in ReportedStates => AtWork(i) \/ At({"report"}, i)
    /\ b.pid => a.pid \/ At({"process"}, i)
    /\ b.recovered => a.recovered \/ b.state \in EndStates

Owned ==
    \A i \in 1..Len(replayed.attempts) :
       OwnedAttempt(i, replayed.attempts[i], replayed'.attempts[i])

\* What an operation of the store does when a command asks for it.
Served ==
    /\ StepEffect
    /\ LoopStep(replayed, replayed')
    /\ Carried(replayed.attempts, replayed'.attempts)
    /\ Owned

-----------------------------------------------------------------------------
(* The operations of the store.                                            *)

LEMMA LiveIsNotEnded ==
    /\ LiveStates \cap EndStates = {} /\ LiveStates \cap ReportedStates = {}
    /\ ReportedStates \cap EndStates = {}
  BY DEF LiveStates, EndStates, ReportedStates

LEMMA SameAttempts ==
    ASSUME StepEffect, LoopStep(replayed, replayed'), TypeOK,
           replayed'.attempts = replayed.attempts
    PROVE  Served
  <1>1. Len(replayed.attempts) \in Nat
    BY DEF TypeOK, Status
  <1> QED
    BY <1>1, LiveIsNotEnded DEF Served, Carried, Owned, OwnedAttempt

LEMMA ActiveEdited ==
    ASSUME TypeOK, HistoryOK, StepEffect, LoopStep(replayed, replayed'),
           replayed.active # None, NEW a \in Attempt,
           a.id = replayed.active.id, a.step = replayed.active.step,
           replayed.active.pid => a.pid,
           replayed'.attempts = [replayed.attempts EXCEPT ![a.id] = a],
           a.state \in EndStates => OwnedBy(a.id, a.recovered),
           a.state \in ReportedStates => AtWork(a.id) \/ At({"report"}, a.id),
           a.pid => replayed.active.pid \/ At({"process"}, a.id),
           a.recovered => replayed.active.recovered \/ a.state \in EndStates
    PROVE  Served
  <1>1. /\ replayed.active.id = Len(replayed.attempts)
        /\ Len(replayed.attempts) \in 1..Len(replayed.attempts)
    BY ActivePlace DEF TypeOK, HistoryOK
  <1>2. replayed.active = replayed.attempts[a.id]
    BY <1>1 DEF HistoryOK, GoodHistory, LastAttempt
  <1>3. replayed.attempts \in Seq(Attempt) /\ replayed'.attempts \in Seq(Attempt)
    BY DEF StepEffect, TypeOK, Status
  <1>4. Len(replayed'.attempts) = Len(replayed.attempts) /\ replayed'.attempts[a.id] = a
    BY <1>1, <1>3
  <1>5. \A i \in 1..Len(replayed.attempts) :
           i # a.id => replayed'.attempts[i] = replayed.attempts[i]
    BY <1>1, <1>3
  <1>6. Carried(replayed.attempts, replayed'.attempts)
    <2>1. ASSUME NEW i \in 1..Len(replayed.attempts)
          PROVE  /\ replayed'.attempts[i].step = replayed.attempts[i].step
                 /\ replayed.attempts[i].pid => replayed'.attempts[i].pid
      <3>1. CASE i = a.id
        BY <1>2, <1>4, <3>1
      <3>2. CASE i # a.id
        BY <1>5, <3>2
      <3> QED
        BY <3>1, <3>2
    <2>2. Len(replayed'.attempts) >= Len(replayed.attempts)
      BY <1>1, <1>4
    <2> QED
      BY <2>1, <2>2 DEF Carried
  <1>7. Owned
    <2>1. ASSUME NEW i \in 1..Len(replayed.attempts)
          PROVE  OwnedAttempt(i, replayed.attempts[i], replayed'.attempts[i])
      <3>1. CASE i = a.id
        <4>1. OwnedAttempt(a.id, replayed.active, a)
          BY DEF OwnedAttempt
        <4> QED
          BY <1>2, <1>4, <3>1, <4>1
      <3>2. CASE i # a.id
        BY <1>5, <3>2, LiveIsNotEnded DEF OwnedAttempt
      <3> QED
        BY <3>1, <3>2
    <2> QED
      BY <2>1 DEF Owned
  <1> QED
    BY <1>6, <1>7 DEF Served

LEMMA AttemptServed ==
    ASSUME TypeOK, HistoryOK, NEW id,
           \/ \E ref : RecordAttemptPrompt(id, ref) \/ RecordAttemptLog(id, ref)
           \/ RecordAttemptProcess(id) /\ At({"process"}, id)
    PROVE  Served
  <1> DEFINE s == replayed.active
  <1>1. StepEffect /\ LoopStep(replayed, replayed')
    BY AttemptStep, AttemptLoop
  <1>2. replayed.active # None
    BY DEF RecordAttemptPrompt, RecordAttemptLog, RecordAttemptProcess, CanPrompt, CanLog,
           CanProcess, ActiveIs
  <1>3. s \in Attempt /\ s.state \in LiveStates
    BY <1>2, ActivePlace DEF TypeOK, HistoryOK
  <1>4. PICK a \in {Prompted(s), Logged(s), Processed(s)} :
           /\ replayed' = ReplayUpdate(replayed, a)
           /\ a \in {Prompted(s), Logged(s)} \/ (a = Processed(s) /\ At({"process"}, s.id))
    BY DEF RecordAttemptPrompt, RecordAttemptLog, RecordAttemptProcess, CanProcess, ActiveIs,
           Commit
  <1>5. /\ a \in Attempt /\ a.id = s.id /\ a.step = s.step /\ (s.pid => a.pid)
        /\ a.state \in LiveStates /\ a.recovered = s.recovered
        /\ a.pid => s.pid \/ At({"process"}, s.id)
    BY <1>3, <1>4 DEF Prompted, Logged, Processed, Attempt, LiveStates, AttemptStates
  <1>6. replayed'.attempts = [replayed.attempts EXCEPT ![a.id] = a]
    BY <1>4 DEF ReplayUpdate, TypeOK, Status
  <1> QED
    BY <1>1, <1>2, <1>5, <1>6, ActiveEdited, LiveIsNotEnded

LEMMA EndServed ==
    ASSUME TypeOK, HistoryOK, NEW id, NEW state \in EndStates, NEW recovered \in BOOLEAN,
           TerminalizeAttempt(id, state, recovered), OwnedBy(id, recovered)
    PROVE  Served
  <1> DEFINE a == Ended(replayed.active, state, recovered)
  <1>1. StepEffect /\ LoopStep(replayed, replayed')
    BY TerminalizeStep, AttemptLoop
  <1>2. replayed.active # None /\ replayed.active.id = id
    BY DEF TerminalizeAttempt, CanEnd, ActiveIs
  <1>3. replayed.active \in Attempt
    BY <1>2, ActivePlace DEF TypeOK, HistoryOK
  <1>4. /\ a \in Attempt /\ a.id = id /\ a.step = replayed.active.step
        /\ a.pid = replayed.active.pid /\ a.recovered = recovered /\ a.state \in EndStates
    BY <1>2, <1>3, SystemPairType DEF Ended, Attempt, EndStates, AttemptStates
  <1>5. replayed'.attempts = [replayed.attempts EXCEPT ![a.id] = a]
    BY DEF TerminalizeAttempt, Commit, ReplayEnd, TypeOK, Status
  <1> HIDE DEF a
  <1> QED
    BY <1>1, <1>2, <1>4, <1>5, ActiveEdited, LiveIsNotEnded

LEMMA ReportServed ==
    ASSUME TypeOK, HistoryOK, NEW id, NEW req \in ReportRequest, RecordAttemptReport(id, req),
           AtWork(id) \/ At({"report"}, id)
    PROVE  Served
  <1> DEFINE a == Reported(replayed.active, req)
  <1>1. StepEffect /\ LoopStep(replayed, replayed')
    BY ReportStep, AttemptLoop
  <1>2. replayed.active # None /\ replayed.active.id = id
    BY DEF RecordAttemptReport, ActiveIs
  <1>3. replayed.active \in Attempt
    BY <1>2, ActivePlace DEF TypeOK, HistoryOK
  <1>4. req.state \in ReportedStates /\ req.pair \in Pairs /\ req.findings \in SUBSET Findings
    BY DEF ReportRequest
  <1>5. /\ a \in Attempt /\ a.id = replayed.active.id /\ a.step = replayed.active.step
        /\ a.pid = replayed.active.pid /\ a.state \notin EndStates
        /\ a.recovered = replayed.active.recovered
    BY <1>3, <1>4 DEF Reported, Attempt, ReportedStates, EndStates, AttemptStates
  <1>6. ReportOK(replayed.active, replayed.active.state = "starting")
    BY DEF RecordAttemptReport, ReportOK
  <1>7. replayed'.attempts = [replayed.attempts EXCEPT ![a.id] = a]
    BY <1>5, <1>6 DEF RecordAttemptReport, Commit, ReplayReport, ReplayUpdate, TypeOK, Status
  <1> HIDE DEF a
  <1> QED
    BY <1>1, <1>2, <1>5, <1>7, ActiveEdited

LEMMA StartServed ==
    ASSUME TypeOK, HistoryOK, NEW req \in StartRequest,
           req.entry # None => req.entry.state = req.step, StartAttempt(req)
    PROVE  /\ Served /\ Len(replayed'.attempts) = Len(replayed.attempts) + 1
           /\ replayed'.attempts[Len(replayed.attempts) + 1].state \in LiveStates
  <1> DEFINE h == replayed.attempts
             g == replayed'.attempts
             a == NewAttempt(Len(h) + 1, req.step, req.fix)
             f == HistoryAfterStart(replayed, req.consume, req.retry, a)
  <1>1. /\ LiveStartOK(replayed, req)
        /\ Commit(LiveStart(replayed, req), ReplayStartOK(replayed, StartEvent(replayed, req)),
                  ReplayStart(replayed, StartEvent(replayed, req)))
    BY DEF StartAttempt, CanStart
  <1>2. StepEffect /\ LoopStep(replayed, replayed')
    BY <1>1, StartStep, StartLoop, CommitLoop DEF TypeOK
  <1>3. /\ h \in Seq(Attempt) /\ Len(h) \in Nat /\ req.step \in Steps
        /\ req.consume \in Nat /\ req.fix \in Targets \union {NoTarget}
    BY DEF TypeOK, Status, StartRequest
  <1>4. /\ replayed.active = None
        /\ req.consume # 0 => req.consume \in 1..Len(h) /\ h[req.consume].state \notin LiveStates
    BY <1>1, <1>3, ConsumedAttempt DEF TypeOK, HistoryOK, LiveStartOK, StartRoutingOK
  <1>5. a \in Attempt
    BY <1>3 DEF NewAttempt, Attempt, LiveStates, AttemptStates
  <1>6. /\ Len(f) = Len(h) + 1
        /\ \A i \in 1..Len(h) :
              /\ f[i].step = h[i].step /\ f[i].pid = h[i].pid /\ f[i].state = h[i].state
              /\ f[i].recovered = h[i].recovered
    <2>1. CASE req.consume = 0
      BY <1>3, <1>5, <2>1 DEF HistoryAfterStart
    <2>2. CASE req.consume # 0
      <3> DEFINE x == [h[req.consume] EXCEPT !.consumed = TRUE,
                                             !.superseded = @ \/ req.retry # None]
                 u == [h EXCEPT ![req.consume] = x]
      <3>1. h[req.consume] \in Attempt
        BY <1>3, <1>4, <2>2
      <3>2. /\ x \in Attempt /\ x.step = h[req.consume].step
            /\ x.pid = h[req.consume].pid /\ x.state = h[req.consume].state
            /\ x.recovered = h[req.consume].recovered
        BY <3>1 DEF Attempt
      <3>3. f = Append(u, a)
        BY <1>3, <1>4, <2>2, <3>1 DEF HistoryAfterStart, Attempt
      <3> HIDE DEF x, a, f
      <3>4. /\ u \in Seq(Attempt) /\ Len(u) = Len(h) /\ u[req.consume] = x
            /\ \A i \in 1..Len(h) : i # req.consume => u[i] = h[i]
        BY <1>3, <1>4, <2>2, <3>2
      <3> HIDE DEF u
      <3>5. Len(f) = Len(h) + 1 /\ \A i \in 1..Len(h) : f[i] = u[i]
        BY <1>3, <1>5, <3>3, <3>4
      <3> QED
        BY <3>2, <3>4, <3>5
    <2> QED
      BY <2>1, <2>2
  <1>7. g = f /\ f[Len(h) + 1].state \in LiveStates
    <2>1. replayed' = ReplayStart(replayed, StartEvent(replayed, req))
      BY <1>1, StartSound DEF Commit, Sound, TypeOK, HistoryOK
    <2>2. a.state \in LiveStates
      BY DEF NewAttempt, LiveStates
    <2>3. f[Len(h) + 1] = a
      <3> DEFINE u == IF req.consume = 0 THEN h
                      ELSE [h EXCEPT ![req.consume].consumed = TRUE,
                                     ![req.consume].superseded = @ \/ req.retry # None]
      <3>1. Len(u) = Len(h) /\ f = Append(u, a)
        BY <1>3 DEF HistoryAfterStart
      <3> HIDE DEF u, f
      <3> QED
        BY <1>3, <3>1
    <2> QED
      BY <2>1, <2>2, <2>3 DEF ReplayStart, StartEvent, TypeOK, Status, HistoryAfterStart
  <1> HIDE DEF f
  <1>8. Carried(h, g)
    BY <1>3, <1>6, <1>7 DEF Carried
  <1>9. Owned
    BY <1>6, <1>7, LiveIsNotEnded DEF Owned, OwnedAttempt
  <1> QED
    BY <1>2, <1>6, <1>7, <1>8, <1>9 DEF Served

LEMMA SkipServed ==
    ASSUME TypeOK, HistoryOK, NEW req \in SkipRequest, RecordStepSkip(req)
    PROVE  Served
  <1> DEFINE h == replayed.attempts
             latest == LatestConsumable(replayed)
             f == SkippedHistory(replayed, latest)
  <1>1. /\ SkipValidator(replayed)
        /\ Commit(LiveSkip(replayed, req), ReplaySkipOK(replayed, SkipEvent(replayed, req)),
                  ReplaySkip(replayed, SkipEvent(replayed, req)))
    BY DEF RecordStepSkip
  <1>2. StepEffect /\ LoopStep(replayed, replayed')
    BY <1>1, SkipStep, SkipLoop, CommitLoop DEF TypeOK
  <1>3. h \in Seq(Attempt) /\ Len(h) \in Nat /\ latest \in 0..Len(h)
    <2>1. replayed \in Status
      BY DEF TypeOK
    <2>2. latest \in 0..Len(h)
      BY <2>1, LatestConsumableType
    <2>3. h \in Seq(Attempt) /\ Len(h) \in Nat
      BY <2>1 DEF Status
    <2> QED
      BY <2>2, <2>3
  <1>4. /\ Len(f) = Len(h)
        /\ \A i \in 1..Len(h) :
              /\ f[i].step = h[i].step /\ f[i].pid = h[i].pid /\ f[i].state = h[i].state
              /\ f[i].recovered = h[i].recovered
    <2>1. CASE latest = 0
      BY <2>1 DEF SkippedHistory
    <2>2. CASE latest # 0
      <3> DEFINE x == [h[latest] EXCEPT !.consumed = TRUE]
      <3>0. latest \in 1..Len(h)
        BY <1>3, <2>2
      <3>1. h[latest] \in Attempt
        BY <1>3, <3>0
      <3>2. /\ x \in Attempt /\ x.step = h[latest].step
            /\ x.pid = h[latest].pid /\ x.state = h[latest].state
            /\ x.recovered = h[latest].recovered
        BY <3>1 DEF Attempt
      <3>3. f = [h EXCEPT ![latest] = x]
        BY <2>2 DEF SkippedHistory
      <3> HIDE DEF x, latest, f
      <3>4. /\ Len(f) = Len(h) /\ f[latest] = x
            /\ \A i \in 1..Len(h) : i # latest => f[i] = h[i]
        BY <1>3, <3>0, <3>2, <3>3
      <3> QED
        BY <3>2, <3>4
    <2> QED
      BY <2>1, <2>2
  <1>5. replayed'.attempts \in {f, h}
    BY <1>1 DEF Commit, ReplaySkip, SkipEvent, TypeOK, Status
  <1> HIDE DEF f
  <1>6. Carried(h, replayed'.attempts)
    BY <1>3, <1>4, <1>5 DEF Carried
  <1>7. Owned
    BY <1>4, <1>5, LiveIsNotEnded DEF Owned, OwnedAttempt
  <1> QED
    BY <1>2, <1>6, <1>7 DEF Served

\* Operations that leave the history alone.
LEMMA BesideServed ==
    ASSUME TypeOK, HistoryOK,
           \/ \E id : RecordAttemptWarning(id)
           \/ \E ref \in Artifact : WriteArtifact(ref)
           \/ \E cap \in Cap : RecordWorkflowLoopSoftCap(cap)
    PROVE  Served
  <1>1. replayed'.attempts = replayed.attempts
    BY DEF RecordAttemptWarning, WriteArtifact, RecordWorkflowLoopSoftCap, Commit, TypeOK, Status
  <1> QED
    BY <1>1, BesideStep, BesideLoop, SameAttempts

LEMMA UpdateServed ==
    ASSUME TypeOK, HistoryOK, NEW req \in UpdateRequest, UpdateStatus(req)
    PROVE  Served
  <1>1. replayed'.attempts = replayed.attempts
    BY DEF UpdateStatus, InState, Commit, TypeOK, Status
  <1>2. LoopStep(replayed, replayed')
    BY UpdateLoop, CommitLoop DEF TypeOK, UpdateStatus
  <1> QED
    BY <1>1, <1>2, UpdateStep, SameAttempts

LEMMA BlockServed ==
    ASSUME TypeOK, HistoryOK,
           \/ \E cap \in Cap : BlockWorkflowLoopHardCap(cap)
           \/ \E block \in FindingBlock : BlockRepeatedReviewFinding(block)
           \/ AllowWorkflowLoopHardCap \/ AllowRepeatedReviewFinding \/ ResolveHumanBlock
    PROVE  Served
  <1>1. replayed'.attempts = replayed.attempts
    BY DEF BlockWorkflowLoopHardCap, BlockRepeatedReviewFinding, AllowWorkflowLoopHardCap,
           AllowRepeatedReviewFinding, ResolveHumanBlock, HardCapped, FindingBlocked,
           HardCapOverridden, FindingOverridden, Continued, Commit, TypeOK, Status
  <1>2. StepEffect
    BY BlockStep, ContinueStep
  <1>3. LoopStep(replayed, replayed')
    BY HumanLoop
  <1> QED
    BY <1>1, <1>2, <1>3, SameAttempts

-----------------------------------------------------------------------------
(* What commands decide on a well-formed status is well formed.            *)

\* What a run may be configured with.
Valid == {wf \in Configuration : ValidConfiguration(wf)}

LEMMA Configured == Workflows \subseteq Valid /\ Valid \subseteq Configuration
  BY LauncherAssumption DEF Valid, ValidConfiguration

LEMMA LatestOutcome ==
    ASSUME NEW s \in Status, LatestConsumable(s) # 0
    PROVE  LET a == s.attempts[LatestConsumable(s)]
           IN  /\ LatestConsumable(s) \in 1..Len(s.attempts)
               /\ a \in Attempt /\ a.step \in Steps /\ a.pair \in Pairs
  <1>1. /\ LatestConsumable(s) = Len(s.attempts) /\ s.attempts # <<>>
        /\ RoutingOutcome(LastAttempt(s))
    BY LatestConsumableType
  <1>2. Len(s.attempts) \in 1..Len(s.attempts) /\ LastAttempt(s) \in Attempt
    BY <1>1, LastAttemptType
  <1>3. LastAttempt(s).step \in Steps /\ LastAttempt(s).pair \in Pairs \union {None}
    BY <1>2 DEF Attempt
  <1>4. LastAttempt(s).pair \in Pairs
    BY <1>1, <1>3, WorkflowAssumption DEF RoutingOutcome
  <1> QED
    BY <1>1, <1>2, <1>3, <1>4 DEF LastAttempt

LEMMA NextLineageType ==
    ASSUME NEW retry \in Lineage \union {None}, NEW step \in Steps, NEW pair
    PROVE  NextLineage(retry, step, pair) \in Lineage
  <1>1. \A p \in Pairs : RetryCount(retry, step, p) \in Nat
    BY DEF RetryCount, Lineage
  <1> DEFINE counts == [p \in Pairs |-> LET n == RetryCount(retry, step, p)
                                        IN  IF p = pair THEN n + 1 ELSE n]
  <1>2. counts \in [Pairs -> Nat]
    BY <1>1
  <1>3. NextLineage(retry, step, pair) = [step |-> step, counts |-> counts]
    BY DEF NextLineage
  <1> HIDE DEF counts
  <1> QED
    BY <1>2, <1>3 DEF Lineage

\* What a decision leads to.
Leads(d) ==
    /\ d.kind \in {"select", "retry"} => d.target \in Steps
    /\ d.kind = "retry" => d.retry \in Lineage
    /\ d.kind = "terminal" => d.target \in TerminalStates
    /\ d.retry \in Lineage \union {None}

LEMMA EvaluateLeads ==
    ASSUME NEW wf \in Configuration, NEW st, st.status \in RunStates, st.active \in BOOLEAN,
           st.retry \in Lineage \union {None},
           st.outcome # None => st.outcome.pair \in Pairs
    PROVE  Leads(Evaluate(wf, st)) /\ (Evaluate(wf, st).kind = "wait" => st.active)
  <1>1. Leads(EvalError) /\ EvalError.kind # "wait"
    BY DEF Leads, EvalError, Decide
  <1>2. Leads(EvaluateSelected(wf, st)) /\ EvaluateSelected(wf, st).kind # "wait"
    BY <1>1 DEF EvaluateSelected, Leads, Decide
  <1>3. st.outcome # None =>
           Leads(EvaluateOutcome(wf, st)) /\ EvaluateOutcome(wf, st).kind # "wait"
    <2> DEFINE step == st.outcome.step
               pair == st.outcome.pair
               target == IF step \in Steps THEN wf.on[step][pair] ELSE NoTarget
    <2> SUFFICES ASSUME st.outcome # None
                 PROVE  /\ Leads(EvaluateOutcome(wf, st))
                        /\ EvaluateOutcome(wf, st).kind # "wait"
      OBVIOUS
    <2>1. target # NoTarget => step \in Steps /\ target \in Steps \union TerminalStates
      BY DEF Configuration, Targets
    <2>2. target # NoTarget => NextLineage(st.retry, step, pair) \in Lineage
      BY <2>1, NextLineageType
    <2>3. EvaluateOutcome(wf, st) \in
             {EvalError} \union
             (IF target = NoTarget THEN {}
              ELSE {Decide("retry", step, NextLineage(st.retry, step, pair))} \union
                   (IF target \in Steps THEN {Decide("select", target, None)}
                    ELSE {Decide("terminal", target, None)}))
      BY DEF EvaluateOutcome
    <2> HIDE DEF target, step, pair
    <2> QED
      BY <1>1, <2>1, <2>2, <2>3 DEF Leads, Decide
  <1>4. Running \notin TerminalStates /\ RunStates = {Running} \union TerminalStates
    BY DEF Running, TerminalStates, Blocked, RunStates
  <1>5. CASE st.status \in TerminalStates
    BY <1>4, <1>5 DEF Evaluate, Leads, Decide
  <1>6. CASE st.status = Running /\ st.active
    BY <1>1, <1>4, <1>6 DEF Evaluate, Leads, Decide
  <1>7. CASE st.status = Running /\ ~st.active /\ st.outcome = None
    BY <1>2, <1>4, <1>7 DEF Evaluate
  <1>8. CASE st.status = Running /\ ~st.active /\ st.outcome # None
    BY <1>3, <1>4, <1>8 DEF Evaluate
  <1> QED
    BY <1>4, <1>5, <1>6, <1>7, <1>8

LEMMA DecisionLeads ==
    ASSUME NEW wf \in Configuration, NEW s \in Status
    PROVE  /\ Leads(DecisionBy(wf, s))
           /\ DecisionBy(wf, s).kind = "wait" => s.active # None
  <1> DEFINE st == WorkflowState(s)
  <1>1. /\ st.status \in RunStates /\ st.active = (s.active # None)
        /\ st.retry \in Lineage \union {None}
    BY DEF WorkflowState, Status
  <1>2. st.outcome # None => st.outcome.pair \in Pairs
    BY LatestOutcome DEF WorkflowState
  <1>3. st.active \in BOOLEAN
    BY <1>1
  <1> HIDE DEF st
  <1>4. Leads(Evaluate(wf, st)) /\ (Evaluate(wf, st).kind = "wait" => st.active)
    BY <1>1, <1>2, <1>3, EvaluateLeads
  <1> QED
    BY <1>1, <1>4 DEF DecisionBy, st

LEMMA CapOfType ==
    ASSUME NEW wf \in Configuration, NEW s \in Status, NEW step \in Steps
    PROVE  CapOf(wf, s.counts, step) \in Cap
  <1>1. wf.key[step] \in Keys /\ s.counts \in [Keys -> Nat]
    BY DEF Configuration, Status
  <1> QED
    BY <1>1 DEF CapOf, Cap

LEMMA CappedStep ==
    ASSUME NEW wf, NEW counts, NEW d, LoopCap(wf, counts, d) # "none"
    PROVE  d.kind = "select"
  BY DEF LoopCap

LEMMA EntryTriggerType ==
    ASSUME NEW s \in Status
    PROVE  EntryTrigger(s) \in Attempt \union {None}
  <1>1. LatestConsumable(s) # 0 => s.attempts[LatestConsumable(s)] \in Attempt
    BY LatestOutcome
  <1>2. s.attempts # <<>> => LastAttempt(s) \in Attempt
    BY LastAttemptType
  <1> QED
    BY <1>1, <1>2 DEF EntryTrigger

LEMMA EntryOfType ==
    ASSUME NEW s \in Status, NEW d, Leads(d), workflow \in Configuration
    PROVE  /\ EntryOf(s, d) \in EntryRequest \union {None}
           /\ EntryOf(s, d) # None => EntryOf(s, d).state = d.target
  <1>1. CASE d.kind # "select"
    BY <1>1 DEF EntryOf
  <1>2. CASE d.kind = "select"
    <2> DEFINE by == EntryTrigger(s)
               prev == IF by = None THEN None ELSE by.step
               pair == IF by = None THEN None ELSE by.pair
    <2>1. d.target \in Steps /\ workflow.key[d.target] \in Keys
      BY <1>2 DEF Leads, Configuration
    <2>2. by \in Attempt \union {None}
      BY EntryTriggerType
    <2>3. prev \in Steps \union {None} /\ pair \in Pairs \union {None}
      BY <2>2 DEF Attempt
    <2>4. EntryOf(s, d) = [state |-> d.target, key |-> workflow.key[d.target],
                           prev |-> prev, pair |-> pair]
      BY <1>2 DEF EntryOf
    <2> HIDE DEF prev, pair
    <2> QED
      BY <2>1, <2>3, <2>4 DEF EntryRequest, Targets
  <1> QED
    BY <1>1, <1>2

LEMMA LeastOf ==
    ASSUME NEW S \in SUBSET Nat, S # {}
    PROVE  \E i \in S : \A j \in S : i <= j
  <1> DEFINE Less == {ss \in Nat \X Nat : ss[1] < ss[2]}
  <1>1. IsWellFoundedOn(Less, Nat)
    BY NatLessThanWellFounded DEF OpToRel
  <1>2. \A x, y \in Nat : x < y => <<x, y>> \in Less
    OBVIOUS
  <1> HIDE DEF Less
  <1>3. PICK x \in S : \A y \in S : ~ (<<y, x>> \in Less)
    BY <1>1, WFMin
  <1>4. \A j \in S : ~ (j < x)
    BY <1>2, <1>3
  <1>5. \A j \in S : j \in Nat /\ x \in Nat
    OBVIOUS
  <1> QED
    BY <1>4, <1>5

LEMMA FirstReportType ==
    ASSUME NEW s \in Status, NEW i \in 1..Len(s.attempts), AcceptedFinding(s.attempts[i]),
           NEW f \in s.attempts[i].findings
    PROVE  FirstReport(s, f) \in Nat /\ f \in Findings
  <1>1. Len(s.attempts) \in Nat /\ s.attempts[i] \in Attempt
    BY DEF Status
  <1>2. Reporting(s, f) \in SUBSET Nat /\ i \in Reporting(s, f)
    BY <1>1 DEF Reporting
  <1>3. \E k \in Reporting(s, f) : \A j \in Reporting(s, f) : k <= j
    BY <1>2, LeastOf
  <1>4. FirstReport(s, f) \in Reporting(s, f)
    BY <1>3 DEF FirstReport
  <1> QED
    BY <1>1, <1>2, <1>4 DEF Attempt

-----------------------------------------------------------------------------
(* The plans of commands.                                                  *)

EnteringStart == {r \in StartRequest : r.entry # None => r.entry.state = r.step}
SkipPlan == [step : Steps, by : Valid]
RefreshPlan == [version : Nat, to : Valid]

Requests == EnteringStart \union UpdateRequest \union Cap \union FindingBlock
            \union ReportRequest \union SkipPlan \union RefreshPlan \union {None}

Plan == [id : Nat, req : Requests, cap : Cap \union {None},
         end : EndStates \union {None}, warn : BOOLEAN]

\* A plan carries what the next step asks the store for.
Fits(step, p) ==
    /\ step \in {"recover", "collect", "fail", "finish"} => p.end \in EndStates
    /\ step = "update" => p.req \in UpdateRequest
    /\ step = "blockFinding" => p.req \in FindingBlock
    /\ step = "blockCap" => p.req \in Cap
    /\ step = "start" => p.req \in EnteringStart
    /\ step = "softCap" => p.cap \in Cap
    /\ step = "skip" => p.req \in SkipPlan
    /\ step = "refresh" => p.req \in RefreshPlan
    /\ step \in {"output", "report"} => p.req \in ReportRequest

\* The attempt a command works on is in the history h, and on record as
\* running when its worker is about to be released.
Tracks(step, p, h) ==
    /\ p.id \in 0..Len(h)
    /\ step \in PrepareSteps => p.id # 0
    /\ step = "release" => h[p.id].pid

LEMMA NoPlanFits ==
    /\ NoPlan \in Plan
    /\ \A end \in EndStates, id \in Nat :
          LET p == [NoPlan EXCEPT !.id = id, !.end = end]
          IN  p \in Plan /\ Fits("recover", p) /\ p.id = id
  BY DEF NoPlan, Plan, Requests, Fits

\* A plan with a request.
LEMMA RequestPlan ==
    ASSUME NEW r \in Requests, NEW cap \in Cap \union {None}
    PROVE  /\ LET p == [NoPlan EXCEPT !.req = r, !.cap = cap]
              IN  p \in Plan /\ p.id = 0 /\ p.req = r /\ p.cap = cap
           /\ LET p == [NoPlan EXCEPT !.req = r]
              IN  p \in Plan /\ p.id = 0 /\ p.req = r
  BY DEF NoPlan, Plan

LEMMA StartPlanFits ==
    ASSUME NEW s \in Status, workflow \in Configuration, NEW d, Leads(d),
           d.kind \in {"select", "retry"}
    PROVE  LET latest == LatestConsumable(s)
           IN  [step |-> d.target,
                fix |-> workflow.on[d.target][ChangesPair],
                consume |-> latest,
                retry |-> IF d.kind = "retry" THEN d.retry ELSE None,
                entry |-> EntryOf(s, d),
                hardOverride |-> CapOverride(s, d),
                findOverride |-> FindingOverride(s, d, latest)] \in EnteringStart
  <1> DEFINE latest == LatestConsumable(s)
             entry == EntryOf(s, d)
             retry == IF d.kind = "retry" THEN d.retry ELSE None
             hard == CapOverride(s, d)
             find == FindingOverride(s, d, latest)
  <1>1. d.target \in Steps /\ retry \in Lineage \union {None}
    BY DEF Leads
  <1>2. Len(s.attempts) \in Nat
    BY DEF Status
  <1>3. latest \in Nat
    BY <1>2, LatestConsumableType
  <1>4. entry \in EntryRequest \union {None} /\ (entry # None => entry.state = d.target)
    BY EntryOfType
  <1>5. hard \in Cap \union {None} /\ find \in FindingBlock \union {None}
    BY DEF CapOverride, FindingOverride, Status
  <1>7. workflow.on[d.target][ChangesPair] \in Targets \union {NoTarget}
    BY <1>1, LauncherAssumption DEF Configuration
  <1> HIDE DEF latest, entry, retry, hard, find
  <1>6. [step |-> d.target, fix |-> workflow.on[d.target][ChangesPair],
         consume |-> latest, retry |-> retry, entry |-> entry,
         hardOverride |-> hard, findOverride |-> find] \in EnteringStart
    BY <1>1, <1>3, <1>4, <1>5, <1>7 DEF EnteringStart, StartRequest
  <1> QED
    BY <1>6 DEF latest, entry, retry, hard, find

LEMMA TerminalPlanFits ==
    ASSUME NEW s \in Status, NEW d, Leads(d), d.kind = "terminal", LatestConsumable(s) # 0
    PROVE  [state |-> d.target,
            entry |-> TerminalEntry(s.attempts[LatestConsumable(s)], d.target)] \in UpdateRequest
  <1> DEFINE a == s.attempts[LatestConsumable(s)]
  <1>1. d.target \in TerminalStates /\ d.target \in Keys
    BY WorkflowAssumption DEF Leads
  <1>2. a.step \in Steps /\ a.pair \in Pairs
    BY LatestOutcome
  <1> HIDE DEF a
  <1>3. TerminalEntry(a, d.target) \in EntryRequest
    BY <1>1, <1>2 DEF TerminalEntry, EntryRequest, Targets
  <1> QED
    BY <1>1, <1>3 DEF UpdateRequest, a

LEMMA FindingPlanFits ==
    ASSUME NEW s \in Status, NEW d, Leads(d), NEW f \in Repeated(s, d, LatestConsumable(s))
    PROVE  [finding |-> f, target |-> d.target, first |-> FirstReport(s, f),
            repeated |-> LatestConsumable(s)] \in FindingBlock
  <1> DEFINE latest == LatestConsumable(s)
  <1>1. FindingGuarded(s, d, latest) /\ f \in s.attempts[latest].findings
    BY DEF Repeated
  <1>2. /\ d.target \in Steps /\ latest # 0 /\ AcceptedFinding(s.attempts[latest])
    BY <1>1 DEF FindingGuarded, Leads
  <1>3. latest \in 1..Len(s.attempts) /\ Len(s.attempts) \in Nat
    BY <1>2, LatestOutcome DEF Status
  <1>4. FirstReport(s, f) \in Nat /\ f \in Findings
    BY <1>1, <1>2, <1>3, FirstReportType
  <1>5. latest \in Nat
    BY <1>3
  <1> QED
    BY <1>2, <1>4, <1>5 DEF FindingBlock

LEMMA SkipDecisionLeads ==
    ASSUME NEW wf \in Valid, NEW s \in Status, NEW step \in Steps, step \in wf.skippable
    PROVE  Leads(SkipDecision(wf, s, step)) /\ SkipPair \in Pairs
  <1> DEFINE st == [status |-> Running, active |-> FALSE, selected |-> step,
                    retry |-> DecisionBy(wf, s).retry,
                    outcome |-> [step |-> step, pair |-> SkipPair]]
  <1>1. wf \in Configuration /\ SkipPair \in Pairs
    BY Configured DEF Valid, ValidConfiguration
  <1>2. DecisionBy(wf, s).retry \in Lineage \union {None}
    BY <1>1, DecisionLeads DEF Leads
  <1>3. /\ st.status \in RunStates /\ st.active \in BOOLEAN
        /\ st.retry \in Lineage \union {None} /\ st.outcome.pair \in Pairs
    BY <1>1, <1>2 DEF RunStates
  <1>4. SkipDecision(wf, s, step) = Evaluate(wf, st)
    BY DEF SkipDecision
  <1> HIDE DEF st
  <1> QED
    BY <1>1, <1>3, <1>4, EvaluateLeads

LEMMA SkipRequestType ==
    ASSUME NEW wf \in Valid, NEW s \in Status, NEW step \in Steps, MaySkip(wf, s, step)
    PROVE  SkipRequestFor(wf, s, step) \in SkipRequest
  <1> DEFINE d == SkipDecision(wf, s, step)
  <1>1. Leads(d) /\ SkipPair \in Pairs /\ d.kind \in {"select", "terminal"}
    BY SkipDecisionLeads DEF MaySkip
  <1>2. wf.key \in [Steps -> Keys]
    BY Configured DEF Configuration
  <1>3. /\ d.target \in Targets
        /\ (IF d.kind = "select" THEN Running ELSE d.target) \in RunStates
        /\ (IF d.kind = "select" THEN wf.key[d.target] ELSE d.target) \in Keys
    BY <1>1, <1>2, WorkflowAssumption DEF Leads, Targets, RunStates
  <1> HIDE DEF d
  <1>4. [state |-> d.target,
         key   |-> IF d.kind = "select" THEN wf.key[d.target] ELSE d.target,
         prev  |-> step, pair |-> SkipPair] \in EntryRequest
    BY <1>1, <1>3 DEF EntryRequest
  <1> QED
    BY <1>3, <1>4 DEF SkipRequestFor, SkipRequest, d

-----------------------------------------------------------------------------
(* The invariant, and what a step owes to it.                              *)

CommandInv ==
    /\ TypeOK /\ HistoryOK
    /\ workflow \in Valid
    /\ pc \in [Commands -> PCs]
    /\ plan \in [Commands -> Plan]
    /\ proc \in [1..MaxAttempts -> ProcStates]
    /\ \A c \in Commands : Fits(pc[c], plan[c]) /\ Tracks(pc[c], plan[c], replayed.attempts)

StoreKept == UNCHANGED storeVars \/ Served

\* Command c goes on to step with p.
MovesTo(c, step, p) ==
    /\ step \in PCs /\ p \in Plan
    /\ pc' = [pc EXCEPT ![c] = step]
    /\ plan' = [plan EXCEPT ![c] = p]
    /\ Fits(step, p)
    /\ Tracks(step, p, replayed'.attempts)

Moves(c) == \E step, p : MovesTo(c, step, p)

CommandsKept == UNCHANGED commandVars \/ \E c \in Commands : Moves(c)

Starters == {"spawn", "release"}

\* A process executes only if it did, or is started by the command at it, and
\* then it is not an agent's or is on record.
ProcKept ==
    /\ proc' \in [1..MaxAttempts -> ProcStates]
    /\ \A id \in 1..MaxAttempts :
          /\ proc'[id] = "running" =>
                \/ proc[id] = "running"
                \/ /\ id \in 1..Len(replayed.attempts)
                   /\ IsAgent(id) => replayed.attempts[id].pid
                   /\ At(Starters, id)
          /\ proc'[id] \in {"gated", "running"} => Alive(id) \/ At(Starters, id)

Kept == StoreKept /\ CommandsKept /\ ProcKept

LEMMA HistoryCarried ==
    ASSUME TypeOK, StoreKept
    PROVE  Carried(replayed.attempts, replayed'.attempts)
  <1>1. replayed.attempts \in Seq(Attempt)
    BY DEF TypeOK, Status
  <1>2. CASE UNCHANGED storeVars
    BY <1>1, <1>2 DEF Carried, storeVars
  <1> QED
    BY <1>2 DEF StoreKept, Served

LEMMA TracksOn ==
    ASSUME TypeOK, StoreKept, NEW step, NEW p, Tracks(step, p, replayed.attempts)
    PROVE  Tracks(step, p, replayed'.attempts)
  <1>1. Carried(replayed.attempts, replayed'.attempts)
    BY HistoryCarried
  <1>2. replayed.attempts \in Seq(Attempt) /\ p.id \in 0..Len(replayed.attempts)
    BY DEF TypeOK, Status, Tracks
  <1>3. CASE UNCHANGED storeVars
    BY <1>3 DEF storeVars
  <1>4. CASE Served
    <2>1. replayed'.attempts \in Seq(Attempt)
      BY <1>4 DEF Served, StepEffect, TypeOK, Status
    <2>2. p.id \in 0..Len(replayed'.attempts)
      BY <1>1, <1>2, <2>1 DEF Carried
    <2>3. step = "release" => replayed'.attempts[p.id].pid
      <3>1. step = "release" => step \in PrepareSteps
        BY DEF PrepareSteps
      <3>2. step = "release" => p.id \in 1..Len(replayed.attempts) /\ replayed.attempts[p.id].pid
        BY <1>2, <3>1 DEF Tracks
      <3> QED
        BY <1>1, <3>2 DEF Carried
    <2> QED
      BY <2>2, <2>3 DEF Tracks
  <1> QED
    BY <1>3, <1>4 DEF StoreKept

LEMMA KeptKeeps ==
    ASSUME CommandInv, Kept, workflow' \in Valid
    PROVE  CommandInv'
  <1>1. TypeOK' /\ HistoryOK'
    <2>1. CASE Served
      BY <2>1 DEF Served, StepEffect
    <2>2. CASE UNCHANGED storeVars
      BY <2>2 DEF CommandInv, storeVars, TypeOK, HistoryOK
    <2> QED
      BY <2>1, <2>2 DEF Kept, StoreKept
  <1> DEFINE Went ==
               /\ pc' \in [Commands -> PCs] /\ plan' \in [Commands -> Plan]
               /\ \A c \in Commands :
                     Fits(pc'[c], plan'[c]) /\ Tracks(pc'[c], plan'[c], replayed'.attempts)
  <1>2. Went
    <2>1. \A c \in Commands : Tracks(pc[c], plan[c], replayed'.attempts)
      BY TracksOn DEF CommandInv, Kept
    <2>2. CASE UNCHANGED commandVars
      BY <2>1, <2>2 DEF CommandInv, commandVars
    <2>3. ASSUME NEW c \in Commands, NEW step, NEW p, MovesTo(c, step, p)
          PROVE  Went
      BY <2>1, <2>3 DEF CommandInv, MovesTo
    <2> QED
      BY <2>2, <2>3 DEF Kept, CommandsKept, Moves
  <1> QED
    BY <1>1, <1>2 DEF CommandInv, Kept, ProcKept

LEMMA KeptKeepsWorkers ==
    ASSUME CommandInv, NoUnrecordedWorker, Kept, UNCHANGED workflow
    PROVE  NoUnrecordedWorker'
  <1>1. CommandInv'
    BY KeptKeeps DEF CommandInv
  <1>2. Carried(replayed.attempts, replayed'.attempts)
    BY HistoryCarried DEF CommandInv, Kept
  <1>3. Len(replayed.attempts) \in Nat
    BY DEF CommandInv, TypeOK, Status
  <1>4. Len(replayed'.attempts) \in Nat
    BY <1>1 DEF CommandInv, TypeOK, Status
  <1> SUFFICES ASSUME NEW id \in 1..MaxAttempts, proc'[id] = "running"
               PROVE  /\ id \in 1..Len(replayed'.attempts)
                      /\ IsAgent(id)' => replayed'.attempts[id].pid
    BY DEF NoUnrecordedWorker, Kept, ProcKept
  <1>5. /\ id \in 1..Len(replayed.attempts)
        /\ IsAgent(id) => replayed.attempts[id].pid
    BY DEF CommandInv, NoUnrecordedWorker, Kept, ProcKept
  <1>6. IsAgent(id)' <=> IsAgent(id)
    BY <1>2, <1>5, <1>3 DEF Carried, IsAgent
  <1> QED
    BY <1>2, <1>5, <1>6, <1>3, <1>4 DEF Carried

\* Command c goes on with the plan it has, or with a new one.
LEMMA GoesOn ==
    ASSUME CommandInv, NEW c \in Commands, NEW step \in PCs, Goto(c, step), UNCHANGED plan,
           Fits(step, plan[c]), Tracks(step, plan[c], replayed'.attempts)
    PROVE  CommandsKept
  <1>1. plan' = [plan EXCEPT ![c] = plan[c]] /\ plan[c] \in Plan
    BY DEF CommandInv
  <1>2. MovesTo(c, step, plan[c])
    BY <1>1 DEF MovesTo, Goto
  <1> QED
    BY <1>2 DEF CommandsKept, Moves

LEMMA GoesOnWith ==
    ASSUME NEW c \in Commands, NEW step \in PCs, NEW p \in Plan, Planned(c, step, p),
           Fits(step, p), Tracks(step, p, replayed'.attempts)
    PROVE  CommandsKept
  <1>1. MovesTo(c, step, p)
    BY DEF MovesTo, Planned, Goto
  <1> QED
    BY <1>1 DEF CommandsKept, Moves

LEMMA Returns ==
    ASSUME CommandInv, StoreKept, NEW c \in Commands, Return(c)
    PROVE  CommandsKept
  <1>1. "idle" \in PCs /\ "idle" \notin PrepareSteps
    BY DEF PCs, PrepareSteps
  <1>2. Planned(c, "idle", NoPlan)
    BY DEF Return, Planned
  <1>3. NoPlan \in Plan /\ Fits("idle", NoPlan)
    BY NoPlanFits DEF Fits
  <1>4. Len(replayed'.attempts) \in Nat
    BY DEF CommandInv, StoreKept, Served, StepEffect, storeVars, TypeOK, Status
  <1>5. Tracks("idle", NoPlan, replayed'.attempts)
    BY <1>1, <1>4 DEF Tracks, NoPlan
  <1> QED
    BY <1>1, <1>2, <1>3, <1>5, GoesOnWith

LEMMA ProcSame ==
    ASSUME CommandInv, UNCHANGED proc
    PROVE  ProcKept
  BY DEF CommandInv, ProcKept, Alive

LEMMA Killed ==
    ASSUME CommandInv, NEW id, Kill(id)
    PROVE  ProcKept
  <1>1. "killed" \in ProcStates
    BY DEF ProcStates
  <1> QED
    BY <1>1 DEF CommandInv, ProcKept, Kill, Alive

LEMMA StoreSame ==
    ASSUME CommandInv, UNCHANGED storeVars
    PROVE  StoreKept /\ replayed' = replayed
  BY DEF StoreKept, storeVars

-----------------------------------------------------------------------------
(* Loading and deciding.                                                   *)

LEMMA PlanRecoveryKept ==
    ASSUME CommandInv, NEW c \in Commands, PlanRecovery(c)
    PROVE  Kept
  <1>1. PICK end \in EndStates :
           /\ Planned(c, "recover", [NoPlan EXCEPT !.id = replayed.active.id, !.end = end])
           /\ UNCHANGED proc \/ Kill(replayed.active.id)
    BY DEF PlanRecovery, EndStates
  <1>2. StoreKept /\ replayed' = replayed
    BY StoreSame DEF PlanRecovery
  <1>3. replayed.active # None
    BY DecisionLeads, Configured DEF PlanRecovery, Decision, CommandInv, TypeOK
  <1>4. replayed.active.id = Len(replayed.attempts) /\ Len(replayed.attempts) \in Nat
    BY <1>3, ActivePlace DEF CommandInv, TypeOK, HistoryOK
  <1> DEFINE p == [NoPlan EXCEPT !.id = replayed.active.id, !.end = end]
  <1>5. p \in Plan /\ Fits("recover", p) /\ p.id = Len(replayed.attempts)
    BY <1>4, NoPlanFits
  <1> HIDE DEF p
  <1>6. "recover" \in PCs /\ "recover" \notin PrepareSteps
    BY DEF PCs, PrepareSteps
  <1>7. Tracks("recover", p, replayed'.attempts)
    BY <1>2, <1>4, <1>5, <1>6 DEF Tracks, PrepareSteps
  <1>8. CommandsKept
    BY <1>1, <1>5, <1>6, <1>7, GoesOnWith DEF p
  <1> QED
    BY <1>1, <1>2, <1>8, ProcSame, Killed DEF Kept

\* A plan without an attempt.
LEMMA PlansRequest ==
    ASSUME CommandInv, NEW c \in Commands, NEW step \in PCs \ PrepareSteps,
           NEW p \in Plan, p.id = 0, Planned(c, step, p), Fits(step, p),
           UNCHANGED <<storeVars, workerVars>>
    PROVE  Kept
  <1>1. StoreKept /\ replayed' = replayed /\ Len(replayed.attempts) \in Nat
    BY StoreSame DEF CommandInv, TypeOK, Status
  <1>2. Tracks(step, p, replayed'.attempts)
    BY <1>1 DEF Tracks, PrepareSteps
  <1>3. CommandsKept
    BY <1>2, GoesOnWith
  <1>4. ProcKept
    BY ProcSame DEF workerVars
  <1> QED
    BY <1>1, <1>3, <1>4 DEF Kept

LEMMA PlanLaunchKept ==
    ASSUME CommandInv, NEW c \in Commands, PlanLaunch(c)
    PROVE  Kept
  <1> DEFINE d == Decision(replayed)
             latest == LatestConsumable(replayed)
  <1>1. /\ PlanTerminal(c, d) \/ PlanFindingBlock(c, d) \/ PlanCapBlock(c, d) \/ PlanStart(c, d)
        /\ UNCHANGED <<storeVars, workerVars>>
    BY DEF PlanLaunch
  <1>2. Leads(d) /\ workflow \in Configuration /\ replayed \in Status
    BY DecisionLeads, Configured DEF Decision, CommandInv, TypeOK
  <1>3. {"update", "blockFinding", "blockCap", "start"} \subseteq PCs \ PrepareSteps
    BY DEF PCs, PrepareSteps
  <1> HIDE DEF d
  <1>6. CASE PlanTerminal(c, d)
    <2> DEFINE r == [state |-> d.target, entry |-> TerminalEntry(replayed.attempts[latest], d.target)]
               p == [NoPlan EXCEPT !.req = r]
    <2>1. r \in UpdateRequest /\ r \in Requests
      BY <1>2, <1>6, TerminalPlanFits DEF PlanTerminal, Requests
    <2>2. Planned(c, "update", p)
      BY <1>6 DEF PlanTerminal
    <2> HIDE DEF r
    <2>3. p \in Plan /\ p.id = 0 /\ p.req = r
      BY <2>1, RequestPlan
    <2> HIDE DEF p
    <2>4. Fits("update", p)
      BY <2>1, <2>3 DEF Fits
    <2> QED
      BY <1>1, <1>3, <2>2, <2>3, <2>4, PlansRequest
  <1>7. CASE PlanFindingBlock(c, d)
    <2>1. PICK f \in Repeated(replayed, d, latest) :
             Planned(c, "blockFinding",
                [NoPlan EXCEPT !.req =
                   [finding |-> f, target |-> d.target, first |-> FirstReport(replayed, f),
                    repeated |-> latest]])
      BY <1>7 DEF PlanFindingBlock
    <2> DEFINE r == [finding |-> f, target |-> d.target, first |-> FirstReport(replayed, f),
                     repeated |-> latest]
               p == [NoPlan EXCEPT !.req = r]
    <2>2. r \in FindingBlock /\ r \in Requests
      BY <1>2, FindingPlanFits DEF Requests
    <2>3. Planned(c, "blockFinding", p)
      BY <2>1
    <2> HIDE DEF r
    <2>4. p \in Plan /\ p.id = 0 /\ p.req = r
      BY <2>2, RequestPlan
    <2> HIDE DEF p
    <2>5. Fits("blockFinding", p)
      BY <2>2, <2>4 DEF Fits
    <2> QED
      BY <1>1, <1>3, <2>3, <2>4, <2>5, PlansRequest
  <1>8. CASE PlanCapBlock(c, d)
    <2> DEFINE r == CapOf(workflow, replayed.counts, d.target)
               p == [NoPlan EXCEPT !.req = r]
    <2>1. d.target \in Steps
      BY <1>2, <1>8, CappedStep DEF PlanCapBlock, Leads
    <2>2. r \in Cap /\ r \in Requests
      BY <1>2, <2>1, CapOfType DEF Requests
    <2>3. Planned(c, "blockCap", p)
      BY <1>8 DEF PlanCapBlock
    <2> HIDE DEF r
    <2>4. p \in Plan /\ p.id = 0 /\ p.req = r
      BY <2>2, RequestPlan
    <2> HIDE DEF p
    <2>5. Fits("blockCap", p)
      BY <2>2, <2>4 DEF Fits
    <2> QED
      BY <1>1, <1>3, <2>3, <2>4, <2>5, PlansRequest
  <1>9. CASE PlanStart(c, d)
    <2> DEFINE r == [step |-> d.target,
                     fix |-> workflow.on[d.target][ChangesPair],
                     consume |-> latest,
                     retry |-> IF d.kind = "retry" THEN d.retry ELSE None,
                     entry |-> EntryOf(replayed, d),
                     hardOverride |-> CapOverride(replayed, d),
                     findOverride |-> FindingOverride(replayed, d, latest)]
               hit == LoopCap(workflow, replayed.counts, d)
               cap == IF hit = "soft" THEN CapOf(workflow, replayed.counts, d.target) ELSE None
               p == [NoPlan EXCEPT !.req = r, !.cap = cap]
    <2>1. d.kind \in {"select", "retry"} /\ d.target \in Steps
      BY <1>2, <1>9 DEF PlanStart, Leads
    <2>2. r \in EnteringStart
      BY <1>2, <2>1, StartPlanFits
    <2>3. cap \in Cap \union {None}
      BY <1>2, <2>1, CapOfType
    <2>4. Planned(c, "start", p)
      BY <1>9 DEF PlanStart
    <2> HIDE DEF r, cap
    <2>5. r \in Requests
      BY <2>2 DEF Requests
    <2>6. p \in Plan /\ p.id = 0 /\ p.req = r
      BY <2>3, <2>5, RequestPlan
    <2> HIDE DEF p
    <2>7. Fits("start", p)
      BY <2>2, <2>6 DEF Fits
    <2> QED
      BY <1>1, <1>3, <2>4, <2>6, <2>7, PlansRequest
  <1> QED
    BY <1>1, <1>6, <1>7, <1>8, <1>9

LEMMA PlanSkipKept ==
    ASSUME CommandInv, NEW c \in Commands, PlanSkip(c)
    PROVE  Kept
  <1>1. PICK step \in Steps :
           /\ MaySkip(workflow, replayed, step)
           /\ LET hit == SkipCap(workflow, replayed, step)
                  cap == CapOf(workflow, replayed.counts,
                               SkipDecision(workflow, replayed, step).target)
              IN  IF hit = "hard" THEN Planned(c, "blockCap", [NoPlan EXCEPT !.req = cap])
                  ELSE Planned(c, "skip",
                          [NoPlan EXCEPT !.req = [step |-> step, by |-> workflow],
                                         !.cap = IF hit = "soft" THEN cap ELSE None])
    BY DEF PlanSkip
  <1> DEFINE d == SkipDecision(workflow, replayed, step)
             hit == SkipCap(workflow, replayed, step)
             cap == CapOf(workflow, replayed.counts, d.target)
             r == [step |-> step, by |-> workflow]
             soft == IF hit = "soft" THEN cap ELSE None
  <1>2. /\ workflow \in Valid /\ workflow \in Configuration /\ replayed \in Status
        /\ UNCHANGED <<storeVars, workerVars>>
    BY Configured DEF CommandInv, TypeOK, PlanSkip
  <1>3. hit # "none" => d.target \in Steps
    BY <1>1, <1>2, SkipDecisionLeads, CappedStep DEF MaySkip, SkipCap, Leads
  <1>4. hit # "none" => cap \in Cap
    BY <1>2, <1>3, CapOfType
  <1>5. {"skip", "blockCap"} \subseteq PCs \ PrepareSteps
    BY DEF PCs, PrepareSteps
  <1>6. r \in SkipPlan
    BY <1>2 DEF SkipPlan
  <1> HIDE DEF d, hit, cap, r
  <1>7. CASE hit = "hard"
    <2> DEFINE p == [NoPlan EXCEPT !.req = cap]
    <2>1. cap \in Cap /\ cap \in Requests
      BY <1>4, <1>7 DEF Requests
    <2>2. Planned(c, "blockCap", p)
      BY <1>1, <1>7 DEF hit, cap, d
    <2>3. p \in Plan /\ p.id = 0 /\ p.req = cap
      BY <2>1, RequestPlan
    <2> HIDE DEF p
    <2>4. Fits("blockCap", p)
      BY <2>1, <2>3 DEF Fits
    <2> QED
      BY <1>2, <1>5, <2>2, <2>3, <2>4, PlansRequest
  <1>8. CASE hit # "hard"
    <2> DEFINE p == [NoPlan EXCEPT !.req = r, !.cap = soft]
    <2>1. soft \in Cap \union {None} /\ r \in Requests
      BY <1>4, <1>6 DEF Requests
    <2>2. Planned(c, "skip", p)
      BY <1>1, <1>8 DEF hit, cap, d, r
    <2> HIDE DEF soft
    <2>3. p \in Plan /\ p.id = 0 /\ p.req = r
      BY <2>1, RequestPlan
    <2> HIDE DEF p
    <2>4. Fits("skip", p)
      BY <1>6, <2>3 DEF Fits
    <2> QED
      BY <1>2, <1>5, <2>2, <2>3, <2>4, PlansRequest
  <1> QED
    BY <1>7, <1>8

-----------------------------------------------------------------------------
(* Acting on a plan.                                                       *)

LEMMA PlanEdits ==
    ASSUME NEW p \in Plan
    PROVE  /\ p.id \in Nat
           /\ \A end \in EndStates :
                 LET q == [p EXCEPT !.end = end]
                 IN  q \in Plan /\ q.id = p.id /\ q.end = end
           /\ \A r \in Requests :
                 LET q == [p EXCEPT !.req = r]
                 IN  q \in Plan /\ q.id = p.id /\ q.req = r
           /\ [p EXCEPT !.cap = None] \in Plan /\ [p EXCEPT !.cap = None].id = p.id
  BY DEF Plan

LEMMA CommandPlan ==
    ASSUME CommandInv, NEW c \in Commands
    PROVE  plan[c] \in Plan /\ Fits(pc[c], plan[c]) /\ Tracks(pc[c], plan[c], replayed.attempts)
  BY DEF CommandInv

LEMMA IdOn ==
    ASSUME CommandInv, StoreKept, NEW c \in Commands
    PROVE  plan[c].id \in 0..Len(replayed'.attempts)
  BY CommandPlan, TracksOn DEF CommandInv, Tracks

LEMMA ReturnsKept ==
    ASSUME CommandInv, StoreKept, ProcKept, NEW c \in Commands, Return(c)
    PROVE  Kept
  BY Returns DEF Kept

LEMMA GoesOnKept ==
    ASSUME CommandInv, StoreKept, ProcKept, NEW c \in Commands,
           NEW step \in PCs, Goto(c, step), UNCHANGED plan, Fits(step, plan[c]),
           step \in PrepareSteps => pc[c] \in PrepareSteps,
           step = "release" => replayed'.attempts[plan[c].id].pid
    PROVE  Kept
  <1>1. pc[c] \in PrepareSteps => plan[c].id # 0
    BY CommandPlan DEF Tracks
  <1>2. Tracks(step, plan[c], replayed'.attempts)
    BY <1>1, IdOn DEF Tracks
  <1> QED
    BY <1>2, GoesOn DEF Kept

LEMMA ReplansKept ==
    ASSUME CommandInv, StoreKept, ProcKept, NEW c \in Commands,
           NEW step \in PCs \ PrepareSteps, NEW p \in Plan, p.id = plan[c].id,
           Planned(c, step, p), Fits(step, p)
    PROVE  Kept
  <1>1. Tracks(step, p, replayed'.attempts)
    BY IdOn DEF Tracks, PrepareSteps
  <1> QED
    BY <1>1, GoesOnWith DEF Kept

LEMMA EndsKept ==
    ASSUME CommandInv, NEW c \in Commands, Recover(c) \/ Finish(c)
    PROVE  Kept
  <1> DEFINE recovered == pc[c] = "recover"
  <1>1. /\ pc[c] \in IF recovered THEN {"recover"} ELSE {"fail", "finish"}
        /\ \/ TerminalizeAttempt(plan[c].id, plan[c].end, recovered)
           \/ UNCHANGED storeVars
        /\ Return(c) /\ UNCHANGED proc
    BY DEF Recover, Finish, workerVars
  <1>2. plan[c].end \in EndStates /\ recovered \in BOOLEAN
    BY <1>1, CommandPlan DEF Fits
  <1> HIDE DEF recovered
  <1>3. OwnedBy(plan[c].id, recovered)
    BY <1>1 DEF OwnedBy
  <1>4. StoreKept
    BY <1>1, <1>2, <1>3, EndServed DEF CommandInv, StoreKept
  <1> QED
    BY <1>1, <1>4, ProcSame, ReturnsKept

LEMMA ActsKept ==
    ASSUME CommandInv, NEW c \in Commands,
           Terminalize(c) \/ BlockFinding(c) \/ BlockCap(c) \/ Warn(c)
    PROVE  Kept
  <1>1. Fits(pc[c], plan[c])
    BY CommandPlan
  <1>2. StoreKept
    <2>1. CASE Terminalize(c)
      BY <1>1, <2>1, UpdateServed DEF Terminalize, StoreKept, CommandInv, Fits
    <2>2. CASE BlockFinding(c)
      BY <1>1, <2>2, BlockServed DEF BlockFinding, StoreKept, CommandInv, Fits
    <2>3. CASE BlockCap(c)
      BY <1>1, <2>3, BlockServed DEF BlockCap, StoreKept, CommandInv, Fits
    <2>4. CASE Warn(c)
      BY <2>4, BesideServed DEF Warn, StoreKept, CommandInv
    <2> QED
      BY <2>1, <2>2, <2>3, <2>4
  <1>3. Return(c) /\ UNCHANGED proc
    BY DEF Terminalize, BlockFinding, BlockCap, Warn, workerVars
  <1> QED
    BY <1>2, <1>3, ProcSame, ReturnsKept

LEMMA StartKept ==
    ASSUME CommandInv, NEW c \in Commands, Start(c)
    PROVE  Kept
  <1>1. ProcKept
    BY ProcSame DEF Start, workerVars
  <1>2. CASE CanStart(plan[c].req)
    <2> DEFINE step == IF plan[c].cap # None THEN "softCap" ELSE "render"
               id == Len(replayed.attempts) + 1
               p == [NoPlan EXCEPT !.id = id, !.cap = plan[c].cap]
    <2>1. plan[c].req \in EnteringStart /\ plan[c].cap \in Cap \union {None}
      BY CommandPlan DEF Start, Fits, Plan
    <2>2. StartAttempt(plan[c].req) /\ Planned(c, step, p)
      BY <1>2 DEF Start
    <2>3. Served /\ Len(replayed'.attempts) = id
      BY <2>1, <2>2, StartServed DEF CommandInv, EnteringStart
    <2>4. id \in Nat /\ id # 0 /\ id \in 0..id
      BY DEF CommandInv, TypeOK, Status
    <2> HIDE DEF id
    <2>5. p \in Plan /\ p.id = id /\ p.cap = plan[c].cap
      BY <2>1, <2>4, NoPlanFits DEF Plan
    <2> HIDE DEF p
    <2>6. step \in PCs /\ step # "release" /\ Fits(step, p)
      BY <2>1, <2>5 DEF PCs, PrepareSteps, Fits
    <2>7. Tracks(step, p, replayed'.attempts)
      BY <2>3, <2>4, <2>5, <2>6 DEF Tracks
    <2> QED
      BY <1>1, <2>2, <2>3, <2>5, <2>6, <2>7, GoesOnWith DEF Kept, StoreKept
  <1>3. CASE ~CanStart(plan[c].req)
    BY <1>1, <1>3, ReturnsKept DEF Start, StoreKept
  <1> QED
    BY <1>2, <1>3

LEMMA SoftCapKept ==
    ASSUME CommandInv, NEW c \in Commands, RecordSoftCap(c) \/ InterruptSoftCap(c)
    PROVE  Kept
  <1>1. ProcKept
    BY ProcSame DEF RecordSoftCap, InterruptSoftCap, workerVars
  <1>2. plan[c] \in Plan /\ pc[c] = "softCap" /\ plan[c].cap \in Cap
    BY CommandPlan DEF RecordSoftCap, InterruptSoftCap, Fits, Plan
  <1>3. StoreKept
    BY <1>2, BesideServed DEF RecordSoftCap, InterruptSoftCap, StoreKept, CommandInv
  <1>4. CASE Return(c)
    BY <1>1, <1>3, <1>4, ReturnsKept
  <1>5. CASE plan[c].id # 0 /\ Planned(c, "render", [plan[c] EXCEPT !.cap = None])
    <2> DEFINE p == [plan[c] EXCEPT !.cap = None]
    <2>1. p \in Plan /\ p.id = plan[c].id
      BY <1>2, PlanEdits
    <2> HIDE DEF p
    <2>2. "render" \in PCs /\ Fits("render", p)
      BY DEF PCs, PrepareSteps, Fits
    <2>3. Tracks("render", p, replayed'.attempts)
      BY <1>3, <1>5, <2>1, IdOn DEF Tracks
    <2> QED
      BY <1>1, <1>3, <1>5, <2>1, <2>2, <2>3, GoesOnWith DEF Kept, p
  <1> QED
    BY <1>4, <1>5 DEF RecordSoftCap, InterruptSoftCap

\* The steps of a preparation, up to the release.
LEMMA PrepareKept ==
    ASSUME CommandInv, NEW c \in Commands,
           RenderPrompt(c) \/ RecordPrompt(c) \/ OpenLog(c) \/ RecordLog(c)
    PROVE  Kept
  <1>1. plan[c].id \in Nat
    BY CommandPlan DEF Plan
  <1>2. PromptRef(plan[c].id) \in Artifact /\ LogRef(plan[c].id) \in Artifact
    BY <1>1 DEF PromptRef, LogRef, Artifact
  <1>3. ProcKept
    BY ProcSame DEF RenderPrompt, RecordPrompt, OpenLog, RecordLog, Prepare, workerVars
  <1>4. StoreKept
    <2>1. CASE RenderPrompt(c) \/ OpenLog(c)
      BY <1>2, <2>1, BesideServed DEF RenderPrompt, OpenLog, Prepare, StoreKept, CommandInv
    <2>2. CASE RecordPrompt(c) \/ RecordLog(c)
      BY <2>2, AttemptServed DEF RecordPrompt, RecordLog, Prepare, StoreKept, CommandInv
    <2> QED
      BY <2>1, <2>2
  <1>5. PICK step \in {"prompt", "openLog", "log", "spawn", "abort"} :
           pc[c] \in PrepareSteps /\ Goto(c, step) /\ UNCHANGED plan
    BY DEF RenderPrompt, RecordPrompt, OpenLog, RecordLog, Prepare, PrepareSteps
  <1>6. step \in PCs /\ step # "release" /\ Fits(step, plan[c])
    BY DEF PCs, PrepareSteps, Fits
  <1> QED
    BY <1>3, <1>4, <1>5, <1>6, GoesOnKept

LEMMA ProcessRecorded ==
    ASSUME TypeOK, HistoryOK, NEW id, RecordAttemptProcess(id)
    PROVE  replayed'.attempts[id].pid
  <1> DEFINE a == Processed(replayed.active)
  <1>1. replayed.active # None /\ replayed.active.id = id /\ replayed' = ReplayUpdate(replayed, a)
    BY DEF RecordAttemptProcess, CanProcess, ActiveIs, Commit
  <1>2. /\ replayed.active \in Attempt /\ id = Len(replayed.attempts)
        /\ Len(replayed.attempts) \in 1..Len(replayed.attempts)
    BY <1>1, ActivePlace DEF TypeOK, HistoryOK
  <1>3. a.pid = TRUE /\ a.id = id
    BY <1>1, <1>2 DEF Processed, Attempt
  <1> HIDE DEF a
  <1>4. /\ replayed'.attempts = [replayed.attempts EXCEPT ![id] = a]
        /\ replayed.attempts \in Seq(Attempt)
    BY <1>1, <1>3 DEF ReplayUpdate, TypeOK, Status
  <1>5. replayed'.attempts[id] = a
    BY <1>2, <1>4
  <1> QED
    BY <1>3, <1>5

LEMMA RecordProcessKept ==
    ASSUME CommandInv, NEW c \in Commands, RecordProcess(c)
    PROVE  Kept
  <1> DEFINE id == plan[c].id
  <1>1. ProcKept /\ pc[c] \in PrepareSteps
    BY ProcSame DEF RecordProcess, Prepare, workerVars, PrepareSteps
  <1>2. {"release", "abort"} \subseteq PCs /\ \A p : Fits("release", p) /\ Fits("abort", p)
    BY DEF PCs, PrepareSteps, Fits
  <1>3. CASE RecordAttemptProcess(id) /\ Goto(c, "release") /\ UNCHANGED plan
    <2>1. Served /\ replayed'.attempts[id].pid
      <3>1. At({"process"}, id)
        BY DEF RecordProcess, At
      <3> QED
        BY <1>3, <3>1, AttemptServed, ProcessRecorded DEF CommandInv
    <2> QED
      BY <1>1, <1>2, <1>3, <2>1, GoesOnKept DEF StoreKept
  <1>4. CASE UNCHANGED storeVars /\ Goto(c, "abort") /\ UNCHANGED plan
    BY <1>1, <1>2, <1>4, GoesOnKept DEF StoreKept
  <1> QED
    BY <1>3, <1>4 DEF RecordProcess, Prepare

LEMMA SpawnKept ==
    ASSUME CommandInv, NEW c \in Commands, Spawn(c) \/ SpawnCommand(c)
    PROVE  Kept
  <1>1. StoreKept
    BY StoreSame DEF Spawn, SpawnCommand
  <1>2. pc[c] = "spawn" /\ pc[c] \in PrepareSteps /\ Goto(c, "process") /\ UNCHANGED plan
    BY DEF Spawn, SpawnCommand, PrepareSteps
  <1>3. plan[c].id \in 1..Len(replayed.attempts)
    BY <1>2, CommandPlan DEF Tracks, CommandInv, TypeOK, Status
  <1>4. {"gated", "running"} \subseteq ProcStates
    BY DEF ProcStates
  <1>5. ProcKept
    BY <1>2, <1>3, <1>4 DEF ProcKept, CommandInv, Spawn, SpawnCommand, Alive, At, Starters
  <1>6. "process" \in PCs /\ Fits("process", plan[c])
    BY DEF PCs, PrepareSteps, Fits
  <1> QED
    BY <1>1, <1>2, <1>5, <1>6, GoesOnKept

LEMMA ReleaseKept ==
    ASSUME CommandInv, NEW c \in Commands, Release(c)
    PROVE  Kept
  <1>1. StoreKept
    BY StoreSame DEF Release
  <1>2. pc[c] = "release" /\ pc[c] \in PrepareSteps
    BY DEF Release, PrepareSteps
  <1>3. plan[c].id \in 1..Len(replayed.attempts) /\ replayed.attempts[plan[c].id].pid
    BY <1>2, CommandPlan DEF Tracks, CommandInv, TypeOK, Status
  <1>4. "running" \in ProcStates
    BY DEF ProcStates
  <1>5. ProcKept
    BY <1>2, <1>3, <1>4 DEF ProcKept, CommandInv, Release, Alive, At, Starters
  <1>6. PICK step \in {"wait", "abort"} : Goto(c, step) /\ UNCHANGED plan
    BY DEF Release
  <1>7. step \in PCs /\ step \notin PrepareSteps /\ Fits(step, plan[c])
    BY DEF PCs, PrepareSteps, Fits
  <1> QED
    BY <1>1, <1>2, <1>5, <1>6, <1>7, GoesOnKept

\* Steps that decide where to go on and touch neither store nor processes.
LEMMA TurnsKept ==
    ASSUME CommandInv, NEW c \in Commands, Cancel(c) \/ PollReport(c) \/ FailSpawn(c)
    PROVE  Kept
  <1>1. StoreKept /\ ProcKept
    BY StoreSame, ProcSame DEF Cancel, PollReport, FailSpawn, workerVars
  <1>2. PICK step \in {"abort", "grace", "setupError"} : Goto(c, step) /\ UNCHANGED plan
    BY DEF Cancel, PollReport, FailSpawn
  <1>3. step \in PCs /\ step \notin PrepareSteps /\ Fits(step, plan[c]) /\ step # "release"
    BY DEF PCs, PrepareSteps, Fits
  <1> QED
    BY <1>1, <1>2, <1>3, GoesOnKept

\* The process is stopped, or has exited, and an end is chosen.
LEMMA StopsKept ==
    ASSUME CommandInv, NEW c \in Commands,
           \/ Abort(c) \/ WaitExit(c) \/ WaitTimeout(c) \/ GraceExceeded(c) \/ InterruptWait(c)
    PROVE  Kept
  <1>1. StoreKept /\ plan[c] \in Plan
    BY StoreSame, CommandPlan DEF Abort, WaitExit, WaitTimeout, GraceExceeded, InterruptWait
  <1>2. ProcKept
    BY ProcSame, Killed
       DEF Abort, WaitExit, WaitTimeout, GraceExceeded, InterruptWait, workerVars
  <1>3. PICK step \in {"fail", "collect"}, end \in EndStates, warn \in BOOLEAN :
           \/ Planned(c, step, [plan[c] EXCEPT !.end = end])
           \/ Planned(c, step, [plan[c] EXCEPT !.end = end, !.warn = warn])
    BY DEF Abort, WaitExit, WaitTimeout, GraceExceeded, InterruptWait, EndStates
  <1>4. PICK p \in Plan : Planned(c, step, p) /\ p.id = plan[c].id /\ p.end = end
    <2>1. CASE Planned(c, step, [plan[c] EXCEPT !.end = end])
      <3> DEFINE q == [plan[c] EXCEPT !.end = end]
      <3>1. q \in Plan /\ q.id = plan[c].id /\ q.end = end
        BY <1>1, PlanEdits
      <3>2. Planned(c, step, q)
        BY <2>1
      <3> HIDE DEF q
      <3> QED
        BY <3>1, <3>2
    <2>2. CASE Planned(c, step, [plan[c] EXCEPT !.end = end, !.warn = warn])
      <3> DEFINE q == [plan[c] EXCEPT !.end = end, !.warn = warn]
      <3>1. q \in Plan /\ q.id = plan[c].id /\ q.end = end
        BY <1>1 DEF Plan
      <3>2. Planned(c, step, q)
        BY <2>2
      <3> HIDE DEF q
      <3> QED
        BY <3>1, <3>2
    <2> QED
      BY <1>3, <2>1, <2>2
  <1>5. step \in PCs \ PrepareSteps /\ Fits(step, p)
    BY <1>4 DEF PCs, PrepareSteps, Fits
  <1> QED
    BY <1>1, <1>2, <1>4, <1>5, ReplansKept

LEMMA CollectKept ==
    ASSUME CommandInv, NEW c \in Commands, Collect(c)
    PROVE  Kept
  <1>1. StoreKept /\ ProcKept
    BY StoreSame, ProcSame DEF Collect, workerVars
  <1>2. plan[c].end \in EndStates
    BY CommandPlan DEF Collect, Fits
  <1>3. CASE Return(c)
    BY <1>1, <1>3, ReturnsKept
  <1>4. ASSUME NEW step \in {"finish", "warn"}, Goto(c, step), UNCHANGED plan
        PROVE  Kept
    <2>1. step \in PCs /\ step \notin PrepareSteps /\ Fits(step, plan[c]) /\ step # "release"
      BY <1>2 DEF PCs, PrepareSteps, Fits
    <2> QED
      BY <1>1, <1>4, <2>1, GoesOnKept
  <1> QED
    BY <1>3, <1>4 DEF Collect

-----------------------------------------------------------------------------
(* Commands and scripts.                                                   *)

LEMMA CommandReportType ==
    ASSUME NEW pair \in Pairs, NEW allow \in BOOLEAN
    PROVE  CommandReport(pair, allow) \in ReportRequest /\ CommandReport(pair, allow) \in Requests
  BY DEF CommandReport, ReportRequest, ReportedStates, Requests

LEMMA RecordCommandKept ==
    ASSUME CommandInv, NEW c \in Commands, RecordCommand(c)
    PROVE  Kept
  <1>1. ProcKept
    BY ProcSame DEF RecordCommand, workerVars
  <1>2. StoreKept
    <2>1. At({"process"}, plan[c].id)
      BY DEF RecordCommand, At
    <2> QED
      BY <2>1, AttemptServed DEF RecordCommand, StoreKept, CommandInv
  <1>3. PICK step \in {"waitCommand", "setupError"} : Goto(c, step) /\ UNCHANGED plan
    BY DEF RecordCommand
  <1>4. step \in PCs /\ step \notin PrepareSteps /\ Fits(step, plan[c]) /\ step # "release"
    BY DEF PCs, PrepareSteps, Fits
  <1> QED
    BY <1>1, <1>2, <1>3, <1>4, GoesOnKept

LEMMA OutcomeKept ==
    ASSUME CommandInv, NEW c \in Commands,
           SetupError(c) \/ CommandExit(c) \/ CommandTimeout(c) \/ InterruptCommand(c)
    PROVE  Kept
  <1>1. StoreKept /\ plan[c] \in Plan
    BY StoreSame, CommandPlan DEF SetupError, CommandExit, CommandTimeout, InterruptCommand
  <1>2. ProcKept
    BY ProcSame, Killed DEF SetupError, CommandExit, CommandTimeout, InterruptCommand, workerVars
  <1>3. /\ SystemPair["process_error"] \in Pairs /\ SystemPair["timed_out"] \in Pairs
        /\ PassedPair \in Pairs /\ FailedPair \in Pairs
    BY SystemPairType, LauncherAssumption DEF EndStates
  <1>4. PICK step \in {"report", "output"}, pair \in Pairs, allow \in BOOLEAN :
           Planned(c, step, [plan[c] EXCEPT !.req = CommandReport(pair, allow)])
    BY <1>3 DEF SetupError, CommandExit, CommandTimeout, InterruptCommand
  <1> DEFINE r == CommandReport(pair, allow)
             p == [plan[c] EXCEPT !.req = r]
  <1>5. r \in ReportRequest /\ r \in Requests
    BY CommandReportType
  <1> HIDE DEF r
  <1>6. p \in Plan /\ p.id = plan[c].id /\ p.req = r
    BY <1>1, <1>5, PlanEdits
  <1>7. Planned(c, step, p)
    BY <1>4 DEF r
  <1> HIDE DEF p
  <1>8. step \in PCs \ PrepareSteps /\ Fits(step, p)
    BY <1>5, <1>6 DEF PCs, PrepareSteps, Fits
  <1> QED
    BY <1>1, <1>2, <1>6, <1>7, <1>8, ReplansKept

LEMMA WriteOutputKept ==
    ASSUME CommandInv, NEW c \in Commands, WriteOutput(c)
    PROVE  Kept
  <1>1. ProcKept
    BY ProcSame DEF WriteOutput, workerVars
  <1>2. LogRef(plan[c].id) \in Artifact
    BY CommandPlan DEF LogRef, Artifact, Plan
  <1>3. StoreKept
    BY <1>2, BesideServed DEF WriteOutput, StoreKept, CommandInv
  <1>4. "report" \in PCs \ PrepareSteps /\ Fits("report", plan[c])
    BY CommandPlan DEF PCs, PrepareSteps, Fits, WriteOutput
  <1> QED
    BY <1>1, <1>3, <1>4, GoesOnKept DEF WriteOutput

LEMMA ReportCommandKept ==
    ASSUME CommandInv, NEW c \in Commands, ReportCommand(c)
    PROVE  Kept
  <1>1. ProcKept
    BY ProcSame DEF ReportCommand, workerVars
  <1>2. plan[c] \in Plan /\ plan[c].req \in ReportRequest
    BY CommandPlan DEF ReportCommand, Fits
  <1>3. StoreKept
    <2>1. At({"report"}, plan[c].id)
      BY DEF ReportCommand, At
    <2> QED
      BY <1>2, <2>1, ReportServed DEF ReportCommand, StoreKept, CommandInv
  <1>4. CASE Return(c)
    BY <1>1, <1>3, <1>4, ReturnsKept
  <1>5. CASE Planned(c, "fail", [plan[c] EXCEPT !.end = "process_error"])
    <2> DEFINE p == [plan[c] EXCEPT !.end = "process_error"]
    <2>1. p \in Plan /\ p.id = plan[c].id /\ p.end \in EndStates
      BY <1>2, PlanEdits DEF EndStates
    <2> HIDE DEF p
    <2>2. "fail" \in PCs \ PrepareSteps /\ Fits("fail", p)
      BY <2>1 DEF PCs, PrepareSteps, Fits
    <2> QED
      BY <1>1, <1>3, <1>5, <2>1, <2>2, ReplansKept DEF p
  <1> QED
    BY <1>4, <1>5 DEF ReportCommand

-----------------------------------------------------------------------------
(* Skipping, and what happens beside the commands.                         *)

LEMMA SkipKept ==
    ASSUME CommandInv, NEW c \in Commands, Skip(c)
    PROVE  Kept
  <1> DEFINE step == plan[c].req.step
             wf == plan[c].req.by
  <1>1. ProcKept
    BY ProcSame DEF Skip, workerVars
  <1>2. plan[c] \in Plan /\ step \in Steps /\ wf \in Valid
    BY CommandPlan DEF Skip, Fits, SkipPlan
  <1>3. \/ /\ MaySkip(wf, replayed, step)
           /\ RecordStepSkip(SkipRequestFor(wf, replayed, step))
        \/ UNCHANGED storeVars
    BY DEF Skip
  <1> HIDE DEF step, wf
  <1>4. StoreKept
    BY <1>2, <1>3, SkipRequestType, SkipServed DEF StoreKept, CommandInv, TypeOK
  <1>5. CASE Return(c)
    BY <1>1, <1>4, <1>5, ReturnsKept
  <1>6. CASE plan[c].cap # None /\ Planned(c, "softCap", [NoPlan EXCEPT !.cap = plan[c].cap])
    <2> DEFINE p == [NoPlan EXCEPT !.cap = plan[c].cap]
    <2>1. plan[c].cap \in Cap \union {None}
      BY <1>2 DEF Plan
    <2>2. p \in Plan /\ p.id = 0 /\ p.cap = plan[c].cap
      BY <2>1, NoPlanFits DEF Plan, NoPlan
    <2>3. Planned(c, "softCap", p)
      BY <1>6
    <2> HIDE DEF p
    <2>4. "softCap" \in PCs \ PrepareSteps /\ Fits("softCap", p)
      BY <1>6, <2>1, <2>2 DEF PCs, PrepareSteps, Fits
    <2>5. Len(replayed'.attempts) \in Nat
      BY <1>4 DEF CommandInv, StoreKept, Served, StepEffect, storeVars, TypeOK, Status
    <2>6. Tracks("softCap", p, replayed'.attempts)
      BY <2>2, <2>4, <2>5 DEF Tracks
    <2> QED
      BY <1>1, <1>4, <2>2, <2>3, <2>4, <2>6, GoesOnWith DEF Kept
  <1> QED
    BY <1>5, <1>6 DEF Skip

LEMMA ReportsOfType ==
    ASSUME NEW step
    PROVE  ReportsOf(step) \subseteq ReportRequest /\ InvalidReport \in ReportRequest
  <1>1. FindingSets \union {{}} \subseteq SUBSET Findings
    BY LauncherAssumption
  <1>2. ReportsOf(step) \subseteq ReportRequest
    <2> SUFFICES ASSUME NEW r \in ReportsOf(step)
                 PROVE  r \in ReportRequest
      OBVIOUS
    <2>1. PICK pair \in Pairs, found \in SUBSET Findings :
             r = [state |-> "reported", pair |-> pair, findings |-> found,
                  allowStarting |-> FALSE]
      BY <1>1 DEF ReportsOf
    <2> QED
      BY <2>1 DEF ReportRequest, ReportedStates
  <1>3. InvalidReport \in ReportRequest
    BY SystemPairType DEF InvalidReport, ReportRequest, ReportedStates
  <1> QED
    BY <1>2, <1>3

LEMMA WorldKept ==
    ASSUME CommandInv, World
    PROVE  Kept
  <1>1. CommandsKept
    BY DEF World, Continue, Report, WorkerExit, Timeout, CommandsKept
  <1>2. ProcKept
    <2>1. ASSUME NEW id \in 1..MaxAttempts, WorkerExit(id)
          PROVE  ProcKept
      <3>1. "exited" \in ProcStates
        BY DEF ProcStates
      <3> QED
        BY <2>1, <3>1 DEF WorkerExit, ProcKept, CommandInv, Alive
    <2>2. CASE UNCHANGED proc
      BY <2>2, ProcSame
    <2> QED
      BY <2>1, <2>2 DEF World, Continue, Report, Timeout, workerVars
  <1>3. StoreKept
    <2>1. CASE Continue
      BY <2>1, BlockServed DEF Continue, StoreKept, CommandInv
    <2>2. ASSUME NEW id \in 1..MaxAttempts, Report(id)
          PROVE  StoreKept
      <3>1. AtWork(id)
        BY <2>2 DEF Report, AtWork
      <3> QED
        BY <2>2, <3>1, ReportsOfType, ReportServed DEF Report, StoreKept, CommandInv
    <2>3. CASE UNCHANGED storeVars
      BY <2>3 DEF StoreKept
    <2> QED
      BY <2>1, <2>2, <2>3 DEF World, WorkerExit, Timeout
  <1> QED
    BY <1>1, <1>2, <1>3 DEF Kept

LEMMA CrashKept ==
    ASSUME CommandInv, NEW c \in Commands, Crash(c)
    PROVE  Kept
  <1>1. StoreKept
    BY StoreSame DEF Crash
  <1>2. "killed" \in ProcStates
    BY DEF ProcStates
  <1>3. ProcKept
    BY <1>2 DEF Crash, ProcKept, CommandInv, Alive
  <1> QED
    BY <1>1, <1>3, ReturnsKept DEF Crash

LEMMA NextKept ==
    ASSUME CommandInv, CommandNext
    PROVE  Kept /\ UNCHANGED workflow
  <1>1. UNCHANGED workflow
    BY DEF CommandNext, CommandStep, Environment
  <1>2. ASSUME NEW c \in Commands, CommandStep(c)
        PROVE  Kept
    BY <1>2, PlanRecoveryKept, PlanLaunchKept, EndsKept, ActsKept, StartKept, SoftCapKept,
       PrepareKept, SpawnKept, RecordProcessKept, ReleaseKept, StopsKept, TurnsKept, CollectKept,
       RecordCommandKept, OutcomeKept, WriteOutputKept, ReportCommandKept, SkipKept
       DEF CommandStep
  <1>3. ASSUME Environment
        PROVE  Kept
    BY <1>3, PlanSkipKept, TurnsKept, SoftCapKept, StopsKept, OutcomeKept, CrashKept, WorldKept
       DEF Environment, Interrupt
  <1>4. Kept
    BY <1>2, <1>3 DEF CommandNext
  <1> QED
    BY <1>1, <1>4

LEMMA CommandInitInv == CommandInit => CommandInv
  <1> SUFFICES ASSUME CommandInit PROVE CommandInv
    OBVIOUS
  <1>1. workflow \in Valid /\ workflow.start \in Steps
    BY Configured DEF CommandInit, Configuration
  <1>2. Init
    BY <1>1 DEF CommandInit, Init
  <1>3. TypeOK /\ HistoryOK
    BY <1>2, InitSound
  <1>4. "idle" \in PCs \ PrepareSteps /\ NoPlan \in Plan /\ Fits("idle", NoPlan)
    BY NoPlanFits DEF PCs, PrepareSteps, Fits
  <1>5. Tracks("idle", NoPlan, replayed.attempts)
    BY <1>3, <1>4 DEF Tracks, NoPlan, TypeOK, Status, PrepareSteps
  <1>6. "none" \in ProcStates
    BY DEF ProcStates
  <1> QED
    BY <1>1, <1>3, <1>4, <1>5, <1>6 DEF CommandInit, CommandInv

LEMMA CommandInvariant == CommandSpec => []CommandInv
  <1>1. CommandInv /\ [CommandNext]_vars => CommandInv'
    <2>1. ASSUME CommandInv, UNCHANGED vars
          PROVE  CommandInv'
      BY <2>1 DEF vars, storeVars, commandVars, workerVars, CommandInv, TypeOK, HistoryOK
    <2> QED
      BY <2>1, NextKept, KeptKeeps DEF CommandInv
  <1> QED
    BY <1>1, CommandInitInv, PTL DEF CommandSpec

-----------------------------------------------------------------------------
(* Retries.                                                                *)

Within(lineage) ==
    lineage # None => \A p \in Pairs : lineage.counts[p] <= workflow.retries[p]

\* The retries on record are within their limits, and so are those a command
\* has decided on, on a status that may be gone by now.
RetryInv ==
    /\ Within(replayed.lineage)
    /\ \A c \in Commands : pc[c] = "start" => Within(plan[c].req.retry)

LEMMA RetryWithin ==
    ASSUME workflow \in Configuration, NEW s \in Status, Within(s.lineage),
           Decision(s).kind = "retry"
    PROVE  Within(Decision(s).retry)
  <1> DEFINE st == WorkflowState(s)
             step == st.outcome.step
             pair == st.outcome.pair
  <1>1. st.retry \in Lineage \union {None} /\ Within(st.retry) /\ st.retry = s.lineage
    BY DEF WorkflowState, Status
  <1>2. workflow.retries \in [Pairs -> Nat]
    BY DEF Configuration
  <1>3. Decision(s) = Evaluate(workflow, st)
    BY DEF Decision, DecisionBy
  <1>4. st.status \in RunStates /\ st.active \in BOOLEAN
    BY DEF WorkflowState, Status
  <1> HIDE DEF st
  <1>5. EvaluateSelected(workflow, st).kind # "retry"
    BY DEF EvaluateSelected, Decide, EvalError
  <1>6. /\ st.status = Running /\ ~st.active /\ st.outcome # None
        /\ Decision(s) = EvaluateOutcome(workflow, st)
    BY <1>3, <1>4, <1>5 DEF Evaluate, Decide, EvalError, RunStates
  <1>7. /\ RetryLeft(workflow, st.retry, step, pair)
        /\ Decision(s).retry = NextLineage(st.retry, step, pair)
    BY <1>6 DEF EvaluateOutcome, Decide, EvalError
  <1> HIDE DEF step, pair
  <1>8. ASSUME NEW p \in Pairs
        PROVE  NextLineage(st.retry, step, pair).counts[p] <= workflow.retries[p]
    <2>1. /\ RetryCount(st.retry, step, p) \in Nat
          /\ RetryCount(st.retry, step, p) <= workflow.retries[p]
      BY <1>1, <1>2 DEF RetryCount, Within, Lineage
    <2>2. NextLineage(st.retry, step, pair).counts[p] =
             IF p = pair THEN RetryCount(st.retry, step, p) + 1 ELSE RetryCount(st.retry, step, p)
      BY DEF NextLineage
    <2> QED
      BY <1>2, <1>7, <2>1, <2>2 DEF RetryLeft
  <1> QED
    BY <1>7, <1>8 DEF Within

\* A step of command c that decides on no start.
NoStart(c) ==
    \E step : step # "start" /\ Goto(c, step) /\ \E p : plan' = [plan EXCEPT ![c] = p]

LineageKept == replayed'.lineage = replayed.lineage

\* Every operation but a start and a skip, or none.
Routine ==
    \/ UNCHANGED storeVars
    \/ \E id, ref : RecordAttemptPrompt(id, ref) \/ RecordAttemptLog(id, ref)
    \/ \E id : RecordAttemptProcess(id) \/ RecordAttemptWarning(id)
    \/ \E id, state, recovered : TerminalizeAttempt(id, state, recovered)
    \/ \E id, req : RecordAttemptReport(id, req)
    \/ \E ref : WriteArtifact(ref)
    \/ \E req : UpdateStatus(req)
    \/ \E cap : RecordWorkflowLoopSoftCap(cap) \/ BlockWorkflowLoopHardCap(cap)
    \/ \E block : BlockRepeatedReviewFinding(block)
    \/ AllowWorkflowLoopHardCap \/ AllowRepeatedReviewFinding \/ ResolveHumanBlock

LEMMA RoutineKeepsLineage ==
    ASSUME TypeOK, Routine
    PROVE  LineageKept
  <1>1. \A a : /\ ReplayUpdate(replayed, a).lineage = replayed.lineage
               /\ ReplayEnd(replayed, a).lineage = replayed.lineage
    BY DEF ReplayUpdate, ReplayEnd, TypeOK, Status
  <1>2. \A a, req : ReplayReport(replayed, a, req).lineage = replayed.lineage
    BY DEF ReplayReport, ReplayUpdate, TypeOK, Status
  <1>3. /\ \A x : InState(replayed, x).lineage = replayed.lineage
        /\ \A x : HardCapped(replayed, x).lineage = replayed.lineage
        /\ \A x : HardCapOverridden(replayed, x).lineage = replayed.lineage
        /\ \A x : FindingBlocked(replayed, x).lineage = replayed.lineage
        /\ FindingOverridden(replayed).lineage = replayed.lineage
        /\ Continued(replayed).lineage = replayed.lineage
    BY DEF InState, HardCapped, HardCapOverridden, FindingBlocked, FindingOverridden, Continued,
           TypeOK, Status
  <1>4. /\ \A x : [replayed EXCEPT !.warned = @ \union {x}].lineage = replayed.lineage
        /\ \A x : [replayed EXCEPT !.artifacts = @ \union {x}].lineage = replayed.lineage
        /\ \A x : [replayed EXCEPT !.softCaps = @ \union {x}].lineage = replayed.lineage
    BY DEF TypeOK, Status
  <1>5. CASE UNCHANGED storeVars
    BY <1>5 DEF LineageKept, storeVars
  <1>8. CASE \E id, ref : RecordAttemptPrompt(id, ref) \/ RecordAttemptLog(id, ref)
    <2>1. \E live, ok, a : Commit(live, ok, ReplayUpdate(replayed, a))
      BY <1>8 DEF RecordAttemptPrompt, RecordAttemptLog
    <2> QED
      BY <1>1, <2>1 DEF LineageKept, Commit
  <1>9. CASE \E id : RecordAttemptProcess(id)
    BY <1>1, <1>9 DEF LineageKept, Commit, RecordAttemptProcess
  <1>10. CASE \E id, state, recovered : TerminalizeAttempt(id, state, recovered)
    BY <1>1, <1>10 DEF LineageKept, Commit, TerminalizeAttempt
  <1>11. CASE \E id, req : RecordAttemptReport(id, req)
    BY <1>2, <1>11 DEF LineageKept, Commit, RecordAttemptReport
  <1>6. CASE \E id : RecordAttemptWarning(id)
    BY <1>4, <1>6 DEF LineageKept, Commit, RecordAttemptWarning
  <1>12. CASE \E ref : WriteArtifact(ref)
    BY <1>4, <1>12 DEF LineageKept, Commit, WriteArtifact
  <1>13. CASE \E cap : RecordWorkflowLoopSoftCap(cap)
    BY <1>4, <1>13 DEF LineageKept, Commit, RecordWorkflowLoopSoftCap
  <1>7. CASE \/ \E req : UpdateStatus(req)
             \/ \E cap : BlockWorkflowLoopHardCap(cap)
             \/ \E block : BlockRepeatedReviewFinding(block)
             \/ AllowWorkflowLoopHardCap \/ AllowRepeatedReviewFinding \/ ResolveHumanBlock
    BY <1>3, <1>7
       DEF LineageKept, Commit, UpdateStatus, BlockWorkflowLoopHardCap,
           BlockRepeatedReviewFinding, AllowWorkflowLoopHardCap, AllowRepeatedReviewFinding,
           ResolveHumanBlock
  <1> QED
    BY <1>5, <1>6, <1>7, <1>8, <1>9, <1>10, <1>11, <1>12, <1>13 DEF Routine

LEMMA RetryKept ==
    ASSUME CommandInv, RetryInv, NEW c \in Commands, UNCHANGED workflow,
           LineageKept \/ Within(replayed'.lineage),
           \/ NoStart(c)
           \/ UNCHANGED commandVars
           \/ \E p : Planned(c, "start", p) /\ Within(p.req.retry)
    PROVE  RetryInv'
  <1>1. \A l : Within(l)' <=> Within(l)
    BY DEF Within
  <1>2. Within(replayed'.lineage)
    BY DEF RetryInv, LineageKept
  <1>3. ASSUME NEW b \in Commands, pc'[b] = "start"
        PROVE  Within(plan'[b].req.retry)
    <2>1. CASE UNCHANGED commandVars
      BY <1>3, <2>1 DEF RetryInv, commandVars
    <2>2. CASE NoStart(c)
      BY <1>3, <2>2 DEF RetryInv, NoStart, Goto, CommandInv
    <2>3. CASE \E p : Planned(c, "start", p) /\ Within(p.req.retry)
      BY <1>3, <2>3 DEF RetryInv, Planned, Goto, CommandInv
    <2> QED
      BY <2>1, <2>2, <2>3
  <1> QED
    BY <1>1, <1>2, <1>3 DEF RetryInv

LEMMA PlansElsewhere ==
    ASSUME CommandInv, NEW c \in Commands,
           \/ \E step : step # "start" /\ Goto(c, step) /\ UNCHANGED plan
           \/ \E step, p : step # "start" /\ Planned(c, step, p)
           \/ Return(c)
    PROVE  NoStart(c)
  <1>1. plan = [plan EXCEPT ![c] = plan[c]]
    BY DEF CommandInv
  <1> QED
    BY <1>1 DEF NoStart, Planned, Return

\* Steps of a command that leave the store alone.
LEMMA ApartKeepsRetries ==
    ASSUME CommandInv, NEW c \in Commands,
           \/ PlanRecovery(c) \/ PlanSkip(c) \/ InterruptSoftCap(c) \/ Cancel(c) \/ Crash(c)
           \/ Spawn(c) \/ SpawnCommand(c) \/ FailSpawn(c) \/ Release(c) \/ Abort(c)
           \/ WaitExit(c) \/ WaitTimeout(c) \/ PollReport(c) \/ GraceExceeded(c)
           \/ InterruptWait(c) \/ Collect(c)
           \/ SetupError(c) \/ CommandExit(c) \/ CommandTimeout(c) \/ InterruptCommand(c)
    PROVE  Routine /\ NoStart(c)
  <1>1. UNCHANGED storeVars
    BY DEF PlanRecovery, PlanSkip, InterruptSoftCap, Cancel, Crash, Spawn, SpawnCommand, FailSpawn,
           Release, Abort, WaitExit, WaitTimeout, PollReport, GraceExceeded, InterruptWait,
           Collect, SetupError, CommandExit, CommandTimeout, InterruptCommand
  <1>2. CASE PlanRecovery(c) \/ PlanSkip(c)
    <2>1. \E step, p : step # "start" /\ Planned(c, step, p)
      BY <1>2 DEF PlanRecovery, PlanSkip
    <2> QED
      BY <1>1, <2>1, PlansElsewhere DEF Routine
  <1>3. CASE \/ Cancel(c) \/ Spawn(c) \/ SpawnCommand(c) \/ FailSpawn(c) \/ Release(c) \/ PollReport(c)
    <2>1. \E step : step # "start" /\ Goto(c, step) /\ UNCHANGED plan
      BY <1>3 DEF Cancel, Spawn, SpawnCommand, FailSpawn, Release, PollReport
    <2> QED
      BY <1>1, <2>1, PlansElsewhere DEF Routine
  <1>4. CASE \/ Abort(c) \/ WaitExit(c) \/ WaitTimeout(c) \/ GraceExceeded(c) \/ InterruptWait(c)
             \/ SetupError(c) \/ CommandExit(c) \/ CommandTimeout(c) \/ InterruptCommand(c)
    <2>1. \E step, p : step # "start" /\ Planned(c, step, p)
      BY <1>4 DEF Abort, WaitExit, WaitTimeout, GraceExceeded, InterruptWait, SetupError,
                  CommandExit, CommandTimeout, InterruptCommand
    <2> QED
      BY <1>1, <2>1, PlansElsewhere DEF Routine
  <1>5. CASE InterruptSoftCap(c) \/ Crash(c) \/ Collect(c)
    <2>1. Return(c) \/ \E step : step # "start" /\ Goto(c, step) /\ UNCHANGED plan
      BY <1>5 DEF InterruptSoftCap, Crash, Collect
    <2> QED
      BY <1>1, <2>1, PlansElsewhere DEF Routine
  <1> QED
    BY <1>2, <1>3, <1>4, <1>5

\* Steps of a command that are an operation of the store, if it is allowed.
LEMMA OperationKeepsRetries ==
    ASSUME CommandInv, NEW c \in Commands,
           \/ Recover(c) \/ Terminalize(c) \/ BlockFinding(c) \/ BlockCap(c) \/ Finish(c) \/ Warn(c)
           \/ RecordSoftCap(c) \/ RenderPrompt(c) \/ RecordPrompt(c) \/ OpenLog(c) \/ RecordLog(c)
           \/ RecordProcess(c) \/ RecordCommand(c) \/ WriteOutput(c) \/ ReportCommand(c)
    PROVE  Routine /\ NoStart(c)
  <1>1. CASE Recover(c) \/ Finish(c)
    BY <1>1, PlansElsewhere DEF Recover, Finish, Routine
  <1>2. CASE Terminalize(c) \/ BlockFinding(c) \/ BlockCap(c) \/ Warn(c)
    BY <1>2, PlansElsewhere DEF Terminalize, BlockFinding, BlockCap, Warn, Routine
  <1>3. CASE RecordSoftCap(c)
    <2>1. Return(c) \/ \E step, p : step # "start" /\ Planned(c, step, p)
      BY <1>3 DEF RecordSoftCap
    <2> QED
      BY <1>3, <2>1, PlansElsewhere DEF RecordSoftCap, Routine
  <1>4. CASE RenderPrompt(c) \/ RecordPrompt(c) \/ OpenLog(c) \/ RecordLog(c) \/ RecordProcess(c)
    <2>1. \E step : step # "start" /\ Goto(c, step) /\ UNCHANGED plan
      BY <1>4 DEF RenderPrompt, RecordPrompt, OpenLog, RecordLog, RecordProcess, Prepare
    <2>2. Routine
      BY <1>4 DEF RenderPrompt, RecordPrompt, OpenLog, RecordLog, RecordProcess, Prepare, Routine
    <2> QED
      BY <2>1, <2>2, PlansElsewhere
  <1>5. CASE RecordCommand(c) \/ WriteOutput(c)
    <2>1. \E step : step # "start" /\ Goto(c, step) /\ UNCHANGED plan
      BY <1>5 DEF RecordCommand, WriteOutput
    <2> QED
      BY <1>5, <2>1, PlansElsewhere DEF RecordCommand, WriteOutput, Routine
  <1>6. CASE ReportCommand(c)
    <2>1. Return(c) \/ \E step, p : step # "start" /\ Planned(c, step, p)
      BY <1>6 DEF ReportCommand
    <2> QED
      BY <1>6, <2>1, PlansElsewhere DEF ReportCommand, Routine
  <1> QED
    BY <1>1, <1>2, <1>3, <1>4, <1>5, <1>6

LEMMA WorldKeepsRetries ==
    ASSUME World
    PROVE  Routine /\ UNCHANGED commandVars
  <1>1. CASE Continue
    BY <1>1 DEF Continue, Routine
  <1>2. CASE \E id \in 1..MaxAttempts : Report(id)
    <2>1. \E id, req : RecordAttemptReport(id, req)
      BY <1>2 DEF Report
    <2> QED
      BY <1>2, <2>1 DEF Report, Routine
  <1>3. CASE \E id \in 1..MaxAttempts : WorkerExit(id) \/ Timeout(id)
    BY <1>3 DEF WorkerExit, Timeout, Routine
  <1> QED
    BY <1>1, <1>2, <1>3 DEF World

\* A start decided on names the retries of the status it was decided on, one
\* more if it is a retry itself.
LEMMA LaunchKeepsRetries ==
    ASSUME CommandInv, RetryInv, NEW c \in Commands, PlanLaunch(c)
    PROVE  /\ Routine
           /\ NoStart(c) \/ \E p : Planned(c, "start", p) /\ Within(p.req.retry)
  <1> DEFINE d == Decision(replayed)
             latest == LatestConsumable(replayed)
             retry == IF d.kind = "retry" THEN d.retry ELSE None
  <1>1. Routine
    BY DEF PlanLaunch, Routine
  <1>2. CASE PlanTerminal(c, d) \/ PlanFindingBlock(c, d) \/ PlanCapBlock(c, d)
    <2>1. \E step, p : step # "start" /\ Planned(c, step, p)
      BY <1>2 DEF PlanTerminal, PlanFindingBlock, PlanCapBlock
    <2> QED
      BY <1>1, <2>1, PlansElsewhere
  <1>3. CASE PlanStart(c, d)
    <2>1. Within(retry)
      <3>1. workflow \in Configuration /\ replayed \in Status /\ Within(replayed.lineage)
        BY Configured DEF CommandInv, TypeOK, RetryInv
      <3> QED
        BY <3>1, RetryWithin DEF Within
    <2>2. \E r, cap : /\ r.retry = retry
                     /\ Planned(c, "start", [NoPlan EXCEPT !.req = r, !.cap = cap])
      <3> HIDE DEF d, retry
      <3>1. (IF d.kind = "retry" THEN d.retry ELSE None) = retry
        BY DEF retry
      <3> DEFINE r == [step |-> d.target, fix |-> workflow.on[d.target][ChangesPair],
                       consume |-> latest, retry |-> retry,
                       entry |-> EntryOf(replayed, d),
                       hardOverride |-> CapOverride(replayed, d),
                       findOverride |-> FindingOverride(replayed, d, latest)]
                 cap == IF LoopCap(workflow, replayed.counts, d) = "soft"
                          THEN CapOf(workflow, replayed.counts, d.target) ELSE None
      <3>2. Planned(c, "start", [NoPlan EXCEPT !.req = r, !.cap = cap])
        BY <1>3, <3>1 DEF PlanStart
      <3>3. r.retry = retry
        OBVIOUS
      <3> HIDE DEF r, cap
      <3> QED
        BY <3>2, <3>3
    <2> HIDE DEF retry
    <2>3. PICK r, cap : /\ r.retry = retry
                        /\ Planned(c, "start", [NoPlan EXCEPT !.req = r, !.cap = cap])
      BY <2>2
    <2>4. [NoPlan EXCEPT !.req = r, !.cap = cap].req = r
      BY DEF NoPlan
    <2> QED
      BY <1>1, <2>1, <2>3, <2>4
  <1> QED
    BY <1>2, <1>3 DEF PlanLaunch

LEMMA StartKeepsRetries ==
    ASSUME CommandInv, RetryInv, NEW c \in Commands, Start(c)
    PROVE  (LineageKept \/ Within(replayed'.lineage)) /\ NoStart(c)
  <1>1. NoStart(c)
    <2>1. Return(c) \/ \E step, p : step # "start" /\ Planned(c, step, p)
      BY DEF Start
    <2> QED
      BY <2>1, PlansElsewhere
  <1>2. CASE UNCHANGED storeVars
    BY <1>1, <1>2 DEF LineageKept, storeVars
  <1>3. CASE StartAttempt(plan[c].req)
    <2>1. \A ev : ReplayStart(replayed, ev).lineage = ev.retry
      BY DEF ReplayStart, CommandInv, TypeOK, Status
    <2>2. StartEvent(replayed, plan[c].req).retry = plan[c].req.retry
      BY DEF StartEvent
    <2>3. LineageKept \/ replayed'.lineage = plan[c].req.retry
      BY <1>3, <2>1, <2>2 DEF StartAttempt, Commit, LineageKept
    <2> QED
      BY <1>1, <2>3 DEF RetryInv, Start
  <1> QED
    BY <1>2, <1>3 DEF Start

LEMMA SkipKeepsRetries ==
    ASSUME CommandInv, NEW c \in Commands, Skip(c)
    PROVE  (LineageKept \/ Within(replayed'.lineage)) /\ NoStart(c)
  <1>1. NoStart(c)
    <2>1. Return(c) \/ \E step, p : step # "start" /\ Planned(c, step, p)
      BY DEF Skip
    <2> QED
      BY <2>1, PlansElsewhere
  <1>2. CASE UNCHANGED storeVars
    BY <1>1, <1>2 DEF LineageKept, storeVars
  <1>3. CASE \E req : RecordStepSkip(req)
    <2>1. \A ev : ReplaySkip(replayed, ev).lineage = None
      BY DEF ReplaySkip, CommandInv, TypeOK, Status
    <2>2. LineageKept \/ replayed'.lineage = None
      BY <1>3, <2>1 DEF RecordStepSkip, Commit, LineageKept
    <2> QED
      BY <1>1, <2>2 DEF Within
  <1> QED
    BY <1>2, <1>3 DEF Skip

LEMMA RetryStep ==
    ASSUME CommandInv, RetryInv, CommandNext
    PROVE  RetryInv'
  <1>1. UNCHANGED workflow
    BY DEF CommandNext, CommandStep, Environment
  <1>2. TypeOK
    BY DEF CommandInv
  <1>3. ASSUME NEW c \in Commands, CommandStep(c)
        PROVE  RetryInv'
    <2>1. CASE Start(c) \/ Skip(c)
      BY <1>1, <2>1, StartKeepsRetries, SkipKeepsRetries, RetryKept
    <2>2. CASE PlanLaunch(c)
      BY <1>1, <1>2, <2>2, LaunchKeepsRetries, RoutineKeepsLineage, RetryKept
    <2>3. CASE Routine /\ NoStart(c)
      BY <1>1, <1>2, <2>3, RoutineKeepsLineage, RetryKept
    <2> QED
      BY <1>3, <2>1, <2>2, <2>3, ApartKeepsRetries, OperationKeepsRetries DEF CommandStep
  <1>4. ASSUME NEW c \in Commands, PlanSkip(c) \/ FailSpawn(c) \/ Interrupt(c) \/ Crash(c)
        PROVE  RetryInv'
    BY <1>1, <1>2, <1>4, ApartKeepsRetries, RoutineKeepsLineage, RetryKept DEF Interrupt
  <1>5. CASE World
    <2>1. Routine /\ UNCHANGED commandVars
      BY <1>5, WorldKeepsRetries
    <2>2. \A l : Within(l)' <=> Within(l)
      BY <1>1 DEF Within
    <2> QED
      BY <1>2, <2>1, <2>2, RoutineKeepsLineage DEF RetryInv, LineageKept, commandVars
  <1> QED
    BY <1>3, <1>4, <1>5 DEF CommandNext, Environment

-----------------------------------------------------------------------------
(* Theorems.                                                               *)

\* Commands, workers and humans, any number of them and dying where they may,
\* send the store well-formed requests only, so that it keeps its type and its
\* history.
THEOREM CommandsKeepHistory == CommandSpec => [](TypeOK /\ HistoryOK)
  <1>1. CommandInv => TypeOK /\ HistoryOK
    BY DEF CommandInv
  <1> QED
    BY <1>1, CommandInvariant, PTL

LEMMA CommandStepEffect ==
    CommandInv /\ [CommandNext]_vars => UNCHANGED storeVars \/ Served
  BY NextKept DEF Kept, StoreKept, vars

\* Together they live the abstract life of attempts: one at a time is live, each
\* ends once and is routed at most once, whoever raced or died on the way.
THEOREM CommandsImplementLifecycle == CommandSpec => ImplementsLifecycle
  <1>1. CommandInit => Lifecycle!Init
    BY DEF CommandInit, InitialStatus, Lifecycle!Init
  <1>2. CommandInv /\ [CommandNext]_vars => [Lifecycle!Next]_(PhasesOf(replayed.attempts))
    <2>1. ASSUME PhaseStep(PhasesOf(replayed.attempts), PhasesOf(replayed'.attempts))
          PROVE  [Lifecycle!Next]_(PhasesOf(replayed.attempts))
      BY <2>1 DEF PhaseStep, PhasesOf, Lifecycle!Next, Lifecycle!Start, Lifecycle!Idle,
                  Lifecycle!RouteAndStart, Lifecycle!End, Lifecycle!Route
    <2>2. UNCHANGED storeVars => UNCHANGED PhasesOf(replayed.attempts)
      BY DEF storeVars, PhasesOf, PhaseOf
    <2> QED
      BY <2>1, <2>2, CommandStepEffect DEF Served, StepEffect
  <1> QED
    BY <1>1, <1>2, CommandInvariant, PTL
       DEF CommandSpec, ImplementsLifecycle, Lifecycle!Spec, PhasesOf

\* The loop counters the commands decide caps by are the entries they made, also
\* when two of them enter the same step and one is refused.
THEOREM CommandsKeepCounts == CommandSpec => []CountsMatchEntries
  <1>1. CommandInit => EntriesCounted(replayed)
    <2>1. CommandInit => Init
      BY Configured DEF CommandInit, Init, Configuration
    <2> QED
      BY <2>1, InitCounted
  <1>2. CommandInv /\ EntriesCounted(replayed) /\ [CommandNext]_vars => EntriesCounted(replayed)'
    <2>1. ASSUME CommandInv, EntriesCounted(replayed), Served
          PROVE  EntriesCounted(replayed')
      BY <2>1, LoopStepCounted DEF Served, CommandInv, TypeOK
    <2>2. ASSUME EntriesCounted(replayed), UNCHANGED storeVars
          PROVE  EntriesCounted(replayed')
      BY <2>2 DEF storeVars
    <2> QED
      BY <2>1, <2>2, CommandStepEffect
  <1>3. EntriesCounted(replayed) => CountsMatchEntries
    BY DEF EntriesCounted, MadeOn, CountsMatchEntries
  <1> QED
    BY <1>1, <1>2, <1>3, CommandInvariant, PTL DEF CommandSpec

\* No agent executes before its process is on record: whichever command dies
\* between the start of the process and its release, nothing runs unseen.
THEOREM WorkersRecorded == CommandSpec => []NoUnrecordedWorker
  <1>1. CommandInit => NoUnrecordedWorker
    BY DEF CommandInit, NoUnrecordedWorker
  <1>2. CommandInv /\ NoUnrecordedWorker /\ [CommandNext]_vars => NoUnrecordedWorker'
    <2>1. ASSUME NoUnrecordedWorker, UNCHANGED vars
          PROVE  NoUnrecordedWorker'
      BY <2>1 DEF vars, storeVars, workerVars, NoUnrecordedWorker, IsAgent
    <2> QED
      BY <2>1, NextKept, KeptKeepsWorkers
  <1> QED
    BY <1>1, <1>2, CommandInvariant, PTL DEF CommandSpec

\* Only the command that started an attempt, or one that recovers this very
\* attempt, gives it up, however late it comes and whoever else is at work.
THEOREM OwnersEnd == CommandSpec => EndedByItsOwner
  <1>1. CommandInv /\ [CommandNext]_vars =>
          [\A id \in 1..Len(replayed.attempts) :
              LET a == replayed.attempts[id]
                  b == replayed'.attempts[id]
              IN  a.state \in LiveStates /\ b.state \in EndStates =>
                     \E c \in Commands :
                        /\ plan[c].id = id
                        /\ pc[c] \in IF b.recovered THEN {"recover"} ELSE {"fail", "finish"}]_vars
    <2>1. ASSUME UNCHANGED storeVars
          PROVE  Owned
      BY <2>1, LiveIsNotEnded DEF Owned, OwnedAttempt, storeVars
    <2>2. CommandInv /\ CommandNext => Owned
      BY <2>1, NextKept DEF Kept, StoreKept, Served
    <2> QED
      BY <2>2 DEF Owned, OwnedAttempt, OwnedBy
  <1> QED
    BY <1>1, CommandInvariant, PTL DEF CommandSpec, EndedByItsOwner

\* However many commands decide on the same failure, whatever they read is gone
\* by the time they act, and whoever dies: a pair is retried as often as the
\* workflow says and no more.
THEOREM RetriesStayBounded == CommandSpec => RetriesBounded
  <1> DEFINE Inv == CommandInv /\ RetryInv
             Bounded == replayed'.lineage # None /\ replayed'.lineage # replayed.lineage =>
                          \A p \in Pairs : replayed'.lineage.counts[p] <= workflow.retries[p]
  <1>1. CommandInit => RetryInv
    <2> SUFFICES ASSUME CommandInit PROVE RetryInv
      OBVIOUS
    <2>1. replayed.lineage = None
      BY DEF CommandInit, InitialStatus
    <2>2. \A c \in Commands : pc[c] # "start"
      BY DEF CommandInit
    <2> QED
      BY <2>1, <2>2 DEF RetryInv, Within
  <1>2. CommandInv /\ RetryInv /\ [CommandNext]_vars => RetryInv'
    <2>1. ASSUME RetryInv, UNCHANGED vars
          PROVE  RetryInv'
      BY <2>1 DEF RetryInv, Within, vars, storeVars, commandVars
    <2> QED
      BY <2>1, RetryStep
  <1>3. RetryInv' /\ [CommandNext]_vars => [Bounded]_vars
    <2>1. ASSUME CommandNext
          PROVE  UNCHANGED workflow
      BY <2>1 DEF CommandNext, CommandStep, Environment
    <2> QED
      BY <2>1 DEF RetryInv, Within
  <1> QED
    BY <1>1, <1>2, <1>3, CommandInvariant, PTL DEF CommandSpec, RetriesBounded
=============================================================================
