------------------------- MODULE ConfigRefresh_proofs -------------------------
(***************************************************************************)
(* Proofs about the status of a run that one command at a time moves, with *)
(* workers, humans and refreshes of its configuration beside it: what the  *)
(* command has decided is still what it would decide when it acts, and the *)
(* status stays one that replay accepts and routing understands.           *)
(***************************************************************************)
EXTENDS ConfigRefresh, Launcher_proofs

\* An operator runs one command at a time.
Alone == \A c, d \in Commands : c = d

-----------------------------------------------------------------------------
(* What routing reads of a status.                                         *)

Alike(s, t) ==
    /\ t.state = s.state /\ t.active = s.active /\ t.attempts = s.attempts
    /\ t.lineage = s.lineage /\ t.continued = s.continued /\ t.entries = s.entries

LEMMA AlikeDecides ==
    ASSUME NEW wf, NEW s, NEW t, Alike(s, t)
    PROVE  /\ LatestConsumable(t) = LatestConsumable(s)
           /\ DecisionBy(wf, t) = DecisionBy(wf, s)
  <1>1. LatestConsumable(t) = LatestConsumable(s)
    BY DEF Alike, LatestConsumable, LastAttempt
  <1>2. WorkflowState(t) = WorkflowState(s)
    BY <1>1 DEF Alike, WorkflowState, Resolved
  <1> QED
    BY <1>1, <1>2 DEF DecisionBy

LEMMA LatestIdle ==
    ASSUME NEW s, LatestConsumable(s) # 0
    PROVE  s.state = Running /\ s.active = None /\ s.attempts # <<>>
  BY DEF LatestConsumable

\* What each kind of decision says of the status.
LEMMA DecisionCases ==
    ASSUME NEW wf, NEW s, s.state \in RunStates
    PROVE  LET d == DecisionBy(wf, s)
               latest == LatestConsumable(s)
               a == s.attempts[latest]
           IN  /\ d.kind \in {"select", "retry"} => s.state = Running /\ s.active = None
               /\ d.kind = "retry" => latest # 0
               /\ d.kind = "wait" => s.state = Running /\ s.active # None
               /\ d.kind = "terminal" =>
                     \/ s.state \in TerminalStates /\ d.target = s.state /\ latest = 0
                     \/ latest # 0 /\ d.target = wf.on[a.step][a.pair]
  <1> DEFINE st == WorkflowState(s)
             latest == LatestConsumable(s)
             a == s.attempts[latest]
             d == Evaluate(wf, st)
  <1>1. /\ st.status = s.state /\ st.active = (s.active # None)
        /\ st.outcome # None => latest # 0 /\ st.outcome.step = a.step /\ st.outcome.pair = a.pair
    BY DEF WorkflowState
  <1>2. Running \notin TerminalStates /\ RunStates = {Running} \union TerminalStates
    BY DEF Running, TerminalStates, Blocked, RunStates
  <1>3. latest # 0 => s.state = Running /\ s.active = None
    BY LatestIdle
  <1>4. EvalError.kind = "error"
    BY DEF EvalError, Decide
  <1>5. EvaluateSelected(wf, st).kind \in {"select", "error"}
    BY <1>4 DEF EvaluateSelected, Decide
  <1>6. /\ EvaluateOutcome(wf, st).kind \in {"select", "retry", "terminal", "error"}
        /\ EvaluateOutcome(wf, st).kind = "terminal" =>
              EvaluateOutcome(wf, st).target = wf.on[st.outcome.step][st.outcome.pair]
    BY <1>4 DEF EvaluateOutcome, Decide
  <1> HIDE DEF st, latest, a
  <1>7. CASE st.status \in TerminalStates
    <2>1. d.kind = "terminal" /\ d.target = st.status
      BY <1>2, <1>7 DEF Evaluate, Decide
    <2> QED
      BY <1>1, <1>2, <1>3, <1>7, <2>1 DEF DecisionBy, st, latest, a
  <1>8. CASE st.status = Running /\ st.active
    <2>1. d.kind \in {"error", "wait"}
      BY <1>2, <1>4, <1>8 DEF Evaluate, Decide
    <2> QED
      BY <1>1, <1>8, <2>1 DEF DecisionBy, st, latest, a
  <1>9. CASE st.status = Running /\ ~st.active /\ st.outcome = None
    <2>1. d = EvaluateSelected(wf, st)
      BY <1>2, <1>9 DEF Evaluate
    <2> QED
      BY <1>1, <1>5, <1>9, <2>1 DEF DecisionBy, st, latest, a
  <1>10. CASE st.status = Running /\ ~st.active /\ st.outcome # None
    <2>1. d = EvaluateOutcome(wf, st)
      BY <1>2, <1>10 DEF Evaluate
    <2> QED
      BY <1>1, <1>6, <1>10, <2>1 DEF DecisionBy, st, latest, a
  <1> QED
    BY <1>1, <1>2, <1>7, <1>8, <1>9, <1>10

-----------------------------------------------------------------------------
(* A status that replay accepts and routing understands.                   *)

Entered(s) == s.entries[Len(s.entries)]

\* The run goes on, or will once a human has answered the block.
Going(s) == s.state = Running \/ s.hardBlock # None \/ s.findBlock # None

Unblocked(s) == [s EXCEPT !.state = Running]

\* An ended attempt carries the pair of its end.
EndedPairs(s) ==
    \A i \in 1..Len(s.attempts) :
       LET a == s.attempts[i]
       IN  /\ a.state = "reported" => a.pair # None
           /\ a.state \in DOMAIN SystemPair => a.pair = SystemPair[a.state]

OneBlock(s) ==
    /\ s.hardBlock = None \/ s.findBlock = None
    /\ s.hardBlock # None \/ s.findBlock # None => s.state = Blocked

\* A run that goes on has entered a step last, unless a human has just resolved
\* the block its last attempt led to.
LastEntered(s) ==
    /\ s.entries # <<>>
    /\ Going(s) /\ Entered(s).state \notin Steps =>
          /\ s.active = None
          /\ s.continued # None
          /\ s.continued.attempt = Len(s.attempts)

\* The finding p concerns what routing does next, once the run is unblocked.
Waits(wf, s, p) ==
    LET u == Unblocked(s)
        d == DecisionBy(wf, u)
        latest == LatestConsumable(u)
    IN  /\ Going(s) /\ s.active = None
        /\ d.kind = "select" /\ d.target = p.target /\ d.target \in wf.agents
        /\ latest # 0 /\ latest = p.repeated
        /\ AcceptedFinding(s.attempts[latest])

Answers(wf, s) ==
    /\ s.findBlock = None \/ s.findOverride = None
    /\ s.findBlock # None => Waits(wf, s, s.findBlock)
    /\ s.findOverride # None => Waits(wf, s, s.findOverride)

\* sure: whether the log names the configuration in force, whose keys the
\* counters have then.
StatusInv(wf, s, sure) ==
    /\ EndedPairs(s)
    /\ OneBlock(s)
    /\ LastEntered(s)
    /\ Answers(wf, s)
    /\ sure => CountsFollow(wf, s)

NoFinding(s) == s.findBlock = None /\ s.findOverride = None

LEMMA NoFindingAnswers ==
    ASSUME NEW wf, NEW s, NoFinding(s)
    PROVE  Answers(wf, s)
  BY DEF NoFinding, Answers

LEMMA UnblockedAlike ==
    ASSUME NEW s \in Status, NEW t \in Status,
           t.active = s.active, t.attempts = s.attempts, t.lineage = s.lineage,
           t.continued = s.continued, t.entries = s.entries
    PROVE  Alike(Unblocked(s), Unblocked(t))
  BY DEF Alike, Unblocked, Status

LEMMA UnblockedRunning ==
    ASSUME NEW s \in Status, s.state = Running
    PROVE  Unblocked(s) = s
  BY DEF Unblocked, Status

\* A pending finding still waits when neither history nor entries change.
LEMMA WaitsOn ==
    ASSUME NEW wf, NEW s \in Status, NEW t \in Status, NEW p, Waits(wf, s, p), Going(t),
           t.active = s.active, t.attempts = s.attempts, t.lineage = s.lineage,
           t.continued = s.continued, t.entries = s.entries
    PROVE  Waits(wf, t, p)
  <1>1. Alike(Unblocked(s), Unblocked(t))
    BY UnblockedAlike
  <1>2. /\ LatestConsumable(Unblocked(t)) = LatestConsumable(Unblocked(s))
        /\ DecisionBy(wf, Unblocked(t)) = DecisionBy(wf, Unblocked(s))
    BY <1>1, AlikeDecides
  <1> QED
    BY <1>2 DEF Waits

LEMMA SameEntriesFollow ==
    ASSUME NEW wf, NEW s, NEW t, CountsFollow(wf, s), t.entries = s.entries, t.counts = s.counts
    PROVE  CountsFollow(wf, t)
  BY DEF CountsFollow, CountedOn

\* What no part of the invariant looks at.
LEMMA NotedKeeps ==
    ASSUME NEW sure, NEW wf, NEW s \in Status, NEW t \in Status,
           StatusInv(wf, s, sure), Alike(s, t),
           t.counts = s.counts, t.hardBlock = s.hardBlock,
           t.findBlock = s.findBlock, t.findOverride = s.findOverride
    PROVE  StatusInv(wf, t, sure)
  <1>1. EndedPairs(t) /\ OneBlock(t)
    BY DEF StatusInv, EndedPairs, OneBlock, Alike
  <1>2. Going(t) <=> Going(s)
    BY DEF Going, Alike
  <1>3. LastEntered(t)
    BY <1>2 DEF StatusInv, LastEntered, Entered, Alike
  <1>4. \A p : Waits(wf, s, p) => Waits(wf, t, p)
    BY <1>2, WaitsOn DEF Waits, Alike
  <1>5. Answers(wf, t)
    BY <1>4 DEF StatusInv, Answers
  <1> QED
    BY <1>1, <1>3, <1>5, SameEntriesFollow DEF StatusInv, Alike

\* The active attempt is edited or ends.
LEMMA EditKeeps ==
    ASSUME NEW sure, NEW wf, NEW s \in Status, NEW t \in Status, GoodHistory(s),
           StatusInv(wf, s, sure),
           s.active # None, NEW a \in Attempt, a.id = s.active.id,
           a.state = "reported" => a.pair # None,
           a.state \in DOMAIN SystemPair => a.pair = SystemPair[a.state],
           t.attempts = [s.attempts EXCEPT ![a.id] = a],
           t.state = s.state, t.continued = s.continued, t.entries = s.entries,
           t.counts = s.counts, t.hardBlock = s.hardBlock,
           t.findBlock = s.findBlock, t.findOverride = s.findOverride
    PROVE  StatusInv(wf, t, sure)
  <1> DEFINE f == [s.attempts EXCEPT ![a.id] = a]
  <1>0. /\ Len(f) = Len(s.attempts) /\ f[a.id] = a
        /\ \A i \in 1..Len(s.attempts) : i # a.id => f[i] = s.attempts[i]
    BY ReplaceLast
  <1> HIDE DEF f
  <1>1. /\ Len(t.attempts) = Len(s.attempts) /\ t.attempts[a.id] = a
        /\ \A i \in 1..Len(s.attempts) : i # a.id => t.attempts[i] = s.attempts[i]
    BY <1>0 DEF f
  <1>2. EndedPairs(t)
    BY <1>1 DEF StatusInv, EndedPairs
  <1>3. OneBlock(t)
    BY DEF StatusInv, OneBlock
  <1>4. LastEntered(t)
    BY DEF StatusInv, LastEntered, Entered, Going
  <1>5. NoFinding(t)
    BY DEF StatusInv, Answers, Waits, NoFinding
  <1> QED
    BY <1>2, <1>3, <1>4, <1>5, NoFindingAnswers, SameEntriesFollow DEF StatusInv

\* One more entry is counted on the key its state has.
LEMMA EntersFollows ==
    ASSUME NEW wf, NEW s \in Status, NEW t, CountsFollow(wf, s), NEW e \in Entry,
           Enters(s, t, e), e.key = KeyIn(wf, e.state)
    PROVE  CountsFollow(wf, t)
  <1> DEFINE n == Len(s.entries)
  <1>1. s.entries \in Seq(Entry) /\ s.counts \in [Keys -> Nat]
    BY DEF Status
  <1>2. /\ n \in Nat /\ Len(t.entries) = n + 1 /\ t.entries[n + 1] = e
        /\ \A i \in 1..n : t.entries[i] = s.entries[i]
    BY <1>1 DEF Enters
  <1>3. e.count # 0
    BY <1>1 DEF Enters
  <1> HIDE DEF n
  <1>4. ASSUME NEW k \in Keys PROVE t.counts[k] = Cardinality(CountedOn(wf, t, k))
    <2>1. s.counts[k] = Cardinality(CountedOn(wf, s, k))
      BY DEF CountsFollow
    <2> DEFINE P(i) == s.entries[i].count # 0 /\ k = KeyIn(wf, s.entries[i].state)
               Q(i) == t.entries[i].count # 0 /\ k = KeyIn(wf, t.entries[i].state)
    <2>2. CountedOn(wf, s, k) = {i \in 1..n : P(i)}
      BY DEF CountedOn, n
    <2>3. CountedOn(wf, t, k) = {i \in 1..(n + 1) : Q(i)}
      BY <1>2 DEF CountedOn
    <2>6. (\A i \in 1..n : Q(i) <=> P(i)) /\ (Q(n + 1) <=> e.key = k)
      BY <1>2, <1>3
    <2> HIDE DEF P, Q
    <2>4. CASE e.key = k
      <3>1. CountedOn(wf, t, k) = CountedOn(wf, s, k) \union {n + 1}
        BY <1>2, <2>2, <2>3, <2>4, <2>6
      <3>2. n + 1 \notin CountedOn(wf, s, k) /\ CountedOn(wf, s, k) \subseteq 1..n
        BY <1>2, <2>2
      <3>6. IsFiniteSet(1..n)
        BY <1>2, FS_Interval
      <3>3. IsFiniteSet(CountedOn(wf, s, k)) /\ Cardinality(CountedOn(wf, s, k)) \in Nat
        BY <3>2, <3>6, FS_Subset, FS_CardinalityType
      <3>4. Cardinality(CountedOn(wf, t, k)) = Cardinality(CountedOn(wf, s, k)) + 1
        BY <3>1, <3>2, <3>3, FS_AddElement
      <3>5. t.counts[k] = s.counts[k] + 1
        BY <1>1, <2>4 DEF Enters
      <3> QED
        BY <2>1, <3>4, <3>5
    <2>5. CASE e.key # k
      <3>1. CountedOn(wf, t, k) = CountedOn(wf, s, k)
        BY <1>2, <2>2, <2>3, <2>5, <2>6
      <3>2. t.counts[k] = s.counts[k]
        BY <1>1, <2>5 DEF Enters
      <3> QED
        BY <2>1, <3>1, <3>2
    <2> QED
      BY <2>4, <2>5
  <1> QED
    BY <1>4 DEF CountsFollow

-----------------------------------------------------------------------------
(* Blocks, the humans who answer them, and refreshes.                      *)

LEMMA BlockedState == Running # Blocked /\ Blocked \notin Steps /\ Running \notin Steps
  BY WorkflowAssumption DEF Running, Blocked, RunStates, TerminalStates

LEMMA RunningUnblocked ==
    ASSUME NEW s, OneBlock(s), s.state = Running
    PROVE  s.hardBlock = None /\ s.findBlock = None
  BY BlockedState DEF OneBlock

LEMMA CapBlockKeeps ==
    ASSUME NEW sure, NEW wf, NEW s \in Status, GoodHistory(s), StatusInv(wf, s, sure),
           s.state = Running, s.active = None, NEW cap \in Cap
    PROVE  StatusInv(wf, HardCapped(s, cap), sure)
  <1> DEFINE t == HardCapped(s, cap)
  <1>1. t \in Status
    BY BlockSound DEF Sound
  <1>2. /\ t.state = Blocked /\ t.hardBlock = cap
        /\ t.active = s.active /\ t.attempts = s.attempts /\ t.lineage = s.lineage
        /\ t.continued = s.continued /\ t.entries = s.entries /\ t.counts = s.counts
        /\ t.findBlock = s.findBlock /\ t.findOverride = s.findOverride
    BY DEF HardCapped, Status
  <1> HIDE DEF t
  <1>3. s.hardBlock = None /\ s.findBlock = None /\ cap # None
    BY RunningUnblocked, NoneAssumption DEF StatusInv
  <1>4. Going(s) /\ Going(t)
    BY <1>2, <1>3 DEF Going
  <1>5. EndedPairs(t) /\ OneBlock(t) /\ LastEntered(t)
    BY <1>2, <1>3, <1>4 DEF StatusInv, EndedPairs, OneBlock, LastEntered, Entered
  <1>6. Answers(wf, t)
    BY <1>1, <1>2, <1>3, <1>4, WaitsOn DEF StatusInv, Answers
  <1>7. StatusInv(wf, t, sure)
    BY <1>2, <1>5, <1>6, SameEntriesFollow DEF StatusInv
  <1> QED
    BY <1>7 DEF t

LEMMA FindingBlockKeeps ==
    ASSUME NEW sure, NEW wf, NEW s \in Status, GoodHistory(s), StatusInv(wf, s, sure),
           s.state = Running, s.active = None, s.findOverride = None,
           NEW block \in FindingBlock, Waits(wf, s, block)
    PROVE  StatusInv(wf, FindingBlocked(s, block), sure)
  <1> DEFINE t == FindingBlocked(s, block)
  <1>1. t \in Status
    BY BlockSound DEF Sound
  <1>2. /\ t.state = Blocked /\ t.findBlock = block /\ t.hardBlock = s.hardBlock
        /\ t.active = s.active /\ t.attempts = s.attempts /\ t.lineage = s.lineage
        /\ t.continued = s.continued /\ t.entries = s.entries /\ t.counts = s.counts
        /\ t.findOverride = None
    BY DEF FindingBlocked, Status
  <1> HIDE DEF t
  <1>3. s.hardBlock = None /\ block # None
    BY RunningUnblocked, NoneAssumption DEF StatusInv
  <1>4. Going(s) /\ Going(t)
    BY <1>2, <1>3 DEF Going
  <1>5. EndedPairs(t) /\ OneBlock(t) /\ LastEntered(t)
    BY <1>2, <1>3, <1>4 DEF StatusInv, EndedPairs, OneBlock, LastEntered, Entered
  <1>6. Answers(wf, t)
    BY <1>1, <1>2, <1>4, WaitsOn DEF Answers
  <1>7. StatusInv(wf, t, sure)
    BY <1>2, <1>5, <1>6, SameEntriesFollow DEF StatusInv
  <1> QED
    BY <1>7 DEF t

LEMMA CapAllowedKeeps ==
    ASSUME NEW sure, NEW wf, NEW s \in Status, GoodHistory(s), StatusInv(wf, s, sure),
           s.hardBlock # None, s.state = Blocked
    PROVE  StatusInv(wf, HardCapOverridden(s, s.hardBlock), sure)
  <1> DEFINE t == HardCapOverridden(s, s.hardBlock)
  <1>1. t \in Status
    BY DEF HardCapOverridden, Status, RunStates
  <1>2. /\ t.state = Running /\ t.hardBlock = None
        /\ t.active = s.active /\ t.attempts = s.attempts /\ t.lineage = s.lineage
        /\ t.continued = s.continued /\ t.entries = s.entries /\ t.counts = s.counts
        /\ t.findBlock = s.findBlock /\ t.findOverride = s.findOverride
    BY DEF HardCapOverridden, Status
  <1> HIDE DEF t
  <1>3. t.findBlock = None
    BY <1>2 DEF StatusInv, OneBlock
  <1>4. Going(s) /\ Going(t)
    BY <1>2 DEF Going
  <1>5. EndedPairs(t) /\ OneBlock(t) /\ LastEntered(t)
    BY <1>2, <1>3, <1>4 DEF StatusInv, EndedPairs, OneBlock, LastEntered, Entered
  <1>6. Answers(wf, t)
    BY <1>1, <1>2, <1>3, <1>4, WaitsOn DEF StatusInv, Answers
  <1>7. StatusInv(wf, t, sure)
    BY <1>2, <1>5, <1>6, SameEntriesFollow DEF StatusInv
  <1> QED
    BY <1>7 DEF t

LEMMA FindingAllowedKeeps ==
    ASSUME NEW sure, NEW wf, NEW s \in Status, GoodHistory(s), StatusInv(wf, s, sure),
           s.findBlock # None, s.state = Blocked
    PROVE  StatusInv(wf, FindingOverridden(s), sure)
  <1> DEFINE t == FindingOverridden(s)
  <1>1. t \in Status
    BY DEF FindingOverridden, Status, RunStates
  <1>2. /\ t.state = Running /\ t.hardBlock = s.hardBlock
        /\ t.active = s.active /\ t.attempts = s.attempts /\ t.lineage = s.lineage
        /\ t.continued = s.continued /\ t.entries = s.entries /\ t.counts = s.counts
        /\ t.findBlock = None /\ t.findOverride = s.findBlock
    BY DEF FindingOverridden, Status
  <1> HIDE DEF t
  <1>3. t.hardBlock = None
    BY <1>2 DEF StatusInv, OneBlock
  <1>4. Going(s) /\ Going(t)
    BY <1>2 DEF Going
  <1>5. EndedPairs(t) /\ OneBlock(t) /\ LastEntered(t)
    BY <1>2, <1>3, <1>4 DEF StatusInv, EndedPairs, OneBlock, LastEntered, Entered
  <1>6. Answers(wf, t)
    BY <1>1, <1>2, <1>4, WaitsOn DEF StatusInv, Answers
  <1>7. StatusInv(wf, t, sure)
    BY <1>2, <1>5, <1>6, SameEntriesFollow DEF StatusInv
  <1> QED
    BY <1>7 DEF t

\* A block that was resolved by saying that its cause is gone is no block of a
\* cap or a finding, and no answer to one is pending.
LEMMA ResolvableNoFinding ==
    ASSUME NEW sure, NEW wf, NEW s \in Status, StatusInv(wf, s, sure), ContinuedOK(s)
    PROVE  s.hardBlock = None /\ NoFinding(s)
  <1>1. /\ s.hardBlock = None /\ s.state = Blocked
        /\ Entered(s).state = Blocked
    BY DEF ContinuedOK, ResolvableBlock, Entered
  <1>2. Going(s) => s.continued # None /\ s.continued.attempt = Len(s.attempts)
    <2>1. Entered(s).state \notin Steps
      BY <1>1, BlockedState
    <2> QED
      BY <2>1 DEF StatusInv, LastEntered
  <1>3. s.continued # None /\ s.continued.attempt = Len(s.attempts) =>
          LatestConsumable(Unblocked(s)) = 0
    <2>1. Unblocked(s).continued = s.continued /\ Unblocked(s).attempts = s.attempts
      BY DEF Unblocked, Status
    <2> QED
      BY <2>1 DEF LatestConsumable
  <1>4. \A p : ~Waits(wf, s, p)
    BY <1>2, <1>3 DEF Waits
  <1> QED
    BY <1>1, <1>4 DEF StatusInv, Answers, NoFinding

LEMMA ContinuedKeeps ==
    ASSUME NEW sure, NEW wf, NEW s \in Status, GoodHistory(s),
           StatusInv(wf, s, sure), ContinuedOK(s)
    PROVE  StatusInv(wf, Continued(s), sure)
  <1> DEFINE t == Continued(s)
             r == [attempt |-> Len(s.attempts), step |-> LastAttempt(s).step,
                   pair |-> LastAttempt(s).pair]
  <1>1. s.hardBlock = None /\ NoFinding(s)
    BY ResolvableNoFinding
  <1>2. /\ t.state = Running /\ t.hardBlock = s.hardBlock /\ t.continued = r
        /\ t.active = s.active /\ t.attempts = s.attempts
        /\ t.entries = s.entries /\ t.counts = s.counts
        /\ t.findBlock = s.findBlock /\ t.findOverride = s.findOverride
    BY DEF Continued, Status
  <1>3. r # None /\ r.attempt = Len(s.attempts)
    <2>1. s.attempts # <<>> /\ RoutingOutcome(LastAttempt(s))
      BY DEF ContinuedOK, ResolvableBlock
    <2>2. LastAttempt(s) \in Attempt /\ Len(s.attempts) \in Nat
      BY <2>1, LastAttemptType
    <2>3. LastAttempt(s).pair \in Pairs
      BY <2>1, <2>2, WorkflowAssumption DEF RoutingOutcome, Attempt
    <2>4. r \in Continuation
      BY <2>2, <2>3 DEF Continuation, Attempt
    <2> QED
      BY <2>4, NoneAssumption
  <1> HIDE DEF t, r
  <1>4. EndedPairs(t) /\ OneBlock(t)
    BY <1>1, <1>2 DEF StatusInv, EndedPairs, OneBlock, NoFinding
  <1>5. LastEntered(t)
    BY <1>2, <1>3 DEF StatusInv, LastEntered, ContinuedOK
  <1>6. Answers(wf, t)
    BY <1>1, <1>2, NoFindingAnswers DEF NoFinding
  <1>7. StatusInv(wf, t, sure)
    BY <1>2, <1>4, <1>5, <1>6, SameEntriesFollow DEF StatusInv
  <1> QED
    BY <1>7 DEF t

\* A refresh counts the entries again.
LEMMA RekeyedType ==
    ASSUME NEW s \in Status, NEW wf
    PROVE  Rekeyed(s, wf) \in [Keys -> Nat]
  <1>1. Len(s.entries) \in Nat
    BY DEF Status
  <1>2. IsFiniteSet(1..Len(s.entries))
    BY <1>1, FS_Interval
  <1>3. ASSUME NEW k \in Keys
        PROVE  Cardinality({i \in 1..Len(s.entries) :
                              Counted(s, i) /\ KeyIn(wf, s.entries[i].state) = k}) \in Nat
    BY <1>2, FS_Subset, FS_CardinalityType
  <1> QED
    BY <1>3 DEF Rekeyed

\* The pointer moves while no finding is pending.
LEMMA RepointKeeps ==
    ASSUME NEW sure, NEW wf, NEW to, NEW s, StatusInv(wf, s, sure), NoFinding(s)
    PROVE  StatusInv(to, s, FALSE)
  BY NoFindingAnswers DEF StatusInv

LEMMA RecountKeeps ==
    ASSUME NEW sure, NEW wf, NEW s \in Status, GoodHistory(s), StatusInv(wf, s, sure)
    PROVE  LET t == [s EXCEPT !.counts = Rekeyed(s, wf)]
           IN  t \in Status /\ GoodHistory(t) /\ StatusInv(wf, t, TRUE)
  <1> DEFINE n == Rekeyed(s, wf)
             t == [s EXCEPT !.counts = n]
  <1>1. n \in [Keys -> Nat]
    BY RekeyedType
  <1>2. \A k \in Keys : n[k] = Cardinality(CountedOn(wf, s, k))
    <2> SUFFICES ASSUME NEW k \in Keys PROVE n[k] = Cardinality(CountedOn(wf, s, k))
      OBVIOUS
    <2>1. {i \in 1..Len(s.entries) : Counted(s, i) /\ KeyIn(wf, s.entries[i].state) = k}
            = CountedOn(wf, s, k)
      BY DEF CountedOn, Counted
    <2> QED
      BY <2>1 DEF Rekeyed
  <1> HIDE DEF n
  <1>3. t \in Status
    BY <1>1 DEF Status
  <1>4. /\ Alike(s, t) /\ t.counts = n /\ t.hardBlock = s.hardBlock
        /\ t.findBlock = s.findBlock /\ t.findOverride = s.findOverride
    BY DEF Alike, Status
  <1> HIDE DEF t
  <1>5. GoodHistory(t)
    BY <1>4 DEF GoodHistory, Alike, LastAttempt
  <1>6. EndedPairs(t) /\ OneBlock(t) /\ LastEntered(t)
    BY <1>4 DEF StatusInv, EndedPairs, OneBlock, LastEntered, Entered, Going, Alike
  <1>7. \A q : Waits(wf, s, q) => Waits(wf, t, q)
    BY <1>3, <1>4, WaitsOn DEF Waits, Alike, Going
  <1>8. Answers(wf, t)
    BY <1>4, <1>7 DEF StatusInv, Answers
  <1>9. CountsFollow(wf, t)
    BY <1>2, <1>4 DEF CountsFollow, CountedOn, Alike
  <1> QED
    BY <1>3, <1>5, <1>6, <1>8, <1>9 DEF StatusInv, t, n

-----------------------------------------------------------------------------
(* Operations that make entries.                                           *)

LEMMA EntryAdded ==
    ASSUME NEW s \in Status, NEW t, NEW r \in EntryRequest,
           t.counts = CountsAfter(s, EntryFor(s, r)),
           t.entries = EntriesAfter(s, EntryFor(s, r))
    PROVE  /\ t.entries # <<>>
           /\ Len(t.entries) = Len(s.entries) + 1
           /\ Entered(t).state = r.state
           /\ \E e \in Entry : e.state = r.state /\ e.key = r.key /\ Enters(s, t, e)
  <1> DEFINE e == NextEntry(s, r)
  <1>1. s.counts \in [Keys -> Nat] /\ s.entries \in Seq(Entry)
    BY DEF Status
  <1>2. /\ e \in Entry /\ e.key \in Keys /\ e.count = s.counts[e.key] + 1
        /\ e.state = r.state /\ e.key = r.key
    BY <1>1 DEF NextEntry, EntryRequest, Entry
  <1>3. EntryFor(s, r) = e /\ e # None
    BY <1>2, NoneAssumption DEF EntryFor
  <1> HIDE DEF e
  <1>4. e.count # 0
    BY <1>1, <1>2
  <1>5. Enters(s, t, e)
    BY <1>2, <1>3, <1>4 DEF Enters, CountsAfter, EntriesAfter
  <1>6. Len(t.entries) = Len(s.entries) + 1 /\ Entered(t) = e
    BY <1>1, <1>2, <1>5 DEF Enters, Entered
  <1>7. Len(s.entries) \in Nat
    BY <1>1
  <1> QED
    BY <1>2, <1>5, <1>6, <1>7

LEMMA EntryFollows ==
    ASSUME NEW wf, NEW s \in Status, NEW t, CountsFollow(wf, s), NEW r \in EntryRequest,
           r.key = KeyIn(wf, r.state),
           t.counts = CountsAfter(s, EntryFor(s, r)),
           t.entries = EntriesAfter(s, EntryFor(s, r))
    PROVE  CountsFollow(wf, t)
  <1>1. PICK e \in Entry : e.state = r.state /\ e.key = r.key /\ Enters(s, t, e)
    BY EntryAdded
  <1> QED
    BY <1>1, EntersFollows

\* What a start and a skip leave of the history: outcomes are marked.
Marked(h, g, consume, retried) ==
    \A i \in 1..Len(h) :
       /\ g[i].step = h[i].step /\ g[i].state = h[i].state /\ g[i].pair = h[i].pair
       /\ (g[i].consumed <=> h[i].consumed \/ i = consume)
       /\ (g[i].superseded <=> h[i].superseded \/ (i = consume /\ retried))

LEMMA StartMarks ==
    ASSUME NEW s \in Status, NEW consume \in Nat, consume # 0 => consume \in 1..Len(s.attempts),
           NEW retry, NEW a \in Attempt
    PROVE  LET g == HistoryAfterStart(s, consume, retry, a)
           IN  /\ Len(g) = Len(s.attempts) + 1 /\ g[Len(g)] = a
               /\ Marked(s.attempts, g, consume, retry # None)
  <1> DEFINE h == s.attempts
             g == HistoryAfterStart(s, consume, retry, a)
  <1>1. h \in Seq(Attempt) /\ Len(h) \in Nat
    BY DEF Status
  <1>2. \A i \in 1..Len(h) : h[i] \in Attempt
    BY <1>1
  <1>3. CASE consume = 0
    <2>1. Len(g) = Len(h) + 1 /\ g[Len(h) + 1] = a /\ \A i \in 1..Len(h) : g[i] = h[i]
      BY <1>1, <1>3 DEF HistoryAfterStart
    <2> HIDE DEF g
    <2>2. Marked(h, g, consume, retry # None)
      BY <1>3, <2>1 DEF Marked
    <2> QED
      BY <2>1, <2>2 DEF g
  <1>4. CASE consume # 0
    <2> DEFINE x == [h[consume] EXCEPT !.consumed = TRUE, !.superseded = @ \/ retry # None]
               u == [h EXCEPT ![consume] = x]
    <2>1. h[consume] \in Attempt /\ consume \in 1..Len(h)
      BY <1>2, <1>4
    <2>2. /\ x \in Attempt /\ x.step = h[consume].step /\ x.state = h[consume].state
          /\ x.pair = h[consume].pair /\ x.consumed = TRUE
          /\ (x.superseded <=> h[consume].superseded \/ retry # None)
      BY <2>1 DEF Attempt
    <2>3. g = Append(u, a)
      BY <1>1, <1>4, <2>1 DEF HistoryAfterStart, Attempt
    <2> HIDE DEF x, g
    <2>4. /\ u \in Seq(Attempt) /\ Len(u) = Len(h) /\ u[consume] = x
          /\ \A i \in 1..Len(h) : i # consume => u[i] = h[i]
      BY <1>1, <2>1, <2>2
    <2> HIDE DEF u
    <2>5. Len(g) = Len(h) + 1 /\ g[Len(h) + 1] = a /\ \A i \in 1..Len(h) : g[i] = u[i]
      BY <1>1, <2>3, <2>4
    <2>6. ASSUME NEW i \in 1..Len(h)
          PROVE  /\ g[i].step = h[i].step /\ g[i].state = h[i].state /\ g[i].pair = h[i].pair
                 /\ (g[i].consumed <=> h[i].consumed \/ i = consume)
                 /\ (g[i].superseded <=> h[i].superseded \/ (i = consume /\ retry # None))
      <3>1. CASE i = consume
        BY <2>2, <2>4, <2>5, <3>1
      <3>2. CASE i # consume
        <4>1. g[i] = h[i]
          BY <1>2, <2>4, <2>5, <3>2
        <4> QED
          BY <3>2, <4>1
      <3> QED
        BY <3>1, <3>2
    <2>7. Marked(h, g, consume, retry # None)
      BY <2>6 DEF Marked
    <2> QED
      BY <2>5, <2>7 DEF g
  <1> QED
    BY <1>3, <1>4

LEMMA SkipMarks ==
    ASSUME NEW s \in Status, NEW consume \in Nat, consume # 0 => consume \in 1..Len(s.attempts)
    PROVE  LET g == SkippedHistory(s, consume)
           IN  Len(g) = Len(s.attempts) /\ Marked(s.attempts, g, consume, FALSE)
  <1> DEFINE h == s.attempts
             g == SkippedHistory(s, consume)
  <1>1. h \in Seq(Attempt) /\ Len(h) \in Nat
    BY DEF Status
  <1>2. \A i \in 1..Len(h) : h[i] \in Attempt
    BY <1>1
  <1>3. CASE consume = 0
    BY <1>3 DEF SkippedHistory, Marked
  <1>4. CASE consume # 0
    <2> DEFINE x == [h[consume] EXCEPT !.consumed = TRUE]
    <2>1. h[consume] \in Attempt /\ consume \in 1..Len(h)
      BY <1>2, <1>4
    <2>2. /\ x \in Attempt /\ x.step = h[consume].step /\ x.state = h[consume].state
          /\ x.pair = h[consume].pair /\ x.consumed = TRUE
          /\ x.superseded = h[consume].superseded
      BY <2>1 DEF Attempt
    <2>3. g = [h EXCEPT ![consume] = x]
      BY <1>4 DEF SkippedHistory
    <2> HIDE DEF x, g
    <2>4. /\ Len(g) = Len(h) /\ g[consume] = x
          /\ \A i \in 1..Len(h) : i # consume => g[i] = h[i]
      BY <1>1, <2>1, <2>2, <2>3
    <2>5. Marked(h, g, consume, FALSE)
      BY <2>1, <2>2, <2>4 DEF Marked
    <2> QED
      BY <2>4, <2>5 DEF g
  <1> QED
    BY <1>3, <1>4

LEMMA MarkedPairs ==
    ASSUME NEW s, NEW t, NEW consume, NEW retried, EndedPairs(s),
           Marked(s.attempts, t.attempts, consume, retried),
           Len(t.attempts) = Len(s.attempts)
    PROVE  EndedPairs(t)
  BY DEF EndedPairs, Marked

-----------------------------------------------------------------------------
(* Starts, skips and ends that were decided on this very status.           *)

\* What launch-next asks for when it has decided d.
RequestOf(s, d) ==
    LET latest == LatestConsumable(s)
    IN  [step |-> d.target,
         fix |-> workflow.on[d.target][ChangesPair],
         consume |-> latest,
         retry |-> IF d.kind = "retry" THEN d.retry ELSE None,
         entry |-> EntryOf(s, d),
         hardOverride |-> CapOverride(s, d),
         findOverride |-> FindingOverride(s, d, latest)]

\* A finding that waits is the one a start goes past.
LEMMA AnsweredByStart ==
    ASSUME NEW s \in Status, s.state = Running, Answers(workflow, s), s.findOverride # None
    PROVE  LET d == DecisionBy(workflow, s)
               latest == LatestConsumable(s)
           IN  /\ FindingGuarded(s, d, latest)
               /\ FindingOverride(s, d, latest) = s.findOverride
  <1>1. Unblocked(s) = s
    BY UnblockedRunning
  <1>2. Waits(workflow, s, s.findOverride)
    BY DEF Answers
  <1> QED
    BY <1>1, <1>2 DEF Waits, FindingGuarded, FindingOverride

LEMMA StartKeeps ==
    ASSUME NEW sure, workflow \in Configuration, NEW s \in Status, GoodHistory(s),
           StatusInv(workflow, s, sure),
           NEW d, d = DecisionBy(workflow, s), d.kind \in {"select", "retry"}
    PROVE  StatusInv(workflow, LiveStart(s, RequestOf(s, d)), sure)
  <1> DEFINE latest == LatestConsumable(s)
             req == RequestOf(s, d)
             a == NewAttempt(Len(s.attempts) + 1, req.step, req.fix)
             g == HistoryAfterStart(s, req.consume, req.retry, a)
             t == LiveStart(s, req)
  <1>1. /\ s.state = Running /\ s.active = None
        /\ d.kind = "retry" => latest # 0
    BY DecisionCases DEF Status
  <1>2. Leads(d) /\ d.target \in Steps
    BY DecisionLeads DEF Leads
  <1>3. /\ req.step = d.target /\ req.consume = latest
        /\ req.entry = EntryOf(s, d)
        /\ req.findOverride = FindingOverride(s, d, latest)
    BY DEF RequestOf
  <1>4. /\ t.state = Running /\ t.active = a /\ t.attempts = g
        /\ t.counts = CountsAfter(s, EntryFor(s, req.entry))
        /\ t.entries = EntriesAfter(s, EntryFor(s, req.entry))
        /\ t.hardBlock = s.hardBlock /\ t.findBlock = s.findBlock
        /\ t.findOverride = IF req.findOverride # None THEN None ELSE s.findOverride
    BY <1>1 DEF LiveStart, Status
  <1>5. a \in Attempt /\ a.state = "starting" /\ a # None
    <2>1. Len(s.attempts) + 1 \in Nat
      BY DEF Status
    <2>2. req.fix \in Targets \union {NoTarget}
      BY <1>2, LauncherAssumption DEF Configuration, RequestOf
    <2>3. a \in Attempt /\ a.state = "starting"
      BY <1>2, <1>3, <2>1, <2>2 DEF NewAttempt, Attempt, AttemptStates, LiveStates
    <2> QED
      BY <2>3, NoneAssumption
  <1>6. latest \in 0..Len(s.attempts) /\ Len(s.attempts) \in Nat
    BY LatestConsumableType, LengthType
  <1>7. /\ Len(g) = Len(s.attempts) + 1 /\ g[Len(g)] = a
        /\ Marked(s.attempts, g, req.consume, req.retry # None)
    BY <1>3, <1>5, <1>6, StartMarks
  <1>8. s.hardBlock = None /\ s.findBlock = None
    BY <1>1, RunningUnblocked DEF StatusInv
  <1> SUFFICES StatusInv(workflow, t, sure)
    OBVIOUS
  <1> HIDE DEF req, a, g, t, latest
  <1>9. EndedPairs(t)
    <2>1. "starting" # "reported" /\ "starting" \notin DOMAIN SystemPair
      BY DEF SystemPair
    <2>2. \A i \in 1..Len(t.attempts) :
             \/ i \in 1..Len(s.attempts) /\ g[i].state = s.attempts[i].state
                /\ g[i].pair = s.attempts[i].pair
             \/ g[i].state = "starting"
      BY <1>4, <1>5, <1>6, <1>7 DEF Marked
    <2> QED
      BY <1>4, <2>1, <2>2 DEF StatusInv, EndedPairs
  <1>10. OneBlock(t)
    BY <1>4, <1>8 DEF OneBlock
  <1>11. NoFinding(t)
    <2>1. s.findOverride # None => req.findOverride # None
      BY <1>1, <1>3, AnsweredByStart DEF StatusInv, latest
    <2> QED
      BY <1>4, <1>8, <2>1 DEF NoFinding
  <1>12. CASE d.kind = "select"
    <2> DEFINE by == EntryTrigger(s)
    <2>0. req.entry = [state |-> d.target, key |-> workflow.key[d.target],
                       prev |-> IF by = None THEN None ELSE by.step,
                       pair |-> IF by = None THEN None ELSE by.pair]
      BY <1>3, <1>12 DEF EntryOf
    <2> HIDE DEF by
    <2>1. req.entry \in EntryRequest
      <3>1. workflow.key[d.target] \in Keys /\ d.target \in Targets
        BY <1>2 DEF Configuration, Targets
      <3>2. by \in Attempt \union {None}
        BY EntryTriggerType DEF by
      <3> QED
        BY <2>0, <3>1, <3>2 DEF EntryRequest, Attempt
    <2>2. req.entry.state = d.target /\ req.entry.key = workflow.key[d.target]
      BY <2>0
    <2>3. req.entry.key = KeyIn(workflow, req.entry.state)
      BY <1>2, <2>2 DEF KeyIn
    <2>4. ASSUME sure PROVE CountsFollow(workflow, t)
      BY <1>4, <2>1, <2>3, <2>4, EntryFollows DEF StatusInv
    <2>5. t.entries # <<>> /\ Entered(t).state = d.target
      BY <1>4, <2>1, <2>2, EntryAdded
    <2>6. LastEntered(t)
      BY <1>2, <2>5 DEF LastEntered
    <2> QED
      BY <1>9, <1>10, <1>11, <2>4, <2>6, NoFindingAnswers DEF StatusInv
  <1>13. CASE d.kind = "retry"
    <2>1. req.entry = None
      BY <1>3, <1>13 DEF EntryOf
    <2>2. t.entries = s.entries /\ t.counts = s.counts
      BY <1>4, <2>1 DEF EntryFor, EntriesAfter, CountsAfter
    <2>3. ~(s.continued # None /\ s.continued.attempt = Len(s.attempts))
      BY <1>1, <1>13 DEF latest, LatestConsumable
    <2>4. LastEntered(s) /\ Going(s)
      BY <1>1 DEF StatusInv, Going
    <2>5. s.entries # <<>> /\ Entered(s).state \in Steps
      BY <2>3, <2>4 DEF LastEntered
    <2>6. LastEntered(t)
      BY <2>2, <2>5 DEF LastEntered, Entered
    <2>7. CountsFollow(workflow, s) => CountsFollow(workflow, t)
      BY <2>2, SameEntriesFollow
    <2> QED
      BY <1>9, <1>10, <1>11, <2>6, <2>7, NoFindingAnswers DEF StatusInv
  <1> QED
    BY <1>12, <1>13

LEMMA SkipKeeps ==
    ASSUME NEW sure, NEW wf \in Valid, NEW s \in Status, GoodHistory(s), StatusInv(wf, s, sure),
           NEW step \in Steps, MaySkip(wf, s, step)
    PROVE  StatusInv(wf, LiveSkip(s, SkipRequestFor(wf, s, step)), sure)
  <1> DEFINE d == SkipDecision(wf, s, step)
             req == SkipRequestFor(wf, s, step)
             latest == LatestConsumable(s)
             g == SkippedHistory(s, latest)
             t == LiveSkip(s, req)
  <1>1. /\ s.state = Running /\ s.active = None /\ s.findOverride = None
        /\ step \in wf.skippable /\ d.kind \in {"select", "terminal"}
    BY DEF MaySkip, SkipValidator
  <1>2. Leads(d)
    BY <1>1, SkipDecisionLeads
  <1>3. req \in SkipRequest
    BY SkipRequestType
  <1>4. /\ req.entry.state = d.target
        /\ req.entry.key = IF d.kind = "select" THEN wf.key[d.target] ELSE d.target
        /\ req.state = IF d.kind = "select" THEN Running ELSE d.target
        /\ req.entry # None
    <2>1. /\ req.entry = [state |-> d.target,
                          key   |-> IF d.kind = "select" THEN wf.key[d.target] ELSE d.target,
                          prev  |-> step, pair |-> SkipPair]
          /\ req.state = IF d.kind = "select" THEN Running ELSE d.target
      BY DEF SkipRequestFor
    <2> HIDE DEF d, req
    <2>2. /\ d.target \in Targets
          /\ (IF d.kind = "select" THEN wf.key[d.target] ELSE d.target) \in Keys
      <3>1. wf.key \in [Steps -> Keys]
        BY Configured DEF Configuration
      <3> QED
        BY <1>1, <1>2, <3>1, WorkflowAssumption DEF Leads, Targets
    <2>3. SkipPair \in Pairs
      BY <1>1, SkipDecisionLeads
    <2>4. req.entry \in EntryRequest
      BY <2>1, <2>2, <2>3 DEF EntryRequest
    <2> QED
      BY <2>1, <2>4, NoneAssumption
  <1>5. /\ t.state = req.state /\ t.attempts = g /\ t.active = None
        /\ t.counts = CountsAfter(s, EntryFor(s, req.entry))
        /\ t.entries = EntriesAfter(s, EntryFor(s, req.entry))
        /\ t.hardBlock = s.hardBlock /\ t.findBlock = s.findBlock
        /\ t.findOverride = s.findOverride
    BY <1>1 DEF LiveSkip, Status
  <1>6. latest \in 0..Len(s.attempts) /\ Len(s.attempts) \in Nat
    BY LatestConsumableType, LengthType
  <1>7. Len(g) = Len(s.attempts) /\ Marked(s.attempts, g, latest, FALSE)
    <2>1. latest \in Nat /\ (latest # 0 => latest \in 1..Len(s.attempts))
      BY <1>6
    <2> HIDE DEF latest
    <2> QED
      BY <2>1, SkipMarks
  <1>8. s.hardBlock = None /\ s.findBlock = None
    BY <1>1, RunningUnblocked DEF StatusInv
  <1> SUFFICES StatusInv(wf, t, sure)
    OBVIOUS
  <1> HIDE DEF req, g, t, latest, d
  <1>9. EndedPairs(t)
    BY <1>5, <1>7, MarkedPairs DEF StatusInv
  <1>10. OneBlock(t) /\ NoFinding(t)
    BY <1>1, <1>5, <1>8 DEF OneBlock, NoFinding
  <1>11. req.entry \in EntryRequest /\ req.entry.key = KeyIn(wf, req.entry.state)
    <2>1. req.entry \in EntryRequest
      BY <1>3, <1>4 DEF SkipRequest
    <2>2. d.kind = "select" => d.target \in Steps
      BY <1>2 DEF Leads
    <2>3. d.kind = "terminal" => d.target \notin Steps
      BY <1>2, WorkflowAssumption DEF Leads, RunStates
    <2> QED
      BY <1>1, <1>4, <2>1, <2>2, <2>3 DEF KeyIn
  <1>12. ASSUME sure PROVE CountsFollow(wf, t)
    BY <1>5, <1>11, <1>12, EntryFollows DEF StatusInv
  <1>13. t.entries # <<>> /\ Entered(t).state = d.target
    BY <1>4, <1>5, <1>11, EntryAdded
  <1>14. Going(t) => d.kind = "select"
    <2>1. d.kind = "terminal" => t.state # Running
      BY <1>2, <1>4, <1>5 DEF Leads, Running, TerminalStates, Blocked
    <2> QED
      BY <1>1, <1>5, <1>8, <2>1 DEF Going
  <1>15. LastEntered(t)
    BY <1>2, <1>13, <1>14 DEF LastEntered, Leads
  <1> QED
    BY <1>9, <1>10, <1>12, <1>15, NoFindingAnswers DEF StatusInv

\* The end of the run that a workflow's outcome leads to.
EndOf(s, d) ==
    [state |-> d.target, entry |-> TerminalEntry(s.attempts[LatestConsumable(s)], d.target)]

LEMMA UpdateKeeps ==
    ASSUME NEW sure, NEW wf \in Configuration, NEW s \in Status, GoodHistory(s),
           StatusInv(wf, s, sure),
           NEW d, d = DecisionBy(wf, s), d.kind = "terminal", LatestConsumable(s) # 0
    PROVE  StatusInv(wf, InState(s, EndOf(s, d)), sure)
  <1> DEFINE req == EndOf(s, d)
             t == InState(s, req)
  <1>1. s.state = Running /\ s.active = None
    BY LatestIdle
  <1>2. Leads(d)
    BY DecisionLeads
  <1>3. req \in UpdateRequest
    BY <1>2, TerminalPlanFits DEF EndOf
  <1>4. /\ req.state = d.target
        /\ req.entry = TerminalEntry(s.attempts[LatestConsumable(s)], d.target)
    BY DEF EndOf
  <1>5. /\ t.state = req.state /\ t.attempts = s.attempts /\ t.active = None
        /\ t.counts = CountsAfter(s, EntryFor(s, req.entry))
        /\ t.entries = EntriesAfter(s, EntryFor(s, req.entry))
        /\ t.hardBlock = s.hardBlock /\ t.findBlock = s.findBlock
        /\ t.findOverride = s.findOverride
    BY <1>1 DEF InState, Status
  <1>6. s.hardBlock = None /\ s.findBlock = None
    BY <1>1, RunningUnblocked DEF StatusInv
  <1>7. s.findOverride = None
    <2>1. Unblocked(s) = s
      BY <1>1, UnblockedRunning
    <2>2. s.findOverride # None => Waits(wf, s, s.findOverride)
      BY DEF StatusInv, Answers
    <2> QED
      BY <2>1, <2>2 DEF Waits
  <1> SUFFICES StatusInv(wf, t, sure)
    OBVIOUS
  <1> HIDE DEF req, t
  <1>8. EndedPairs(t) /\ OneBlock(t) /\ NoFinding(t)
    BY <1>5, <1>6, <1>7 DEF StatusInv, EndedPairs, OneBlock, NoFinding
  <1>9. d.target \in TerminalStates /\ d.target \notin Steps /\ d.target # Running
    BY <1>2, WorkflowAssumption
       DEF Leads, RunStates, Running, TerminalStates, Blocked
  <1>10. /\ req.entry \in EntryRequest
         /\ req.entry.state = d.target /\ req.entry.key = d.target
    <2> DEFINE o == s.attempts[LatestConsumable(s)]
    <2>1. o.step \in Steps /\ o.pair \in Pairs
      BY LatestOutcome
    <2>2. req.entry = [state |-> d.target, key |-> d.target, prev |-> o.step, pair |-> o.pair]
      BY <1>4 DEF TerminalEntry
    <2> HIDE DEF o
    <2> QED
      BY <1>9, <2>1, <2>2, WorkflowAssumption DEF EntryRequest, Targets
  <1>11. req.entry.key = KeyIn(wf, req.entry.state)
    BY <1>9, <1>10 DEF KeyIn
  <1>12. ASSUME sure PROVE CountsFollow(wf, t)
    BY <1>5, <1>10, <1>11, <1>12, EntryFollows DEF StatusInv
  <1>13. t.entries # <<>>
    BY <1>5, <1>10, <1>11, EntryAdded
  <1>14. ~Going(t)
    BY <1>4, <1>5, <1>6, <1>9 DEF Going
  <1>15. LastEntered(t)
    BY <1>13, <1>14 DEF LastEntered
  <1> QED
    BY <1>8, <1>12, <1>15, NoFindingAnswers DEF StatusInv

-----------------------------------------------------------------------------
(* What a step does to the status that replay yields.                      *)

\* A note beside the run: an artifact, a warning, a soft cap, or nothing.
Noted ==
    /\ Alike(replayed, replayed')
    /\ replayed'.counts = replayed.counts
    /\ replayed'.hardBlock = replayed.hardBlock
    /\ replayed'.hardOverride = replayed.hardOverride
    /\ replayed'.findBlock = replayed.findBlock
    /\ replayed'.findOverride = replayed.findOverride

\* Outcomes the launcher records itself, whether or not the workflow knows them.
LauncherPairs == {SystemPair[end] : end \in DOMAIN SystemPair} \union {PassedPair, FailedPair}

\* Routing knows where an outcome leads, or the launcher recorded it.
Expected(wf, step, pair) == wf.on[step][pair] # NoTarget \/ pair \in LauncherPairs

\* The active attempt is a, or ended as a.
EditedTo(a) ==
    /\ a.id = replayed.active.id
    /\ a.step = replayed.active.step
    /\ a.consumed = FALSE
    /\ a.state = "reported" => a.pair # None
    /\ a.state \in DOMAIN SystemPair => a.pair = SystemPair[a.state]
    /\ a.state \notin LiveStates => Expected(workflow, a.step, a.pair)
    /\ replayed'.attempts = [replayed.attempts EXCEPT ![a.id] = a]

Edited ==
    /\ replayed.active # None
    /\ \E a \in Attempt : EditedTo(a)
    /\ replayed'.state = replayed.state
    /\ replayed'.lineage = replayed.lineage
    /\ replayed'.continued = replayed.continued
    /\ replayed'.entries = replayed.entries
    /\ replayed'.counts = replayed.counts
    /\ replayed'.hardBlock = replayed.hardBlock
    /\ replayed'.hardOverride = replayed.hardOverride
    /\ replayed'.findBlock = replayed.findBlock
    /\ replayed'.findOverride = replayed.findOverride

\* What a start asks of the status it is decided on.
Startable(s) ==
    LET d == Decision(s)
    IN  /\ d.kind \in {"select", "retry"}
        /\ Repeated(s, d, LatestConsumable(s)) = {}
        /\ LoopCap(workflow, s.counts, d) = "hard" => CapOverride(s, d) # None

Begun ==
    /\ Startable(replayed)
    /\ replayed' = LiveStart(replayed, RequestOf(replayed, Decision(replayed)))

SkippedBy(step) ==
    /\ MaySkip(workflow, replayed, step)
    /\ SkipCap(workflow, replayed, step) # "hard"
    /\ replayed' = LiveSkip(replayed, SkipRequestFor(workflow, replayed, step))

Over(s) == Decision(s).kind = "terminal" /\ LatestConsumable(s) # 0

Closed ==
    /\ Over(replayed)
    /\ replayed' = InState(replayed, EndOf(replayed, Decision(replayed)))

Idle(s) == s.state = Running /\ s.active = None

Held ==
    /\ Idle(replayed)
    /\ \/ \E cap \in Cap : replayed' = HardCapped(replayed, cap)
       \/ /\ replayed.findOverride = None
          /\ \E block \in FindingBlock :
                /\ Waits(workflow, replayed, block)
                /\ replayed' = FindingBlocked(replayed, block)

Answered ==
    \/ /\ replayed.state = Blocked /\ replayed.hardBlock # None
       /\ replayed' = HardCapOverridden(replayed, replayed.hardBlock)
    \/ /\ replayed.state = Blocked /\ replayed.findBlock # None
       /\ replayed' = FindingOverridden(replayed)
    \/ ContinuedOK(replayed) /\ replayed' = Continued(replayed)

Effect ==
    /\ accepted'
    /\ UNCHANGED workflow
    /\ \/ Noted \/ Edited \/ Begun \/ Closed \/ Held \/ Answered
       \/ \E step \in Steps : SkippedBy(step)

\* The two steps of a refresh.
Repointed ==
    /\ accepted'
    /\ NoFinding(replayed) /\ replayed.hardBlock = None
    /\ DecisionBy(workflow', replayed).kind # "error"
    /\ workflow' \in Valid
    /\ replayed' = replayed

Recounted ==
    /\ accepted'
    /\ UNCHANGED workflow
    /\ replayed' = [replayed EXCEPT !.counts = Rekeyed(replayed, workflow)]

Moved == Effect \/ Repointed \/ Recounted

\* Only a new pointer leaves the counters behind.
Dated ==
    \/ Effect /\ UNCHANGED <<version, recorded>>
    \/ Repointed /\ version' = version + 1 /\ recorded' = recorded
    \/ Recounted

LEMMA EffectKeeps ==
    ASSUME NEW sure, TypeOK, HistoryOK, workflow \in Valid,
           StatusInv(workflow, replayed, sure), Effect,
           replayed' \in Status
    PROVE  StatusInv(workflow', replayed', sure)
  <1>1. replayed \in Status /\ GoodHistory(replayed) /\ workflow \in Configuration
    BY Configured DEF TypeOK, HistoryOK
  <1>2. CASE UNCHANGED workflow /\ Noted
    BY <1>1, <1>2, NotedKeeps DEF Noted
  <1>3. CASE UNCHANGED workflow /\ Edited
    <2>1. PICK a \in Attempt : EditedTo(a)
      BY <1>3 DEF Edited
    <2> QED
      BY <1>1, <1>3, <2>1, EditKeeps DEF Edited, EditedTo
  <1>4. CASE UNCHANGED workflow /\ Begun
    BY <1>1, <1>4, StartKeeps DEF Begun, Startable, Decision
  <1>5. CASE UNCHANGED workflow /\ Closed
    BY <1>1, <1>5, UpdateKeeps DEF Closed, Over, Decision
  <1>6. CASE UNCHANGED workflow /\ Held
    BY <1>1, <1>6, CapBlockKeeps, FindingBlockKeeps DEF Held, Idle
  <1>7. CASE UNCHANGED workflow /\ Answered
    BY <1>1, <1>7, CapAllowedKeeps, FindingAllowedKeeps, ContinuedKeeps DEF Answered
  <1>8. ASSUME UNCHANGED workflow, NEW step \in Steps, SkippedBy(step)
        PROVE  StatusInv(workflow', replayed', sure)
    BY <1>1, <1>8, SkipKeeps DEF SkippedBy
  <1> QED
    BY <1>2, <1>3, <1>4, <1>5, <1>6, <1>7, <1>8 DEF Effect

LEMMA DatedKeeps ==
    ASSUME TypeOK, HistoryOK, workflow \in Valid, replayed' \in Status,
           version \in Nat, recorded \in Nat, recorded <= version,
           StatusInv(workflow, replayed, recorded = version), Dated
    PROVE  StatusInv(workflow', replayed', recorded' = version')
  <1>1. replayed \in Status /\ GoodHistory(replayed)
    BY DEF TypeOK, HistoryOK
  <1>2. CASE Effect /\ UNCHANGED <<version, recorded>>
    <2>1. StatusInv(workflow', replayed', recorded = version)
      BY <1>2, EffectKeeps
    <2> QED
      BY <1>2, <2>1
  <1>3. CASE Repointed /\ version' = version + 1 /\ recorded' = recorded
    <2>1. StatusInv(workflow', replayed', FALSE)
      BY <1>1, <1>3, RepointKeeps DEF Repointed
    <2>2. ~(recorded' = version')
      BY <1>3
    <2> QED
      BY <2>1, <2>2 DEF StatusInv
  <1>4. CASE Recounted
    <2>1. StatusInv(workflow', replayed', TRUE)
      BY <1>1, <1>4, RecountKeeps DEF Recounted
    <2> QED
      BY <2>1 DEF StatusInv
  <1> QED
    BY <1>2, <1>3, <1>4 DEF Dated

-----------------------------------------------------------------------------
(* The operations of the store.                                            *)

LEMMA SameIsNoted ==
    ASSUME TypeOK, replayed' = replayed
    PROVE  Noted
  BY DEF Noted, Alike

LEMMA UnchangedEffect ==
    ASSUME TypeOK, accepted, UNCHANGED <<storeVars, workflow>>
    PROVE  Effect
  BY SameIsNoted DEF Effect, storeVars

LEMMA NoteEffect ==
    ASSUME TypeOK, UNCHANGED workflow,
           \/ \E id : RecordAttemptWarning(id)
           \/ \E ref : WriteArtifact(ref)
           \/ \E cap : RecordWorkflowLoopSoftCap(cap)
    PROVE  Effect
  <1>1. ASSUME NEW x,
               \/ replayed' = [replayed EXCEPT !.warned = x]
               \/ replayed' = [replayed EXCEPT !.artifacts = x]
               \/ replayed' = [replayed EXCEPT !.softCaps = x]
        PROVE  Noted
    BY <1>1 DEF Noted, Alike, TypeOK, Status
  <1>2. ASSUME NEW id, RecordAttemptWarning(id)
        PROVE  Effect
    BY <1>1, <1>2 DEF RecordAttemptWarning, Commit, Effect
  <1>3. ASSUME NEW ref, WriteArtifact(ref)
        PROVE  Effect
    BY <1>1, <1>3 DEF WriteArtifact, Commit, Effect
  <1>4. ASSUME NEW cap, RecordWorkflowLoopSoftCap(cap)
        PROVE  Effect
    BY <1>1, <1>4 DEF RecordWorkflowLoopSoftCap, Commit, Effect
  <1> QED
    BY <1>2, <1>3, <1>4

\* The active attempt of a run, and what an edit leaves of the status.
LEMMA EditEffect ==
    ASSUME TypeOK, HistoryOK, UNCHANGED workflow, accepted',
           replayed.active # None, NEW a \in Attempt, a.id = replayed.active.id,
           a.step = replayed.active.step, a.consumed = FALSE,
           a.state = "reported" => a.pair # None,
           a.state \in DOMAIN SystemPair => a.pair = SystemPair[a.state],
           a.state \notin LiveStates => Expected(workflow, a.step, a.pair),
           \/ replayed' = ReplayUpdate(replayed, a)
           \/ replayed' = ReplayEnd(replayed, a)
           \/ \E req : replayed' = [ReplayUpdate(replayed, a) EXCEPT
                                       !.artifacts = @ \union ReportArtifacts(replayed.active, req),
                                       !.active = None]
    PROVE  Effect
  <1>1. /\ replayed'.attempts = [replayed.attempts EXCEPT ![a.id] = a]
        /\ replayed'.state = replayed.state /\ replayed'.continued = replayed.continued
        /\ replayed'.lineage = replayed.lineage
        /\ replayed'.entries = replayed.entries /\ replayed'.counts = replayed.counts
        /\ replayed'.hardBlock = replayed.hardBlock
        /\ replayed'.hardOverride = replayed.hardOverride
        /\ replayed'.findBlock = replayed.findBlock
        /\ replayed'.findOverride = replayed.findOverride
    BY DEF ReplayUpdate, ReplayEnd, TypeOK, Status
  <1>2. EditedTo(a)
    BY <1>1 DEF EditedTo
  <1> QED
    BY <1>1, <1>2 DEF Effect, Edited

LEMMA PrepareEffect ==
    ASSUME TypeOK, HistoryOK, UNCHANGED workflow, NEW id,
           \/ \E ref : RecordAttemptPrompt(id, ref) \/ RecordAttemptLog(id, ref)
           \/ RecordAttemptProcess(id)
    PROVE  Effect
  <1> DEFINE a == replayed.active
  <1>1. a # None /\ accepted'
    BY DEF RecordAttemptPrompt, RecordAttemptLog, RecordAttemptProcess, CanPrompt, CanLog,
           CanProcess, ActiveIs, Commit
  <1>2. /\ a \in Attempt /\ a.state \in LiveStates /\ ~a.consumed
    BY <1>1, ActivePlace DEF TypeOK, HistoryOK
  <1>3. "reported" \notin LiveStates /\ LiveStates \cap DOMAIN SystemPair = {}
    BY DEF LiveStates, SystemPair
  <1>4. \A b \in {Prompted(a), Logged(a), Processed(a)} :
           /\ b \in Attempt /\ b.id = a.id /\ b.step = a.step /\ b.consumed = FALSE
           /\ b.state \in LiveStates
    BY <1>2 DEF Prompted, Logged, Processed, Attempt, AttemptStates, LiveStates
  <1>5. \E b \in {Prompted(a), Logged(a), Processed(a)} : replayed' = ReplayUpdate(replayed, b)
    BY <1>1 DEF RecordAttemptPrompt, RecordAttemptLog, RecordAttemptProcess, Commit
  <1> QED
    BY <1>1, <1>3, <1>4, <1>5, EditEffect

LEMMA EndEffect ==
    ASSUME TypeOK, HistoryOK, UNCHANGED workflow, NEW id, NEW state \in EndStates,
           NEW recovered \in BOOLEAN, TerminalizeAttempt(id, state, recovered)
    PROVE  Effect
  <1> DEFINE a == replayed.active
             b == Ended(a, state, recovered)
  <1>1. a # None /\ accepted' /\ replayed' = ReplayEnd(replayed, b)
    BY DEF TerminalizeAttempt, CanEnd, ActiveIs, Commit
  <1>2. a \in Attempt /\ ~a.consumed
    BY <1>1, ActivePlace DEF TypeOK, HistoryOK
  <1>3. SystemPair[state] \in Pairs /\ state # "reported" /\ state \in AttemptStates
    BY SystemPairType DEF EndStates, AttemptStates
  <1>4. /\ b \in Attempt /\ b.id = a.id /\ b.step = a.step /\ b.consumed = FALSE
        /\ b.state = state /\ b.pair = SystemPair[state]
    BY <1>2, <1>3 DEF Ended, Attempt
  <1>5. SystemPair[state] \in LauncherPairs
    BY DEF LauncherPairs, SystemPair, EndStates
  <1> HIDE DEF b
  <1> QED
    BY <1>1, <1>3, <1>4, <1>5, EditEffect DEF Expected

LEMMA ReportEffect ==
    ASSUME TypeOK, HistoryOK, UNCHANGED workflow, NEW id, NEW req \in ReportRequest,
           req.state = "invalid_report" => req.pair = SystemPair["invalid_report"],
           Expected(workflow, replayed.active.step, req.pair),
           RecordAttemptReport(id, req)
    PROVE  Effect
  <1> DEFINE a == replayed.active
             b == Reported(a, req)
  <1>1. a # None /\ ReportOK(a, a.state = "starting")
    BY DEF RecordAttemptReport, ActiveIs, ReportOK
  <1>2. accepted' /\ replayed' = ReplayReport(replayed, a, req)
    BY <1>1 DEF RecordAttemptReport, Commit
  <1>3. a \in Attempt /\ ~a.consumed
    BY <1>1, ActivePlace DEF TypeOK, HistoryOK
  <1>4. /\ req.state \in {"reported", "invalid_report"} /\ req.pair \in Pairs /\ req.pair # None
        /\ req.findings \in SUBSET Findings
    BY WorkflowAssumption DEF ReportRequest, ReportedStates
  <1>5. /\ b \in Attempt /\ b.id = a.id /\ b.step = a.step /\ b.consumed = FALSE
        /\ b.state = req.state /\ b.pair = req.pair
    BY <1>3, <1>4 DEF Reported, Attempt, AttemptStates, ReportedStates
  <1>6. b.state \in DOMAIN SystemPair => b.pair = SystemPair[b.state]
    <2>1. "reported" \notin DOMAIN SystemPair
      BY DEF SystemPair
    <2> QED
      BY <1>4, <1>5, <2>1
  <1>7. replayed' = [ReplayUpdate(replayed, b) EXCEPT
                        !.artifacts = @ \union ReportArtifacts(a, req), !.active = None]
    BY <1>2 DEF ReplayReport
  <1> HIDE DEF b
  <1> QED
    BY <1>1, <1>2, <1>4, <1>5, <1>6, <1>7, EditEffect

\* The replay of a start and of a skip is their live path.
LEMMA StartReplayed ==
    ASSUME TypeOK, HistoryOK, NEW req \in EnteringStart, StartAttempt(req)
    PROVE  accepted' /\ replayed' = LiveStart(replayed, req)
  <1>1. Sound(replayed, LiveStart(replayed, req), ReplayStartOK(replayed, StartEvent(replayed, req)),
              ReplayStart(replayed, StartEvent(replayed, req)))
    BY StartSound DEF StartAttempt, CanStart, EnteringStart, TypeOK, HistoryOK
  <1>2. ReplayStartOK(replayed, StartEvent(replayed, req))
    BY <1>1 DEF Sound
  <1>3. ReplayStart(replayed, StartEvent(replayed, req)) = LiveStart(replayed, req)
    BY DEF ReplayStart, LiveStart, StartEvent
  <1> QED
    BY <1>2, <1>3 DEF StartAttempt, Commit

LEMMA SkipReplayed ==
    ASSUME TypeOK, HistoryOK, NEW req \in SkipRequest, RecordStepSkip(req)
    PROVE  accepted' /\ replayed' = LiveSkip(replayed, req)
  <1>1. Sound(replayed, LiveSkip(replayed, req), ReplaySkipOK(replayed, SkipEvent(replayed, req)),
              ReplaySkip(replayed, SkipEvent(replayed, req)))
    BY SkipSound DEF RecordStepSkip, TypeOK, HistoryOK
  <1>2. ReplaySkipOK(replayed, SkipEvent(replayed, req))
    BY <1>1 DEF Sound
  <1>3. ReplaySkip(replayed, SkipEvent(replayed, req)) = LiveSkip(replayed, req)
    BY DEF ReplaySkip, LiveSkip, SkipEvent
  <1> QED
    BY <1>2, <1>3 DEF RecordStepSkip, Commit

LEMMA ContinueEffect ==
    ASSUME TypeOK, HistoryOK, UNCHANGED workflow,
           AllowWorkflowLoopHardCap \/ AllowRepeatedReviewFinding \/ ResolveHumanBlock
    PROVE  Effect
  <1>1. replayed.state = Blocked => replayed.active = None
    BY BlockedState DEF HistoryOK, GoodHistory
  <1>2. CASE AllowWorkflowLoopHardCap
    BY <1>2 DEF AllowWorkflowLoopHardCap, Commit, Effect, Answered
  <1>3. CASE AllowRepeatedReviewFinding
    BY <1>1, <1>3 DEF AllowRepeatedReviewFinding, Commit, Effect, Answered
  <1>4. CASE ResolveHumanBlock
    BY <1>4 DEF ResolveHumanBlock, Commit, Effect, Answered
  <1> QED
    BY <1>2, <1>3, <1>4

-----------------------------------------------------------------------------
(* Decisions are fresh.                                                    *)

SoftCapOf(s, hit, target) ==
    IF hit = "soft" THEN CapOf(workflow, s.counts, target) ELSE None

\* What a command is about to do is what it would decide on the run as it is.
Fresh(step, p) ==
    LET s == replayed
        d == Decision(s)
        latest == LatestConsumable(s)
    IN  /\ step = "update" => Over(s) /\ p.req = EndOf(s, d)
        /\ step = "blockFinding" =>
              /\ FindingGuarded(s, d, latest)
              /\ FindingOverride(s, d, latest) = None
              /\ p.req.target = d.target /\ p.req.repeated = latest
        /\ step = "start" =>
              /\ Startable(s)
              /\ p.req = RequestOf(s, d)
              /\ p.cap = SoftCapOf(s, LoopCap(workflow, s.counts, d), d.target)
        /\ step = "skip" =>
              /\ p.req.by = workflow
              /\ MaySkip(workflow, s, p.req.step)
              /\ p.cap = SoftCapOf(s, SkipCap(workflow, s, p.req.step),
                                   SkipDecision(workflow, s, p.req.step).target)
        /\ step \in {"output", "report"} =>
              p.req.state = "reported" /\ p.req.pair \in LauncherPairs
        /\ step = "recount" => p.req.to = workflow

AllFresh == \A c \in Commands : Fresh(pc[c], plan[c])

RunInv == accepted /\ StatusInv(workflow, replayed, recorded = version) /\ AllFresh

\* Steps that act on what was decided before, and steps that do not depend on it.
Deciding == {"update", "blockFinding", "start", "skip"}
Silent == PCs \ (Deciding \union {"output", "report", "recount"})

LEMMA QuietFresh ==
    ASSUME NEW step \in Silent, NEW p
    PROVE  Fresh(step, p) /\ Fresh(step, p)'
  BY DEF Silent, Deciding, Fresh

LEMMA FreshStays ==
    ASSUME NEW step, NEW p, Fresh(step, p), UNCHANGED <<replayed, workflow>>
    PROVE  Fresh(step, p)'
  BY DEF Fresh, Over, Decision, EndOf, FindingGuarded, FindingOverride, Startable, Repeated,
         Corrected, RequestOf, EntryOf, CapOverride, SoftCapOf

\* A command that is about to act on a decision has one that asks for an idle run.
LEMMA DecidedIdle ==
    ASSUME TypeOK, NEW step \in {"update", "blockFinding", "start", "skip"}, NEW p, Fresh(step, p)
    PROVE  Idle(replayed)
  <1>1. \A s : LatestConsumable(s) # 0 => Idle(s)
    BY LatestIdle DEF Idle
  <1>2. Decision(replayed).kind \in {"select", "retry"} => Idle(replayed)
    BY DecisionCases DEF Decision, Idle, TypeOK, Status
  <1>3. \A x : MaySkip(workflow, replayed, x) => Idle(replayed)
    BY DEF MaySkip, SkipValidator, Idle
  <1> QED
    BY <1>1, <1>2, <1>3 DEF Fresh, Over, FindingGuarded, Startable

-----------------------------------------------------------------------------
(* Where commands go on.                                                   *)

FreshMove(c) ==
    \E step, p : /\ pc' = [pc EXCEPT ![c] = step]
                 /\ plan' = [plan EXCEPT ![c] = p]
                 /\ Fresh(step, p)'

QuietMove(c) ==
    \/ \E step \in Silent : Goto(c, step) /\ UNCHANGED plan
    \/ \E p : \E step \in Silent : Planned(c, step, p)
    \/ Return(c)

LEMMA MoveFresh ==
    ASSUME Alone, CommandInv, NEW c \in Commands, FreshMove(c)
    PROVE  AllFresh'
  <1>1. PICK step, p : /\ pc' = [pc EXCEPT ![c] = step]
                       /\ plan' = [plan EXCEPT ![c] = p]
                       /\ Fresh(step, p)'
    BY DEF FreshMove
  <1>2. /\ pc'[c] = step /\ plan'[c] = p
        /\ \A b \in Commands : b = c
    BY <1>1 DEF CommandInv, Alone
  <1>3. Fresh(pc[c], plan[c])'
    BY <1>1, <1>2 DEF Fresh
  <1> QED
    BY <1>2, <1>3 DEF AllFresh

LEMMA QuietMoves ==
    ASSUME CommandInv, NEW c \in Commands, QuietMove(c)
    PROVE  FreshMove(c)
  <1>1. plan = [plan EXCEPT ![c] = plan[c]]
    BY DEF CommandInv
  <1>2. "idle" \in Silent
    BY DEF Silent, PCs, Deciding
  <1>3. \E p : \E step \in Silent : pc' = [pc EXCEPT ![c] = step] /\ plan' = [plan EXCEPT ![c] = p]
    BY <1>1, <1>2 DEF QuietMove, Planned, Return, Goto
  <1> QED
    BY <1>3, QuietFresh DEF FreshMove

LEMMA QuietSteps ==
    /\ PrepareSteps \subseteq Silent
    /\ {"idle", "recover", "blockCap", "softCap", "wait", "grace", "collect", "warn", "finish",
        "abort", "fail", "setupError", "waitCommand", "refresh"} \subseteq Silent
    /\ {"render", "prompt", "openLog", "log", "spawn", "process", "release"} \subseteq Silent
  BY DEF Silent, PCs, PrepareSteps, Deciding

\* Steps of a command that leave the store alone and decide on nothing.
LEMMA ApartFresh ==
    ASSUME NEW c \in Commands,
           \/ PlanRecovery(c) \/ InterruptSoftCap(c) \/ Cancel(c) \/ Crash(c)
           \/ Spawn(c) \/ SpawnCommand(c) \/ FailSpawn(c) \/ Release(c) \/ Abort(c)
           \/ WaitExit(c) \/ WaitTimeout(c) \/ PollReport(c) \/ GraceExceeded(c)
           \/ InterruptWait(c) \/ Collect(c)
    PROVE  UNCHANGED storeVars /\ QuietMove(c)
  <1>1. UNCHANGED storeVars
    BY DEF PlanRecovery, InterruptSoftCap, Cancel, Crash, Spawn, SpawnCommand, FailSpawn,
           Release, Abort, WaitExit, WaitTimeout, PollReport, GraceExceeded, InterruptWait,
           Collect
  <1>2. CASE PlanRecovery(c)
    <2>1. \E p : Planned(c, "recover", p)
      BY <1>2 DEF PlanRecovery
    <2> QED
      BY <1>1, <2>1, QuietSteps DEF QuietMove
  <1>3. CASE Cancel(c) \/ Spawn(c) \/ SpawnCommand(c) \/ FailSpawn(c) \/ Release(c) \/ PollReport(c)
    <2>1. \E step \in {"abort", "process", "setupError", "wait", "grace"} :
             Goto(c, step) /\ UNCHANGED plan
      BY <1>3 DEF Cancel, Spawn, SpawnCommand, FailSpawn, Release, PollReport
    <2> QED
      BY <1>1, <2>1, QuietSteps DEF QuietMove
  <1>4. CASE Abort(c) \/ WaitExit(c) \/ WaitTimeout(c) \/ GraceExceeded(c) \/ InterruptWait(c)
    <2>1. \E p : \E step \in {"fail", "collect"} : Planned(c, step, p)
      BY <1>4 DEF Abort, WaitExit, WaitTimeout, GraceExceeded, InterruptWait
    <2> QED
      BY <1>1, <2>1, QuietSteps DEF QuietMove
  <1>5. CASE InterruptSoftCap(c) \/ Crash(c) \/ Collect(c)
    <2>1. Return(c) \/ \E step \in {"finish", "warn"} : Goto(c, step) /\ UNCHANGED plan
      BY <1>5 DEF InterruptSoftCap, Crash, Collect
    <2> QED
      BY <1>1, <2>1, QuietSteps DEF QuietMove
  <1> QED
    BY <1>2, <1>3, <1>4, <1>5

\* The report of a command or a script is chosen.
LEMMA OutcomeFresh ==
    ASSUME NEW c \in Commands,
           SetupError(c) \/ CommandExit(c) \/ CommandTimeout(c) \/ InterruptCommand(c),
           plan \in [Commands -> Plan]
    PROVE  UNCHANGED storeVars /\ FreshMove(c)
  <1>1. UNCHANGED storeVars
    BY DEF SetupError, CommandExit, CommandTimeout, InterruptCommand
  <1>2. PICK step, r :
           /\ step \in {"report", "output"} /\ r.state = "reported" /\ r.pair \in LauncherPairs
           /\ Planned(c, step, [plan[c] EXCEPT !.req = r])
    <2>1. \E pair \in LauncherPairs, allow \in BOOLEAN : \E step \in {"report", "output"} :
             Planned(c, step, [plan[c] EXCEPT !.req = CommandReport(pair, allow)])
      <3>1. /\ {PassedPair, FailedPair} \subseteq LauncherPairs
            /\ SystemPair["process_error"] \in LauncherPairs
            /\ SystemPair["timed_out"] \in LauncherPairs
        BY DEF LauncherPairs, SystemPair
      <3> QED
        BY <3>1 DEF SetupError, CommandExit, CommandTimeout, InterruptCommand
    <2>2. \A pair, allow :
             CommandReport(pair, allow).state = "reported" /\ CommandReport(pair, allow).pair = pair
      BY DEF CommandReport
    <2>3. PICK pair \in LauncherPairs, allow \in BOOLEAN, step \in {"report", "output"} :
             Planned(c, step, [plan[c] EXCEPT !.req = CommandReport(pair, allow)])
      BY <2>1
    <2>4. PICK r : r = CommandReport(pair, allow)
      OBVIOUS
    <2>5. r.state = "reported" /\ r.pair \in LauncherPairs
      BY <2>2, <2>4
    <2>6. Planned(c, step, [plan[c] EXCEPT !.req = r])
      BY <2>3, <2>4
    <2>7. step \in {"report", "output"}
      OBVIOUS
    <2> QED
      BY <2>5, <2>6, <2>7
  <1>3. PICK p : p = [plan[c] EXCEPT !.req = r]
    OBVIOUS
  <1>4. p.req.state = "reported" /\ p.req.pair \in LauncherPairs
    BY <1>2, <1>3 DEF Plan
  <1>5. Fresh(step, p)'
    BY <1>2, <1>4 DEF Fresh
  <1>6. Planned(c, step, p)
    BY <1>2, <1>3
  <1>7. pc' = [pc EXCEPT ![c] = step] /\ plan' = [plan EXCEPT ![c] = p]
    BY <1>6 DEF Planned, Goto
  <1> QED
    BY <1>1, <1>5, <1>7 DEF FreshMove

LEMMA WriteOutputFresh ==
    ASSUME CommandInv, accepted, AllFresh, UNCHANGED workflow, NEW c \in Commands, WriteOutput(c)
    PROVE  Effect /\ FreshMove(c)
  <1>1. Effect
    BY NoteEffect, UnchangedEffect DEF WriteOutput, CommandInv
  <1>2. plan' = [plan EXCEPT ![c] = plan[c]] /\ pc' = [pc EXCEPT ![c] = "report"]
    BY DEF WriteOutput, CommandInv, Goto
  <1>3. plan[c].req.state = "reported" /\ plan[c].req.pair \in LauncherPairs
    BY DEF WriteOutput, AllFresh, Fresh
  <1>4. ASSUME NEW p, p = plan[c]
        PROVE  Fresh("report", p)'
    BY <1>3, <1>4 DEF Fresh
  <1> QED
    BY <1>1, <1>2, <1>4 DEF FreshMove

\* A command decides.
LEMMA PlannedFresh ==
    ASSUME NEW c \in Commands, NEW step, NEW p, Planned(c, step, p), Fresh(step, p),
           UNCHANGED <<storeVars, workflow>>
    PROVE  FreshMove(c)
  <1>1. Fresh(step, p)'
    BY FreshStays DEF storeVars
  <1> QED
    BY <1>1 DEF FreshMove, Planned, Goto

LEMMA PlanLaunchFresh ==
    ASSUME CommandInv, NEW c \in Commands, UNCHANGED workflow, PlanLaunch(c)
    PROVE  UNCHANGED storeVars /\ FreshMove(c)
  <1> DEFINE d == Decision(replayed)
             latest == LatestConsumable(replayed)
  <1>0. UNCHANGED storeVars
    BY DEF PlanLaunch
  <1>1. CASE PlanTerminal(c, d)
    <2>1. PICK p : p = [NoPlan EXCEPT !.req = EndOf(replayed, d)]
      OBVIOUS
    <2>2. Planned(c, "update", p) /\ Over(replayed)
      BY <1>1, <2>1 DEF PlanTerminal, EndOf, Over
    <2>3. p.req = EndOf(replayed, Decision(replayed))
      BY <2>1 DEF NoPlan
    <2>4. Fresh("update", p)
      BY <2>2, <2>3 DEF Fresh
    <2> QED
      BY <1>0, <2>2, <2>4, PlannedFresh
  <1>2. CASE PlanFindingBlock(c, d)
    <2>1. PICK f \in Repeated(replayed, d, latest) :
             Planned(c, "blockFinding",
                [NoPlan EXCEPT !.req =
                   [finding |-> f, target |-> d.target, first |-> FirstReport(replayed, f),
                    repeated |-> latest]])
      BY <1>2 DEF PlanFindingBlock
    <2> DEFINE r == [finding |-> f, target |-> d.target, first |-> FirstReport(replayed, f),
                     repeated |-> latest]
    <2>2. r.target = d.target /\ r.repeated = latest
      OBVIOUS
    <2>3. FindingGuarded(replayed, d, latest) /\ FindingOverride(replayed, d, latest) = None
      BY <2>1 DEF Repeated
    <2>4. PICK p : p = [NoPlan EXCEPT !.req = r]
      OBVIOUS
    <2>5. Planned(c, "blockFinding", p)
      BY <2>1, <2>4
    <2> HIDE DEF r
    <2>6. p.req = r
      BY <2>4 DEF NoPlan
    <2>7. Fresh("blockFinding", p)
      BY <2>2, <2>3, <2>6 DEF Fresh
    <2> QED
      BY <1>0, <2>5, <2>7, PlannedFresh
  <1>3. CASE PlanCapBlock(c, d)
    <2>1. QuietMove(c)
      BY <1>3, QuietSteps DEF PlanCapBlock, QuietMove
    <2> QED
      BY <1>0, <2>1, QuietMoves
  <1>4. CASE PlanStart(c, d)
    <2> DEFINE r == RequestOf(replayed, d)
               cap == SoftCapOf(replayed, LoopCap(workflow, replayed.counts, d), d.target)
    <2>1. PICK p : p = [NoPlan EXCEPT !.req = r, !.cap = cap]
      OBVIOUS
    <2>2. Planned(c, "start", p) /\ Startable(replayed)
      BY <1>4, <2>1 DEF PlanStart, RequestOf, SoftCapOf, Startable
    <2> HIDE DEF r, cap
    <2>3. p.req = r /\ p.cap = cap
      BY <2>1 DEF NoPlan
    <2>4. Fresh("start", p)
      BY <2>2, <2>3 DEF Fresh, r, cap
    <2> QED
      BY <1>0, <2>2, <2>4, PlannedFresh
  <1> QED
    BY <1>0, <1>1, <1>2, <1>3, <1>4 DEF PlanLaunch

LEMMA PlanSkipFresh ==
    ASSUME CommandInv, NEW c \in Commands, UNCHANGED workflow, PlanSkip(c)
    PROVE  UNCHANGED storeVars /\ FreshMove(c)
  <1>0. UNCHANGED storeVars
    BY DEF PlanSkip
  <1>1. PICK step \in Steps :
           /\ MaySkip(workflow, replayed, step)
           /\ LET hit == SkipCap(workflow, replayed, step)
                  cap == CapOf(workflow, replayed.counts,
                               SkipDecision(workflow, replayed, step).target)
              IN  IF hit = "hard" THEN Planned(c, "blockCap", [NoPlan EXCEPT !.req = cap])
                  ELSE Planned(c, "skip",
                          [NoPlan EXCEPT !.req = [step |-> step, by |-> workflow],
                                         !.cap = IF hit = "soft" THEN cap ELSE None])
    BY DEF PlanSkip
  <1> DEFINE r == [step |-> step, by |-> workflow]
             cap == SoftCapOf(replayed, SkipCap(workflow, replayed, step),
                              SkipDecision(workflow, replayed, step).target)
  <1>2. CASE SkipCap(workflow, replayed, step) = "hard"
    <2>1. QuietMove(c)
      BY <1>1, <1>2, QuietSteps DEF QuietMove
    <2> QED
      BY <1>0, <2>1, QuietMoves
  <1>3. CASE SkipCap(workflow, replayed, step) # "hard"
    <2>1. PICK p : p = [NoPlan EXCEPT !.req = r, !.cap = cap]
      OBVIOUS
    <2>2. Planned(c, "skip", p)
      BY <1>1, <1>3, <2>1 DEF SoftCapOf
    <2>3. r.step = step /\ r.by = workflow
      OBVIOUS
    <2> HIDE DEF r, cap
    <2>4. p.req = r /\ p.cap = cap
      BY <2>1 DEF NoPlan
    <2>5. Fresh("skip", p)
      BY <1>1, <2>3, <2>4 DEF Fresh, cap
    <2> QED
      BY <1>0, <2>2, <2>5, PlannedFresh
  <1> QED
    BY <1>2, <1>3

\* Steps of a command that are an operation of the store, if it is allowed.
LEMMA OperationFresh ==
    ASSUME CommandInv, accepted, UNCHANGED workflow, NEW c \in Commands,
           \/ Recover(c) \/ Finish(c) \/ Warn(c) \/ RecordSoftCap(c)
           \/ RenderPrompt(c) \/ RecordPrompt(c) \/ OpenLog(c) \/ RecordLog(c)
           \/ RecordProcess(c) \/ RecordCommand(c)
    PROVE  Effect /\ FreshMove(c)
  <1>0. TypeOK /\ HistoryOK
    BY DEF CommandInv
  <1>1. CASE Recover(c) \/ Finish(c)
    <2>1. plan[c].end \in EndStates
      BY <1>1, CommandPlan DEF Recover, Finish, Fits
    <2>2. Effect
      BY <1>0, <1>1, <2>1, EndEffect, UnchangedEffect DEF Recover, Finish
    <2>3. QuietMove(c)
      BY <1>1 DEF Recover, Finish, QuietMove
    <2> QED
      BY <2>2, <2>3, QuietMoves
  <1>2. CASE Warn(c) \/ RecordSoftCap(c)
    <2>1. Effect
      BY <1>0, <1>2, NoteEffect, UnchangedEffect DEF Warn, RecordSoftCap
    <2>2. QuietMove(c)
      BY <1>2, QuietSteps DEF Warn, RecordSoftCap, QuietMove
    <2> QED
      BY <2>1, <2>2, QuietMoves
  <1>3. CASE RenderPrompt(c) \/ RecordPrompt(c) \/ OpenLog(c) \/ RecordLog(c) \/ RecordProcess(c)
    <2>1. Effect
      BY <1>0, <1>3, NoteEffect, PrepareEffect, UnchangedEffect
         DEF RenderPrompt, RecordPrompt, OpenLog, RecordLog, RecordProcess, Prepare
    <2>2. \E step \in {"prompt", "openLog", "log", "spawn", "release", "abort"} :
             Goto(c, step) /\ UNCHANGED plan
      BY <1>3 DEF RenderPrompt, RecordPrompt, OpenLog, RecordLog, RecordProcess, Prepare
    <2>3. QuietMove(c)
      BY <2>2, QuietSteps DEF QuietMove
    <2> QED
      BY <2>1, <2>3, QuietMoves
  <1>4. CASE RecordCommand(c)
    <2>1. Effect
      BY <1>0, <1>4, PrepareEffect, UnchangedEffect DEF RecordCommand
    <2>2. \E step \in {"waitCommand", "setupError"} : Goto(c, step) /\ UNCHANGED plan
      BY <1>4 DEF RecordCommand
    <2>3. QuietMove(c)
      BY <2>2, QuietSteps DEF QuietMove
    <2> QED
      BY <2>1, <2>3, QuietMoves
  <1> QED
    BY <1>1, <1>2, <1>3, <1>4

LEMMA ReportCommandFresh ==
    ASSUME CommandInv, accepted, AllFresh, UNCHANGED workflow, NEW c \in Commands, ReportCommand(c)
    PROVE  Effect /\ FreshMove(c)
  <1>1. /\ plan[c].req \in ReportRequest /\ plan[c].req.state = "reported"
        /\ Expected(workflow, replayed.active.step, plan[c].req.pair)
    BY CommandPlan DEF ReportCommand, Fits, AllFresh, Fresh, Expected
  <1>2. Effect
    BY <1>1, ReportEffect, UnchangedEffect DEF ReportCommand, CommandInv
  <1>3. Return(c) \/ \E p : Planned(c, "fail", p)
    BY DEF ReportCommand
  <1>4. QuietMove(c)
    BY <1>3, QuietSteps DEF QuietMove
  <1> QED
    BY <1>2, <1>4, QuietMoves

LEMMA ActsFresh ==
    ASSUME CommandInv, RunInv, UNCHANGED workflow, NEW c \in Commands,
           Terminalize(c) \/ BlockFinding(c) \/ BlockCap(c)
    PROVE  Effect /\ FreshMove(c)
  <1>1. /\ replayed \in Status /\ GoodHistory(replayed) /\ TypeOK /\ accepted
        /\ Fits(pc[c], plan[c]) /\ Fresh(pc[c], plan[c]) /\ StatusInv(workflow, replayed, recorded = version)
    BY CommandPlan DEF CommandInv, TypeOK, HistoryOK, RunInv, AllFresh
  <1>2. FreshMove(c)
    <2>1. QuietMove(c)
      BY DEF Terminalize, BlockFinding, BlockCap, QuietMove
    <2> QED
      BY <2>1, QuietMoves
  <1> SUFFICES Effect
    BY <1>2
  <1>3. CASE UNCHANGED storeVars
    BY <1>1, <1>3, UnchangedEffect
  <1>4. CASE pc[c] = "update" /\ UpdateStatus(plan[c].req)
    <2>1. plan[c].req \in UpdateRequest
      BY <1>1, <1>4 DEF Fits
    <2>2. Over(replayed) /\ plan[c].req = EndOf(replayed, Decision(replayed))
      BY <1>1, <1>4 DEF Fresh
    <2>3. accepted' /\ replayed' = InState(replayed, plan[c].req)
      BY <1>1, <1>4, <2>1, InStateSound DEF UpdateStatus, CanUpdate, Commit
    <2> QED
      BY <2>2, <2>3 DEF Effect, Closed
  <1>5. CASE pc[c] = "blockFinding" /\ BlockRepeatedReviewFinding(plan[c].req)
    <2> DEFINE d == Decision(replayed)
               latest == LatestConsumable(replayed)
               block == plan[c].req
    <2>1. block \in FindingBlock
      BY <1>1, <1>5 DEF Fits
    <2>2. /\ FindingGuarded(replayed, d, latest) /\ FindingOverride(replayed, d, latest) = None
          /\ block.target = d.target /\ block.repeated = latest
      BY <1>1, <1>5 DEF Fresh
    <2>3. Idle(replayed)
      BY <1>5 DEF BlockRepeatedReviewFinding, CanBlock, Idle
    <2>4. replayed.findBlock = None
      BY <1>1, <2>3, RunningUnblocked DEF StatusInv, Idle
    <2>5. replayed.findOverride = None
      <3>1. replayed.findOverride # None => FindingOverride(replayed, d, latest) = replayed.findOverride
        BY <1>1, <2>3, AnsweredByStart DEF StatusInv, Idle, Decision
      <3> QED
        BY <2>2, <3>1
    <2>6. Waits(workflow, replayed, block)
      <3>1. Unblocked(replayed) = replayed
        BY <1>1, <2>3, UnblockedRunning DEF Idle
      <3> QED
        BY <2>2, <2>3, <3>1 DEF Waits, FindingGuarded, Going, Idle, Decision
    <2>7. accepted' /\ replayed' = FindingBlocked(replayed, block)
      BY <1>5, <2>3, <2>4, <2>5
         DEF BlockRepeatedReviewFinding, Commit, ReplayFindingBlockOK, Idle
    <2> QED
      BY <2>1, <2>3, <2>5, <2>6, <2>7 DEF Effect, Held
  <1>6. CASE pc[c] = "blockCap" /\ BlockWorkflowLoopHardCap(plan[c].req)
    <2>1. plan[c].req \in Cap
      BY <1>1, <1>6 DEF Fits
    <2>2. Idle(replayed) /\ accepted' /\ replayed' = HardCapped(replayed, plan[c].req)
      BY <1>6 DEF BlockWorkflowLoopHardCap, CanBlock, Commit, Idle
    <2> QED
      BY <2>1, <2>2 DEF Effect, Held
  <1> QED
    BY <1>3, <1>4, <1>5, <1>6 DEF Terminalize, BlockFinding, BlockCap

LEMMA StartFresh ==
    ASSUME CommandInv, RunInv, UNCHANGED workflow, NEW c \in Commands, Start(c)
    PROVE  Effect /\ FreshMove(c)
  <1>1. TypeOK /\ HistoryOK /\ accepted /\ plan[c].req \in EnteringStart
    BY CommandPlan DEF CommandInv, RunInv, Start, Fits
  <1>2. Startable(replayed) /\ plan[c].req = RequestOf(replayed, Decision(replayed))
    BY DEF Start, RunInv, AllFresh, Fresh
  <1>3. Effect
    BY <1>1, <1>2, StartReplayed, UnchangedEffect DEF Start, Effect, Begun
  <1>4. Return(c) \/ \E p : \E step \in {"softCap", "render"} : Planned(c, step, p)
    BY DEF Start
  <1>5. QuietMove(c)
    BY <1>4, QuietSteps DEF QuietMove
  <1> QED
    BY <1>3, <1>5, QuietMoves

LEMMA SkipFresh ==
    ASSUME CommandInv, RunInv, UNCHANGED workflow, NEW c \in Commands, Skip(c)
    PROVE  Effect /\ FreshMove(c)
  <1> DEFINE step == plan[c].req.step
  <1>1. TypeOK /\ HistoryOK /\ accepted /\ replayed \in Status /\ workflow \in Valid
        /\ step \in Steps /\ plan[c].req.by = workflow
    BY CommandPlan DEF CommandInv, RunInv, Skip, Fits, AllFresh, Fresh, TypeOK, SkipPlan
  <1>2. \/ /\ MaySkip(workflow, replayed, step) /\ SkipCap(workflow, replayed, step) # "hard"
           /\ RecordStepSkip(SkipRequestFor(workflow, replayed, step))
        \/ UNCHANGED storeVars
    BY <1>1 DEF Skip
  <1>3. Return(c) \/ \E p : Planned(c, "softCap", p)
    BY DEF Skip
  <1> HIDE DEF step
  <1>4. Effect
    BY <1>1, <1>2, SkipRequestType, SkipReplayed, UnchangedEffect DEF Effect, SkippedBy
  <1>5. QuietMove(c)
    BY <1>3, QuietSteps DEF QuietMove
  <1> QED
    BY <1>4, <1>5, QuietMoves

LEMMA WorldFresh ==
    ASSUME CommandInv, RunInv, UNCHANGED workflow, World
    PROVE  Effect /\ AllFresh'
  <1>1. TypeOK /\ HistoryOK /\ accepted
    BY DEF CommandInv, RunInv
  <1>2. UNCHANGED commandVars
    BY DEF World, Continue, Report, WorkerExit, Timeout
  <1>3. Effect
    <2>1. CASE Continue
      BY <1>1, <2>1, ContinueEffect DEF Continue
    <2>2. ASSUME NEW id \in 1..MaxAttempts, Report(id)
          PROVE  Effect
      <3>1. \E req \in ReportRequest :
               /\ req.state = "invalid_report" => req.pair = SystemPair["invalid_report"]
               /\ Expected(workflow, replayed.active.step, req.pair)
               /\ RecordAttemptReport(id, req)
        <4>1. \A req \in ReportsOf(replayed.active.step) :
                 req.state = "reported" /\ Expected(workflow, replayed.active.step, req.pair)
          BY DEF ReportsOf, Expected
        <4>2. /\ InvalidReport.pair = SystemPair["invalid_report"]
              /\ SystemPair["invalid_report"] \in LauncherPairs
          BY DEF InvalidReport, LauncherPairs, SystemPair
        <4> QED
          BY <2>2, <4>1, <4>2, ReportsOfType DEF Report, Expected
      <3> QED
        BY <1>1, <3>1, ReportEffect
    <2>3. CASE UNCHANGED storeVars
      BY <1>1, <2>3, UnchangedEffect
    <2> QED
      BY <2>1, <2>2, <2>3 DEF World, WorkerExit, Timeout
  <1>4. Idle(replayed) => UNCHANGED storeVars
    BY BlockedState
       DEF Idle, World, Continue, Report, WorkerExit, Timeout, ActiveIs, ContinuedOK, ResolvableBlock,
           AllowWorkflowLoopHardCap, AllowRepeatedReviewFinding, ResolveHumanBlock
  <1>5. ASSUME NEW b \in Commands
        PROVE  Fresh(pc[b], plan[b])'
    <2>1. PICK step, p : step = pc[b] /\ p = plan[b]
      OBVIOUS
    <2>2. pc'[b] = step /\ plan'[b] = p
      BY <1>2, <2>1 DEF commandVars
    <2>3. Fresh(step, p)
      BY <2>1 DEF RunInv, AllFresh
    <2>4. Fresh(step, p)'
      <3>1. CASE step \in {"update", "blockFinding", "start", "skip"}
        <4>1. Idle(replayed)
          BY <1>1, <2>3, <3>1, DecidedIdle
        <4> QED
          BY <1>4, <2>3, <4>1, FreshStays DEF storeVars
      <3>2. CASE step \notin {"update", "blockFinding", "start", "skip"}
        BY <2>3, <3>2 DEF Fresh
      <3> QED
        BY <3>1, <3>2
    <2> QED
      BY <2>2, <2>4 DEF Fresh
  <1> QED
    BY <1>3, <1>5 DEF AllFresh

LEMMA RecountMove ==
    ASSUME plan \in [Commands -> Plan], NEW c \in Commands,
           pc' = [pc EXCEPT ![c] = "recount"], plan' = plan, workflow' = plan[c].req.to
    PROVE  FreshMove(c)
  <1>1. plan' = [plan EXCEPT ![c] = plan[c]]
    OBVIOUS
  <1>2. Fresh("recount", plan[c])'
    BY DEF Fresh
  <1> QED
    BY <1>1, <1>2 DEF FreshMove

LEMMA RefreshFresh ==
    ASSUME CommandInv, RunInv, NEW c \in Commands, RefreshStep(c)
    PROVE  Dated /\ FreshMove(c)
  <1>1. TypeOK /\ accepted /\ plan \in [Commands -> Plan] /\ Fresh(pc[c], plan[c])
    BY DEF CommandInv, RunInv, AllFresh
  <1>2. CASE PlanRefresh(c) \/ FailRefresh(c)
    <2>1. QuietMove(c)
      BY <1>2, QuietSteps DEF PlanRefresh, FailRefresh, QuietMove
    <2> QED
      BY <1>1, <1>2, <2>1, QuietMoves, UnchangedEffect DEF PlanRefresh, FailRefresh, Dated
  <1>3. CASE PublishSnapshot(c) /\ UNCHANGED <<workflow, version>>
    <2>1. UNCHANGED <<storeVars, workflow, version, recorded>>
      BY <1>3 DEF PublishSnapshot
    <2>2. Effect
      BY <1>1, <2>1, UnchangedEffect
    <2>3. CASE Return(c)
      BY <2>1, <2>2, <2>3, QuietMoves DEF QuietMove, Dated
    <2>4. CASE ~Return(c)
      <3>1. /\ pc' = [pc EXCEPT ![c] = "recount"] /\ plan' = plan
            /\ workflow' = plan[c].req.to
        BY <1>3, <2>4 DEF PublishSnapshot, Goto
      <3> QED
        BY <1>1, <2>1, <2>2, <3>1, RecountMove DEF Dated
    <2> QED
      BY <2>3, <2>4
  <1>4. CASE PublishSnapshot(c) /\ ~UNCHANGED <<workflow, version>>
    <2> DEFINE to == plan[c].req.to
    <2>1. /\ UNCHANGED <<storeVars, recorded>> /\ workflow' = to /\ version' = version + 1
          /\ pc' = [pc EXCEPT ![c] = "recount"] /\ plan' = plan
          /\ pc[c] = "refresh" /\ Compatible(replayed, workflow, to)
      BY <1>4 DEF PublishSnapshot, Goto
    <2>2. to \in Valid
      BY <2>1, CommandPlan DEF Fits, RefreshPlan
    <2>3. Repointed
      BY <1>1, <2>1, <2>2 DEF Repointed, Compatible, NoFinding, storeVars
    <2> QED
      BY <1>1, <2>1, <2>3, RecountMove DEF Dated
  <1>5. CASE RecordRefresh(c)
    <2>1. /\ Return(c) /\ UNCHANGED workflow /\ pc[c] = "recount"
          /\ Commit([replayed EXCEPT !.counts = Rekeyed(replayed, plan[c].req.to)], TRUE,
                    [replayed EXCEPT !.counts = Rekeyed(replayed, plan[c].req.to)])
      BY <1>5 DEF RecordRefresh
    <2>2. plan[c].req.to = workflow
      BY <1>1, <2>1 DEF Fresh
    <2>3. Recounted
      BY <2>1, <2>2 DEF Recounted, Commit
    <2> QED
      BY <2>1, <2>3, QuietMoves DEF QuietMove, Dated
  <1> QED
    BY <1>2, <1>3, <1>4, <1>5 DEF RefreshStep

-----------------------------------------------------------------------------
(* The steps of a run, and what they keep.                                 *)

\* Advance plans to record a soft cap before it starts anything.
Warns(c) ==
    /\ LoopCap(workflow, replayed.counts, Decision(replayed)) = "soft"
    /\ Planned(c, "softCap",
          [NoPlan EXCEPT !.cap = CapOf(workflow, replayed.counts, Decision(replayed).target)])
    /\ UNCHANGED <<storeVars, workerVars, workflow>>

RunStep ==
    \/ CommandNext /\ UNCHANGED <<version, recorded>>
    \/ \E c \in Commands : RefreshStep(c) \/ (Warns(c) /\ UNCHANGED <<version, recorded>>)

LEMMA WarnsKept ==
    ASSUME CommandInv, NEW c \in Commands, Warns(c)
    PROVE  Kept
  <1> DEFINE d == Decision(replayed)
             cap == CapOf(workflow, replayed.counts, d.target)
             p == [NoPlan EXCEPT !.cap = cap]
  <1>1. /\ workflow \in Configuration /\ replayed \in Status
        /\ LoopCap(workflow, replayed.counts, d) = "soft"
        /\ UNCHANGED <<storeVars, workerVars>>
        /\ Planned(c, "softCap", p)
    BY Configured DEF CommandInv, TypeOK, Warns
  <1>2. d.target \in Steps
    <2>1. Leads(d)
      BY <1>1, DecisionLeads DEF Decision
    <2> HIDE DEF d
    <2> QED
      BY <1>1, <2>1, CappedStep DEF Leads
  <1>3. cap \in Cap
    BY <1>1, <1>2, CapOfType
  <1> HIDE DEF cap
  <1>4. p \in Plan /\ p.id = 0 /\ p.cap = cap
    BY <1>3 DEF NoPlan, Plan, Requests
  <1> HIDE DEF p
  <1>5. Fits("softCap", p)
    BY <1>3, <1>4 DEF Fits
  <1>6. "softCap" \in PCs \ PrepareSteps
    BY DEF PCs, PrepareSteps
  <1> QED
    BY <1>1, <1>4, <1>5, <1>6, PlansRequest

LEMMA PlanRefreshKept ==
    ASSUME CommandInv, version \in Nat, NEW c \in Commands, PlanRefresh(c)
    PROVE  Kept /\ UNCHANGED workflow
  <1>1. PICK wf \in LiveWorkflows :
           Planned(c, "refresh", [NoPlan EXCEPT !.req = [version |-> version, to |-> wf]])
    BY DEF PlanRefresh
  <1> DEFINE r == [version |-> version, to |-> wf]
             p == [NoPlan EXCEPT !.req = r]
  <1>2. wf \in Valid
    BY RefreshAssumption DEF Valid, ValidConfiguration
  <1>3. r \in RefreshPlan
    BY <1>2 DEF RefreshPlan
  <1>4. Planned(c, "refresh", p)
    BY <1>1
  <1> HIDE DEF r
  <1>5. r \in Requests
    BY <1>3 DEF Requests
  <1>6. p \in Plan /\ p.id = 0 /\ p.req = r
    BY <1>5, RequestPlan
  <1> HIDE DEF p
  <1>7. Fits("refresh", p)
    BY <1>3, <1>6 DEF Fits
  <1>8. "refresh" \in PCs \ PrepareSteps
    BY DEF PCs, PrepareSteps
  <1> QED
    BY <1>4, <1>6, <1>7, <1>8, PlansRequest DEF PlanRefresh

LEMMA PublishKeeps ==
    ASSUME CommandInv, NEW c \in Commands, PublishSnapshot(c)
    PROVE  CommandInv'
  <1>1. StoreKept /\ ProcKept /\ UNCHANGED <<storeVars, workerVars>>
    BY ProcSame DEF PublishSnapshot, StoreKept, workerVars
  <1>2. CASE Return(c) /\ UNCHANGED workflow
    BY <1>1, <1>2, Returns, KeptKeeps DEF Kept, CommandInv
  <1>3. CASE ~(Return(c) /\ UNCHANGED workflow)
    <2> DEFINE to == plan[c].req.to
    <2>1. /\ pc[c] = "refresh" /\ workflow' = to
          /\ pc' = [pc EXCEPT ![c] = "recount"] /\ plan' = plan
      BY <1>3 DEF PublishSnapshot, Goto
    <2>2. to \in Valid
      BY <2>1, CommandPlan DEF Fits, RefreshPlan
    <2>3. /\ "recount" \in PCs /\ "recount" \notin PrepareSteps
          /\ Fits("recount", plan[c]) /\ Tracks("recount", plan[c], replayed.attempts)
      BY <2>1, CommandPlan DEF PCs, PrepareSteps, Fits, Tracks
    <2> HIDE DEF to
    <2> QED
      BY <1>1, <2>1, <2>2, <2>3 DEF CommandInv, workerVars, storeVars, TypeOK, HistoryOK
  <1> QED
    BY <1>2, <1>3

LEMMA RecordKeeps ==
    ASSUME CommandInv, NEW c \in Commands, RecordRefresh(c)
    PROVE  CommandInv'
  <1> DEFINE t == [replayed EXCEPT !.counts = Rekeyed(replayed, plan[c].req.to)]
  <1>1. Commit(t, TRUE, t) /\ Return(c) /\ UNCHANGED <<workerVars, workflow>>
    BY DEF RecordRefresh
  <1>2. Rekeyed(replayed, plan[c].req.to) \in [Keys -> Nat]
    BY RekeyedType DEF CommandInv, TypeOK
  <1>3. /\ t \in Status /\ t.attempts = replayed.attempts /\ t.active = replayed.active
        /\ t.state = replayed.state
    BY <1>2 DEF CommandInv, TypeOK, Status
  <1> HIDE DEF t
  <1>4. TypeOK' /\ HistoryOK' /\ replayed'.attempts = replayed.attempts
    <2>1. replayed' = t /\ accepted' = TRUE /\ file' \in {t, file}
      BY <1>1 DEF Commit
    <2>2. TypeOK'
      BY <2>1, <1>3 DEF CommandInv, TypeOK
    <2>3. GoodHistory(t)
      BY <1>3 DEF CommandInv, HistoryOK, GoodHistory, LastAttempt
    <2> QED
      BY <2>1, <2>2, <2>3, <1>3 DEF HistoryOK
  <1>5. /\ pc' = [pc EXCEPT ![c] = "idle"] /\ plan' = [plan EXCEPT ![c] = NoPlan]
        /\ NoPlan \in Plan /\ Fits("idle", NoPlan) /\ NoPlan.id = 0
        /\ "idle" \in PCs /\ "idle" \notin PrepareSteps
    BY <1>1, NoPlanFits DEF Return, Goto, NoPlan, PCs, PrepareSteps, Fits
  <1>6. Tracks("idle", NoPlan, replayed'.attempts)
    BY <1>4, <1>5 DEF Tracks, CommandInv, TypeOK, Status
  <1> QED
    BY <1>1, <1>4, <1>5, <1>6 DEF CommandInv, workerVars

LEMMA FailKept ==
    ASSUME CommandInv, NEW c \in Commands, FailRefresh(c)
    PROVE  Kept /\ UNCHANGED workflow
  <1>1. StoreKept /\ ProcKept
    BY ProcSame DEF FailRefresh, StoreKept, workerVars
  <1> QED
    BY <1>1, Returns DEF FailRefresh, Kept

LEMMA RunStepKeeps ==
    ASSUME CommandInv, version \in Nat, RunStep
    PROVE  CommandInv'
  <1>1. CASE CommandNext
    BY <1>1, NextKept, KeptKeeps DEF CommandInv
  <1>2. ASSUME NEW c \in Commands, PlanRefresh(c)
        PROVE  CommandInv'
    BY <1>2, PlanRefreshKept, KeptKeeps DEF CommandInv
  <1>3. ASSUME NEW c \in Commands, PublishSnapshot(c) \/ RecordRefresh(c) \/ FailRefresh(c)
        PROVE  CommandInv'
    BY <1>3, PublishKeeps, RecordKeeps, FailKept, KeptKeeps DEF CommandInv
  <1>4. ASSUME NEW c \in Commands, Warns(c)
        PROVE  CommandInv'
    BY <1>4, WarnsKept, KeptKeeps DEF CommandInv, Warns
  <1> QED
    BY <1>1, <1>2, <1>3, <1>4 DEF RunStep, RefreshStep

LEMMA CommandStepFresh ==
    ASSUME CommandInv, RunInv, NEW c \in Commands, CommandStep(c)
    PROVE  Effect /\ FreshMove(c)
  <1>1. UNCHANGED workflow /\ TypeOK /\ accepted /\ AllFresh /\ plan \in [Commands -> Plan]
    BY DEF CommandStep, CommandInv, RunInv
  <1>2. CASE \/ PlanRecovery(c) \/ Spawn(c) \/ SpawnCommand(c) \/ Release(c) \/ Abort(c)
             \/ WaitExit(c) \/ WaitTimeout(c) \/ PollReport(c) \/ GraceExceeded(c) \/ Collect(c)
    BY <1>1, <1>2, ApartFresh, QuietMoves, UnchangedEffect
  <1>3. CASE SetupError(c) \/ CommandExit(c) \/ CommandTimeout(c)
    BY <1>1, <1>3, OutcomeFresh, UnchangedEffect
  <1>4. CASE PlanLaunch(c)
    BY <1>1, <1>4, PlanLaunchFresh, UnchangedEffect
  <1>5. CASE \/ Recover(c) \/ Finish(c) \/ Warn(c) \/ RecordSoftCap(c)
             \/ RenderPrompt(c) \/ RecordPrompt(c) \/ OpenLog(c) \/ RecordLog(c)
             \/ RecordProcess(c) \/ RecordCommand(c)
    BY <1>1, <1>5, OperationFresh
  <1>6. CASE WriteOutput(c) \/ ReportCommand(c)
    BY <1>1, <1>6, WriteOutputFresh, ReportCommandFresh
  <1>7. CASE Terminalize(c) \/ BlockFinding(c) \/ BlockCap(c)
    BY <1>1, <1>7, ActsFresh
  <1>8. CASE Start(c)
    BY <1>1, <1>8, StartFresh
  <1>9. CASE Skip(c)
    BY <1>1, <1>9, SkipFresh
  <1> QED
    BY <1>2, <1>3, <1>4, <1>5, <1>6, <1>7, <1>8, <1>9 DEF CommandStep

LEMMA EnvironmentFresh ==
    ASSUME CommandInv, RunInv, Environment
    PROVE  Effect /\ (AllFresh' \/ \E c \in Commands : FreshMove(c))
  <1>1. UNCHANGED workflow /\ TypeOK /\ accepted /\ plan \in [Commands -> Plan]
    BY DEF Environment, CommandInv, RunInv
  <1>2. ASSUME NEW c \in Commands,
               \/ InterruptSoftCap(c) \/ Cancel(c) \/ InterruptWait(c) \/ FailSpawn(c) \/ Crash(c)
        PROVE  Effect /\ FreshMove(c)
    BY <1>1, <1>2, ApartFresh, QuietMoves, UnchangedEffect
  <1>3. ASSUME NEW c \in Commands, InterruptCommand(c)
        PROVE  Effect /\ FreshMove(c)
    BY <1>1, <1>3, OutcomeFresh, UnchangedEffect
  <1>4. ASSUME NEW c \in Commands, PlanSkip(c)
        PROVE  Effect /\ FreshMove(c)
    BY <1>1, <1>4, PlanSkipFresh, UnchangedEffect
  <1>5. CASE World
    BY <1>1, <1>5, WorldFresh
  <1> QED
    BY <1>2, <1>3, <1>4, <1>5 DEF Environment, Interrupt

\* Whatever happens to a run has one of the effects above, and one command at a
\* time leaves decisions fresh.
LEMMA RunStepEffect ==
    ASSUME Alone, CommandInv, RunInv, RunStep
    PROVE  Dated /\ AllFresh'
  <1>1. Dated /\ (AllFresh' \/ \E c \in Commands : FreshMove(c))
    <2>1. ASSUME NEW c \in Commands, CommandStep(c)
          PROVE  Effect /\ FreshMove(c)
      BY <2>1, CommandStepFresh
    <2>2. ASSUME NEW c \in Commands, RefreshStep(c)
          PROVE  Dated /\ FreshMove(c)
      BY <2>2, RefreshFresh
    <2>3. ASSUME NEW c \in Commands, Warns(c)
          PROVE  Effect /\ FreshMove(c)
      <3>1. UNCHANGED <<storeVars, workflow>> /\ QuietMove(c)
        BY <2>3, QuietSteps DEF Warns, QuietMove
      <3> QED
        BY <3>1, QuietMoves, UnchangedEffect DEF CommandInv, RunInv
    <2> QED
      BY <2>1, <2>2, <2>3, EnvironmentFresh DEF RunStep, CommandNext, Dated
  <1> QED
    BY <1>1, MoveFresh

LEMMA RunStepKeepsRun ==
    ASSUME Alone, CommandInv, RunInv, RunStep,
           version \in Nat, recorded \in Nat, recorded <= version
    PROVE  CommandInv' /\ RunInv'
  <1>1. CommandInv'
    BY RunStepKeeps
  <1>2. Dated /\ AllFresh'
    BY RunStepEffect
  <1>3. StatusInv(workflow', replayed', recorded' = version')
    BY <1>1, <1>2, DatedKeeps DEF CommandInv, RunInv, TypeOK
  <1>4. accepted'
    BY <1>2 DEF Dated, Effect, Repointed, Recounted
  <1> QED
    BY <1>1, <1>2, <1>3, <1>4 DEF RunInv, StatusInv, EndedPairs, OneBlock, LastEntered, Answers,
       CountsFollow

LEMMA RunInvInit ==
    ASSUME CommandInit
    PROVE  RunInv
  <1>1. TypeOK /\ workflow \in Valid
    BY CommandInitInv DEF CommandInv
  <1>2. /\ replayed = InitialStatus(workflow.start) /\ workflow.start \in Steps
        /\ accepted
    BY <1>1 DEF CommandInit, Valid, Configuration
  <1>3. AllFresh
    BY DEF CommandInit, AllFresh, Fresh
  <1>4. /\ replayed.attempts = <<>> /\ Len(replayed.entries) = 1 /\ replayed.active = None
        /\ replayed.entries[1].state = workflow.start /\ replayed.entries[1].count = 0
        /\ replayed.counts = [k \in Keys |-> 0]
        /\ replayed.hardBlock = None /\ replayed.findBlock = None /\ replayed.findOverride = None
    BY <1>2 DEF InitialStatus, InitialEntry
  <1>5. EndedPairs(replayed) /\ OneBlock(replayed) /\ Answers(workflow, replayed)
    BY <1>4 DEF EndedPairs, OneBlock, Answers
  <1>6. LastEntered(replayed)
    BY <1>2, <1>4 DEF LastEntered, Entered
  <1>7. CountsFollow(workflow, replayed)
    <2>1. ASSUME NEW k \in Keys
          PROVE  CountedOn(workflow, replayed, k) = {}
      BY <1>4 DEF CountedOn
    <2> QED
      BY <1>4, <2>1, FS_EmptySet DEF CountsFollow
  <1> QED
    BY <1>2, <1>3, <1>5, <1>6, <1>7 DEF RunInv, StatusInv

-----------------------------------------------------------------------------
(* What starts, skips and ends do to a run.                                *)

LEMMA EntryMade ==
    ASSUME NEW s \in Status, NEW t, NEW r \in EntryRequest,
           t.counts = CountsAfter(s, EntryFor(s, r)),
           t.entries = EntriesAfter(s, EntryFor(s, r))
    PROVE  /\ Len(t.entries) = Len(s.entries) + 1
           /\ Entered(t).state = r.state /\ Entered(t).prev = r.prev /\ Entered(t).pair = r.pair
           /\ t.counts = [s.counts EXCEPT ![r.key] = s.counts[r.key] + 1]
  <1> DEFINE e == NextEntry(s, r)
  <1>1. s.counts \in [Keys -> Nat] /\ s.entries \in Seq(Entry)
    BY DEF Status
  <1>2. /\ e \in Entry /\ e.key \in Keys /\ e.count = s.counts[r.key] + 1
        /\ e.state = r.state /\ e.key = r.key /\ e.prev = r.prev /\ e.pair = r.pair
    BY <1>1 DEF NextEntry, EntryRequest, Entry
  <1>3. EntryFor(s, r) = e /\ e # None
    BY <1>2, NoneAssumption DEF EntryFor
  <1> HIDE DEF e
  <1>4. e.count # 0
    BY <1>1, <1>2 DEF EntryRequest
  <1>5. t.entries = Append(s.entries, e) /\ t.counts = [s.counts EXCEPT ![e.key] = e.count]
    BY <1>3, <1>4 DEF CountsAfter, EntriesAfter
  <1>6. Len(t.entries) = Len(s.entries) + 1 /\ Entered(t) = e
    BY <1>1, <1>2, <1>5 DEF Entered
  <1> QED
    BY <1>2, <1>5, <1>6

LEMMA BegunRun ==
    ASSUME CommandInv, Begun
    PROVE  LET d == Decision(replayed)
               latest == LatestConsumable(replayed)
           IN  /\ Idle(replayed) /\ d.target \in Steps
               /\ d.kind \in {"select", "retry"}
               /\ Len(replayed'.attempts) = Len(replayed.attempts) + 1
               /\ LastAttempt(replayed').step = d.target
               /\ LastAttempt(replayed').state = "starting"
               /\ Marked(replayed.attempts, replayed'.attempts, latest, d.kind = "retry")
               /\ d.kind = "retry" => replayed'.entries = replayed.entries
                                      /\ replayed'.counts = replayed.counts
               /\ d.kind = "select" =>
                     /\ Len(replayed'.entries) = Len(replayed.entries) + 1
                     /\ Entered(replayed').state = d.target
                     /\ replayed'.counts =
                          [replayed.counts EXCEPT ![workflow.key[d.target]] =
                             replayed.counts[workflow.key[d.target]] + 1]
               /\ replayed'.hardOverride = IF CapOverride(replayed, d) # None THEN None
                                           ELSE replayed.hardOverride
               /\ replayed'.findOverride = IF FindingOverride(replayed, d, latest) # None THEN None
                                           ELSE replayed.findOverride
               /\ replayed'.state = replayed.state /\ replayed'.softCaps = replayed.softCaps
               /\ replayed'.active # None
  <1> DEFINE s == replayed
             d == Decision(s)
             latest == LatestConsumable(s)
             req == RequestOf(s, d)
             a == NewAttempt(Len(s.attempts) + 1, req.step, req.fix)
             g == HistoryAfterStart(s, req.consume, req.retry, a)
             t == LiveStart(s, req)
  <1>0. s \in Status /\ workflow \in Configuration
    BY Configured DEF CommandInv, TypeOK
  <1>1. /\ d.kind \in {"select", "retry"} /\ Idle(s)
        /\ d.kind = "retry" => latest # 0
    BY <1>0, DecisionCases DEF Begun, Startable, Idle, Status, Decision
  <1>2. Leads(d) /\ d.target \in Steps
    BY <1>0, <1>1, DecisionLeads DEF Leads, Decision
  <1>3. /\ req.step = d.target /\ req.consume = latest
        /\ req.retry = IF d.kind = "retry" THEN d.retry ELSE None
        /\ req.entry = EntryOf(s, d)
        /\ req.hardOverride = CapOverride(s, d)
        /\ req.findOverride = FindingOverride(s, d, latest)
    BY DEF RequestOf
  <1>4. /\ t.state = s.state /\ t.active = a /\ t.attempts = g
        /\ t.counts = CountsAfter(s, EntryFor(s, req.entry))
        /\ t.entries = EntriesAfter(s, EntryFor(s, req.entry))
        /\ t.softCaps = s.softCaps
        /\ t.hardOverride = IF req.hardOverride # None THEN None ELSE s.hardOverride
        /\ t.findOverride = IF req.findOverride # None THEN None ELSE s.findOverride
    BY <1>0 DEF LiveStart, Status
  <1>5. a \in Attempt /\ a.state = "starting" /\ a.step = d.target /\ a # None
    <2>1. Len(s.attempts) + 1 \in Nat
      BY <1>0 DEF Status
    <2>2. req.fix \in Targets \union {NoTarget}
      BY <1>0, <1>2, LauncherAssumption DEF Configuration, RequestOf
    <2>3. a \in Attempt /\ a.state = "starting" /\ a.step = d.target
      BY <1>2, <1>3, <2>1, <2>2 DEF NewAttempt, Attempt, AttemptStates, LiveStates
    <2> QED
      BY <2>3, NoneAssumption
  <1>6. latest \in 0..Len(s.attempts) /\ Len(s.attempts) \in Nat
    BY <1>0, LatestConsumableType, LengthType
  <1>7. /\ Len(g) = Len(s.attempts) + 1 /\ g[Len(g)] = a
        /\ Marked(s.attempts, g, req.consume, req.retry # None)
    BY <1>0, <1>3, <1>5, <1>6, StartMarks
  <1>8. (req.retry # None) <=> (d.kind = "retry")
    BY <1>2, <1>3, NoneAssumption DEF Leads
  <1>9. replayed' = t
    BY DEF Begun
  <1>10. EntryOf(s, d) = IF d.kind # "select" THEN None ELSE EntryOf(s, d)
    BY DEF EntryOf
  <1>11. d.kind = "select" =>
           /\ EntryOf(s, d) \in EntryRequest /\ EntryOf(s, d).state = d.target
           /\ EntryOf(s, d).key = workflow.key[d.target]
    <2> SUFFICES ASSUME d.kind = "select"
                 PROVE  /\ EntryOf(s, d) \in EntryRequest /\ EntryOf(s, d).state = d.target
                        /\ EntryOf(s, d).key = workflow.key[d.target]
      OBVIOUS
    <2> DEFINE by == EntryTrigger(s)
    <2>1. EntryOf(s, d) = [state |-> d.target, key |-> workflow.key[d.target],
                           prev |-> IF by = None THEN None ELSE by.step,
                           pair |-> IF by = None THEN None ELSE by.pair]
      BY DEF EntryOf
    <2> HIDE DEF by, d
    <2>2. workflow.key[d.target] \in Keys /\ d.target \in Targets
      BY <1>0, <1>2 DEF Configuration, Targets
    <2>3. by \in Attempt \union {None}
      BY <1>0, EntryTriggerType DEF by
    <2> QED
      BY <2>1, <2>2, <2>3 DEF EntryRequest, Attempt
  <1> HIDE DEF req, a, g, t, latest, d
  <1>12. d.kind = "retry" => t.entries = s.entries /\ t.counts = s.counts
    <2>1. d.kind = "retry" => req.entry = None
      BY <1>3, <1>10
    <2> QED
      BY <1>4, <2>1 DEF EntryFor, EntriesAfter, CountsAfter
  <1>13. d.kind = "select" =>
           /\ Len(t.entries) = Len(s.entries) + 1
           /\ Entered(t).state = d.target
           /\ t.counts = [s.counts EXCEPT ![workflow.key[d.target]] =
                            s.counts[workflow.key[d.target]] + 1]
    <2> SUFFICES ASSUME d.kind = "select"
                 PROVE  /\ Len(t.entries) = Len(s.entries) + 1
                        /\ Entered(t).state = d.target
                        /\ t.counts = [s.counts EXCEPT ![workflow.key[d.target]] =
                                         s.counts[workflow.key[d.target]] + 1]
      OBVIOUS
    <2>1. /\ req.entry \in EntryRequest /\ req.entry.state = d.target
          /\ req.entry.key = workflow.key[d.target]
      BY <1>3, <1>11
    <2>2. /\ Len(t.entries) = Len(s.entries) + 1
          /\ Entered(t).state = req.entry.state
          /\ t.counts = [s.counts EXCEPT ![req.entry.key] = s.counts[req.entry.key] + 1]
      BY <1>0, <1>4, <2>1, EntryMade
    <2> QED
      BY <2>1, <2>2
  <1>14. Marked(s.attempts, g, latest, d.kind = "retry")
    <2>1. req.consume = latest
      BY <1>3
    <2>2. CASE d.kind = "retry"
      BY <1>7, <1>8, <2>1, <2>2 DEF Marked
    <2>3. CASE d.kind # "retry"
      BY <1>7, <1>8, <2>1, <2>3 DEF Marked
    <2> QED
      BY <2>2, <2>3
  <1>15. LastAttempt(t) = a
    BY <1>4, <1>7 DEF LastAttempt
  <1>16. /\ Len(t.attempts) = Len(s.attempts) + 1
         /\ Marked(s.attempts, t.attempts, latest, d.kind = "retry")
    BY <1>4, <1>7, <1>14
  <1>17. /\ t.hardOverride = IF CapOverride(s, d) # None THEN None ELSE s.hardOverride
         /\ t.findOverride = IF FindingOverride(s, d, latest) # None THEN None ELSE s.findOverride
    BY <1>3, <1>4
  <1>18. /\ Idle(s) /\ d.target \in Steps /\ d.kind \in {"select", "retry"}
         /\ LastAttempt(t).step = d.target /\ LastAttempt(t).state = "starting"
         /\ t.state = s.state /\ t.softCaps = s.softCaps /\ t.active # None
    BY <1>1, <1>2, <1>4, <1>5, <1>15
  <1> QED
    BY <1>9, <1>12, <1>13, <1>16, <1>17, <1>18 DEF d, latest

LEMMA SkippedRun ==
    ASSUME CommandInv, NEW step \in Steps, SkippedBy(step)
    PROVE  LET d == SkipDecision(workflow, replayed, step)
               key == IF d.kind = "select" THEN workflow.key[d.target] ELSE d.target
           IN  /\ Idle(replayed) /\ Leads(d) /\ d.kind \in {"select", "terminal"}
               /\ Len(replayed'.attempts) = Len(replayed.attempts)
               /\ Marked(replayed.attempts, replayed'.attempts, LatestConsumable(replayed), FALSE)
               /\ Len(replayed'.entries) = Len(replayed.entries) + 1
               /\ Entered(replayed').state = d.target
               /\ replayed'.counts = [replayed.counts EXCEPT ![key] = replayed.counts[key] + 1]
               /\ replayed'.softCaps = replayed.softCaps
  <1> DEFINE s == replayed
             wf == workflow
             d == SkipDecision(wf, s, step)
             key == IF d.kind = "select" THEN wf.key[d.target] ELSE d.target
             req == SkipRequestFor(wf, s, step)
             latest == LatestConsumable(s)
             g == SkippedHistory(s, latest)
             t == LiveSkip(s, req)
  <1>0. s \in Status /\ wf \in Configuration /\ wf \in Valid
    BY Configured DEF CommandInv, TypeOK
  <1>1. /\ s.state = Running /\ s.active = None
        /\ step \in wf.skippable /\ d.kind \in {"select", "terminal"}
    BY DEF MaySkip, SkipValidator, SkippedBy
  <1>2. Leads(d) /\ SkipPair \in Pairs
    BY <1>0, <1>1, SkipDecisionLeads
  <1>3. /\ req.entry \in EntryRequest /\ req.entry.state = d.target /\ req.entry.key = key
    <2>1. req.entry = [state |-> d.target, key |-> key, prev  |-> step, pair |-> SkipPair]
      BY DEF SkipRequestFor
    <2>2. d.target \in Targets /\ key \in Keys
      <3>1. wf.key \in [Steps -> Keys]
        BY <1>0 DEF Configuration
      <3> QED
        BY <1>1, <1>2, <3>1, WorkflowAssumption DEF Leads, Targets
    <2> HIDE DEF d, key, req
    <2> QED
      BY <1>2, <2>1, <2>2 DEF EntryRequest
  <1>4. /\ t.attempts = g /\ t.softCaps = s.softCaps
        /\ t.counts = CountsAfter(s, EntryFor(s, req.entry))
        /\ t.entries = EntriesAfter(s, EntryFor(s, req.entry))
    BY <1>0 DEF LiveSkip, Status
  <1>5. Len(g) = Len(s.attempts) /\ Marked(s.attempts, g, latest, FALSE)
    <2>1. latest \in Nat /\ (latest # 0 => latest \in 1..Len(s.attempts))
      BY <1>0, LatestConsumableType, LengthType
    <2> HIDE DEF latest
    <2> QED
      BY <1>0, <2>1, SkipMarks
  <1>6. replayed' = t
    BY DEF SkippedBy
  <1> HIDE DEF req, g, t, latest, d, key
  <1>7. /\ Len(t.entries) = Len(s.entries) + 1 /\ Entered(t).state = d.target
        /\ t.counts = [s.counts EXCEPT ![key] = s.counts[key] + 1]
    BY <1>0, <1>3, <1>4, EntryMade
  <1> QED
    BY <1>1, <1>2, <1>4, <1>5, <1>6, <1>7 DEF Idle, d, latest, key

LEMMA EffectMade ==
    ASSUME CommandInv, Moved
    PROVE  /\ Len(replayed'.entries) > Len(replayed.entries) =>
                UNCHANGED workflow /\ (Begun \/ Closed \/ \E step \in Steps : SkippedBy(step))
           /\ Len(replayed'.attempts) > Len(replayed.attempts) => UNCHANGED workflow /\ Begun
  <1>1. /\ replayed \in Status /\ Len(replayed.attempts) \in Nat /\ Len(replayed.entries) \in Nat
        /\ replayed.attempts \in Seq(Attempt)
    BY DEF CommandInv, TypeOK, Status
  <1>2. CASE Noted
    BY <1>1, <1>2 DEF Noted, Alike
  <1>3. CASE Edited
    BY <1>1, <1>3 DEF Edited, EditedTo
  <1>4. CASE Held
    <2>1. replayed'.attempts = replayed.attempts /\ replayed'.entries = replayed.entries
      BY <1>1, <1>4 DEF Held, HardCapped, FindingBlocked, Status
    <2> QED
      BY <1>1, <2>1
  <1>5. CASE Answered
    <2>1. replayed'.attempts = replayed.attempts /\ replayed'.entries = replayed.entries
      BY <1>1, <1>5 DEF Answered, HardCapOverridden, FindingOverridden, Continued, Status
    <2> QED
      BY <1>1, <2>1
  <1>6. CASE Repointed \/ Recounted
    <2>1. replayed'.attempts = replayed.attempts /\ replayed'.entries = replayed.entries
      BY <1>1, <1>6 DEF Repointed, Recounted, Status
    <2> QED
      BY <1>1, <2>1
  <1>7. CASE UNCHANGED workflow /\ Closed
    <2>1. replayed'.attempts = replayed.attempts
      BY <1>1, <1>7 DEF Closed, InState, Status
    <2> QED
      BY <1>1, <1>7, <2>1
  <1>8. ASSUME NEW step \in Steps, UNCHANGED workflow, SkippedBy(step)
        PROVE  Len(replayed'.attempts) = Len(replayed.attempts)
    BY <1>8, SkippedRun
  <1> QED
    BY <1>1, <1>2, <1>3, <1>4, <1>5, <1>6, <1>7, <1>8 DEF Moved, Effect

LEMMA ClosedRun ==
    ASSUME CommandInv, Closed
    PROVE  LET d == Decision(replayed)
           IN  /\ d.target \in TerminalStates
               /\ Len(replayed'.entries) = Len(replayed.entries) + 1
               /\ Entered(replayed').state = d.target
               /\ replayed'.state = d.target
               /\ replayed'.attempts = replayed.attempts
               /\ replayed'.softCaps = replayed.softCaps
               /\ replayed'.counts =
                    [replayed.counts EXCEPT ![d.target] = replayed.counts[d.target] + 1]
  <1> DEFINE s == replayed
             d == Decision(s)
             latest == LatestConsumable(s)
             r == TerminalEntry(s.attempts[latest], d.target)
             req == EndOf(s, d)
             t == InState(s, req)
  <1>1. s \in Status /\ workflow \in Configuration
    BY Configured DEF CommandInv, TypeOK
  <1>2. Leads(d) /\ d.kind = "terminal" /\ latest # 0
    BY <1>1, DecisionLeads DEF Decision, Closed, Over
  <1>3. req \in UpdateRequest
    BY <1>1, <1>2, TerminalPlanFits DEF EndOf
  <1>4. d.target \in TerminalStates /\ d.target \in Keys
    BY <1>2, WorkflowAssumption DEF Leads
  <1>5. /\ req.state = d.target /\ req.entry = r /\ r.state = d.target /\ r.key = d.target
    BY DEF EndOf, TerminalEntry
  <1>6. r \in EntryRequest
    <2>1. s.attempts[latest].step \in Steps /\ s.attempts[latest].pair \in Pairs
      BY <1>1, <1>2, LatestOutcome
    <2> HIDE DEF latest, d
    <2> QED
      BY <1>4, <2>1 DEF TerminalEntry, EntryRequest, Targets
  <1>7. /\ t.state = req.state /\ t.attempts = s.attempts /\ t.softCaps = s.softCaps
        /\ t.counts = CountsAfter(s, EntryFor(s, req.entry))
        /\ t.entries = EntriesAfter(s, EntryFor(s, req.entry))
    BY <1>1 DEF InState, Status
  <1>8. replayed' = t
    BY DEF Closed
  <1> HIDE DEF t, r, req, d
  <1>9. /\ Len(t.entries) = Len(s.entries) + 1 /\ Entered(t).state = r.state
        /\ t.counts = [s.counts EXCEPT ![r.key] = s.counts[r.key] + 1]
    <2>1. req.entry \in EntryRequest
      BY <1>5, <1>6
    <2>2. /\ Len(t.entries) = Len(s.entries) + 1 /\ Entered(t).state = req.entry.state
          /\ t.counts = [s.counts EXCEPT ![req.entry.key] = s.counts[req.entry.key] + 1]
      BY <1>1, <1>7, <2>1, EntryMade
    <2> QED
      BY <1>5, <2>2
  <1> QED
    BY <1>4, <1>5, <1>7, <1>8, <1>9 DEF d

LEMMA NotTerminal == \A step \in Steps : step \notin TerminalStates
  BY WorkflowAssumption DEF RunStates

LEMMA CapHeld ==
    ASSUME CommandInv, Moved, NEW step \in Steps, workflow.capped,
           Len(replayed'.entries) > Len(replayed.entries), Entered(replayed').state = step,
           replayed'.counts[workflow.key[step]] > workflow.hard[step]
    PROVE  replayed.hardOverride # None /\ replayed'.hardOverride = None
  <1> DEFINE k == workflow.key[step]
  <1>1. /\ replayed.counts \in [Keys -> Nat] /\ k \in Keys /\ workflow.hard[step] \in Nat
        /\ workflow \in Configuration
    BY Configured DEF CommandInv, TypeOK, Status, Configuration
  <1>2. step \notin TerminalStates
    BY NotTerminal
  <1>3. ~Closed
    BY <1>2, ClosedRun
  <1>4. ASSUME NEW x \in Steps, SkippedBy(x)
        PROVE  FALSE
    <2> DEFINE d == SkipDecision(workflow, replayed, x)
    <2>1. Leads(d) /\ d.kind \in {"select", "terminal"} /\ Entered(replayed').state = d.target
      BY <1>4, SkippedRun
    <2>2. SkipCap(workflow, replayed, x) # "hard"
      BY <1>4 DEF SkippedBy
    <2> HIDE DEF d
    <2>3. d.kind = "select" /\ d.target = step
      BY <1>2, <2>1 DEF Leads
    <2>4. LoopCap(workflow, replayed.counts, d) # "hard"
      BY <2>2 DEF SkipCap, d
    <2>5. replayed'.counts = [replayed.counts EXCEPT ![k] = replayed.counts[k] + 1]
      BY <1>4, <2>3, SkippedRun DEF d
    <2>6. replayed.counts[k] + 1 > workflow.hard[step]
      BY <1>1, <2>5
    <2>7. CapOf(workflow, replayed.counts, step).after >= workflow.hard[step] + 1
          /\ CapOf(workflow, replayed.counts, step).target = step
      BY <1>1, <2>6 DEF CapOf
    <2> QED
      BY <2>3, <2>4, <2>7 DEF LoopCap, HardCapHit
  <1>5. Begun
    BY <1>3, <1>4, EffectMade
  <1> DEFINE d == Decision(replayed)
  <1>6. d.kind = "select" /\ d.target = step
    <2>1. d.kind \in {"select", "retry"} /\ (d.kind = "retry" => replayed'.entries = replayed.entries)
      BY <1>5, BegunRun
    <2>2. Len(replayed.entries) \in Nat
      BY DEF CommandInv, TypeOK, Status
    <2>3. d.kind = "select"
      BY <2>1, <2>2
    <2>4. d.kind = "select" => Entered(replayed').state = d.target
      BY <1>5, BegunRun
    <2> QED
      BY <2>3, <2>4
  <1>7. /\ replayed'.counts = [replayed.counts EXCEPT ![k] = replayed.counts[k] + 1]
        /\ replayed'.hardOverride = IF CapOverride(replayed, d) # None THEN None
                                    ELSE replayed.hardOverride
    BY <1>5, <1>6, BegunRun
  <1>8. LoopCap(workflow, replayed.counts, d) = "hard" => CapOverride(replayed, d) # None
    BY <1>5 DEF Begun, Startable
  <1> HIDE DEF d
  <1>9. replayed.counts[k] + 1 > workflow.hard[step]
    BY <1>1, <1>7
  <1>10. CapOf(workflow, replayed.counts, step).after >= workflow.hard[step] + 1
         /\ CapOf(workflow, replayed.counts, step).target = step
    BY <1>1, <1>9 DEF CapOf
  <1>11. LoopCap(workflow, replayed.counts, d) = "hard"
    BY <1>6, <1>10 DEF LoopCap, HardCapHit
  <1> QED
    BY <1>7, <1>8, <1>11 DEF CapOverride

LEMMA OutcomeUsed ==
    ASSUME NEW sure, CommandInv, StatusInv(workflow, replayed, sure), Moved,
           Len(replayed'.attempts) > Len(replayed.attempts), replayed.attempts # <<>>
    PROVE  \/ replayed'.attempts[Len(replayed.attempts)].consumed
           \/ Resolved(replayed)
  <1> DEFINE n == Len(replayed.attempts)
             a == LastAttempt(replayed)
             latest == LatestConsumable(replayed)
  <1>1. n \in 1..n /\ a = replayed.attempts[n] /\ a \in Attempt
    BY LastAttemptType DEF CommandInv, TypeOK, LastAttempt
  <1>2. Begun
    BY EffectMade
  <1>3. /\ Idle(replayed)
        /\ Marked(replayed.attempts, replayed'.attempts, latest, Decision(replayed).kind = "retry")
    BY <1>2, BegunRun
  <1>4. replayed'.attempts[n].consumed <=> a.consumed \/ n = latest
    BY <1>1, <1>3 DEF Marked
  <1>5. CASE RoutingOutcome(a)
    <2>1. latest = n \/ (replayed.continued # None /\ replayed.continued.attempt = n)
      BY <1>3, <1>5 DEF LatestConsumable, Idle
    <2> QED
      BY <1>3, <1>4, <2>1 DEF Resolved, Idle
  <1>6. CASE ~RoutingOutcome(a)
    <2>1. a.state \notin LiveStates /\ (a.superseded => a.consumed)
      BY <1>1, <1>3 DEF CommandInv, HistoryOK, GoodHistory, Idle
    <2>2. a.state = "reported" => a.pair # None
      BY <1>1 DEF StatusInv, EndedPairs
    <2>3. a.state \in DOMAIN SystemPair => a.pair = SystemPair[a.state]
      BY <1>1 DEF StatusInv, EndedPairs
    <2>4. a.state = "reported" \/ a.state \in DOMAIN SystemPair
      BY <1>1, <2>1 DEF Attempt, AttemptStates, ReportedStates, EndStates, SystemPair
    <2>5. a.consumed
      BY <1>6, <2>1, <2>2, <2>3, <2>4 DEF RoutingOutcome
    <2> QED
      BY <1>4, <2>5
  <1> QED
    BY <1>5, <1>6

LEMMA CorrectionReviewed ==
    ASSUME CommandInv, Moved,
           Len(replayed'.attempts) > Len(replayed.attempts), replayed.attempts # <<>>,
           AcceptedFinding(LastAttempt(replayed)),
           LastAttempt(replayed').step \in workflow.agents,
           replayed'.attempts[Len(replayed.attempts)].consumed, ~LastAttempt(replayed).consumed,
           ~replayed'.attempts[Len(replayed.attempts)].superseded,
           \E f \in LastAttempt(replayed).findings :
              /\ FirstReport(replayed, f) # Len(replayed.attempts)
              /\ Corrected(replayed, f, Len(replayed.attempts))
    PROVE  replayed.findOverride # None /\ replayed'.findOverride = None
  <1> DEFINE n == Len(replayed.attempts)
             a == LastAttempt(replayed)
             latest == LatestConsumable(replayed)
             d == Decision(replayed)
  <1>1. n \in 1..n /\ a = replayed.attempts[n] /\ a \in Attempt
    BY LastAttemptType DEF CommandInv, TypeOK, LastAttempt
  <1>2. Begun
    BY EffectMade
  <1>3. /\ d.kind \in {"select", "retry"} /\ LastAttempt(replayed').step = d.target
        /\ Marked(replayed.attempts, replayed'.attempts, latest, d.kind = "retry")
        /\ replayed'.findOverride = IF FindingOverride(replayed, d, latest) # None THEN None
                                    ELSE replayed.findOverride
    BY <1>2, BegunRun
  <1>4. /\ replayed'.attempts[n].consumed <=> a.consumed \/ n = latest
        /\ replayed'.attempts[n].superseded <=> a.superseded \/ (n = latest /\ d.kind = "retry")
    BY <1>1, <1>3 DEF Marked
  <1>5. n = latest /\ d.kind # "retry" /\ latest # 0
    BY <1>1, <1>4
  <1>6. Repeated(replayed, d, latest) = {}
    BY <1>2 DEF Begun, Startable
  <1> HIDE DEF d, latest
  <1>7. FindingGuarded(replayed, d, latest)
    BY <1>1, <1>3, <1>5 DEF FindingGuarded
  <1>8. FindingOverride(replayed, d, latest) # None
    BY <1>1, <1>5, <1>6, <1>7 DEF Repeated
  <1> QED
    BY <1>3, <1>8 DEF FindingOverride

-----------------------------------------------------------------------------
(* Where an outcome leads.                                                 *)

\* The workflows a run may come to have.
Known == Workflows \union LiveWorkflows

\* What blocks a run under one of them is declared under all of them.
BlocksStayDeclared ==
    \A old, new \in Known : \A step \in Steps, pair \in Pairs :
       old.on[step][pair] = Blocked => new.on[step][pair] # NoTarget

Settled(step, pair) == \A wf \in Known : wf.on[step][pair] # NoTarget

\* The latest outcome is there for routing to act on, now or later.
Open(s) == s.attempts # <<>> /\ s.active = None /\ RoutingOutcome(LastAttempt(s))

\* The marker and the lineage are those of the latest attempt. An outcome
\* that routing acts on next, or may have to once a resolved block is left
\* behind, is one routing knows where to go from.
RouteInv(wf, s) ==
    /\ s.continued # None =>
          /\ s.active = None /\ s.attempts # <<>>
          /\ s.continued.attempt = Len(s.attempts)
          /\ s.continued.step = LastAttempt(s).step
    /\ s.attempts = <<>> => s.lineage = None
    /\ s.attempts # <<>> => LineageFits(s.lineage, LastAttempt(s).step)
    /\ s.attempts # <<>> /\ s.active = None /\ ~RoutingOutcome(LastAttempt(s)) =>
          s.lineage = None
    /\ Open(s) /\ Going(s) => Expected(wf, LastAttempt(s).step, LastAttempt(s).pair)
    /\ Open(s) /\ (s.continued # None \/ (s.state = Blocked /\ ~Going(s))) =>
          Settled(LastAttempt(s).step, LastAttempt(s).pair)

\* What is idle and over, and yet not consumed, is an outcome.
LEMMA EndedOutcome ==
    ASSUME NEW s \in Status, GoodHistory(s), EndedPairs(s), s.attempts # <<>>, s.active = None,
           ~LastAttempt(s).consumed
    PROVE  RoutingOutcome(LastAttempt(s))
  <1> DEFINE a == LastAttempt(s)
             n == Len(s.attempts)
  <1>1. n \in 1..n /\ a = s.attempts[n] /\ a \in Attempt
    BY LastAttemptType DEF LastAttempt
  <1>2. a.state \notin LiveStates /\ (a.superseded => a.consumed)
    BY <1>1 DEF GoodHistory
  <1>3. a.state = "reported" => a.pair # None
    BY <1>1 DEF EndedPairs
  <1>4. a.state \in DOMAIN SystemPair => a.pair = SystemPair[a.state]
    BY <1>1 DEF EndedPairs
  <1>5. a.state = "reported" \/ a.state \in DOMAIN SystemPair
    BY <1>1, <1>2 DEF Attempt, AttemptStates, ReportedStates, EndStates, SystemPair
  <1> QED
    BY <1>2, <1>3, <1>4, <1>5 DEF RoutingOutcome

\* Which outcome is the latest one, in terms of the marker.
LEMMA OpenOutcome ==
    ASSUME NEW s \in Status, NEW wf, RouteInv(wf, s), s.state = Running
    PROVE  /\ LatestConsumable(s) # 0 <=> Open(s) /\ s.continued = None
           /\ LatestConsumable(s) # 0 => LatestConsumable(s) = Len(s.attempts)
  <1>1. Len(s.attempts) \in Nat /\ (s.attempts # <<>> => Len(s.attempts) # 0)
    BY LastAttemptType DEF Status
  <1> QED
    BY <1>1 DEF LatestConsumable, Open, RouteInv

LEMMA RouteSame ==
    ASSUME NEW wf, NEW to, NEW s, NEW t, RouteInv(wf, s),
           t.active = s.active, t.attempts = s.attempts, t.lineage = s.lineage,
           t.continued = s.continued,
           Open(s) /\ Going(t) => Expected(to, LastAttempt(s).step, LastAttempt(s).pair),
           Open(s) /\ t.state = Blocked /\ ~Going(t) =>
              Settled(LastAttempt(s).step, LastAttempt(s).pair)
    PROVE  RouteInv(to, t)
  <1>1. LastAttempt(t) = LastAttempt(s) /\ (Open(t) <=> Open(s))
    BY DEF LastAttempt, Open
  <1> QED
    BY <1>1 DEF RouteInv

\* An attempt ends as what routing knows, or as what the launcher recorded.
LEMMA RouteEdit ==
    ASSUME NEW wf, NEW s \in Status, NEW t \in Status, GoodHistory(s), GoodHistory(t),
           RouteInv(wf, s), EndedPairs(t), s.active # None,
           NEW a \in Attempt, a.id = s.active.id, a.step = s.active.step, a.consumed = FALSE,
           a.state \notin LiveStates => Expected(wf, a.step, a.pair),
           t.attempts = [s.attempts EXCEPT ![a.id] = a],
           t.state = s.state, t.lineage = s.lineage, t.continued = s.continued
    PROVE  RouteInv(wf, t)
  <1> DEFINE f == [s.attempts EXCEPT ![a.id] = a]
  <1>1. Len(f) = Len(s.attempts) /\ f[a.id] = a /\ a.id = Len(s.attempts)
    BY ReplaceLast
  <1> HIDE DEF f
  <1>2. LastAttempt(t) = a /\ Len(t.attempts) = Len(s.attempts)
    BY <1>1 DEF f, LastAttempt
  <1>3. s.attempts # <<>> /\ LastAttempt(s) = s.active /\ s.state = Running
    BY DEF GoodHistory
  <1>4. t.attempts # <<>> /\ Len(t.attempts) \in 1..Len(t.attempts)
    <2>1. Len(s.attempts) \in 1..Len(s.attempts)
      BY <1>3, LastAttemptType
    <2> QED
      BY <1>2, <2>1
  <1>5. s.continued = None /\ LineageFits(s.lineage, a.step)
    BY <1>3 DEF RouteInv
  <1>6. t.active = None => a.state \notin LiveStates /\ RoutingOutcome(a)
    <2>1. t.active = None => RoutingOutcome(a)
      BY <1>2, <1>4, EndedOutcome
    <2>2. t.active = None => a.state \notin LiveStates
      BY <1>2, <1>4 DEF GoodHistory, LastAttempt
    <2> QED
      BY <2>1, <2>2
  <1>7. Running # Blocked
    BY BlockedState
  <1> QED
    BY <1>2, <1>3, <1>4, <1>5, <1>6, <1>7 DEF RouteInv, Open

LEMMA RetryFits ==
    ASSUME NEW wf, NEW st, Evaluate(wf, st).kind = "retry"
    PROVE  Evaluate(wf, st).retry.step = Evaluate(wf, st).target
  <1>1. EvalError.kind # "retry"
    BY DEF EvalError, Decide
  <1>2. EvaluateSelected(wf, st).kind # "retry"
    BY <1>1 DEF EvaluateSelected, Decide
  <1>3. EvaluateOutcome(wf, st).kind = "retry" =>
           EvaluateOutcome(wf, st).retry.step = EvaluateOutcome(wf, st).target
    BY <1>1 DEF EvaluateOutcome, Decide, NextLineage
  <1>4. /\ \A x, y : Decide("terminal", x, y).kind # "retry"
        /\ \A x, y : Decide("wait", x, y).kind # "retry"
    BY DEF Decide
  <1> QED
    BY <1>1, <1>2, <1>3, <1>4 DEF Evaluate

LEMMA RouteStart ==
    ASSUME CommandInv, Begun
    PROVE  RouteInv(workflow, replayed')
  <1> DEFINE s == replayed
             d == Decision(s)
             req == RequestOf(s, d)
  <1>1. /\ s \in Status /\ Len(s.attempts) \in Nat
        /\ Len(replayed'.attempts) = Len(s.attempts) + 1
        /\ LastAttempt(replayed').step = d.target
        /\ replayed'.active # None /\ replayed'.state = s.state
        /\ s.state = Running
    BY BegunRun DEF CommandInv, TypeOK, Status, Idle
  <1>2. replayed' = LiveStart(s, req)
    BY DEF Begun
  <1>3. req.retry = IF d.kind = "retry" THEN d.retry ELSE None
    BY DEF RequestOf
  <1> HIDE DEF req
  <1>4. replayed'.lineage = req.retry /\ replayed'.continued = None
    BY <1>1, <1>2 DEF LiveStart, Status
  <1>5. d.kind = "retry" => d.retry.step = d.target
    BY RetryFits DEF Decision, DecisionBy
  <1> HIDE DEF d
  <1>6. LineageFits(replayed'.lineage, LastAttempt(replayed').step)
    BY <1>1, <1>3, <1>4, <1>5 DEF LineageFits
  <1>7. replayed'.attempts # <<>> /\ Running # Blocked
    BY <1>1, BlockedState
  <1> QED
    BY <1>1, <1>4, <1>6, <1>7 DEF RouteInv, Open

\* A skip drops the lineage and the marker; what a resolved block leaves behind
\* is the latest outcome again.
LEMMA RouteSkip ==
    ASSUME NEW sure, BlocksStayDeclared, CommandInv, workflow \in Known,
           StatusInv(workflow, replayed, sure), RouteInv(workflow, replayed),
           NEW step \in Steps, SkippedBy(step)
    PROVE  RouteInv(workflow, replayed')
  <1> DEFINE s == replayed
             latest == LatestConsumable(s)
             req == SkipRequestFor(workflow, s, step)
             g == SkippedHistory(s, latest)
             n == Len(s.attempts)
  <1>1. /\ s \in Status /\ s.state = Running /\ s.active = None
        /\ replayed' = LiveSkip(s, req)
    BY DEF SkippedBy, MaySkip, SkipValidator, CommandInv, TypeOK
  <1> HIDE DEF req
  <1>2. /\ replayed'.attempts = g /\ replayed'.active = None
        /\ replayed'.lineage = None /\ replayed'.continued = None
        /\ replayed'.hardBlock = s.hardBlock /\ replayed'.findBlock = s.findBlock
    BY <1>1 DEF LiveSkip, Status
  <1>3. latest \in 0..n /\ n \in Nat
    BY <1>1, LatestConsumableType, LengthType
  <1>4. Len(g) = n /\ Marked(s.attempts, g, latest, FALSE)
    <2>1. latest \in Nat /\ (latest # 0 => latest \in 1..n)
      BY <1>3
    <2> HIDE DEF latest
    <2> QED
      BY <1>1, <2>1, SkipMarks
  <1> SUFFICES ASSUME Open(replayed')
               PROVE  Settled(LastAttempt(replayed').step, LastAttempt(replayed').pair)
    <2>1. Settled(LastAttempt(replayed').step, LastAttempt(replayed').pair) =>
             Expected(workflow, LastAttempt(replayed').step, LastAttempt(replayed').pair)
      BY DEF Settled, Expected
    <2> QED
      BY <1>2, <2>1 DEF RouteInv, LineageFits, Open
  <1> HIDE DEF g
  <1>5. n # 0 /\ n \in 1..n /\ s.attempts # <<>>
    <2>1. s.attempts # <<>>
      BY <1>1, <1>2 DEF Open, g, SkippedHistory, latest, LatestConsumable
    <2> QED
      BY <1>1, <2>1, LastAttemptType
  <1>6. LastAttempt(replayed') = g[n] /\ LastAttempt(s) = s.attempts[n]
    BY <1>2, <1>4 DEF LastAttempt
  <1>7. /\ g[n].step = s.attempts[n].step /\ g[n].state = s.attempts[n].state
        /\ g[n].pair = s.attempts[n].pair
        /\ (g[n].consumed <=> s.attempts[n].consumed \/ n = latest)
        /\ (s.attempts[n].superseded => g[n].superseded)
    BY <1>4, <1>5 DEF Marked
  <1>8. RoutingOutcome(s.attempts[n]) /\ n # latest
    BY <1>6, <1>7 DEF Open, RoutingOutcome
  <1>9. Open(s) /\ latest = 0
    BY <1>1, <1>3, <1>5, <1>6, <1>8, LatestConsumableType DEF Open
  <1>10. s.continued # None
    BY <1>1, <1>9, OpenOutcome
  <1> QED
    BY <1>6, <1>7, <1>9, <1>10 DEF RouteInv

\* The end of a run, and the human's word that what blocked it is gone.
LEMMA RouteClosed ==
    ASSUME NEW sure, BlocksStayDeclared, CommandInv, workflow \in Known,
           StatusInv(workflow, replayed, sure), RouteInv(workflow, replayed), Closed
    PROVE  RouteInv(workflow, replayed')
  <1> DEFINE s == replayed
             d == Decision(s)
             a == LastAttempt(s)
             req == EndOf(s, d)
  <1>1. /\ s \in Status /\ d.kind = "terminal" /\ LatestConsumable(s) # 0
        /\ s.state = Running /\ s.active = None
        /\ replayed' = InState(s, req) /\ req.state = d.target
    BY LatestIdle DEF Closed, Over, EndOf, CommandInv, TypeOK
  <1> HIDE DEF req
  <1>2. /\ replayed'.state = d.target /\ replayed'.attempts = s.attempts
        /\ replayed'.active = s.active /\ replayed'.lineage = s.lineage
        /\ replayed'.continued = s.continued
        /\ replayed'.hardBlock = s.hardBlock /\ replayed'.findBlock = s.findBlock
    BY <1>1 DEF InState, Status
  <1>3. LatestConsumable(s) = Len(s.attempts) /\ s.continued = None
    BY <1>1, OpenOutcome
  <1>4. d.target = workflow.on[a.step][a.pair]
    <2>1. s.state \notin TerminalStates
      BY <1>1 DEF Running, TerminalStates, Blocked
    <2> QED
      BY <1>1, <1>3, <2>1, DecisionCases DEF Decision, LastAttempt, RunStates
  <1>5. a.step \in Steps /\ a.pair \in Pairs
    BY <1>1, <1>3, LatestOutcome DEF LastAttempt
  <1>6. d.target = Blocked => Settled(a.step, a.pair)
    BY <1>4, <1>5 DEF BlocksStayDeclared, Settled
  <1>7. s.hardBlock = None /\ s.findBlock = None
    BY <1>1, RunningUnblocked DEF StatusInv
  <1>8. d.target # Running
    <2>1. Leads(d)
      BY <1>1, DecisionLeads, Configured DEF CommandInv, Decision
    <2> HIDE DEF d
    <2> QED
      BY <1>1, <2>1 DEF Leads, Running, TerminalStates, Blocked
  <1>9. ~Going(replayed')
    BY <1>2, <1>7, <1>8 DEF Going
  <1> HIDE DEF d
  <1> QED
    BY <1>2, <1>6, <1>9, RouteSame

LEMMA RouteContinued ==
    ASSUME NEW sure, CommandInv, workflow \in Known, StatusInv(workflow, replayed, sure),
           RouteInv(workflow, replayed), ContinuedOK(replayed), replayed' = Continued(replayed)
    PROVE  RouteInv(workflow, replayed')
  <1> DEFINE s == replayed
  <1>1. s \in Status /\ s.hardBlock = None /\ NoFinding(s)
    BY ResolvableNoFinding DEF CommandInv, TypeOK
  <1>2. s.state = Blocked /\ s.active = None /\ s.attempts # <<>> /\ RoutingOutcome(LastAttempt(s))
    BY DEF ContinuedOK, ResolvableBlock
  <1>3. /\ replayed'.state = Running /\ replayed'.attempts = s.attempts
        /\ replayed'.active = s.active /\ replayed'.lineage = s.lineage
        /\ replayed'.continued.attempt = Len(s.attempts)
        /\ replayed'.continued.step = LastAttempt(s).step
    BY <1>1 DEF Continued, Status
  <1>4. ~Going(s)
    BY <1>1, <1>2, BlockedState DEF Going, NoFinding
  <1>5. Settled(LastAttempt(s).step, LastAttempt(s).pair)
    BY <1>2, <1>4 DEF RouteInv, Open
  <1>6. Expected(workflow, LastAttempt(s).step, LastAttempt(s).pair)
    BY <1>5 DEF Settled, Expected
  <1>7. LastAttempt(replayed') = LastAttempt(s)
    BY <1>3 DEF LastAttempt
  <1> QED
    BY <1>2, <1>3, <1>5, <1>6, <1>7 DEF RouteInv, Open

LEMMA OutcomeGiven ==
    ASSUME NEW step \in Steps, NEW pair \in Pairs
    PROVE  [step |-> step, pair |-> pair] # None
  <1> DEFINE S == [step : Steps, pair : Pairs]
             r == [step |-> step, pair |-> pair]
  <1>1. r \in S
    OBVIOUS
  <1>2. None \notin S
    BY NoneAssumption
  <1> HIDE DEF r, S
  <1>3. r # None
    BY <1>1, <1>2
  <1> QED
    BY <1>3 DEF r

\* A refresh leaves a run only where the new workflow has a way to go.
LEMMA RouteRepointed ==
    ASSUME CommandInv, workflow' \in Known, RouteInv(workflow, replayed), Repointed
    PROVE  RouteInv(workflow', replayed')
  <1> DEFINE s == replayed
             a == LastAttempt(s)
  <1>1. s \in Status
    BY DEF CommandInv, TypeOK
  <1>2. /\ replayed'.state = s.state /\ replayed'.attempts = s.attempts
        /\ replayed'.active = s.active /\ replayed'.lineage = s.lineage
        /\ replayed'.continued = s.continued
        /\ replayed'.hardBlock = s.hardBlock /\ replayed'.findBlock = s.findBlock
    BY <1>1 DEF Repointed, Status
  <1>3. Going(replayed') <=> s.state = Running
    BY <1>2 DEF Going, Repointed, NoFinding
  <1>4. Going(s) <=> s.state = Running
    BY DEF Going, Repointed, NoFinding
  <1>5. ASSUME Open(s), s.state = Running
        PROVE  Expected(workflow', a.step, a.pair)
    <2>1. CASE s.continued # None
      BY <1>5, <2>1 DEF RouteInv, Settled, Expected
    <2>2. CASE s.continued = None
      <3>1. LatestConsumable(s) # 0 /\ LatestConsumable(s) = Len(s.attempts)
        BY <1>1, <1>5, <2>2, OpenOutcome
      <3> DEFINE st == WorkflowState(s)
      <3>2. /\ st.status = Running /\ ~st.active /\ st.outcome # None
            /\ st.outcome.step = a.step /\ st.outcome.pair = a.pair
        <4>1. /\ st.status = s.state /\ st.active = (s.active # None)
              /\ st.outcome = [step |-> a.step, pair |-> a.pair]
          BY <2>2, <3>1 DEF WorkflowState, Resolved, LastAttempt
        <4>2. [step |-> a.step, pair |-> a.pair] # None
          <5>1. a.step \in Steps /\ a.pair \in Pairs
            BY <1>1, <3>1, LatestOutcome DEF LastAttempt
          <5> HIDE DEF a
          <5> QED
            BY <5>1, OutcomeGiven
        <4>3. s.state = Running /\ s.active = None
          BY <1>5 DEF Open
        <4>4. PICK o : o = [step |-> a.step, pair |-> a.pair]
          OBVIOUS
        <4>5. o # None /\ o.step = a.step /\ o.pair = a.pair
          BY <4>2, <4>4
        <4> HIDE DEF st, a
        <4> QED
          BY <4>1, <4>3, <4>4, <4>5
      <3> HIDE DEF st
      <3>3. Evaluate(workflow', st) = EvaluateOutcome(workflow', st)
        BY <3>2 DEF Evaluate, Running, TerminalStates, Blocked
      <3>4. DecisionBy(workflow', s).kind # "error"
        BY DEF Repointed
      <3>5. EvaluateOutcome(workflow', st).kind # "error"
        BY <3>3, <3>4 DEF DecisionBy, st
      <3>6. a.step \in Steps
        BY <1>1, <3>1, LatestOutcome DEF LastAttempt
      <3>7. workflow'.on[a.step][a.pair] # NoTarget
        BY <3>2, <3>5, <3>6 DEF EvaluateOutcome, EvalError, Decide
      <3> QED
        BY <3>7 DEF Expected
    <2> QED
      BY <2>1, <2>2
  <1> QED
    BY <1>2, <1>3, <1>4, <1>5, RouteSame DEF RouteInv

LEMMA EffectRoutes ==
    ASSUME NEW sure, NEW later, BlocksStayDeclared, CommandInv, CommandInv',
           workflow \in Known, workflow' \in Known,
           StatusInv(workflow, replayed, sure), StatusInv(workflow', replayed', later),
           RouteInv(workflow, replayed), Moved
    PROVE  RouteInv(workflow', replayed')
  <1>1. /\ replayed \in Status /\ replayed' \in Status
        /\ GoodHistory(replayed) /\ GoodHistory(replayed')
    BY DEF CommandInv, TypeOK, HistoryOK, GoodHistory, LastAttempt
  <1>2. CASE UNCHANGED workflow /\ Noted
    <2>1. Alike(replayed, replayed') /\ (Going(replayed') <=> Going(replayed))
      BY <1>2 DEF Noted, Alike, Going
    <2> QED
      BY <1>2, <2>1, RouteSame DEF Alike, RouteInv
  <1>3. CASE UNCHANGED workflow /\ Edited
    <2>1. PICK a \in Attempt : EditedTo(a)
      BY <1>3 DEF Edited
    <2>2. EndedPairs(replayed')
      BY DEF StatusInv, EndedPairs
    <2> QED
      BY <1>1, <1>3, <2>1, <2>2, RouteEdit DEF Edited, EditedTo
  <1>4. CASE UNCHANGED workflow /\ Begun
    BY <1>4, RouteStart
  <1>5. CASE UNCHANGED workflow /\ Closed
    BY <1>5, RouteClosed
  <1>6. CASE UNCHANGED workflow /\ Held
    <2>1. Going(replayed)
      BY <1>6 DEF Held, Idle, Going
    <2>2. /\ replayed'.active = replayed.active /\ replayed'.attempts = replayed.attempts
          /\ replayed'.lineage = replayed.lineage /\ replayed'.continued = replayed.continued
          /\ replayed'.hardBlock \in Cap \/ replayed'.findBlock \in FindingBlock
      BY <1>1, <1>6 DEF Held, HardCapped, FindingBlocked, Status
    <2>3. Going(replayed')
      BY <2>2, NoneAssumption DEF Going
    <2> QED
      BY <1>6, <2>1, <2>2, <2>3, RouteSame DEF RouteInv
  <1>7. CASE UNCHANGED workflow /\ Answered
    <2>1. CASE ContinuedOK(replayed) /\ replayed' = Continued(replayed)
      BY <1>7, <2>1, RouteContinued
    <2>2. CASE ~(ContinuedOK(replayed) /\ replayed' = Continued(replayed))
      <3>1. /\ Going(replayed) /\ Going(replayed')
            /\ replayed'.active = replayed.active /\ replayed'.attempts = replayed.attempts
            /\ replayed'.lineage = replayed.lineage /\ replayed'.continued = replayed.continued
        BY <1>1, <1>7, <2>2 DEF Answered, Going, HardCapOverridden, FindingOverridden, Status
      <3> QED
        BY <1>7, <3>1, RouteSame DEF RouteInv
    <2> QED
      BY <2>1, <2>2
  <1>8. ASSUME UNCHANGED workflow, NEW step \in Steps, SkippedBy(step)
        PROVE  RouteInv(workflow', replayed')
    BY <1>8, RouteSkip
  <1>9. CASE Repointed
    BY <1>9, RouteRepointed
  <1>10. CASE Recounted
    <2>1. Alike(replayed, replayed') /\ (Going(replayed') <=> Going(replayed))
      BY <1>1, <1>10 DEF Recounted, Alike, Going, Status
    <2>2. workflow' = workflow
      BY <1>10 DEF Recounted
    <2> QED
      BY <2>1, <2>2, RouteSame DEF Alike, RouteInv
  <1>11. CASE Effect
    BY <1>2, <1>3, <1>4, <1>5, <1>6, <1>7, <1>8, <1>11 DEF Effect
  <1> QED
    BY <1>9, <1>10, <1>11 DEF Moved

LEMMA RouteInit ==
    ASSUME CommandInit
    PROVE  RouteInv(workflow, replayed) /\ workflow \in Known
  <1>1. /\ replayed.attempts = <<>> /\ replayed.lineage = None /\ replayed.continued = None
        /\ workflow \in Workflows
    BY DEF CommandInit, InitialStatus
  <1> QED
    BY <1>1 DEF RouteInv, Open, Known

\* Routing gets stuck on a status in one way only.
LEMMA RouteStuck ==
    ASSUME NEW sure, NEW wf \in Valid, NEW s \in Status,
           StatusInv(wf, s, sure), RouteInv(wf, s),
           DecisionBy(wf, s).kind = "error"
    PROVE  LET a == s.attempts[LatestConsumable(s)]
           IN  /\ LatestConsumable(s) # 0
               /\ wf.on[a.step][a.pair] = NoTarget
               /\ a.pair \in LauncherPairs
  <1> DEFINE st == WorkflowState(s)
             latest == LatestConsumable(s)
             a == s.attempts[latest]
  <1>1. /\ st.status = s.state /\ st.active = (s.active # None) /\ st.retry = s.lineage
        /\ s.state \in RunStates
    BY DEF WorkflowState, Status
  <1>2. \A kind, x, y : Decide(kind, x, y).kind = kind
    BY DEF Decide
  <1>3. s.state = Running
    <2> HIDE DEF st
    <2>1. st.status \in TerminalStates => Evaluate(wf, st) = Decide("terminal", st.status, None)
      BY DEF Evaluate, Running, TerminalStates, Blocked
    <2>2. st.status \notin TerminalStates
      BY <1>2, <2>1 DEF DecisionBy, st
    <2> QED
      BY <1>1, <2>2 DEF RunStates
  <1>4. s.active = None
    <2>1. s.active # None => latest = 0 /\ st.selected = None /\ st.outcome = None
      BY DEF WorkflowState, Resolved, LatestConsumable
    <2>2. Running \notin TerminalStates
      BY DEF Running, TerminalStates, Blocked
    <2> HIDE DEF st
    <2>3. s.active # None => Evaluate(wf, st) = Decide("wait", None, None)
      BY <1>1, <1>3, <2>1, <2>2 DEF Evaluate
    <2> QED
      BY <1>2, <2>3 DEF DecisionBy, st
  <1>5. Going(s)
    BY <1>3 DEF Going
  <1>6. latest # 0 <=> Open(s) /\ s.continued = None
    BY <1>3, OpenOutcome
  <1>7. latest # 0 => latest = Len(s.attempts) /\ a = LastAttempt(s)
    BY <1>3, OpenOutcome DEF LastAttempt
  <1>8. CASE latest # 0
    <2>1. a.step \in Steps /\ a.pair \in Pairs
      BY <1>8, LatestOutcome
    <2>2. /\ st.selected = a.step /\ st.outcome = [step |-> a.step, pair |-> a.pair]
      BY <1>6, <1>8 DEF WorkflowState, Resolved
    <2>3. LineageFits(st.retry, a.step)
      BY <1>1, <1>6, <1>7, <1>8 DEF RouteInv, Open
    <2>4. [step |-> a.step, pair |-> a.pair] # None
      <3> HIDE DEF a
      <3> QED
        BY <2>1, OutcomeGiven
    <2>5. st.outcome # None /\ st.outcome.step = a.step /\ st.outcome.pair = a.pair
      BY <2>2, <2>4
    <2> HIDE DEF st, a, latest
    <2>6. Evaluate(wf, st) = EvaluateOutcome(wf, st)
      BY <1>1, <1>3, <1>4, <2>5 DEF Evaluate, Running, TerminalStates, Blocked
    <2>7. EvaluateOutcome(wf, st).kind = "error"
      BY <2>6 DEF DecisionBy, st
    <2>8. wf.on[a.step][a.pair] = NoTarget
      BY <1>2, <2>1, <2>2, <2>3, <2>5, <2>7 DEF EvaluateOutcome
    <2>9. Expected(wf, a.step, a.pair)
      BY <1>5, <1>6, <1>7, <1>8 DEF RouteInv
    <2> QED
      BY <1>8, <2>8, <2>9 DEF Expected, a, latest
  <1>9. CASE latest = 0
    <2>1. st.outcome = None
      BY <1>9 DEF WorkflowState
    <2>2. PICK step : step \in Steps /\ step = st.selected /\ LineageFits(st.retry, step)
      <3>1. CASE s.continued # None
        <4>1. st.selected = s.continued.step
          BY <1>3, <1>4, <3>1 DEF WorkflowState, Resolved
        <4>2. s.attempts # <<>> /\ s.continued.step = LastAttempt(s).step
          BY <3>1 DEF RouteInv
        <4>3. LastAttempt(s).step \in Steps
          BY <4>2, LastAttemptType DEF Attempt
        <4>4. LineageFits(s.lineage, LastAttempt(s).step)
          BY <4>2 DEF RouteInv
        <4> QED
          BY <1>1, <4>1, <4>2, <4>3, <4>4
      <3>2. CASE s.continued = None
        <4>1. s.entries # <<>> /\ Entered(s).state \in Steps
          BY <1>5, <3>2 DEF StatusInv, LastEntered
        <4>2. st.selected = Entered(s).state
          BY <1>3, <1>4, <1>9, <3>2, <4>1 DEF WorkflowState, Resolved, Entered
        <4>3. s.lineage = None
          BY <1>4, <1>6, <1>9, <3>2 DEF RouteInv, Open
        <4> QED
          BY <1>1, <4>1, <4>2, <4>3 DEF LineageFits
      <3> QED
        BY <3>1, <3>2
    <2>3. step # None
      BY <2>2, WorkflowAssumption
    <2> HIDE DEF st, latest
    <2>4. Evaluate(wf, st) = EvaluateSelected(wf, st)
      BY <1>1, <1>3, <1>4, <2>1 DEF Evaluate, Running, TerminalStates, Blocked
    <2>5. EvaluateSelected(wf, st) = Decide("select", step, st.retry)
      BY <2>2, <2>3 DEF EvaluateSelected
    <2>6. DecisionBy(wf, s).kind = "select"
      BY <1>2, <2>4, <2>5 DEF DecisionBy, st
    <2> QED
      BY <2>6
  <1> QED
    BY <1>8, <1>9

=============================================================================
