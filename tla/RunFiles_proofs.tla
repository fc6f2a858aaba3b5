--------------------------- MODULE RunFiles_proofs ---------------------------
(***************************************************************************)
(* Proofs about the files of a run: mutual exclusion of the two locks,     *)
(* through the publication of a new run, and the pointer to the            *)
(* configuration, which is never ahead of the files it points to.          *)
(***************************************************************************)
EXTENDS RunFiles, TLAPS

StartKinds == {"config", "context", "snapshot", "vcs"}

\* The records in job have the fields the proofs read.
Fields == {"kind", "todo", "version", "outcome"}

JobShape ==
    /\ DOMAIN job = Procs
    /\ \A p \in Procs : Fields \subseteq DOMAIN job[p]

Shape ==
    /\ runs \in Procs \union {NoOne}
    /\ lock \in Procs \union {NoOne}
    /\ pc \in [Procs -> RunsHeld \union RunHeld \union {"idle", "runs", "cleanup"}]
    /\ JobShape

-----------------------------------------------------------------------------
(* What a step makes of the record of a process.                           *)

\* Process p, and nobody else, changes its record; to one of this kind, with
\* these steps of a start left.
Turns(p, kind, todo, version) ==
    /\ JobShape'
    /\ job'[p].kind = kind /\ job'[p].todo = todo /\ job'[p].version = version
    /\ \A q \in Procs \ {p} : job'[q] = job[q]

Stays(p) == Turns(p, job[p].kind, job[p].todo, job[p].version)

LEMMA BecomesTurns ==
    ASSUME JobShape, NEW p \in Procs, NEW r, Fields \subseteq DOMAIN r, Becomes(p, r)
    PROVE  Turns(p, r.kind, r.todo, r.version)
  BY DEF JobShape, Turns, Becomes

LEMMA UnchangedStays ==
    ASSUME JobShape, NEW p \in Procs, UNCHANGED job
    PROVE  Stays(p)
  BY DEF JobShape, Turns, Stays

LEMMA BecomesStays ==
    ASSUME JobShape, NEW p \in Procs, NEW r, Fields \subseteq DOMAIN r, Becomes(p, r),
           r.kind = job[p].kind, r.todo = job[p].todo, r.version = job[p].version
    PROVE  Stays(p)
  BY BecomesTurns DEF Stays

LEMMA ReturnedTurns ==
    ASSUME JobShape, NEW p \in Procs, NEW outcome, Becomes(p, Returned(p, outcome))
    PROVE  \E kind \in {"none", "report"} :
              /\ Turns(p, kind, <<>>, 0)
              /\ kind = "report" => job[p].kind = "report"
  <1>1. CASE job[p].kind = "report" /\ outcome # "ok"
    <2> DEFINE r == [NoJob EXCEPT !.kind = "report", !.content = job[p].content]
    <2>1. Fields \subseteq DOMAIN r /\ r.kind = "report" /\ r.todo = <<>>
          /\ r.version = 0
      BY DEF NoJob, Fields
    <2>2. Becomes(p, r)
      BY <1>1 DEF Returned
    <2> HIDE DEF r
    <2> QED
      BY <1>1, <2>1, <2>2, BecomesTurns
  <1>2. CASE ~(job[p].kind = "report" /\ outcome # "ok")
    <2>1. Fields \subseteq DOMAIN NoJob /\ NoJob.kind = "none" /\ NoJob.todo = <<>>
          /\ NoJob.version = 0
      BY DEF NoJob, Fields
    <2>2. Becomes(p, NoJob)
      BY <1>2 DEF Returned
    <2> QED
      BY <2>1, <2>2, BecomesTurns
  <1> QED
    BY <1>1, <1>2

\* A step inside an operation on the published run: no lock changes hands.
Within(p) ==
    /\ pc[p] \in RunHeld \ {"publish", "unpublish"}
    /\ \E next \in RunHeld \ {"publish", "unpublish"} : pc' = [pc EXCEPT ![p] = next]
    /\ UNCHANGED <<locks, removing, started>>
    /\ Stays(p)

LEMMA FailWithin ==
    ASSUME JobShape, NEW p \in Procs, Fail(p)
    PROVE  /\ Stays(p)
           /\ \E next \in {"rollback", "unlock"} : pc' = [pc EXCEPT ![p] = next]
  <1> DEFINE r == [job[p] EXCEPT !.outcome = "failed", !.staged = <<>>]
  <1>1. Fields \subseteq DOMAIN r /\ r.kind = job[p].kind /\ r.todo = job[p].todo
          /\ r.version = job[p].version
    BY DEF JobShape
  <1>2. Becomes(p, r)
    BY DEF Fail
  <1> HIDE DEF r
  <1>3. Stays(p)
    BY <1>1, <1>2, BecomesTurns DEF Stays
  <1>4. \E next \in {"rollback", "unlock"} : pc' = [pc EXCEPT ![p] = next]
    BY DEF Fail, Goto
  <1> QED
    BY <1>3, <1>4

LEMMA LoadWithin == ASSUME JobShape, NEW p \in Procs, Load(p) PROVE Within(p)
  <1>1. CASE Fail(p)
    BY <1>1, FailWithin DEF Load, bounds, locks, Steady, Fault, Within, RunHeld
  <1>2. CASE ~Fail(p)
    <2> DEFINE r == [job[p] EXCEPT !.before = <<disk>>,
                        !.outcome = IF job[p].kind = "load" THEN "ok" ELSE "none"]
    <2>1. Fields \subseteq DOMAIN r /\ r.kind = job[p].kind /\ r.todo = job[p].todo
          /\ r.version = job[p].version
      BY DEF JobShape
    <2>2. Becomes(p, r)
      BY <1>2 DEF Load
    <2> HIDE DEF r
    <2>3. Stays(p)
      BY <2>1, <2>2, BecomesStays
    <2>4. \E next \in {"unlock", "append", "resolved", "stage"} : pc' = [pc EXCEPT ![p] = next]
      BY <1>2 DEF Load, Goto
    <2> QED
      BY <2>3, <2>4 DEF Load, bounds, locks, Steady, Fault, Within, RunHeld
  <1> QED
    BY <1>1, <1>2

LEMMA StageWithin == ASSUME JobShape, NEW p \in Procs, Stage(p) PROVE Within(p)
  <1>1. CASE Fail(p)
    BY <1>1, FailWithin DEF Stage, bounds, locks, Steady, Fault, Within, RunHeld
  <1>2. CASE ~Fail(p)
    <2> DEFINE r == [job[p] EXCEPT !.staged = StagedBy(p),
                        !.base = IF Has("followups") THEN disk["followups"] ELSE <<>>]
    <2>1. Fields \subseteq DOMAIN r /\ r.kind = job[p].kind /\ r.todo = job[p].todo
          /\ r.version = job[p].version
      BY DEF JobShape
    <2>2. Becomes(p, r)
      BY <1>2 DEF Stage
    <2> HIDE DEF r
    <2>3. Stays(p)
      BY <2>1, <2>2, BecomesStays
    <2>4. \E next \in {"commit"} : pc' = [pc EXCEPT ![p] = next]
      BY <1>2 DEF Stage, Goto
    <2> QED
      BY <2>3, <2>4 DEF Stage, bounds, locks, Steady, Fault, Within, RunHeld
  <1> QED
    BY <1>1, <1>2

LEMMA RollbackWithin == ASSUME JobShape, NEW p \in Procs, Rollback(p) PROVE Within(p)
  <1> DEFINE r == [job[p] EXCEPT !.moved = Front(@)]
  <1>1. Fields \subseteq DOMAIN r /\ r.kind = job[p].kind /\ r.todo = job[p].todo
          /\ r.version = job[p].version
    BY DEF JobShape
  <1>2. Becomes(p, r)
    BY DEF Rollback
  <1> HIDE DEF r
  <1>3. Stays(p)
    BY <1>1, <1>2, BecomesStays
  <1>4. \E next \in {"unlock", "rollback"} : pc' = [pc EXCEPT ![p] = next]
    BY DEF Rollback, Goto
  <1> QED
    BY <1>3, <1>4 DEF Rollback, bounds, locks, Steady, Fault, Within, RunHeld

LEMMA RollbackFailsWithin == ASSUME JobShape, NEW p \in Procs, RollbackFails(p) PROVE Within(p)
  <1> DEFINE r == [job[p] EXCEPT !.moved = Front(@), !.outcome = "unclear"]
  <1>1. Fields \subseteq DOMAIN r /\ r.kind = job[p].kind /\ r.todo = job[p].todo
          /\ r.version = job[p].version
    BY DEF JobShape
  <1>2. Becomes(p, r)
    BY DEF RollbackFails
  <1> HIDE DEF r
  <1>3. Stays(p)
    BY <1>1, <1>2, BecomesStays
  <1>4. \E next \in {"unlock", "rollback"} : pc' = [pc EXCEPT ![p] = next]
    BY DEF RollbackFails, Goto
  <1> QED
    BY <1>3, <1>4 DEF RollbackFails, bounds, locks, Steady, Fault, Within, RunHeld

LEMMA AppendEventWithin == ASSUME JobShape, NEW p \in Procs, AppendEvent(p) PROVE Within(p)
  <1>1. CASE Fail(p)
    BY <1>1, FailWithin DEF AppendEvent, bounds, locks, Steady, Fault, Within, RunHeld
  <1>2. CASE ~Fail(p)
    <2>3. Stays(p)
      BY <1>2, UnchangedStays DEF AppendEvent
    <2>4. \E next \in {"status"} : pc' = [pc EXCEPT ![p] = next]
      BY <1>2 DEF AppendEvent, Goto
    <2> QED
      BY <2>3, <2>4 DEF AppendEvent, bounds, locks, Steady, Fault, Within, RunHeld
  <1> QED
    BY <1>1, <1>2

LEMMA AppendUnclearWithin == ASSUME JobShape, NEW p \in Procs, AppendUnclear(p) PROVE Within(p)
  <1> DEFINE r == [job[p] EXCEPT !.outcome = "unclear"]
  <1>1. Fields \subseteq DOMAIN r /\ r.kind = job[p].kind /\ r.todo = job[p].todo
          /\ r.version = job[p].version
    BY DEF JobShape
  <1>2. Becomes(p, r)
    BY DEF AppendUnclear
  <1> HIDE DEF r
  <1>3. Stays(p)
    BY <1>1, <1>2, BecomesStays
  <1>4. \E next \in {"unlock"} : pc' = [pc EXCEPT ![p] = next]
    BY DEF AppendUnclear, Goto
  <1> QED
    BY <1>3, <1>4 DEF AppendUnclear, bounds, locks, Steady, Fault, Within, RunHeld

LEMMA WriteStatusWithin == ASSUME JobShape, NEW p \in Procs, WriteStatus(p) PROVE Within(p)
  <1> DEFINE r == [job[p] EXCEPT !.outcome = "ok"]
  <1>1. Fields \subseteq DOMAIN r /\ r.kind = job[p].kind /\ r.todo = job[p].todo
          /\ r.version = job[p].version
    BY DEF JobShape
  <1>2. Becomes(p, r)
    BY DEF WriteStatus
  <1> HIDE DEF r
  <1>3. Stays(p)
    BY <1>1, <1>2, BecomesStays
  <1>4. \E next \in {"unlock"} : pc' = [pc EXCEPT ![p] = next]
    BY DEF WriteStatus, Goto
  <1> QED
    BY <1>3, <1>4 DEF WriteStatus, bounds, locks, Steady, Fault, Within, RunHeld

LEMMA StatusFailsWithin == ASSUME JobShape, NEW p \in Procs, StatusFails(p) PROVE Within(p)
  <1> DEFINE r == [job[p] EXCEPT !.outcome = "unclear"]
  <1>1. Fields \subseteq DOMAIN r /\ r.kind = job[p].kind /\ r.todo = job[p].todo
          /\ r.version = job[p].version
    BY DEF JobShape
  <1>2. Becomes(p, r)
    BY DEF StatusFails
  <1> HIDE DEF r
  <1>3. Stays(p)
    BY <1>1, <1>2, BecomesStays
  <1>4. \E next \in {"unlock"} : pc' = [pc EXCEPT ![p] = next]
    BY DEF StatusFails, Goto
  <1> QED
    BY <1>3, <1>4 DEF StatusFails, bounds, locks, Steady, Fault, Within, RunHeld

LEMMA WriteResolvedWithin == ASSUME JobShape, NEW p \in Procs, WriteResolved(p) PROVE Within(p)
  <1>1. CASE Fail(p)
    BY <1>1, FailWithin DEF WriteResolved, bounds, locks, Steady, Fault, Within, RunHeld
  <1>2. CASE ~Fail(p)
    <2>3. Stays(p)
      BY <1>2, UnchangedStays DEF WriteResolved
    <2>4. \E next \in {"manifest"} : pc' = [pc EXCEPT ![p] = next]
      BY <1>2 DEF WriteResolved, Goto
    <2> QED
      BY <2>3, <2>4 DEF WriteResolved, bounds, locks, Steady, Fault, Within, RunHeld
  <1> QED
    BY <1>1, <1>2

LEMMA WriteManifestWithin == ASSUME JobShape, NEW p \in Procs, WriteManifest(p) PROVE Within(p)
  <1>1. CASE Fail(p)
    BY <1>1, FailWithin DEF WriteManifest, bounds, locks, Steady, Fault, Within, RunHeld
  <1>2. CASE ~Fail(p)
    <2>3. Stays(p)
      BY <1>2, UnchangedStays DEF WriteManifest
    <2>4. \E next \in {"current"} : pc' = [pc EXCEPT ![p] = next]
      BY <1>2 DEF WriteManifest, Goto
    <2> QED
      BY <2>3, <2>4 DEF WriteManifest, bounds, locks, Steady, Fault, Within, RunHeld
  <1> QED
    BY <1>1, <1>2

LEMMA CommitWithin == ASSUME Shape, NEW p \in Procs, Commit(p) PROVE Within(p)
  <1> USE DEF Shape
  <1>1. CASE Fail(p)
    BY <1>1, FailWithin DEF Commit, bounds, Within, RunHeld
  <1>2. CASE job[p].staged = <<>>
    BY <1>2, UnchangedStays DEF Commit, Goto, bounds, Within, RunHeld
  <1>3. CASE job[p].staged # <<>> /\ ~Fail(p)
    <2> DEFINE r == [job[p] EXCEPT !.staged = Tail(@), !.moved = Append(@, Head(job[p].staged))]
    <2>1. Fields \subseteq DOMAIN r /\ r.kind = job[p].kind /\ r.todo = job[p].todo
          /\ r.version = job[p].version
      BY DEF JobShape
    <2>2. Becomes(p, r) /\ UNCHANGED pc
      BY <1>3 DEF Commit
    <2> HIDE DEF r
    <2>3. Stays(p)
      BY <2>1, <2>2, BecomesStays
    <2> QED
      BY <2>2, <2>3 DEF Commit, bounds, Within, RunHeld
  <1> QED
    BY <1>1, <1>2, <1>3

LEMMA WriteCurrentWithin == ASSUME JobShape, NEW p \in Procs, WriteCurrent(p) PROVE Within(p)
  <1>1. CASE Fail(p)
    BY <1>1, FailWithin DEF WriteCurrent, bounds, Within, RunHeld
  <1>2. CASE ~Fail(p) /\ job[p].kind = "refresh"
    BY <1>2, UnchangedStays DEF WriteCurrent, Goto, bounds, Within, RunHeld
  <1>3. CASE ~Fail(p) /\ job[p].kind # "refresh"
    <2> DEFINE r == [job[p] EXCEPT !.outcome = "ok"]
    <2>1. Fields \subseteq DOMAIN r /\ r.kind = job[p].kind /\ r.todo = job[p].todo
          /\ r.version = job[p].version
      BY DEF JobShape
    <2>2. Becomes(p, r) /\ pc' = [pc EXCEPT ![p] = "unlock"]
      BY <1>3 DEF WriteCurrent, Goto
    <2> HIDE DEF r
    <2>3. Stays(p)
      BY <2>1, <2>2, BecomesStays
    <2> QED
      BY <2>2, <2>3 DEF WriteCurrent, bounds, Within, RunHeld
  <1> QED
    BY <1>1, <1>2, <1>3

LEMMA CallFailsWithin == ASSUME JobShape, NEW p \in Procs, CallFails(p) PROVE Within(p)
  BY FailWithin DEF CallFails, Steady, locks, Within, RunHeld

LEMMA FileStepWithin ==
    ASSUME Shape, NEW p \in Procs,
           \/ FileStep(p) \/ RollbackFails(p)
           \/ AppendUnclear(p) \/ StatusFails(p) \/ CallFails(p)
    PROVE  Within(p)
  BY LoadWithin, StageWithin, CommitWithin, RollbackWithin, RollbackFailsWithin,
     AppendEventWithin, AppendUnclearWithin, WriteStatusWithin, StatusFailsWithin,
     WriteResolvedWithin, WriteManifestWithin, WriteCurrentWithin, CallFailsWithin
     DEF FileStep, Shape

-----------------------------------------------------------------------------
(* The invariant.                                                          *)

\* Whoever is at a step that holds a lock has it.
LocksHeld ==
    /\ \A p \in Procs : pc[p] \in RunsHeld => runs = p
    /\ ~removing => \A p \in Procs : pc[p] \in RunHeld => lock = p

\* A command is orc run start until it has published the run, and something is
\* left to do then.
Todo ==
    \A p \in Procs :
       /\ job[p].todo \in Seq(StartKinds)
       /\ pc[p] \in {"reserve", "publish"} => job[p].kind = "start"
       /\ pc[p] \in {"reserve", "publish"} => job[p].todo # <<>>
       /\ pc[p] = "runs" /\ job[p].kind = "start" => job[p].todo # <<>>

\* Until a start has reserved the directory, everybody else turns away from a
\* run that is not there.
Starting(p) == job[p].kind = "start" /\ pc[p] \in {"runs", "reserve"}

AloneUntilReserved ==
    \A p \in Procs : Starting(p) =>
       /\ started /\ ~exists
       /\ \A q \in Procs \ {p} :
             /\ pc[q] \in {"idle", "runs", "validate"}
             /\ job[q].kind \notin StartKinds \union {"start"}

QuietUntilStarted ==
    ~started =>
       /\ ~exists
       /\ \A p \in Procs : pc[p] = "idle" /\ job[p].kind = "none"

IInv == Shape /\ LocksHeld /\ Todo /\ AloneUntilReserved /\ QuietUntilStarted

LEMMA InitIInv == Init => IInv
  <1> SUFFICES ASSUME Init PROVE IInv
    OBVIOUS
  <1>1. \A p \in Procs :
           Fields \subseteq DOMAIN job[p] /\ job[p].kind = "none" /\ job[p].todo = <<>>
    BY DEF Init, NoJob, Fields
  <1>2. Shape
    BY <1>1 DEF Init, Shape, JobShape
  <1>3. LocksHeld
    BY DEF Init, LocksHeld, RunsHeld, RunHeld
  <1>4. Todo
    <2>1. <<>> \in Seq(StartKinds)
      OBVIOUS
    <2>2. \A p \in Procs : pc[p] = "idle"
      BY DEF Init
    <2> QED
      BY <1>1, <2>1, <2>2 DEF Todo
  <1>5. AloneUntilReserved
    BY <1>1 DEF Init, AloneUntilReserved, Starting
  <1>6. QuietUntilStarted
    BY <1>1 DEF Init, QuietUntilStarted
  <1> QED
    BY <1>2, <1>3, <1>4, <1>5, <1>6 DEF IInv

LEMMA WithinIInv ==
    ASSUME IInv, NEW p \in Procs, Within(p)
    PROVE  IInv'
  <1> USE DEF IInv, Within, Stays, Turns
  <1>1. Shape'
    <2>1. PICK next \in RunHeld : pc' = [pc EXCEPT ![p] = next]
      OBVIOUS
    <2>2. (pc \in [Procs -> RunsHeld \union RunHeld \union {"idle", "runs", "cleanup"}])'
      BY <2>1 DEF Shape
    <2> QED
      BY <2>2 DEF Shape, locks
  <1>2. LocksHeld'
    BY DEF Shape, LocksHeld, locks, RunHeld, RunsHeld
  <1>3. Todo'
    BY DEF Shape, Todo, RunHeld
  <1>4. ~\E q \in Procs : Starting(q)
    BY DEF Shape, AloneUntilReserved, Starting, RunHeld
  <1>5. AloneUntilReserved'
    BY <1>4 DEF Shape, AloneUntilReserved, Starting, RunHeld
  <1>6. QuietUntilStarted'
    BY DEF QuietUntilStarted, RunHeld
  <1> QED
    BY <1>1, <1>2, <1>3, <1>5, <1>6

-----------------------------------------------------------------------------
(* The other steps.                                                        *)

LEMMA StartNotAStep == "start" \notin StartKinds /\ "none" \notin StartKinds /\ "report" \notin StartKinds
  BY DEF StartKinds

LEMMA StartStepsKinds == Range(StartSteps) \subseteq StartKinds
  BY StepsAssumption DEF StartKinds, Range

LEMMA BeginIInv ==
    ASSUME IInv, NEW p \in Procs, NEW kind \in Commands \union {"start"}, Begin(p, kind)
    PROVE  IInv'
  <1> USE DEF IInv
  <1> DEFINE todo == IF kind = "start" THEN StartSteps ELSE <<>>
             version == IF kind = "refresh" THEN Current + 1 ELSE 1
             r == [NoJob EXCEPT
                     !.kind = kind,
                     !.todo = todo,
                     !.version = version,
                     !.content = IF kind = "report" /\ Has("events") THEN ActiveAttempt ELSE ops + 1]
  <1>1. Fields \subseteq DOMAIN r /\ r.kind = kind /\ r.todo = todo
        /\ r.version = version
    BY DEF NoJob, Fields
  <1>2. Becomes(p, r)
    BY DEF Begin
  <1> HIDE DEF r
  <1>3. Turns(p, kind, todo, version)
    BY <1>1, <1>2, BecomesTurns DEF Shape
  <1>4. /\ pc[p] = "idle" /\ pc' = [pc EXCEPT ![p] = "runs"]
        /\ UNCHANGED <<locks, exists, removing>> /\ started'
        /\ kind = "start" => ~started
    BY DEF Begin, Goto, tree
  <1>5. todo \in Seq(StartKinds) /\ (kind = "start" => todo # <<>>)
    BY StepsAssumption DEF StartKinds
  <1>6. kind \notin StartKinds
    BY StepsAssumption DEF StartKinds
  <1> HIDE DEF todo, version
  <1>7. Shape'
    BY <1>3, <1>4 DEF Shape, Turns, locks
  <1>8. LocksHeld'
    BY <1>4 DEF Shape, LocksHeld, locks, RunHeld, RunsHeld
  <1>9. Todo'
    BY <1>3, <1>4, <1>5 DEF Shape, Todo, Turns
  <1>10. AloneUntilReserved'
    BY <1>3, <1>4, <1>6, StartNotAStep
       DEF Shape, AloneUntilReserved, QuietUntilStarted, Starting, Turns
  <1>11. QuietUntilStarted'
    BY <1>4 DEF QuietUntilStarted
  <1> QED
    BY <1>7, <1>8, <1>9, <1>10, <1>11

\* A command returns, or turns to the removal of the run it started.
Leaves(p) ==
    /\ pc[p] # "idle"
    /\ \E next \in {"idle", "cleanup"} :
          /\ pc' = [pc EXCEPT ![p] = next]
          /\ next = "cleanup" => job[p].kind \in StartKinds
    /\ \/ Stays(p)
       \/ Turns(p, "none", <<>>, 0)
       \/ job[p].kind = "report" /\ Turns(p, "report", <<>>, 0)
    /\ runs' = runs \/ (runs = p /\ runs' = NoOne)
    /\ removing => removing'
    /\ \/ lock' = lock
       \/ lock' = NoOne /\ (lock = p \/ removing')
    /\ exists' => exists
    /\ UNCHANGED started

LEMMA LeavesIInv ==
    ASSUME IInv, NEW p \in Procs, Leaves(p)
    PROVE  IInv'
  <1> USE DEF IInv
  <1>1. PICK next \in {"idle", "cleanup"} :
           /\ pc' = [pc EXCEPT ![p] = next]
           /\ next = "cleanup" => job[p].kind \in StartKinds
    BY DEF Leaves
  <1>2. PICK kind, todo, version :
           /\ Turns(p, kind, todo, version)
           /\ \/ kind = job[p].kind /\ todo = job[p].todo
              \/ kind \in {"none", "report"} /\ todo = <<>>
    BY DEF Leaves, Stays
  <1>3. todo \in Seq(StartKinds)
    <2>1. <<>> \in Seq(StartKinds)
      OBVIOUS
    <2>2. job[p].todo \in Seq(StartKinds)
      BY DEF Todo
    <2> QED
      BY <1>2, <2>1, <2>2
  <1>4. Shape'
    BY <1>1, <1>2 DEF Shape, Turns, Leaves
  <1>5. LocksHeld'
    <2>1. \A q \in Procs : (pc[q] \in RunsHeld)' => runs' = q
      BY <1>1, ProcsAssumption DEF Shape, LocksHeld, Leaves, RunsHeld
    <2>2. ~removing' => \A q \in Procs : (pc[q] \in RunHeld)' => lock' = q
      BY <1>1, ProcsAssumption DEF Shape, LocksHeld, Leaves, RunHeld
    <2> QED
      BY <2>1, <2>2 DEF LocksHeld, RunsHeld, RunHeld
  <1>6. Todo'
    BY <1>1, <1>2, <1>3 DEF Shape, Todo, Turns
  <1>7. AloneUntilReserved'
    BY <1>1, <1>2, StartNotAStep DEF Shape, AloneUntilReserved, Starting, Turns, Leaves
  <1>8. QuietUntilStarted'
    BY DEF Leaves, QuietUntilStarted
  <1> QED
    BY <1>4, <1>5, <1>6, <1>7, <1>8

LEMMA ReturnedLeaves ==
    ASSUME JobShape, NEW p \in Procs, NEW outcome, Becomes(p, Returned(p, outcome))
    PROVE  Turns(p, "none", <<>>, 0) \/ (job[p].kind = "report" /\ Turns(p, "report", <<>>, 0))
  BY ReturnedTurns

LEMMA ValidateLeaves == ASSUME IInv, NEW p \in Procs, Validate(p), ~exists PROVE Leaves(p)
  <1> USE DEF IInv
  <1>1. runs = p
    BY DEF Validate, LocksHeld, RunsHeld
  <1>2. Turns(p, "none", <<>>, 0) \/ (job[p].kind = "report" /\ Turns(p, "report", <<>>, 0))
    BY ReturnedLeaves DEF Validate, Shape
  <1>3. \E next \in {"idle", "cleanup"} :
           /\ pc' = [pc EXCEPT ![p] = next]
           /\ next = "cleanup" => job[p].kind \in Range(StartSteps)
    BY DEF Validate, Goto
  <1> QED
    BY <1>1, <1>2, <1>3, StartStepsKinds DEF Validate, Leaves, tree, bounds

LEMMA ValidateIInv == ASSUME IInv, NEW p \in Procs, Validate(p) PROVE IInv'
  <1> USE DEF IInv
  <1>1. CASE exists
    <2>1. /\ pc[p] = "validate" /\ pc' = [pc EXCEPT ![p] = "run"]
          /\ UNCHANGED <<runs, job, lock, tree, bounds>>
      BY <1>1 DEF Validate, Goto
    <2>2. Shape'
      BY <2>1, UnchangedStays DEF Shape, JobShape, RunsHeld
    <2>3. LocksHeld'
      BY <2>1 DEF Shape, LocksHeld, RunsHeld, RunHeld, bounds
    <2>4. Todo'
      BY <2>1 DEF Shape, Todo
    <2>5. AloneUntilReserved'
      BY <1>1, <2>1 DEF Shape, AloneUntilReserved, Starting, tree
    <2>6. QuietUntilStarted'
      BY <1>1, <2>1 DEF QuietUntilStarted, tree, bounds
    <2> QED
      BY <2>2, <2>3, <2>4, <2>5, <2>6
  <1>2. CASE ~exists
    BY <1>2, ValidateLeaves, LeavesIInv
  <1> QED
    BY <1>1, <1>2

LEMMA LockRunsIInv == ASSUME IInv, NEW p \in Procs, LockRuns(p) PROVE IInv'
  <1> USE DEF IInv
  <1>1. PICK next \in {"reserve", "validate"} :
           /\ pc' = [pc EXCEPT ![p] = next]
           /\ next = "reserve" <=> job[p].kind = "start"
    BY DEF LockRuns, Goto
  <1>2. /\ pc[p] = "runs" /\ runs = NoOne /\ runs' = p
        /\ UNCHANGED <<lock, exists, job, started, removing>>
    BY DEF LockRuns, tree, bounds
  <1>3. Shape'
    BY <1>1, <1>2 DEF Shape, JobShape, RunsHeld
  <1>4. LocksHeld'
    BY <1>1, <1>2, ProcsAssumption DEF Shape, LocksHeld, RunsHeld, RunHeld
  <1>5. Todo'
    BY <1>1, <1>2 DEF Shape, Todo
  <1>6. AloneUntilReserved'
    BY <1>1, <1>2 DEF Shape, AloneUntilReserved, Starting
  <1>7. QuietUntilStarted'
    BY <1>2 DEF QuietUntilStarted
  <1> QED
    BY <1>3, <1>4, <1>5, <1>6, <1>7

LEMMA LockRunIInv == ASSUME IInv, NEW p \in Procs, LockRun(p) PROVE IInv'
  <1> USE DEF IInv
  <1>1. /\ pc[p] = "run" /\ pc' = [pc EXCEPT ![p] = "load"]
        /\ lock = NoOne /\ lock' = p /\ runs' = NoOne
        /\ UNCHANGED <<exists, job, started, removing>>
    BY DEF LockRun, Goto, tree, bounds
  <1>2. runs = p
    BY <1>1 DEF LocksHeld, RunsHeld
  <1>3. Shape'
    BY <1>1 DEF Shape, JobShape, RunHeld
  <1>4. LocksHeld'
    BY <1>1, <1>2, ProcsAssumption DEF Shape, LocksHeld, RunsHeld, RunHeld
  <1>5. Todo'
    BY <1>1 DEF Shape, Todo
  <1>6. AloneUntilReserved'
    BY <1>1 DEF Shape, AloneUntilReserved, Starting
  <1>7. QuietUntilStarted'
    BY <1>1 DEF QuietUntilStarted
  <1> QED
    BY <1>3, <1>4, <1>5, <1>6, <1>7

LEMMA ReserveIInv == ASSUME IInv, NEW p \in Procs, Reserve(p) PROVE IInv'
  <1> USE DEF IInv
  <1>1. /\ pc[p] = "reserve" /\ pc' = [pc EXCEPT ![p] = "publish"]
        /\ lock' = p /\ exists'
        /\ UNCHANGED <<runs, job, started, removing>>
    BY DEF Reserve, Goto, bounds
  <1>2. runs = p /\ Starting(p)
    BY <1>1 DEF LocksHeld, RunsHeld, Todo, Starting
  <1>3. started /\ \A q \in Procs \ {p} :
           /\ pc[q] \in {"idle", "runs", "validate"}
           /\ job[q].kind \notin StartKinds \union {"start"}
    BY <1>2 DEF AloneUntilReserved
  <1>4. Shape'
    BY <1>1 DEF Shape, JobShape, RunHeld
  <1>5. LocksHeld'
    BY <1>1, <1>2, <1>3 DEF Shape, LocksHeld, RunsHeld, RunHeld
  <1>6. Todo'
    BY <1>1 DEF Shape, Todo
  <1>7. AloneUntilReserved'
    BY <1>1, <1>3 DEF Shape, AloneUntilReserved, Starting
  <1>8. QuietUntilStarted'
    BY <1>1, <1>3 DEF QuietUntilStarted
  <1> QED
    BY <1>4, <1>5, <1>6, <1>7, <1>8

\* A command that has done one of its operations goes on to the next.
GoesOn(p) ==
    /\ pc[p] \in {"publish", "unlock", "idle"}
    /\ pc' = [pc EXCEPT ![p] = "runs"]
    /\ \E kind \in StartKinds \union {"report"}, todo \in Seq(StartKinds),
          version \in {0, 1, job[p].version} :
          /\ Turns(p, kind, todo, version)
          /\ kind \in StartKinds =>
                /\ pc[p] # "idle"
                /\ version = IF pc[p] = "publish" THEN job[p].version ELSE 1
          /\ kind = "report" => job[p].kind = "report"
    /\ \/ runs' = runs
       \/ runs' = NoOne /\ runs = p
    /\ \/ lock' = lock
       \/ lock' = NoOne /\ lock = p
       \/ lock' = NoOne /\ pc[p] = "publish"
    /\ UNCHANGED <<exists, started, removing>>

LEMMA GoesOnIInv ==
    ASSUME IInv, NEW p \in Procs, GoesOn(p)
    PROVE  IInv'
  <1> USE DEF IInv
  <1>1. PICK kind \in StartKinds \union {"report"}, todo \in Seq(StartKinds),
             version \in {0, 1, job[p].version} :
          /\ Turns(p, kind, todo, version)
          /\ kind \in StartKinds => pc[p] # "idle"
          /\ kind = "report" => job[p].kind = "report"
    BY DEF GoesOn
  <1>2. /\ pc[p] \in {"publish", "unlock", "idle"}
        /\ pc' = [pc EXCEPT ![p] = "runs"]
        /\ UNCHANGED <<exists, started, removing>>
    BY DEF GoesOn
  <1>3. Shape'
    BY <1>1, <1>2 DEF Shape, Turns, GoesOn
  <1>4. LocksHeld'
    <2>1. \A q \in Procs : (pc[q] \in RunsHeld)' => runs' = q
      BY <1>2, ProcsAssumption DEF Shape, LocksHeld, GoesOn, RunsHeld
    <2>2. ~removing' => \A q \in Procs : (pc[q] \in RunHeld)' => lock' = q
      BY <1>2, ProcsAssumption DEF Shape, LocksHeld, GoesOn, RunHeld
    <2> QED
      BY <2>1, <2>2 DEF LocksHeld, RunsHeld, RunHeld
  <1>5. Todo'
    BY <1>1, <1>2, StartNotAStep DEF Shape, Todo, Turns
  <1>6. AloneUntilReserved'
    BY <1>1, <1>2, StartNotAStep DEF Shape, AloneUntilReserved, Starting, Turns
  <1>7. QuietUntilStarted'
    BY <1>1, <1>2 DEF QuietUntilStarted
  <1> QED
    BY <1>3, <1>4, <1>5, <1>6, <1>7

LEMMA UnlockEffect ==
    ASSUME IInv, NEW p \in Procs, Unlock(p)
    PROVE  Leaves(p) \/ GoesOn(p)
  <1> USE DEF IInv
  <1>1. /\ pc[p] = "unlock"
        /\ lock' = lock \/ (lock' = NoOne /\ lock = p)
        /\ UNCHANGED <<runs, exists, started, removing>>
    BY DEF Unlock, Released, tree, bounds
  <1>2. CASE job[p].todo = <<>> \/ job[p].outcome # "ok"
    <2>1. Turns(p, "none", <<>>, 0) \/ (job[p].kind = "report" /\ Turns(p, "report", <<>>, 0))
      BY <1>2, ReturnedLeaves DEF Unlock, Shape
    <2>2. \E next \in {"idle", "cleanup"} :
             /\ pc' = [pc EXCEPT ![p] = next]
             /\ next = "cleanup" => job[p].kind \in Range(StartSteps)
      BY <1>2 DEF Unlock, Goto
    <2>3. Leaves(p)
      BY <1>1, <2>1, <2>2, StartStepsKinds DEF Leaves
    <2> QED
      BY <2>3
  <1>3. CASE ~(job[p].todo = <<>> \/ job[p].outcome # "ok")
    <2> DEFINE r == [NoJob EXCEPT !.kind = Head(job[p].todo), !.todo = Tail(job[p].todo),
                                  !.version = 1, !.content = job[p].content]
    <2>1. Fields \subseteq DOMAIN r /\ r.kind = Head(job[p].todo)
          /\ r.todo = Tail(job[p].todo) /\ r.version = 1
      BY DEF NoJob, Fields
    <2>2. Becomes(p, r) /\ pc' = [pc EXCEPT ![p] = "runs"]
      BY <1>3 DEF Unlock, Goto
    <2> HIDE DEF r
    <2>3. Turns(p, Head(job[p].todo), Tail(job[p].todo), 1)
      BY <2>1, <2>2, BecomesTurns DEF Shape
    <2>4. Head(job[p].todo) \in StartKinds /\ Tail(job[p].todo) \in Seq(StartKinds)
      BY <1>3 DEF Todo
    <2>5. GoesOn(p)
      BY <1>1, <2>2, <2>3, <2>4, StartNotAStep DEF GoesOn
    <2> QED
      BY <2>5
  <1> QED
    BY <1>2, <1>3

LEMMA ReportAgainEffect == ASSUME IInv, NEW p \in Procs, ReportAgain(p) PROVE GoesOn(p)
  <1> USE DEF IInv
  <1> DEFINE r == [NoJob EXCEPT !.kind = "report", !.content = job[p].content]
  <1>1. Fields \subseteq DOMAIN r /\ r.kind = "report" /\ r.todo = <<>>
        /\ r.version = 0
    BY DEF NoJob, Fields
  <1>2. Becomes(p, r)
    BY DEF ReportAgain
  <1> HIDE DEF r
  <1>3. Turns(p, "report", <<>>, 0)
    BY <1>1, <1>2, BecomesTurns DEF Shape
  <1>4. <<>> \in Seq(StartKinds)
    OBVIOUS
  <1> QED
    BY <1>3, <1>4, StartNotAStep DEF ReportAgain, Goto, GoesOn, locks, tree

LEMMA PublishEffect ==
    ASSUME IInv, NEW p \in Procs, Publish(p)
    PROVE  \/ /\ \E i \in DOMAIN Layout : ~Has(Layout[i]) /\ Put(Layout[i], Fresh(Layout[i]))
              /\ UNCHANGED <<locks, pc, job, exists, bounds>>
           \/ GoesOn(p) /\ UNCHANGED <<disk, ops>>
  <1> USE DEF IInv
  <1>1. pc[p] = "publish" /\ runs = p /\ UNCHANGED <<exists, bounds>>
    BY DEF Publish, LocksHeld, RunsHeld
  <1>2. CASE \E i \in DOMAIN Layout :
                /\ ~Has(Layout[i]) /\ \A k \in 1..(i - 1) : Has(Layout[k])
                /\ Put(Layout[i], Fresh(Layout[i]))
                /\ UNCHANGED <<locks, pc, job>>
    BY <1>1, <1>2
  <1>3. CASE /\ lock' = NoOne /\ runs' = NoOne
             /\ Goto(p, "runs")
             /\ Becomes(p, [job[p] EXCEPT !.kind = Head(job[p].todo), !.todo = Tail(@)])
             /\ UNCHANGED disk
    <2> DEFINE r == [job[p] EXCEPT !.kind = Head(job[p].todo), !.todo = Tail(@)]
    <2>1. Fields \subseteq DOMAIN r /\ r.kind = Head(job[p].todo)
          /\ r.todo = Tail(job[p].todo) /\ r.version = job[p].version
      BY DEF Shape, JobShape
    <2>2. Becomes(p, r) /\ pc' = [pc EXCEPT ![p] = "runs"] /\ lock' = NoOne /\ runs' = NoOne
      BY <1>3 DEF Goto
    <2> HIDE DEF r
    <2>3. Turns(p, Head(job[p].todo), Tail(job[p].todo), job[p].version)
      BY <2>1, <2>2, BecomesTurns DEF Shape
    <2>4. Head(job[p].todo) \in StartKinds /\ Tail(job[p].todo) \in Seq(StartKinds)
      BY <1>1 DEF Todo
    <2>5. UNCHANGED <<exists, started, removing, ops>>
      BY <1>1 DEF bounds
    <2>6. GoesOn(p)
      BY <1>1, <2>2, <2>3, <2>4, <2>5, StartNotAStep DEF GoesOn
    <2> QED
      BY <1>3, <2>5, <2>6
  <1> QED
    BY <1>2, <1>3 DEF Publish

\* The end of a publication that failed, or the removal of a run.
LEMMA PublishFailsIInv == ASSUME IInv, NEW p \in Procs, PublishFails(p) PROVE IInv'
  <1> USE DEF IInv
  <1>1. /\ pc[p] = "publish" /\ pc' = [pc EXCEPT ![p] = "unpublish"]
        /\ UNCHANGED <<runs, lock, exists, job, started, removing>>
    BY DEF PublishFails, Goto, Steady, locks, tree
  <1>2. Shape'
    BY <1>1 DEF Shape, JobShape, RunHeld
  <1>3. LocksHeld'
    BY <1>1 DEF Shape, LocksHeld, RunsHeld, RunHeld
  <1>4. Todo'
    BY <1>1 DEF Shape, Todo
  <1>5. AloneUntilReserved'
    BY <1>1 DEF Shape, AloneUntilReserved, Starting
  <1>6. QuietUntilStarted'
    BY <1>1 DEF QuietUntilStarted
  <1> QED
    BY <1>2, <1>3, <1>4, <1>5, <1>6

LEMMA RemovesIInv ==
    ASSUME IInv, NEW p \in Procs, (\E part \in Parts : RemovePart(p, part)) \/ RemoveLock(p)
    PROVE  IInv'
  <1> USE DEF IInv
  <1>1. /\ removing' /\ lock' \in {lock, NoOne}
        /\ UNCHANGED <<runs, exists, pc, job, started>>
    BY DEF RemovePart, RemoveLock, locks, tree
  <1>2. Shape'
    BY <1>1 DEF Shape, JobShape
  <1>3. LocksHeld'
    BY <1>1 DEF LocksHeld
  <1>4. Todo' /\ AloneUntilReserved' /\ QuietUntilStarted'
    BY <1>1 DEF Todo, AloneUntilReserved, Starting, QuietUntilStarted
  <1> QED
    BY <1>2, <1>3, <1>4

LEMMA EndsEffect ==
    ASSUME IInv, NEW p \in Procs,
           GiveUp(p) \/ Unpublish(p) \/ RemoveDir(p) \/ RemovalFails(p) \/ Crash(p)
    PROVE  Leaves(p)
  <1> USE DEF IInv
  <1>1. CASE GiveUp(p)
    <2>1. Turns(p, "none", <<>>, 0) \/ (job[p].kind = "report" /\ Turns(p, "report", <<>>, 0))
      BY <1>1, ReturnedLeaves DEF GiveUp, Shape
    <2>2. \E next \in {"idle", "cleanup"} :
             /\ pc' = [pc EXCEPT ![p] = next]
             /\ next = "cleanup" => job[p].kind \in Range(StartSteps)
      BY <1>1 DEF GiveUp, Goto
    <2>3. pc[p] = "run" => runs = p
      BY DEF LocksHeld, RunsHeld
    <2> QED
      BY <1>1, <2>1, <2>2, <2>3, StartStepsKinds DEF GiveUp, Leaves, tree, Steady
  <1>2. CASE Unpublish(p)
    <2>1. runs = p
      BY <1>2 DEF Unpublish, LocksHeld, RunsHeld
    <2>2. Fields \subseteq DOMAIN NoJob /\ NoJob.kind = "none" /\ NoJob.todo = <<>>
          /\ NoJob.version = 0
      BY DEF NoJob, Fields
    <2>3. Turns(p, "none", <<>>, 0)
      BY <1>2, <2>2, BecomesTurns DEF Unpublish, Shape
    <2> QED
      BY <1>2, <2>1, <2>3 DEF Unpublish, Goto, Leaves
  <1>3. CASE RemoveDir(p) \/ RemovalFails(p)
    <2>1. Stays(p)
      BY <1>3, UnchangedStays DEF RemoveDir, RemovalFails, Shape
    <2> QED
      BY <1>3, <2>1 DEF RemoveDir, RemovalFails, Goto, Leaves, locks, tree, Steady
  <1>4. CASE Crash(p)
    <2>1. Turns(p, "none", <<>>, 0) \/ (job[p].kind = "report" /\ Turns(p, "report", <<>>, 0))
      BY <1>4, ReturnedLeaves DEF Crash, Shape
    <2> QED
      BY <1>4, <2>1 DEF Crash, Goto, Leaves, Released
  <1> QED
    BY <1>1, <1>2, <1>3, <1>4

LEMMA NextIInv == IInv /\ [Next]_vars => IInv'
  <1> SUFFICES ASSUME IInv, [Next]_vars PROVE IInv'
    OBVIOUS
  <1>1. CASE UNCHANGED vars
    BY <1>1 DEF vars, locks, tree, bounds, IInv, Shape, JobShape, LocksHeld, Todo,
                AloneUntilReserved, Starting, QuietUntilStarted
  <1>2. ASSUME NEW p \in Procs, \E kind \in Commands \union {"start"} : Begin(p, kind)
        PROVE  IInv'
    BY <1>2, BeginIInv
  <1>3. ASSUME NEW p \in Procs, ReportAgain(p) PROVE IInv'
    BY <1>3, ReportAgainEffect, GoesOnIInv
  <1>4. ASSUME NEW p \in Procs, Step(p) PROVE IInv'
    <2>1. CASE LockStep(p)
      BY <2>1, LockRunsIInv, ValidateIInv, LockRunIInv, UnlockEffect, LeavesIInv, GoesOnIInv
         DEF LockStep
    <2>2. CASE Publish(p)
      BY <2>2, PublishEffect, GoesOnIInv
         DEF locks, bounds, IInv, Shape, JobShape, LocksHeld, Todo, AloneUntilReserved,
             Starting, QuietUntilStarted
    <2>3. CASE StartStep(p) /\ ~Publish(p)
      BY <2>3, ReserveIInv, EndsEffect, LeavesIInv, RemovesIInv DEF StartStep
    <2>4. CASE FileStep(p)
      BY <2>4, FileStepWithin, WithinIInv DEF IInv
    <2> QED
      BY <1>4, <2>1, <2>2, <2>3, <2>4 DEF Step
  <1>5. ASSUME NEW p \in Procs, FaultyStep(p) PROVE IInv'
    BY <1>5, EndsEffect, LeavesIInv, PublishFailsIInv, FileStepWithin, WithinIInv
       DEF FaultyStep, IInv
  <1> QED
    BY <1>1, <1>2, <1>3, <1>4, <1>5 DEF Next

LEMMA RunFilesInvariant == Spec => []IInv
  BY InitIInv, NextIInv, PTL DEF Spec

\* For any number of processes, operations, failing calls and deaths: at most
\* one process holds the lock on all runs, and at most one is inside the run,
\* until a failed start removes it.
THEOREM LocksExclude == Spec => []OneInside
  <1>1. IInv => OneInside
    BY DEF IInv, LocksHeld, OneInside
  <1> QED
    BY <1>1, RunFilesInvariant, PTL

-----------------------------------------------------------------------------
(* The pointer to the configuration.                                       *)

SnapshotFiles == {"resolved", "manifest"}
Versioned == StartKinds \union {"start", "refresh"}
Writing == {"resolved", "manifest", "current"}

\* A snapshot is complete when the pointer moves to it: its writer has put both
\* files there, and nobody takes a file away from a run that is not removed.
ConfigOK ==
    LET c == disk["config"]
    IN  /\ c \in [current : 0..ops, versions : [1..MaxOps + 1 -> SUBSET SnapshotFiles]]
        /\ c.current # 0 => c.versions[c.current] = SnapshotFiles

WriterOK(p) ==
    /\ pc[p] # "idle" => ops # 0
    /\ job[p].kind \in Versioned /\ pc[p] \notin {"idle", "cleanup"} => job[p].version \in 1..ops
    /\ pc[p] \in Writing => job[p].kind \in {"config", "refresh"}
    /\ pc[p] \in {"manifest", "current"} =>
          Has("config") /\ "resolved" \in disk["config"].versions[job[p].version]
    /\ pc[p] = "current" => "manifest" \in disk["config"].versions[job[p].version]

PointerInv ==
    /\ ops \in 0..MaxOps
    /\ DOMAIN disk = Parts
    /\ ~removing =>
          /\ Has("config") => ConfigOK
          /\ \A p \in Procs : WriterOK(p)

LEMMA PartsAre == Parts = {"artifacts", "config", "followups", "events", "status"}
  <1>1. DOMAIN Layout = 1..5
    BY DEF Layout
  <1>2. /\ Layout[1] = "artifacts" /\ Layout[2] = "config" /\ Layout[3] = "followups"
        /\ Layout[4] = "events" /\ Layout[5] = "status"
    BY DEF Layout
  <1> HIDE DEF Layout
  <1> QED
    BY <1>1, <1>2 DEF Parts, Range

LEMMA InitPointer == Init => PointerInv
  <1> SUFFICES ASSUME Init PROVE PointerInv
    OBVIOUS
  <1>1. \A p \in Procs : pc[p] = "idle"
    BY DEF Init
  <1>2. ~Has("config") /\ DOMAIN disk = Parts /\ ops = 0
    BY PartsAre DEF Init, Has
  <1> QED
    BY <1>1, <1>2, BoundsAssumption DEF PointerInv, WriterOK, Writing

\* A step that leaves the configuration alone.
Aside(p) ==
    /\ disk'["config"] = disk["config"] /\ DOMAIN disk' = DOMAIN disk
    /\ ops' \in {ops, ops + 1} /\ ops' \in 0..MaxOps
    /\ removing => removing'
    /\ \E next, kind, todo, version :
          /\ pc' = [pc EXCEPT ![p] = next]
          /\ Turns(p, kind, todo, version)
          /\ kind \in Versioned /\ next \notin {"idle", "cleanup"} => version \in 1..ops'
          /\ next # "idle" => ops' # 0
          /\ next \notin {"manifest", "current"}
          /\ next = "resolved" => kind \in {"config", "refresh"}

LEMMA AsidePointer ==
    ASSUME Shape, PointerInv, NEW p \in Procs, ~removing' => Aside(p), ops' \in 0..MaxOps,
           DOMAIN disk' = DOMAIN disk
    PROVE  PointerInv'
  <1>1. CASE removing'
    BY <1>1 DEF PointerInv
  <1>2. CASE ~removing'
    <2>1. Aside(p) /\ ~removing
      BY <1>2 DEF Aside
    <2>2. PICK next, kind, todo, version :
             /\ pc' = [pc EXCEPT ![p] = next]
             /\ Turns(p, kind, todo, version)
             /\ kind \in Versioned /\ next \notin {"idle", "cleanup"} => version \in 1..ops'
             /\ next # "idle" => ops' # 0
             /\ next \notin {"manifest", "current"}
             /\ next = "resolved" => kind \in {"config", "refresh"}
      BY <2>1 DEF Aside
    <2>3. Has("config")' <=> Has("config")
      BY <2>1 DEF Aside, Has
    <2>4. Has("config") => ConfigOK
      BY <2>1 DEF PointerInv
    <2>5. Has("config")' => ConfigOK'
      BY <2>1, <2>3, <2>4 DEF Aside, ConfigOK, PointerInv
    <2>6. ASSUME NEW q \in Procs \ {p} PROVE WriterOK(q)'
      <3>1. WriterOK(q)
        BY <2>1 DEF PointerInv
      <3>2. UNCHANGED <<pc[q], job[q]>>
        BY <2>2 DEF Turns, Shape
      <3> QED
        BY <2>1, <2>3, <3>1, <3>2 DEF Aside, WriterOK, PointerInv
    <2>7. WriterOK(p)'
      <3>1. pc'[p] = next /\ job'[p].kind = kind /\ job'[p].version = version
        BY <2>2 DEF Turns, Shape
      <3> QED
        BY <2>2, <3>1 DEF WriterOK, Writing
    <2> QED
      BY <2>5, <2>6, <2>7 DEF PointerInv
  <1> QED
    BY <1>1, <1>2

ConfigType == [current : 0..ops, versions : [1..MaxOps + 1 -> SUBSET SnapshotFiles]]

LEMMA ConfigNotAbsent == PointerInv => Absent \notin ConfigType
  <1> SUFFICES ASSUME Absent \in ConfigType, PointerInv PROVE FALSE
    OBVIOUS
  <1>1. ops \in Nat
    BY BoundsAssumption DEF PointerInv
  <1> QED
    BY <1>1, AbsentAssumption DEF ConfigType, SnapshotFiles

LEMMA ConfigTyped ==
    ASSUME PointerInv, ~removing
    PROVE  /\ Config \in ConfigType
           /\ Config.current # 0 => Config.versions[Config.current] = SnapshotFiles
           /\ Has("config") => Config = disk["config"]
  <1>1. CASE Has("config")
    BY <1>1 DEF PointerInv, ConfigOK, Config, ConfigType
  <1>2. CASE ~Has("config")
    <2>1. Config = [current |-> 0, versions |-> NoVersion]
      BY <1>2 DEF Config, Fresh
    <2>2. NoVersion \in [1..MaxOps + 1 -> SUBSET SnapshotFiles]
      BY DEF NoVersion
    <2>3. 0 \in 0..ops
      BY DEF PointerInv
    <2> QED
      BY <1>2, <2>1, <2>2, <2>3 DEF ConfigType
  <1> QED
    BY <1>1, <1>2

\* One more file of a snapshot, or the pointer to a snapshot that is complete.
Grows(p, next, c) ==
    /\ disk' = [disk EXCEPT !["config"] = c]
    /\ c \in ConfigType
    /\ c.current # 0 => c.versions[c.current] = SnapshotFiles
    /\ \A v \in 1..MaxOps + 1 : Config.versions[v] \subseteq c.versions[v]
    /\ pc' = [pc EXCEPT ![p] = next]
    /\ pc[p] \in Writing
    /\ Stays(p)
    /\ next \in {"manifest", "current"} => "resolved" \in c.versions[job[p].version]
    /\ next = "current" => "manifest" \in c.versions[job[p].version]
    /\ UNCHANGED <<ops, removing>>

LEMMA GrowsPointer ==
    ASSUME Shape, PointerInv, ~removing,
           NEW p \in Procs, NEW next, NEW c, Grows(p, next, c)
    PROVE  PointerInv'
  <1>1. disk'["config"] = c /\ DOMAIN disk' = Parts
    BY PartsAre DEF PointerInv, Grows
  <1>2. Has("config")'
    BY <1>1, ConfigNotAbsent DEF Has, Grows
  <1>3. ConfigOK'
    BY <1>1 DEF ConfigOK, Grows, ConfigType
  <1>4. Has("config") => Config = disk["config"]
    BY ConfigTyped
  <1>5. ops \in 0..MaxOps /\ 1..ops \subseteq 1..MaxOps + 1
    BY BoundsAssumption DEF PointerInv
  <1>6. ASSUME NEW q \in Procs \ {p} PROVE WriterOK(q)'
    <2>1. WriterOK(q)
      BY DEF PointerInv
    <2>2. UNCHANGED <<pc[q], job[q], ops>>
      BY DEF Turns, Stays, Shape, Grows
    <2>3. pc[q] \in {"manifest", "current"} =>
             job[q].version \in 1..MaxOps + 1 /\ Config = disk["config"]
      BY <1>4, <1>5, <2>1 DEF WriterOK, Writing, Versioned, StartKinds
    <2> QED
      BY <1>1, <1>2, <2>1, <2>2, <2>3 DEF WriterOK, Grows
  <1>7. WriterOK(p)'
    <2>1. WriterOK(p)
      BY DEF PointerInv
    <2>2. pc'[p] = next /\ job'[p].kind = job[p].kind /\ job'[p].version = job[p].version
      BY DEF Turns, Stays, Shape, Grows
    <2>3. job[p].kind \in {"config", "refresh"} /\ job[p].version \in 1..ops
      BY <2>1 DEF WriterOK, Grows, Writing, Versioned, StartKinds
    <2> QED
      BY <1>1, <1>2, <2>2, <2>3 DEF WriterOK, Grows
  <1> QED
    BY <1>1, <1>3, <1>5, <1>6, <1>7 DEF PointerInv, Grows

LEMMA ResolvedGrows ==
    ASSUME Shape, PointerInv, ~removing, NEW p \in Procs, WriteResolved(p), ~Fail(p)
    PROVE  PointerInv'
  <1> DEFINE c == WithFile(p, "resolved")
             v == job[p].version
  <1>1. /\ pc[p] = "resolved" /\ pc' = [pc EXCEPT ![p] = "manifest"]
        /\ UNCHANGED <<job, bounds>>
        /\ disk' = [disk EXCEPT !["config"] = c]
    BY DEF WriteResolved, Goto, Put
  <1>2. v \in 1..MaxOps + 1
    BY <1>1, BoundsAssumption DEF PointerInv, WriterOK, Writing, Versioned, StartKinds
  <1>3. /\ Config \in ConfigType
        /\ Config.current # 0 => Config.versions[Config.current] = SnapshotFiles
    BY ConfigTyped
  <1>4. /\ c \in ConfigType /\ c.current = Config.current
        /\ c.versions = [Config.versions EXCEPT ![v] = Config.versions[v] \union {"resolved"}]
    BY <1>2, <1>3 DEF WithFile, ConfigType, SnapshotFiles
  <1> HIDE DEF c, v
  <1>5. /\ "resolved" \in c.versions[v]
        /\ \A w \in 1..MaxOps + 1 : Config.versions[w] \subseteq c.versions[w]
        /\ c.current # 0 => c.versions[c.current] = SnapshotFiles
    <2>0. "resolved" \in SnapshotFiles
      BY DEF SnapshotFiles
    <2>1. /\ Config.versions \in [1..MaxOps + 1 -> SUBSET SnapshotFiles]
          /\ Config.current # 0 => Config.current \in 1..MaxOps + 1
      BY <1>3, BoundsAssumption DEF ConfigType, PointerInv
    <2>2. \A w \in 1..MaxOps + 1 :
             c.versions[w] = IF w = v THEN Config.versions[v] \union {"resolved"}
                             ELSE Config.versions[w]
      BY <1>2, <1>4, <2>1
    <2>3. "resolved" \in c.versions[v]
      BY <1>2, <2>2
    <2>4. \A w \in 1..MaxOps + 1 : Config.versions[w] \subseteq c.versions[w]
      BY <2>2
    <2>5. \A w \in 1..MaxOps + 1 :
             Config.versions[w] = SnapshotFiles => c.versions[w] = SnapshotFiles
      BY <1>2, <2>0, <2>1, <2>2
    <2> QED
      BY <1>2, <1>3, <1>4, <2>1, <2>3, <2>4, <2>5
  <1>6. Stays(p)
    BY <1>1, UnchangedStays DEF Shape
  <1>7. Grows(p, "manifest", c)
    BY <1>1, <1>4, <1>5, <1>6 DEF Grows, bounds, Writing, v
  <1> QED
    BY <1>7, GrowsPointer

LEMMA ManifestGrows ==
    ASSUME Shape, PointerInv, ~removing, NEW p \in Procs, WriteManifest(p), ~Fail(p)
    PROVE  PointerInv'
  <1> DEFINE c == WithFile(p, "manifest")
             v == job[p].version
  <1>1. /\ pc[p] = "manifest" /\ pc' = [pc EXCEPT ![p] = "current"]
        /\ UNCHANGED <<job, bounds>>
        /\ disk' = [disk EXCEPT !["config"] = c]
    BY DEF WriteManifest, Goto, Put
  <1>2. v \in 1..MaxOps + 1
    BY <1>1, BoundsAssumption DEF PointerInv, WriterOK, Writing, Versioned, StartKinds
  <1>3. /\ Config \in ConfigType
        /\ Config.current # 0 => Config.versions[Config.current] = SnapshotFiles
        /\ "resolved" \in Config.versions[v]
    BY <1>1, ConfigTyped DEF PointerInv, WriterOK
  <1>4. /\ c \in ConfigType /\ c.current = Config.current
        /\ c.versions = [Config.versions EXCEPT ![v] = Config.versions[v] \union {"manifest"}]
    BY <1>2, <1>3 DEF WithFile, ConfigType, SnapshotFiles
  <1> HIDE DEF c, v
  <1>5. /\ "resolved" \in c.versions[v] /\ "manifest" \in c.versions[v]
        /\ \A w \in 1..MaxOps + 1 : Config.versions[w] \subseteq c.versions[w]
        /\ c.current # 0 => c.versions[c.current] = SnapshotFiles
    <2>0. "manifest" \in SnapshotFiles
      BY DEF SnapshotFiles
    <2>1. /\ Config.versions \in [1..MaxOps + 1 -> SUBSET SnapshotFiles]
          /\ Config.current # 0 => Config.current \in 1..MaxOps + 1
      BY <1>3, BoundsAssumption DEF ConfigType, PointerInv
    <2>2. \A w \in 1..MaxOps + 1 :
             c.versions[w] = IF w = v THEN Config.versions[v] \union {"manifest"}
                             ELSE Config.versions[w]
      BY <1>2, <1>4, <2>1
    <2>3. "manifest" \in c.versions[v]
      BY <1>2, <2>2
    <2>4. \A w \in 1..MaxOps + 1 : Config.versions[w] \subseteq c.versions[w]
      BY <2>2
    <2>5. \A w \in 1..MaxOps + 1 :
             Config.versions[w] = SnapshotFiles => c.versions[w] = SnapshotFiles
      BY <1>2, <2>0, <2>1, <2>2
    <2> QED
      BY <1>2, <1>3, <1>4, <2>1, <2>3, <2>4, <2>5
  <1>6. Stays(p)
    BY <1>1, UnchangedStays DEF Shape
  <1>7. Grows(p, "current", c)
    BY <1>1, <1>4, <1>5, <1>6 DEF Grows, bounds, Writing, v
  <1> QED
    BY <1>7, GrowsPointer

LEMMA CurrentGrows ==
    ASSUME Shape, PointerInv, ~removing, NEW p \in Procs, WriteCurrent(p), ~Fail(p)
    PROVE  PointerInv'
  <1> DEFINE c == [Config EXCEPT !.current = job[p].version]
             v == job[p].version
  <1>1. /\ pc[p] = "current"
        /\ UNCHANGED bounds
        /\ disk' = [disk EXCEPT !["config"] = c]
    BY DEF WriteCurrent, Put
  <1>2. v \in 1..ops /\ v \in 1..MaxOps + 1
    BY <1>1, BoundsAssumption DEF PointerInv, WriterOK, Writing, Versioned, StartKinds
  <1>3. /\ Config \in ConfigType
        /\ Config.versions[v] = SnapshotFiles
    BY <1>1, <1>2, ConfigTyped DEF PointerInv, WriterOK, ConfigType, SnapshotFiles
  <1>4. c \in ConfigType /\ c.current = v /\ c.versions = Config.versions
    BY <1>2, <1>3 DEF ConfigType
  <1> HIDE DEF c, v
  <1>5. Stays(p) /\ \E next \in RunHeld : pc' = [pc EXCEPT ![p] = next] /\ next \notin Writing
    <2>1. CASE job[p].kind = "refresh"
      BY <2>1, UnchangedStays DEF WriteCurrent, Goto, Shape, RunHeld, Writing
    <2>2. CASE job[p].kind # "refresh"
      <3>1. pc' = [pc EXCEPT ![p] = "unlock"]
        BY <2>2 DEF WriteCurrent, Goto
      <3>2. Stays(p)
        BY WriteCurrentWithin DEF Within, Shape
      <3> QED
        BY <3>1, <3>2 DEF RunHeld, Writing
    <2> QED
      BY <2>1, <2>2
  <1>6. PICK next \in RunHeld : pc' = [pc EXCEPT ![p] = next] /\ next \notin Writing
    BY <1>5
  <1>7. Grows(p, next, c)
    BY <1>1, <1>3, <1>4, <1>5, <1>6 DEF Grows, bounds, Writing, v
  <1> QED
    BY <1>7, GrowsPointer

-----------------------------------------------------------------------------
(* Everything else leaves the configuration alone.                         *)

ConfigKept == disk'["config"] = disk["config"] /\ DOMAIN disk' = DOMAIN disk

LEMMA LeavesAside ==
    ASSUME IInv, PointerInv, ~removing, NEW p \in Procs, Leaves(p), ConfigKept, UNCHANGED ops
    PROVE  Aside(p)
  <1>1. PICK next \in {"idle", "cleanup"} : pc' = [pc EXCEPT ![p] = next]
    BY DEF Leaves
  <1>2. PICK kind, todo, version : Turns(p, kind, todo, version)
    BY DEF Leaves, Stays
  <1>3. ops # 0
    BY DEF PointerInv, WriterOK, Leaves
  <1> QED
    BY <1>1, <1>2, <1>3 DEF Aside, ConfigKept, PointerInv, Leaves

LEMMA GoesOnAside ==
    ASSUME IInv, PointerInv, ~removing, NEW p \in Procs, GoesOn(p), ConfigKept,
           ops' \in 1..MaxOps, ops' \in {ops, ops + 1}
    PROVE  Aside(p)
  <1>1. PICK kind \in StartKinds \union {"report"}, todo \in Seq(StartKinds),
             version \in {0, 1, job[p].version} :
           /\ Turns(p, kind, todo, version)
           /\ kind \in StartKinds => version = IF pc[p] = "publish" THEN job[p].version ELSE 1
    BY DEF GoesOn
  <1>2. pc[p] = "publish" => job[p].version \in 1..ops
    BY DEF PointerInv, WriterOK, IInv, Todo, Versioned
  <1>3. ops \in Nat /\ ops' \in Nat
    BY BoundsAssumption DEF PointerInv
  <1>4. kind \in Versioned => version \in 1..ops'
    BY <1>1, <1>2, <1>3 DEF Versioned
  <1>5. ops' # 0 /\ ops' \in 0..MaxOps
    BY <1>3
  <1>6. pc' = [pc EXCEPT ![p] = "runs"]
    BY DEF GoesOn
  <1>7. \E next, k, t, v :
           /\ pc' = [pc EXCEPT ![p] = next]
           /\ Turns(p, k, t, v)
           /\ k \in Versioned /\ next \notin {"idle", "cleanup"} => v \in 1..ops'
           /\ next # "idle" => ops' # 0
           /\ next \notin {"manifest", "current"}
           /\ next = "resolved" => k \in {"config", "refresh"}
    <2> WITNESS "runs", kind, todo, version
    <2> QED
      BY <1>1, <1>4, <1>5, <1>6
  <1> QED
    BY <1>5, <1>7 DEF Aside, ConfigKept

LEMMA StaysAside ==
    ASSUME IInv, PointerInv, ~removing, NEW p \in Procs, Stays(p), ConfigKept, UNCHANGED ops,
           pc[p] \notin {"idle", "cleanup"},
           NEW next, pc' = [pc EXCEPT ![p] = next],
           next \notin {"manifest", "current"},
           next = "resolved" => job[p].kind \in {"config", "refresh"}
    PROVE  Aside(p)
  <1>1. /\ ops \in 0..MaxOps /\ ops # 0
        /\ job[p].kind \in Versioned => job[p].version \in 1..ops
    BY DEF PointerInv, WriterOK
  <1> QED
    BY <1>1 DEF Aside, Stays, ConfigKept

LEMMA FailAside ==
    ASSUME IInv, PointerInv, ~removing, NEW p \in Procs, Fail(p), ConfigKept, UNCHANGED ops,
           pc[p] \notin {"idle", "cleanup"}
    PROVE  Aside(p)
  <1>1. Stays(p) /\ \E next \in {"rollback", "unlock"} : pc' = [pc EXCEPT ![p] = next]
    BY FailWithin DEF IInv, Shape
  <1> QED
    BY <1>1, StaysAside

LEMMA PutAside == ASSUME NEW part, part # "config", NEW content, Put(part, content) PROVE ConfigKept
  BY DEF Put, ConfigKept

LEMMA BeginAside ==
    ASSUME IInv, PointerInv, ~removing,
           NEW p \in Procs, NEW kind \in Commands \union {"start"}, Begin(p, kind)
    PROVE  Aside(p)
  <1> DEFINE todo == IF kind = "start" THEN StartSteps ELSE <<>>
             version == IF kind = "refresh" THEN Current + 1 ELSE 1
             r == [NoJob EXCEPT
                     !.kind = kind,
                     !.todo = todo,
                     !.version = version,
                     !.content = IF kind = "report" /\ Has("events") THEN ActiveAttempt ELSE ops + 1]
  <1>1. Fields \subseteq DOMAIN r /\ r.kind = kind /\ r.todo = todo
        /\ r.version = version
    BY DEF NoJob, Fields
  <1>2. Becomes(p, r)
    BY DEF Begin
  <1> HIDE DEF r
  <1>3. Turns(p, kind, todo, version)
    BY <1>1, <1>2, BecomesTurns DEF IInv, Shape
  <1>4. /\ pc' = [pc EXCEPT ![p] = "runs"]
        /\ UNCHANGED <<disk, removing>> /\ ops' = ops + 1 /\ ops < MaxOps
    BY DEF Begin, Goto, tree
  <1>5. Current \in 0..ops
    BY BoundsAssumption DEF PointerInv, ConfigOK, Current
  <1>6. version \in 1..ops' /\ ops' # 0 /\ ops' \in 0..MaxOps
    BY <1>4, <1>5, BoundsAssumption DEF PointerInv
  <1> HIDE DEF todo, version
  <1>7. \E next, k, t, v :
           /\ pc' = [pc EXCEPT ![p] = next]
           /\ Turns(p, k, t, v)
           /\ k \in Versioned /\ next \notin {"idle", "cleanup"} => v \in 1..ops'
           /\ next # "idle" => ops' # 0
           /\ next \notin {"manifest", "current"}
           /\ next = "resolved" => k \in {"config", "refresh"}
    <2> WITNESS "runs", kind, todo, version
    <2> QED
      BY <1>3, <1>4, <1>6
  <1> QED
    BY <1>4, <1>6, <1>7 DEF Aside

LEMMA FilesAside ==
    ASSUME IInv, PointerInv, ~removing, NEW p \in Procs, FileStep(p),
           ~WriteResolved(p), ~WriteManifest(p), ~WriteCurrent(p)
    PROVE  Aside(p)
  <1> USE DEF IInv
  <1>2. Within(p)
    BY FileStepWithin
  <1>3. pc[p] \notin {"idle", "cleanup"}
    BY <1>2 DEF Within, RunHeld
  <1>4. ConfigKept
    <2>1. CASE Load(p)
      BY <2>1 DEF Load, ConfigKept, tree
    <2>2. CASE Stage(p)
      BY <2>2, PutAside DEF Stage, ConfigKept
    <2>3. CASE Commit(p)
      BY <2>3, PutAside DEF Commit, Renamed, ConfigKept
    <2>4. CASE Rollback(p)
      BY <2>4, PutAside DEF Rollback, ConfigKept
    <2>5. CASE AppendEvent(p)
      BY <2>5, PutAside DEF AppendEvent, ConfigKept
    <2>6. CASE WriteStatus(p)
      BY <2>6, PutAside DEF WriteStatus
    <2> QED
      BY <2>1, <2>2, <2>3, <2>4, <2>5, <2>6 DEF FileStep
  <1>5. UNCHANGED ops
    BY DEF FileStep, Load, Stage, Commit, Rollback, AppendEvent, WriteStatus, bounds
  <1>6. CASE ~Fail(p)
    <2>1. PICK next \in {"unlock", "append", "stage", "commit", "status", "rollback", "resolved"} :
             /\ Goto(p, next)
             /\ next = "resolved" => job[p].kind \in {"config", "refresh"}
      <3>1. CASE Load(p)
        <4>1. Goto(p, CASE job[p].kind = "load" -> "unlock"
                         [] job[p].kind = "event" -> "append"
                         [] job[p].kind \in {"config", "refresh"} -> "resolved"
                         [] OTHER -> "stage")
          BY <1>6, <3>1 DEF Load
        <4> QED
          BY <4>1
      <3>2. CASE Stage(p)
        BY <1>6, <3>2 DEF Stage
      <3>3. CASE Commit(p)
        <4>1. Goto(p, "append") \/ UNCHANGED pc
          BY <1>6, <3>3 DEF Commit
        <4>2. UNCHANGED pc => Goto(p, "commit")
          BY <3>3 DEF Commit, Shape, Goto
        <4> QED
          BY <4>1, <4>2
      <3>4. CASE Rollback(p)
        BY <3>4 DEF Rollback
      <3>5. CASE AppendEvent(p)
        BY <1>6, <3>5 DEF AppendEvent
      <3>6. CASE WriteStatus(p)
        BY <3>6 DEF WriteStatus
      <3> QED
        BY <3>1, <3>2, <3>3, <3>4, <3>5, <3>6 DEF FileStep
    <2> QED
      BY <1>2, <1>3, <1>4, <1>5, <2>1, StaysAside DEF Within, Goto
  <1>7. CASE Fail(p)
    BY <1>3, <1>4, <1>5, <1>7, FailAside
  <1> QED
    BY <1>6, <1>7

LEMMA FaultsAside ==
    ASSUME IInv, PointerInv, ~removing, NEW p \in Procs,
           RollbackFails(p) \/ AppendUnclear(p) \/ StatusFails(p) \/ CallFails(p)
    PROVE  Aside(p)
  <1> USE DEF IInv
  <1>1. Within(p)
    BY FileStepWithin
  <1>2. pc[p] \notin {"idle", "cleanup"}
    BY <1>1 DEF Within, RunHeld
  <1>3. ConfigKept /\ UNCHANGED ops
    <2>1. CASE AppendUnclear(p)
      BY <2>1, PutAside DEF AppendUnclear, Steady, ConfigKept
    <2> QED
      BY <2>1 DEF RollbackFails, StatusFails, CallFails, ConfigKept, tree, Steady
  <1>4. CASE CallFails(p)
    BY <1>2, <1>3, <1>4, FailAside DEF CallFails
  <1>5. CASE ~CallFails(p)
    <2>1. \E next \in {"rollback", "unlock"} : Goto(p, next)
      BY <1>5 DEF RollbackFails, AppendUnclear, StatusFails
    <2> QED
      BY <1>1, <1>2, <1>3, <2>1, StaysAside DEF Within, Goto
  <1> QED
    BY <1>4, <1>5

\* Steps that move a process and leave its record and the disk alone.
LEMMA MovesAside ==
    ASSUME IInv, PointerInv, ~removing, NEW p \in Procs,
           \/ LockRuns(p) \/ LockRun(p) \/ Reserve(p) \/ PublishFails(p)
           \/ Validate(p) /\ exists
    PROVE  Aside(p)
  <1> USE DEF IInv
  <1>1. \E next \in {"reserve", "validate", "load", "publish", "unpublish", "run"} :
           pc' = [pc EXCEPT ![p] = next]
    BY DEF LockRuns, LockRun, Reserve, PublishFails, Validate, Goto
  <1>2. pc[p] \notin {"idle", "cleanup"} /\ UNCHANGED <<disk, job, ops>>
    BY DEF LockRuns, LockRun, Reserve, PublishFails, Validate, tree, bounds, Steady
  <1>3. Stays(p)
    BY <1>2, UnchangedStays DEF Shape
  <1> QED
    BY <1>1, <1>2, <1>3, StaysAside DEF ConfigKept

\* One more part of a new run.
LEMMA PublishPointer == ASSUME IInv, PointerInv, NEW p \in Procs, Publish(p) PROVE PointerInv'
  <1> USE DEF IInv
  <1>1. CASE GoesOn(p) /\ UNCHANGED <<disk, ops>>
    <2>1. ops' \in 0..MaxOps /\ DOMAIN disk' = DOMAIN disk
      BY <1>1 DEF PointerInv
    <2>2. ASSUME ~removing' PROVE Aside(p)
      <3>1. ~removing /\ pc[p] = "publish"
        BY <1>1, <2>2 DEF GoesOn, Publish
      <3>2. ops \in 1..MaxOps
        BY <3>1, BoundsAssumption DEF PointerInv, WriterOK
      <3> QED
        BY <1>1, <3>1, <3>2, GoesOnAside DEF ConfigKept
    <2> QED
      BY <2>1, <2>2, AsidePointer
  <1>2. ASSUME NEW i \in DOMAIN Layout, ~Has(Layout[i]), Put(Layout[i], Fresh(Layout[i])),
               UNCHANGED <<locks, pc, job, exists, bounds>>
        PROVE  PointerInv'
    <2>1. UNCHANGED <<pc, job, ops, removing>> /\ DOMAIN disk' = DOMAIN disk
      BY <1>2 DEF bounds, Put
    <2>2. CASE removing
      BY <2>1, <2>2 DEF PointerInv
    <2>3. CASE ~removing /\ Layout[i] # "config"
      <3>1. disk'["config"] = disk["config"]
        BY <1>2, <2>3 DEF Put
      <3> QED
        BY <2>1, <3>1 DEF PointerInv, WriterOK, ConfigOK, Has
    <2>4. CASE ~removing /\ Layout[i] = "config"
      <3>1. "config" \in DOMAIN disk /\ ~Has("config")
        BY <1>2, <2>4, PartsAre DEF PointerInv
      <3>2. disk'["config"] = Fresh("config")
        BY <1>2, <2>4, <3>1 DEF Put
      <3>3. Fresh("config") = [current |-> 0, versions |-> NoVersion]
        BY DEF Fresh
      <3>4. NoVersion \in [1..MaxOps + 1 -> SUBSET SnapshotFiles]
        BY DEF NoVersion
      <3>5. ConfigOK'
        BY <2>1, <3>2, <3>3, <3>4, BoundsAssumption DEF PointerInv, ConfigOK
      <3>6. \A q \in Procs : WriterOK(q) /\ pc[q] \notin {"manifest", "current"}
        BY <2>4, <3>1 DEF PointerInv, WriterOK
      <3>7. \A q \in Procs : WriterOK(q)'
        BY <2>1, <3>6 DEF WriterOK
      <3> QED
        BY <2>1, <3>5, <3>7 DEF PointerInv
    <2> QED
      BY <2>2, <2>3, <2>4
  <1> QED
    BY <1>1, <1>2, PublishEffect

\* A step that writes the configuration and fails leaves it alone.
LEMMA FailKeepsConfig ==
    ASSUME Shape, NEW p \in Procs, WriteResolved(p) \/ WriteManifest(p) \/ WriteCurrent(p), Fail(p)
    PROVE  UNCHANGED disk /\ pc[p] \notin {"idle", "cleanup"}
  <1>1. pc'[p] \in {"rollback", "unlock"} /\ job'[p].outcome = "failed"
    BY DEF Fail, Goto, Becomes, Shape, JobShape, Fields
  <1>2. CASE WriteResolved(p) \/ WriteManifest(p)
    BY <1>1, <1>2 DEF WriteResolved, WriteManifest, Goto, Shape
  <1>3. CASE WriteCurrent(p)
    BY <1>1, <1>3 DEF WriteCurrent, Goto, Becomes, Shape, JobShape, Fields
  <1> QED
    BY <1>2, <1>3

LEMMA NextPointer == IInv /\ PointerInv /\ [Next]_vars => PointerInv'
  <1> SUFFICES ASSUME IInv, PointerInv, [Next]_vars PROVE PointerInv'
    OBVIOUS
  <1> USE DEF IInv
  <1>1. CASE UNCHANGED vars
    BY <1>1 DEF vars, locks, tree, bounds, PointerInv, ConfigOK, WriterOK, Has
  <1>2. ASSUME NEW p \in Procs, NEW kind \in Commands \union {"start"}, Begin(p, kind)
        PROVE  PointerInv'
    <2>1. ops' \in 0..MaxOps /\ DOMAIN disk' = DOMAIN disk /\ UNCHANGED removing
      BY <1>2, BoundsAssumption DEF Begin, tree, PointerInv
    <2> QED
      BY <1>2, <2>1, BeginAside, AsidePointer
  <1>3. ASSUME NEW p \in Procs, ReportAgain(p) PROVE PointerInv'
    <2>1. /\ ops' \in 1..MaxOps /\ ops' = ops + 1 /\ UNCHANGED <<disk, removing>>
      BY <1>3, BoundsAssumption DEF ReportAgain, tree, PointerInv
    <2>2. ~removing => Aside(p)
      BY <1>3, <2>1, ReportAgainEffect, GoesOnAside DEF ConfigKept
    <2>3. ops' \in 0..MaxOps
      BY <2>1
    <2> QED
      BY <2>1, <2>2, <2>3, AsidePointer
  \* Once a run is being removed, only the shape of the disk matters.
  <1>4. ASSUME NEW p \in Procs, Step(p) \/ FaultyStep(p), UNCHANGED ops,
               DOMAIN disk' = DOMAIN disk, removing'
        PROVE  PointerInv'
    BY <1>4 DEF PointerInv
  <1>5. ASSUME NEW p \in Procs, Step(p) \/ FaultyStep(p)
        PROVE  UNCHANGED ops /\ DOMAIN disk' = DOMAIN disk /\ (removing => removing')
    <2>1. CASE Unpublish(p)
      BY <2>1 DEF Unpublish, PointerInv
    <2>2. CASE LockStep(p)
      BY <2>2 DEF LockStep, LockRuns, Validate, LockRun, Unlock, tree, bounds
    <2>3. CASE StartStep(p) /\ ~Unpublish(p)
      BY <2>3 DEF StartStep, Reserve, Publish, RemovePart, RemoveLock, RemoveDir, Put, tree, bounds
    <2>4. CASE Load(p) \/ Stage(p) \/ Commit(p) \/ Rollback(p) \/ AppendEvent(p) \/ WriteStatus(p)
      BY <2>4 DEF Load, Stage, Commit, Rollback, AppendEvent, WriteStatus, Renamed, Put, tree, bounds
    <2>5. CASE WriteResolved(p) \/ WriteManifest(p) \/ WriteCurrent(p)
      BY <2>5 DEF WriteResolved, WriteManifest, WriteCurrent, Put, bounds
    <2>6. CASE FaultyStep(p)
      BY <2>6 DEF FaultyStep, GiveUp, PublishFails, RemovalFails, RollbackFails, AppendUnclear,
                  StatusFails, CallFails, Crash, Put, tree, Steady
    <2> QED
      BY <1>5, <2>1, <2>2, <2>3, <2>4, <2>5, <2>6 DEF Step, FileStep
  <1>6. ASSUME NEW p \in Procs, Step(p) \/ FaultyStep(p), ~removing' PROVE PointerInv'
    <2>1. ~removing /\ UNCHANGED ops /\ DOMAIN disk' = DOMAIN disk
      BY <1>5, <1>6
    <2>2. ops' \in 0..MaxOps
      BY <2>1 DEF PointerInv
    <2>3. ASSUME Aside(p) PROVE PointerInv'
      BY <2>1, <2>2, <2>3, AsidePointer
    <2>4. CASE Leaves(p) /\ ConfigKept
      BY <2>1, <2>3, <2>4, LeavesAside
    <2>5. CASE LockStep(p)
      <3>1. UNCHANGED disk
        BY <2>5 DEF LockStep, LockRuns, Validate, LockRun, Unlock, tree
      <3>2. CASE GoesOn(p) /\ Unlock(p)
        <4>1. ops' \in 1..MaxOps
          BY <2>1, <2>2, <3>2, BoundsAssumption DEF Unlock, PointerInv, WriterOK
        <4> QED
          BY <2>1, <2>3, <3>1, <3>2, <4>1, GoesOnAside DEF ConfigKept
      <3> QED
        BY <2>1, <2>3, <2>4, <2>5, <3>1, <3>2, MovesAside, ValidateLeaves, UnlockEffect
           DEF LockStep, ConfigKept
    <2>6. CASE StartStep(p)
      <3>1. Reserve(p) \/ Publish(p)
        BY <1>6, <2>6 DEF StartStep, Unpublish, RemovePart, RemoveLock, RemoveDir
      <3> QED
        BY <2>1, <2>3, <3>1, MovesAside, PublishPointer
    <2>7. CASE FileStep(p)
      <3>1. CASE WriteResolved(p) \/ WriteManifest(p) \/ WriteCurrent(p)
        <4>1. CASE ~Fail(p)
          BY <2>1, <3>1, <4>1, ResolvedGrows, ManifestGrows, CurrentGrows
        <4>2. CASE Fail(p)
          <5>1. UNCHANGED disk /\ pc[p] \notin {"idle", "cleanup"}
            BY <3>1, <4>2, FailKeepsConfig
          <5> QED
            BY <2>1, <2>3, <4>2, <5>1, FailAside DEF ConfigKept
        <4> QED
          BY <4>1, <4>2
      <3> QED
        BY <2>1, <2>3, <2>7, <3>1, FilesAside
    <2>8. CASE FaultyStep(p)
      <3>1. CASE GiveUp(p) \/ Crash(p)
        <4>1. ConfigKept
          BY <3>1, PutAside DEF GiveUp, Crash, ConfigKept, tree
        <4> QED
          BY <2>4, <3>1, <4>1, EndsEffect
      <3>2. ~RemovalFails(p)
        BY <1>6 DEF RemovalFails
      <3> QED
        BY <2>1, <2>3, <2>8, <3>1, <3>2, MovesAside, FaultsAside DEF FaultyStep
    <2> QED
      BY <1>6, <2>5, <2>6, <2>7, <2>8 DEF Step
  <1> QED
    BY <1>1, <1>2, <1>3, <1>4, <1>5, <1>6 DEF Next

\* For any number of operations, failing calls and deaths: until a failed start
\* removes the run, the pointer names a version of the configuration of which
\* both files are there.
THEOREM PointerNeverTorn == Spec => []PointerComplete
  <1>1. PointerInv => PointerComplete
    BY DEF PointerInv, ConfigOK, PointerComplete, Current, SnapshotFiles
  <1> QED
    BY <1>1, InitPointer, NextPointer, RunFilesInvariant, PTL DEF Spec
=============================================================================
