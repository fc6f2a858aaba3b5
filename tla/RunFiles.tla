------------------------------- MODULE RunFiles -------------------------------
(***************************************************************************)
(* The files of one run, one system call at a time: how `orc run start'    *)
(* publishes the run directory (create_load.go, runstart.go), the two      *)
(* locks every operation takes (locking.go), and how an operation changes  *)
(* events.jsonl, the artifacts and the configuration snapshots             *)
(* (status_events.go, artifacts.go, write.go, reports.go,                  *)
(* config_snapshot.go).  Any call may fail, and a command may die at any   *)
(* point.                                                                  *)
(*                                                                         *)
(* RunStore takes each of these operations as one step; here is what holds *)
(* when it is not.  An event is the operation that wrote it and the        *)
(* artifacts it names; temporary files, which no reader opens, are left    *)
(* out.                                                                    *)
(***************************************************************************)
EXTENDS Integers, FiniteSets, Sequences, SequencesExt

CONSTANTS
    Procs,            \* processes that run commands
    Starter,          \* the one that runs orc run start
    NoOne,            \* holds a lock that is free
    Absent,           \* no such file
    StartSteps,       \* what orc run start does once the run is published
    Commands,         \* the other commands
    MaxOps, MaxFaults, MaxCrashes

ASSUME ProcsAssumption == NoOne \notin Procs /\ Starter \in Procs
ASSUME BoundsAssumption == MaxOps \in Nat /\ MaxFaults \in Nat /\ MaxCrashes \in Nat

ASSUME AbsentAssumption ==
    Absent \notin [current : Nat, versions : [1..MaxOps + 1 -> SUBSET {"resolved", "manifest"}]]

\* What a run directory holds, in the order it is published.
Layout == <<"artifacts", "config", "followups", "events", "status">>
Parts == Range(Layout)

ASSUME StepsAssumption ==
    /\ StartSteps \in Seq({"config", "context", "snapshot", "vcs"})
    /\ StartSteps # <<>> /\ StartSteps[1] = "config"
    /\ Commands \subseteq {"load", "event", "summary", "followup", "report", "refresh"}

Singletons == {"context", "snapshot"}
Exclusive == Singletons \union {"vcs", "summary"}
Kinds == {"none", "start"} \union Range(StartSteps) \union Commands

VARIABLES
    runs,      \* who holds .orc/runs/.lock
    lock,      \* who holds the run's .lock
    exists,    \* whether the run directory exists
    disk,      \* part -> content
    pc, job,   \* per process
    ops,       \* commands begun so far
    started,   \* whether the run id has been used
    removing,  \* a failed start has begun to remove the run
    unanswered,  \* a report died, or its append or rollback is unclear
    faults, crashes

locks == <<runs, lock>>
tree == <<exists, disk>>
bounds == <<ops, started, removing, unanswered, faults, crashes>>
vars == <<locks, tree, pc, job, bounds>>

-----------------------------------------------------------------------------
(* Contents.                                                               *)

NoVersion == [v \in 1..(MaxOps + 1) |-> {}]
NewEvent(kind, content, refs) == [kind |-> kind, content |-> content, refs |-> refs]
Fresh(part) ==
    CASE part = "artifacts" -> {}
      [] part = "config" -> [current |-> 0, versions |-> NoVersion]
      [] part = "followups" -> <<>>
      [] part = "events" -> [lines |-> <<NewEvent("start", 0, {})>>, torn |-> FALSE]
      [] part = "status" -> 1

File(kind, seq, content) == [kind |-> kind, seq |-> seq, content |-> content]
Followups == File("followups", 0, 0)

Lines == disk["events"].lines
Sequence == Len(Lines)
Has(part) == disk[part] # Absent
Current == IF Has("config") THEN disk["config"].current ELSE 0

\* The attempt that is active: the worker's report of an attempt ends it.
Reported == {e.content : e \in {e \in Range(Lines) : e.kind = "report"}}
ActiveAttempt == Cardinality(Reported) + 1

\* The path of an artifact ends in its kind's name, and begins with the number
\* of the event that will name it, unless the kind has one file.
PathSeq(kind) == IF kind \in Singletons THEN 0 ELSE Sequence + 1
OnDisk(kind) ==
    {f \in (IF Has("artifacts") THEN disk["artifacts"] ELSE {}) : f.kind = kind /\ f.seq = PathSeq(kind)}

\* load: every part but the configuration is looked at, and every artifact an
\* event names must be there.
Named == UNION {e.refs : e \in Range(Lines)}
RefersTo(f) == IF f.kind = "followups" THEN Has("followups")
               ELSE Has("artifacts") /\ \E g \in disk["artifacts"] : g.kind = f.kind /\ g.seq = f.seq
Loads ==
    /\ exists
    /\ \A part \in Parts \ {"config"} : Has(part)
    /\ ~disk["events"].torn
    /\ \A f \in Named : RefersTo(f)

-----------------------------------------------------------------------------
(* What a process is doing.                                                *)

\* staged: what has still to be renamed into place; moved: what has been;
\* base and before: the follow-ups, and the whole of the run, as loaded.
NoJob == [kind |-> "none", content |-> 0, todo |-> <<>>, version |-> 0, staged |-> <<>>,
          moved |-> <<>>, base |-> <<>>, before |-> <<>>, outcome |-> "none"]

RunsHeld == {"validate", "reserve", "publish", "unpublish", "run"}
RunHeld == {"publish", "unpublish", "load", "stage", "commit", "append", "status",
            "resolved", "manifest", "current", "rollback", "unlock"}

\* What a process remembers of a command that has returned: a report that may
\* have to be sent again.
Returned(p, outcome) ==
    IF job[p].kind = "report" /\ outcome # "ok"
      THEN [NoJob EXCEPT !.kind = "report", !.content = job[p].content] ELSE NoJob

Goto(p, next) == pc' = [pc EXCEPT ![p] = next]
Becomes(p, record) == job' = [job EXCEPT ![p] = record]
Put(part, content) == disk' = [disk EXCEPT ![part] = content]

FailUnmoved(p) ==
    /\ Goto(p, "rollback")
    /\ Becomes(p, [job[p] EXCEPT !.outcome = "failed", !.staged = <<>>])

\* The operation has failed before its event was appended.
Fail(p) ==
    /\ Goto(p, IF job[p].moved # <<>> THEN "rollback" ELSE "unlock")
    /\ Becomes(p, [job[p] EXCEPT !.outcome = "failed", !.staged = <<>>])

Fault == faults < MaxFaults /\ faults' = faults + 1
Steady == UNCHANGED <<ops, started, crashes>>
LeavesUnanswered(p) == unanswered' = (unanswered \/ job[p].kind = "report")

-----------------------------------------------------------------------------
(* The locks.                                                              *)

\* A lock lives in its file: whoever holds that of a file that is gone has
\* nothing to give up.
Released(p) == IF lock = p THEN NoOne ELSE lock

\* A report names the attempt that was active when its worker began it.
Begin(p, kind) ==
    /\ pc[p] = "idle" /\ ops < MaxOps
    /\ kind = "start" <=> ~started
    /\ kind = "start" => p = Starter
    /\ kind = "refresh" => Loads /\ Current # 0
    /\ ops' = ops + 1
    /\ started' = TRUE
    /\ Goto(p, "runs")
    /\ Becomes(p, [NoJob EXCEPT
          !.kind = kind,
          !.todo = IF kind = "start" THEN StartSteps ELSE <<>>,
          !.version = IF kind = "refresh" THEN Current + 1 ELSE 1,
          !.content = IF kind = "report" /\ Has("events") THEN ActiveAttempt ELSE ops + 1])
    /\ UNCHANGED <<locks, tree, removing, unanswered, faults, crashes>>

\* A worker that got no clear answer sends the same report again.
ReportAgain(p) ==
    /\ pc[p] = "idle" /\ ops < MaxOps
    /\ job[p].kind = "report"
    /\ ops' = ops + 1
    /\ Goto(p, "runs")
    /\ Becomes(p, [NoJob EXCEPT !.kind = "report", !.content = job[p].content])
    /\ UNCHANGED <<locks, tree, started, removing, unanswered, faults, crashes>>

LockRuns(p) ==
    /\ pc[p] = "runs" /\ runs = NoOne
    /\ runs' = p
    /\ Goto(p, IF job[p].kind = "start" THEN "reserve" ELSE "validate")
    /\ UNCHANGED <<lock, tree, job, bounds>>

ValidateHoldingOn(p) ==
    /\ pc[p] = "validate"
    /\ IF exists
         THEN Goto(p, "run") /\ UNCHANGED <<runs, job>>
         ELSE /\ Goto(p, IF job[p].kind \in Range(StartSteps) THEN "cleanup" ELSE "idle")
              /\ UNCHANGED runs
              /\ Becomes(p, Returned(p, "failed"))
    /\ UNCHANGED <<lock, tree, bounds>>

\* The lock on all runs is given up when the lock on this one is held.
Validate(p) ==
    /\ pc[p] = "validate"
    /\ IF exists
         THEN Goto(p, "run") /\ UNCHANGED <<runs, job>>
         ELSE /\ Goto(p, IF job[p].kind \in Range(StartSteps) THEN "cleanup" ELSE "idle")
              /\ runs' = NoOne
              /\ Becomes(p, Returned(p, "failed"))
    /\ UNCHANGED <<lock, tree, bounds>>

LockRunEarly(p) ==
    /\ pc[p] = "run"
    /\ lock' = p
    /\ runs' = NoOne
    /\ Goto(p, "load")
    /\ UNCHANGED <<tree, job, bounds>>

LockRun(p) ==
    /\ pc[p] = "run" /\ lock = NoOne
    /\ lock' = p
    /\ runs' = NoOne
    /\ Goto(p, "load")
    /\ UNCHANGED <<tree, job, bounds>>

\* The caller's context is cancelled while it waits.
GiveUp(p) ==
    /\ pc[p] \in {"runs", "run"} /\ Fault
    /\ runs' = IF pc[p] = "run" THEN NoOne ELSE runs
    /\ Goto(p, IF job[p].kind \in Range(StartSteps) THEN "cleanup" ELSE "idle")
    /\ Becomes(p, Returned(p, "failed"))
    /\ Steady /\ UNCHANGED <<lock, tree, removing, unanswered>>

\* After a step of orc run start comes the next, or the removal of the run.
Unlock(p) ==
    /\ pc[p] = "unlock"
    /\ lock' = Released(p)
    /\ LET j == job[p]
           starting == j.kind \in Range(StartSteps)
       IN  IF j.todo = <<>> \/ j.outcome # "ok"
             THEN /\ Goto(p, IF starting /\ j.outcome # "ok" THEN "cleanup" ELSE "idle")
                  /\ Becomes(p, Returned(p, j.outcome))
           ELSE /\ Goto(p, "runs")
                /\ Becomes(p, [NoJob EXCEPT !.kind = Head(j.todo), !.todo = Tail(j.todo),
                                            !.version = 1, !.content = j.content])
    /\ UNCHANGED <<runs, tree, bounds>>

-----------------------------------------------------------------------------
(* Publication of a new run, and its removal.                              *)

\* The directory is made and locked before anything is moved into it.
Reserve(p) ==
    /\ pc[p] = "reserve"
    /\ exists' = TRUE
    /\ lock' = p
    /\ Goto(p, "publish")
    /\ UNCHANGED <<runs, disk, job, bounds>>

Publish(p) ==
    /\ pc[p] = "publish"
    /\ \/ \E i \in DOMAIN Layout :
             /\ ~Has(Layout[i]) /\ \A k \in 1..(i - 1) : Has(Layout[k])
             /\ Put(Layout[i], Fresh(Layout[i]))
             /\ UNCHANGED <<locks, pc, job>>
       \/ /\ \A part \in Parts : Has(part)
          /\ lock' = NoOne /\ runs' = NoOne
          /\ Goto(p, "runs")
          /\ Becomes(p, [job[p] EXCEPT !.kind = Head(job[p].todo), !.todo = Tail(@)])
          /\ UNCHANGED disk
    /\ UNCHANGED <<exists, bounds>>

PublishFails(p) ==
    /\ pc[p] = "publish" /\ Fault
    /\ Goto(p, "unpublish")
    /\ Steady /\ UNCHANGED <<locks, tree, job, removing, unanswered>>

\* The reservation is unlocked, then removed, and the lock on all runs is
\* given up last.
Unpublish(p) ==
    /\ pc[p] = "unpublish"
    /\ exists' = FALSE
    /\ disk' = [part \in Parts |-> Absent]
    /\ runs' = NoOne /\ lock' = NoOne
    /\ removing' = TRUE
    /\ Goto(p, "idle")
    /\ Becomes(p, NoJob)
    /\ UNCHANGED <<ops, started, unanswered, faults, crashes>>

\* cleanupStartedRun: RemoveAll, without any lock, in no particular order.  A
\* directory into which something has been put meanwhile stays.
RemovePart(p, part) ==
    /\ pc[p] = "cleanup" /\ Has(part)
    /\ Put(part, Absent)
    /\ removing' = TRUE
    /\ UNCHANGED <<locks, exists, pc, job, ops, started, unanswered, faults, crashes>>

\* The file of the lock goes as well, whoever holds it, and the next command
\* makes another.
RemoveLock(p) ==
    /\ pc[p] = "cleanup" /\ lock # NoOne
    /\ lock' = NoOne
    /\ removing' = TRUE
    /\ UNCHANGED <<runs, tree, pc, job, ops, started, unanswered, faults, crashes>>

RemoveDir(p) ==
    /\ pc[p] = "cleanup"
    /\ \A part \in Parts : ~Has(part)
    /\ exists' = FALSE
    /\ removing' = TRUE
    /\ Goto(p, "idle")
    /\ UNCHANGED <<locks, disk, job, ops, started, unanswered, faults, crashes>>

RemovalFails(p) ==
    /\ pc[p] = "cleanup" /\ Fault
    /\ removing' = TRUE
    /\ Goto(p, "idle")
    /\ Steady /\ UNCHANGED <<locks, tree, job, unanswered>>

-----------------------------------------------------------------------------
(* Operations on a published run.                                          *)

AcceptedAlways(p) == TRUE

Accepted(p) ==
    LET j == job[p]
    IN  CASE j.kind = "config" -> Current = 0
          [] j.kind = "refresh" -> j.version = Current + 1
          [] j.kind = "report" -> j.content = ActiveAttempt
          [] OTHER -> TRUE

Load(p) ==
    /\ pc[p] = "load"
    /\ IF ~Loads \/ ~Accepted(p) THEN Fail(p)
       ELSE /\ Goto(p, CASE job[p].kind = "load" -> "unlock"
                         [] job[p].kind = "event" -> "append"
                         [] job[p].kind \in {"config", "refresh"} -> "resolved"
                         [] OTHER -> "stage")
            /\ Becomes(p, [job[p] EXCEPT !.before = <<disk>>,
                              !.outcome = IF job[p].kind = "load" THEN "ok" ELSE "none"])
    /\ UNCHANGED <<locks, tree, bounds>>

\* A report is tolerated where the same report lies already; any other
\* artifact is refused.  Follow-ups are one file, which is read and written.
Own(p) == File(job[p].kind, PathSeq(job[p].kind), job[p].content)
Refused(p) ==
    LET found == OnDisk(job[p].kind)
    IN  IF job[p].kind = "report" THEN found \ {Own(p)} # {}
        ELSE job[p].kind \in Exclusive /\ found # {}
StagedBy(p) ==
    CASE job[p].kind \in Exclusive -> <<Own(p)>>
      [] job[p].kind = "followup" -> <<Followups>>
      [] job[p].kind = "report" ->
            IF Own(p) \in OnDisk("report") THEN <<Followups>> ELSE <<Own(p), Followups>>
Refs(p) ==
    CASE job[p].kind \in Exclusive -> {Own(p)}
      [] job[p].kind = "followup" -> {Followups}
      [] job[p].kind = "report" -> {Own(p), Followups}
      [] OTHER -> {}

\* The parent of an artifact is made if it is missing.
Stage(p) ==
    /\ pc[p] = "stage"
    /\ IF ~exists \/ ~Has("events") \/ Refused(p) THEN Fail(p) /\ UNCHANGED disk
       ELSE /\ Goto(p, "commit")
            /\ Becomes(p, [job[p] EXCEPT !.staged = StagedBy(p),
                              !.base = IF Has("followups") THEN disk["followups"] ELSE <<>>])
            /\ Put("artifacts", IF Has("artifacts") THEN disk["artifacts"] ELSE {})
    /\ UNCHANGED <<locks, exists, bounds>>

Entry(e) == [kind |-> e.kind, content |-> e.content]
RenamedAfresh(p, f) ==
    IF f = Followups THEN Put("followups", <<Entry(job[p])>>)
    ELSE Put("artifacts", disk["artifacts"] \union {f})

Renamed(p, f) ==
    IF f = Followups THEN Put("followups", Append(job[p].base, Entry(job[p])))
    ELSE Put("artifacts", disk["artifacts"] \union {f})

CommitUnstaged(p) ==
    /\ pc[p] = "commit"
    /\ Goto(p, "append")
    /\ UNCHANGED <<locks, tree, job, bounds>>

Commit(p) ==
    /\ pc[p] = "commit"
    /\ IF job[p].staged = <<>> THEN Goto(p, "append") /\ UNCHANGED <<disk, job>>
       ELSE LET f == Head(job[p].staged)
            IN  IF ~exists \/ (f # Followups /\ ~Has("artifacts")) THEN Fail(p) /\ UNCHANGED disk
                ELSE /\ Renamed(p, f)
                     /\ Becomes(p, [job[p] EXCEPT !.staged = Tail(@), !.moved = Append(@, f)])
                     /\ UNCHANGED pc
    /\ UNCHANGED <<locks, exists, bounds>>

\* What was renamed is taken back, last first.
RollbackNothing(p) ==
    /\ pc[p] = "rollback"
    /\ Goto(p, "unlock")
    /\ UNCHANGED <<locks, tree, job, bounds>>

Rollback(p) ==
    /\ pc[p] = "rollback"
    /\ LET f == Last(job[p].moved)
       IN  IF ~exists THEN UNCHANGED disk
           ELSE IF f = Followups THEN Put("followups", job[p].base)
           ELSE IF Has("artifacts") THEN Put("artifacts", disk["artifacts"] \ {f})
           ELSE UNCHANGED disk
    /\ Goto(p, IF Len(job[p].moved) = 1 THEN "unlock" ELSE "rollback")
    /\ Becomes(p, [job[p] EXCEPT !.moved = Front(@)])
    /\ UNCHANGED <<locks, exists, bounds>>

\* Each failed rollback follows a fault, and needs no bound of its own.
RollbackFails(p) ==
    /\ pc[p] = "rollback"
    /\ Goto(p, IF Len(job[p].moved) = 1 THEN "unlock" ELSE "rollback")
    /\ Becomes(p, [job[p] EXCEPT !.moved = Front(@), !.outcome = "unclear"])
    /\ LeavesUnanswered(p)
    /\ UNCHANGED <<locks, tree, ops, started, removing, faults, crashes>>

AppendEvent(p) ==
    /\ pc[p] = "append"
    /\ IF ~Has("events") THEN Fail(p) /\ UNCHANGED disk
       ELSE /\ Put("events", [disk["events"] EXCEPT
                        !.lines = Append(@, NewEvent(job[p].kind, job[p].content, Refs(p)))])
            /\ Goto(p, "status")
            /\ UNCHANGED job
    /\ UNCHANGED <<locks, exists, bounds>>

\* The line was written in part, whole, or not at all, and the store cannot
\* tell; nothing is taken back, and status.json is left alone.
AppendUnclear(p) ==
    /\ pc[p] = "append" /\ Has("events") /\ Fault
    /\ \/ UNCHANGED disk
       \/ Put("events", [disk["events"] EXCEPT !.torn = TRUE])
       \/ Put("events", [disk["events"] EXCEPT
                  !.lines = Append(@, NewEvent(job[p].kind, job[p].content, Refs(p)))])
    /\ Goto(p, "unlock")
    /\ Becomes(p, [job[p] EXCEPT !.outcome = "unclear"])
    /\ LeavesUnanswered(p) /\ Steady /\ UNCHANGED <<locks, exists, removing>>

\* The new status.json is written beside the old one, in a directory that is
\* made if it is missing.
WriteStatus(p) ==
    /\ pc[p] = "status"
    /\ exists' = TRUE
    /\ Put("status", IF Has("events") THEN Sequence ELSE 0)
    /\ Goto(p, "unlock")
    /\ Becomes(p, [job[p] EXCEPT !.outcome = "ok"])
    /\ UNCHANGED <<locks, bounds>>

StatusFails(p) ==
    /\ pc[p] = "status" /\ Fault
    /\ Goto(p, "unlock")
    /\ Becomes(p, [job[p] EXCEPT !.outcome = "unclear"])
    /\ Steady /\ UNCHANGED <<locks, tree, removing, unanswered>>

\* A call fails, before anything is appended, for a reason of its own.
CallFails(p) ==
    /\ pc[p] \in {"load", "stage", "commit", "append", "resolved", "manifest", "current"}
    /\ Fault
    /\ Fail(p)
    /\ Steady /\ UNCHANGED <<locks, tree, removing, unanswered>>

-----------------------------------------------------------------------------
(* Configuration snapshots: a directory per version, and a pointer.        *)

Config == IF Has("config") THEN disk["config"] ELSE Fresh("config")
Snapshot(p) == Config.versions[job[p].version]
WithFile(p, name) == [Config EXCEPT !.versions[job[p].version] = @ \union {name}]

\* ensureDir makes config/ again where it is gone, but not the run itself.
WriteResolved(p) ==
    /\ pc[p] = "resolved"
    /\ IF ~exists \/ "resolved" \in Snapshot(p) THEN Fail(p) /\ UNCHANGED disk
       ELSE Put("config", WithFile(p, "resolved")) /\ Goto(p, "manifest") /\ UNCHANGED job
    /\ UNCHANGED <<locks, exists, bounds>>

PointFirst(p) ==
    /\ pc[p] = "manifest"
    /\ Put("config", [Config EXCEPT !.current = job[p].version])
    /\ Goto(p, "current")
    /\ UNCHANGED <<locks, exists, job, bounds>>

WriteManifest(p) ==
    /\ pc[p] = "manifest"
    /\ IF ~exists \/ "manifest" \in Snapshot(p) THEN Fail(p) /\ UNCHANGED disk
       ELSE Put("config", WithFile(p, "manifest")) /\ Goto(p, "current") /\ UNCHANGED job
    /\ UNCHANGED <<locks, exists, bounds>>

\* Only a refresh has an event.
WriteCurrent(p) ==
    /\ pc[p] = "current"
    /\ IF ~exists THEN Fail(p) /\ UNCHANGED disk
       ELSE /\ Put("config", [Config EXCEPT !.current = job[p].version])
            /\ IF job[p].kind = "refresh" THEN Goto(p, "append") /\ UNCHANGED job
               ELSE Goto(p, "unlock") /\ Becomes(p, [job[p] EXCEPT !.outcome = "ok"])
    /\ UNCHANGED <<locks, exists, bounds>>

-----------------------------------------------------------------------------

\* A process dies.  The system releases its locks; an append may be cut short.
Crash(p) ==
    /\ pc[p] # "idle" /\ crashes < MaxCrashes
    /\ crashes' = crashes + 1
    /\ runs' = IF runs = p THEN NoOne ELSE runs
    /\ lock' = Released(p)
    /\ Goto(p, "idle")
    /\ Becomes(p, Returned(p, "died"))
    /\ \/ UNCHANGED disk
       \/ /\ pc[p] = "append" /\ Has("events")
          /\ Put("events", [disk["events"] EXCEPT !.torn = TRUE])
    /\ LeavesUnanswered(p)
    /\ UNCHANGED <<exists, ops, started, removing, faults>>

Init ==
    /\ runs = NoOne /\ lock = NoOne
    /\ exists = FALSE
    /\ disk = [part \in Parts |-> Absent]
    /\ pc = [p \in Procs |-> "idle"]
    /\ job = [p \in Procs |-> NoJob]
    /\ ops = 0
    /\ started = FALSE /\ removing = FALSE /\ unanswered = FALSE
    /\ faults = 0 /\ crashes = 0

LockStep(p) == LockRuns(p) \/ Validate(p) \/ LockRun(p) \/ Unlock(p)
StartStep(p) ==
    \/ Reserve(p) \/ Publish(p) \/ Unpublish(p)
    \/ \E part \in Parts : RemovePart(p, part)
    \/ RemoveLock(p) \/ RemoveDir(p)
FileStep(p) ==
    \/ Load(p) \/ Stage(p) \/ Commit(p) \/ Rollback(p) \/ AppendEvent(p) \/ WriteStatus(p)
    \/ WriteResolved(p) \/ WriteManifest(p) \/ WriteCurrent(p)
Step(p) == LockStep(p) \/ StartStep(p) \/ FileStep(p)

FaultyStep(p) ==
    \/ GiveUp(p) \/ PublishFails(p) \/ RemovalFails(p) \/ RollbackFails(p)
    \/ AppendUnclear(p) \/ StatusFails(p) \/ CallFails(p) \/ Crash(p)

Next == \E p \in Procs :
    \/ \E kind \in Commands \union {"start"} : Begin(p, kind)
    \/ ReportAgain(p)
    \/ Step(p)
    \/ FaultyStep(p)

Spec == Init /\ [][Next]_vars
FairSpec == Spec /\ \A p \in Procs : WF_vars(Step(p))

-----------------------------------------------------------------------------
(* What the files promise.                                                 *)

TypeOK ==
    /\ runs \in Procs \union {NoOne} /\ lock \in Procs \union {NoOne}
    /\ exists \in BOOLEAN /\ started \in BOOLEAN /\ removing \in BOOLEAN /\ unanswered \in BOOLEAN
    /\ DOMAIN disk = Parts
    /\ pc \in [Procs -> RunsHeld \union RunHeld \union {"idle", "runs", "cleanup"}]
    /\ DOMAIN job = Procs
    /\ \A p \in Procs :
          /\ job[p].kind \in Kinds
          /\ job[p].outcome \in {"none", "ok", "failed", "unclear"}
          /\ pc[p] = "rollback" => job[p].moved # <<>>
    /\ ops \in 0..MaxOps /\ faults \in 0..MaxFaults /\ crashes \in 0..MaxCrashes

\* No two processes are ever both inside the run, publication of a new run
\* included: the handover from the lock on all runs to the lock on this one
\* leaves no gap.  Only the removal of a failed start, which takes no lock and
\* removes the locked file itself, is exempt.
OneInside ==
    /\ \A p, q \in Procs : pc[p] \in RunsHeld /\ pc[q] \in RunsHeld => p = q
    /\ ~removing => \A p, q \in Procs : pc[p] \in RunHeld /\ pc[q] \in RunHeld => p = q

\* A run that has been published, and that no failed start removes, can be
\* loaded at every moment between operations and inside them, whatever call
\* failed and whoever died, unless an append was cut short.  In particular
\* every artifact an event names is on disk.
Published == started /\ ~removing /\ \A part \in Parts : Has(part)
PublishedLoads == Published /\ ~disk["events"].torn => Loads

\* The artifact an event names is the one its operation wrote, and every
\* follow-up an event stands for is in followups.md: no operation overwrites
\* another's.
NothingOverwritten ==
    Published =>
       \A i \in DOMAIN Lines :
          LET e == Lines[i]
          IN  /\ \A f \in e.refs \ {Followups} : f \in disk["artifacts"]
              /\ Followups \in e.refs => Entry(e) \in Range(disk["followups"])

\* The pointer names a version that is there in full, also halfway through a
\* refresh and after a death: readers of the configuration take no lock.
PointerComplete ==
    Has("config") /\ Current # 0 /\ ~removing =>
       disk["config"].versions[Current] = {"resolved", "manifest"}

\* An operation that reports a definite failure has left the log, the
\* artifacts, the follow-ups and the status as it found them.  (The files under
\* config/ are left out: a refresh that fails leaves what it has written there,
\* the pointer too when the event is what failed.)
FailureLeavesNothing ==
    \A p \in Procs :
       pc[p] = "unlock" /\ job[p].outcome = "failed" /\ job[p].before # <<>> /\ ~removing =>
          \A part \in Parts \ {"config"} : disk[part] = job[p].before[1][part]

\* A report ends its attempt once, however often the worker sends it; and an
\* entry of followups.md is there once, unless a report died or ended unclear and
\* was sent again.
ReportedOnce ==
    Published =>
       /\ \A i, j \in DOMAIN Lines :
             Lines[i].kind = "report" /\ Lines[j].kind = "report"
                /\ Lines[i].content = Lines[j].content => i = j
       /\ ~unanswered => IsInjective(disk["followups"])

\* Every command returns: nobody waits for a lock forever once commands stop
\* coming, whatever fails and whoever dies with a lock.
EveryoneReturns == \A p \in Procs : pc[p] # "idle" ~> pc[p] = "idle"

\* A run that nobody is using, that loads and that has a configuration can
\* have it refreshed.
RefreshPossible ==
    Loads /\ Current # 0 /\ ~removing /\ (\A p \in Procs : pc[p] = "idle") =>
       disk["config"].versions[Current + 1] = {}
=============================================================================
