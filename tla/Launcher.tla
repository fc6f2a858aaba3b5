------------------------------ MODULE Launcher ------------------------------
(***************************************************************************)
(* The commands that move a run: `orc worker launch-next` (internal/       *)
(* launcher), `orc run skip-step` (internal/runskip), `orc run continue`   *)
(* (internal/cli), and the workers they start, which report through        *)
(* `orc report` (internal/report).                                         *)
(*                                                                         *)
(* A command holds the run lock only inside one store operation.  It loads *)
(* the run, decides, and acts later, in several operations, on a run that  *)
(* others may have changed in between: pc[c] is what command c does next   *)
(* and plan[c] what it has decided.  A command may die before every step.  *)
(*                                                                         *)
(* Worker processes are started stopped behind an exec gate, recorded, and *)
(* then released; proc[i] is the process of attempt i.  A step that is not *)
(* an agent's runs a command or a script: its process starts at once, and  *)
(* the launcher writes its report from what became of the process.         *)
(*                                                                         *)
(* A definition whose name extends the name of the one below it            *)
(* (SpawnUngated, Spawn) is a mutant: the same code with a plausible bug.  *)
(***************************************************************************)
EXTENDS RunStore

CONSTANTS
    Commands,       \* processes running orc commands on the run
    Workflows,      \* workflow configurations runs are created with
    ReadyPair,      \* done/ready
    ChangesPair,    \* done/changes_requested
    PassedPair,     \* done/passed, a command that exits with 0
    FailedPair,     \* done/failed, a command that exits with anything else
    FindingSets,    \* the sets of findings a review report may carry
    MayCancel,      \* whether commands are interrupted
    MayTimeOut,     \* whether attempts outlast their timeout
    MaxCrashes      \* bound: commands that die

VARIABLES
    workflow,   \* the workflow in the run's configuration snapshot
    pc,         \* the next step of a command
    plan,       \* what a command has decided
    proc,       \* the worker process of each attempt
    overdue,    \* attempts whose timeout has passed
    crashes     \* commands that have died so far

commandVars == <<pc, plan>>
workerVars == <<proc, overdue, crashes>>
vars == <<storeVars, commandVars, workerVars, workflow>>

\* Between the decision to start and the release of the worker.
PrepareSteps == {"render", "prompt", "openLog", "log", "spawn", "process", "release"}
PCs == PrepareSteps \union
       {"idle", "recover", "update", "blockFinding", "blockCap", "start", "skip",
        "softCap", "wait", "grace", "collect", "warn", "finish", "abort", "fail",
        "setupError", "waitCommand", "output", "report", "refresh", "recount"}

ProcStates == {"none", "gated", "running", "exited", "killed"}

\* id: the attempt; req: the request, cap, block, report, step or workflow to
\* act with;
\* cap: the soft cap to record; end: the terminal state to record; warn:
\* whether the end of the process after a report deserves a warning.
NoPlan == [id |-> 0, req |-> None, cap |-> None, end |-> None, warn |-> FALSE]

ASSUME LauncherAssumption ==
    /\ \A wf \in Workflows : ValidConfiguration(wf)
    /\ {ReadyPair, ChangesPair, PassedPair, FailedPair} \subseteq Pairs
    /\ FindingSets \subseteq SUBSET Findings
    /\ MayCancel \in BOOLEAN /\ MayTimeOut \in BOOLEAN
    /\ MaxCrashes \in Nat

-----------------------------------------------------------------------------
(* Deciding.  Everything here reads one loaded status.                     *)

Resolved(s) == s.state = Running /\ s.active = None /\ s.continued # None

\* runstate.WorkflowState: a resolved block selects its step, otherwise the
\* latest outcome decides, otherwise the last state entered.
WorkflowState(s) ==
    LET latest == LatestConsumable(s)
        entered == s.state = Running /\ s.active = None /\ s.entries # <<>>
    IN  [status   |-> s.state,
         active   |-> s.active # None,
         retry    |-> s.lineage,
         selected |-> IF Resolved(s) THEN s.continued.step
                      ELSE IF latest # 0 THEN s.attempts[latest].step
                      ELSE IF entered THEN s.entries[Len(s.entries)].state
                      ELSE None,
         outcome  |-> IF ~Resolved(s) /\ latest # 0
                        THEN [step |-> s.attempts[latest].step, pair |-> s.attempts[latest].pair]
                        ELSE None]

DecisionBy(wf, s) == Evaluate(wf, WorkflowState(s))
Decision(s) == DecisionBy(workflow, s)

\* The attempt a new entry names as its trigger: the one consumed, or the one
\* whose block a human resolved.
EntryTrigger(s) ==
    IF LatestConsumable(s) # 0 THEN s.attempts[LatestConsumable(s)]
    ELSE IF Resolved(s) /\ s.attempts # <<>>
            /\ s.continued = [attempt |-> Len(s.attempts), step |-> LastAttempt(s).step,
                              pair |-> LastAttempt(s).pair]
            /\ RoutingOutcome(LastAttempt(s))
      THEN LastAttempt(s)
    ELSE None

EntryOf(s, d) ==
    IF d.kind # "select" THEN None
    ELSE LET by == EntryTrigger(s)
         IN  [state |-> d.target, key |-> workflow.key[d.target],
              prev |-> IF by = None THEN None ELSE by.step,
              pair |-> IF by = None THEN None ELSE by.pair]

TerminalEntry(a, state) == [state |-> state, key |-> state, prev |-> a.step, pair |-> a.pair]

\* A hard cap is passed only with the override given for this very entry.
CapOverride(s, d) ==
    IF LoopCap(workflow, s.counts, d) = "hard"
       /\ s.hardOverride = CapOf(workflow, s.counts, d.target)
      THEN s.hardOverride ELSE None

\* Repeated review findings: a finding reported again by the latest attempt
\* after the correction step that its first report led to was completed.
AcceptedFinding(a) == a.state = "reported" /\ a.pair = ChangesPair /\ a.findings # {}

Reporting(s, finding) ==
    {i \in 1..Len(s.attempts) :
        AcceptedFinding(s.attempts[i]) /\ finding \in s.attempts[i].findings}

FirstReport(s, finding) ==
    CHOOSE i \in Reporting(s, finding) : \A j \in Reporting(s, finding) : i <= j

Corrected(s, finding, latest) ==
    LET first == FirstReport(s, finding)
    IN  \E i \in first + 1 .. latest - 1 :
           /\ s.attempts[i].step = s.attempts[first].fix
           /\ s.attempts[i].state = "reported"
           /\ s.attempts[i].pair = ReadyPair

\* latest is the attempt whose outcome routing acts on, 0 if none.
FindingGuarded(s, d, latest) ==
    /\ d.kind = "select"
    /\ d.target \in workflow.agents
    /\ latest # 0
    /\ AcceptedFinding(s.attempts[latest])

FindingOverride(s, d, latest) ==
    IF /\ FindingGuarded(s, d, latest)
       /\ s.findOverride # None
       /\ s.findOverride.target = d.target
       /\ s.findOverride.repeated = latest
      THEN s.findOverride ELSE None

RepeatedInARow(s, d, latest) ==
    IF ~FindingGuarded(s, d, latest) \/ FindingOverride(s, d, latest) # None THEN {}
    ELSE {f \in s.attempts[latest].findings : FirstReport(s, f) = latest - 1}

Repeated(s, d, latest) ==
    IF ~FindingGuarded(s, d, latest) \/ FindingOverride(s, d, latest) # None THEN {}
    ELSE {f \in s.attempts[latest].findings :
             FirstReport(s, f) # latest /\ Corrected(s, f, latest)}

-----------------------------------------------------------------------------
(* The process table.                                                      *)

IsAgent(id) == replayed.attempts[id].step \in workflow.agents
Alive(id) == proc[id] \in {"gated", "running"}
Kill(id) == proc' = [proc EXCEPT ![id] = IF Alive(id) THEN "killed" ELSE @]

Goto(c, step) == pc' = [pc EXCEPT ![c] = step]
Return(c) == Goto(c, "idle") /\ plan' = [plan EXCEPT ![c] = NoPlan]
Planned(c, step, p) == Goto(c, step) /\ plan' = [plan EXCEPT ![c] = p]

-----------------------------------------------------------------------------
(* launch-next: loading the run and deciding.                              *)

PlanRecoveryUnverified(c) ==
    /\ pc[c] = "idle" /\ Loads
    /\ Decision(replayed).kind = "wait"
    /\ replayed.active.id \in overdue
    /\ Planned(c, "recover", [NoPlan EXCEPT !.id = replayed.active.id, !.end = "process_error"])
    /\ UNCHANGED <<storeVars, workerVars>>

PlanRecoveryOfRecorded(c) ==
    /\ pc[c] = "idle" /\ Loads
    /\ Decision(replayed).kind = "wait"
    /\ replayed.active.pid /\ ~Alive(replayed.active.id)
    /\ Planned(c, "recover", [NoPlan EXCEPT !.id = replayed.active.id, !.end = "process_error"])
    /\ UNCHANGED <<storeVars, workerVars>>

\* An active attempt is left alone while it may still be starting, or while
\* its process lives and has time left.
PlanRecovery(c) ==
    /\ pc[c] = "idle" /\ Loads
    /\ Decision(replayed).kind = "wait"
    /\ LET a == replayed.active
       IN  \/ /\ a.pid /\ Alive(a.id) /\ a.id \in overdue
              /\ Kill(a.id)
              /\ Planned(c, "recover", [NoPlan EXCEPT !.id = a.id, !.end = "timed_out"])
           \/ /\ IF a.pid THEN ~Alive(a.id) ELSE a.id \in overdue
              /\ Planned(c, "recover", [NoPlan EXCEPT !.id = a.id, !.end = "process_error"])
              /\ UNCHANGED proc
    /\ UNCHANGED <<storeVars, overdue, crashes>>

PlanTerminal(c, d) ==
    LET latest == LatestConsumable(replayed)
    IN  /\ d.kind = "terminal" /\ latest # 0
        /\ Planned(c, "update",
              [NoPlan EXCEPT !.req =
                 [state |-> d.target,
                  entry |-> TerminalEntry(replayed.attempts[latest], d.target)]])

PlanFindingBlock(c, d) ==
    LET latest == LatestConsumable(replayed)
    IN  \E f \in Repeated(replayed, d, latest) :
           Planned(c, "blockFinding",
              [NoPlan EXCEPT !.req =
                 [finding |-> f, target |-> d.target, first |-> FirstReport(replayed, f),
                  repeated |-> latest]])

PlanCapBlock(c, d) ==
    /\ Repeated(replayed, d, LatestConsumable(replayed)) = {}
    /\ LoopCap(workflow, replayed.counts, d) = "hard"
    /\ CapOverride(replayed, d) = None
    /\ Planned(c, "blockCap", [NoPlan EXCEPT !.req = CapOf(workflow, replayed.counts, d.target)])

PlanStart(c, d) ==
    LET latest == LatestConsumable(replayed)
        cap == LoopCap(workflow, replayed.counts, d)
    IN  /\ d.kind \in {"select", "retry"}
        /\ Repeated(replayed, d, latest) = {}
        /\ cap = "hard" => CapOverride(replayed, d) # None
        /\ Planned(c, "start",
              [NoPlan EXCEPT
                 !.req = [step |-> d.target,
                          fix |-> workflow.on[d.target][ChangesPair],
                          consume |-> latest,
                          retry |-> IF d.kind = "retry" THEN d.retry ELSE None,
                          entry |-> EntryOf(replayed, d),
                          hardOverride |-> CapOverride(replayed, d),
                          findOverride |-> FindingOverride(replayed, d, latest)],
                 !.cap = IF cap = "soft"
                           THEN CapOf(workflow, replayed.counts, d.target) ELSE None])

\* d is the decision on the run as it was loaded.
PlanLaunch(c) ==
    /\ pc[c] = "idle" /\ Loads
    /\ \E d \in {Decision(replayed)} :
          PlanTerminal(c, d) \/ PlanFindingBlock(c, d) \/ PlanCapBlock(c, d) \/ PlanStart(c, d)
    /\ UNCHANGED <<storeVars, workerVars>>

-----------------------------------------------------------------------------
(* launch-next: acting on the decision.  An operation whose guard fails    *)
(* returns an error, and so does the command.                              *)

Recover(c) ==
    /\ pc[c] = "recover"
    /\ IF CanEnd(plan[c].id, plan[c].end)
         THEN TerminalizeAttempt(plan[c].id, plan[c].end, TRUE)
         ELSE UNCHANGED storeVars
    /\ Return(c)
    /\ UNCHANGED workerVars

Terminalize(c) ==
    /\ pc[c] = "update"
    /\ IF CanUpdate THEN RoomForEntry /\ UpdateStatus(plan[c].req) ELSE UNCHANGED storeVars
    /\ Return(c)
    /\ UNCHANGED workerVars

BlockFinding(c) ==
    /\ pc[c] = "blockFinding"
    /\ IF CanBlock THEN BlockRepeatedReviewFinding(plan[c].req) ELSE UNCHANGED storeVars
    /\ Return(c)
    /\ UNCHANGED workerVars

BlockCap(c) ==
    /\ pc[c] = "blockCap"
    /\ IF CanBlock THEN BlockWorkflowLoopHardCap(plan[c].req) ELSE UNCHANGED storeVars
    /\ Return(c)
    /\ UNCHANGED workerVars

RoomForStart == Len(replayed.attempts) < MaxAttempts /\ RoomForEntry

Start(c) ==
    /\ pc[c] = "start"
    /\ IF CanStart(plan[c].req)
         THEN /\ RoomForStart
              /\ StartAttempt(plan[c].req)
              /\ Planned(c, IF plan[c].cap # None THEN "softCap" ELSE "render",
                         [NoPlan EXCEPT !.id = Len(replayed.attempts) + 1, !.cap = plan[c].cap])
         ELSE UNCHANGED storeVars /\ Return(c)
    /\ UNCHANGED workerVars

\* Recording a cap that is recorded already changes nothing.  A command
\* interrupted here leaves the attempt it has started as it is.
RecordSoftCap(c) ==
    /\ pc[c] = "softCap"
    /\ IF Loads /\ plan[c].cap.key \notin replayed.softCaps
         THEN RecordWorkflowLoopSoftCap(plan[c].cap)
         ELSE UNCHANGED storeVars
    /\ IF Loads /\ plan[c].id # 0
         THEN Planned(c, "render", [plan[c] EXCEPT !.cap = None])
         ELSE Return(c)
    /\ UNCHANGED workerVars

InterruptSoftCap(c) ==
    /\ MayCancel
    /\ pc[c] = "softCap"
    /\ Return(c)
    /\ UNCHANGED <<storeVars, workerVars>>

PromptRef(id) == [kind |-> "prompt", of |-> id]
LogRef(id) == [kind |-> "log", of |-> id]

\* One step of preparing the worker: do op if the store allows it and go on,
\* or give the attempt up.
Prepare(c, step, can, op, next) ==
    /\ pc[c] = step
    /\ IF can THEN op /\ Goto(c, next) ELSE UNCHANGED storeVars /\ Goto(c, "abort")
    /\ UNCHANGED <<plan, workerVars>>

RenderPrompt(c) ==
    Prepare(c, "render", Loads, WriteArtifact(PromptRef(plan[c].id)), "prompt")

RecordPrompt(c) ==
    LET id == plan[c].id
    IN  Prepare(c, "prompt", CanPrompt(id, PromptRef(id)),
                RecordAttemptPrompt(id, PromptRef(id)), "openLog")

OpenLog(c) ==
    Prepare(c, "openLog", Loads, WriteArtifact(LogRef(plan[c].id)), "log")

RecordLog(c) ==
    LET id == plan[c].id
    IN  Prepare(c, "log", CanLog(id, LogRef(id)), RecordAttemptLog(id, LogRef(id)), "spawn")

SpawnUngated(c) ==
    /\ pc[c] = "spawn" /\ IsAgent(plan[c].id)
    /\ proc' = [proc EXCEPT ![plan[c].id] = "running"]
    /\ Goto(c, "process")
    /\ UNCHANGED <<storeVars, plan, overdue, crashes>>

\* The process exists from here on, but executes nothing before its release.
Spawn(c) ==
    /\ pc[c] = "spawn" /\ IsAgent(plan[c].id)
    /\ proc' = [proc EXCEPT ![plan[c].id] = "gated"]
    /\ Goto(c, "process")
    /\ UNCHANGED <<storeVars, plan, overdue, crashes>>

RecordProcess(c) ==
    /\ pc[c] = "process" /\ IsAgent(plan[c].id)
    /\ Prepare(c, "process", CanProcess(plan[c].id), RecordAttemptProcess(plan[c].id), "release")

Release(c) ==
    /\ pc[c] = "release"
    /\ IF proc[plan[c].id] = "gated"
         THEN proc' = [proc EXCEPT ![plan[c].id] = "running"] /\ Goto(c, "wait")
         ELSE UNCHANGED proc /\ Goto(c, "abort")
    /\ UNCHANGED <<storeVars, plan, overdue, crashes>>

\* Interrupted, or a step of the preparation failed on its own account.
Cancel(c) ==
    /\ MayCancel
    /\ pc[c] \in PrepareSteps \union {"setupError"}
    /\ Goto(c, "abort")
    /\ UNCHANGED <<storeVars, plan, workerVars>>

Abort(c) ==
    /\ pc[c] = "abort"
    /\ Kill(plan[c].id)
    /\ Planned(c, "fail", [plan[c] EXCEPT !.end = "process_error"])
    /\ UNCHANGED <<storeVars, overdue, crashes>>

\* The end of the attempt, as the command that started it sees it.
Finish(c) ==
    /\ pc[c] \in {"fail", "finish"}
    /\ IF CanEnd(plan[c].id, plan[c].end)
         THEN TerminalizeAttempt(plan[c].id, plan[c].end, FALSE)
         ELSE UNCHANGED storeVars
    /\ Return(c)
    /\ UNCHANGED workerVars

-----------------------------------------------------------------------------
(* launch-next: supervising the worker.                                    *)

\* The process is gone: exit 0 is a missing report, anything else an error.
\* One that was told to terminate chooses its exit code as well.
WaitExit(c) ==
    /\ pc[c] \in {"wait", "grace"}
    /\ ~Alive(plan[c].id)
    /\ \E end \in {"missing_report", "process_error"} :
          Planned(c, "collect", [plan[c] EXCEPT !.end = end, !.warn = end = "process_error"])
    /\ UNCHANGED <<storeVars, workerVars>>

WaitTimeoutUnlessReported(c) ==
    /\ pc[c] = "wait"
    /\ plan[c].id \in overdue
    /\ replayed.attempts[plan[c].id].state \notin ReportedStates
    /\ Kill(plan[c].id)
    /\ Planned(c, "collect", [plan[c] EXCEPT !.end = "timed_out"])
    /\ UNCHANGED <<storeVars, overdue, crashes>>

\* The attempt's timer runs until a poll has seen the report.
WaitTimeout(c) ==
    /\ pc[c] = "wait"
    /\ plan[c].id \in overdue
    /\ Kill(plan[c].id)
    /\ Planned(c, "collect", [plan[c] EXCEPT !.end = "timed_out"])
    /\ UNCHANGED <<storeVars, overdue, crashes>>

PollReport(c) ==
    /\ pc[c] = "wait" /\ Loads
    /\ replayed.attempts[plan[c].id].state = "reported"
    /\ Goto(c, "grace")
    /\ UNCHANGED <<storeVars, plan, workerVars>>

GraceExceeded(c) ==
    /\ pc[c] = "grace"
    /\ Kill(plan[c].id)
    /\ Planned(c, "collect", [plan[c] EXCEPT !.end = "process_error", !.warn = TRUE])
    /\ UNCHANGED <<storeVars, overdue, crashes>>

InterruptWait(c) ==
    /\ MayCancel
    /\ pc[c] \in {"wait", "grace"}
    /\ Kill(plan[c].id)
    /\ Planned(c, "collect", [plan[c] EXCEPT !.end = "process_error"])
    /\ UNCHANGED <<storeVars, overdue, crashes>>

\* A report decides the attempt whatever became of the process.
Collect(c) ==
    /\ pc[c] = "collect"
    /\ IF ~Loads THEN Return(c)
       ELSE IF replayed.attempts[plan[c].id].state \notin ReportedStates
         THEN Goto(c, "finish") /\ UNCHANGED plan
       ELSE IF plan[c].warn THEN Goto(c, "warn") /\ UNCHANGED plan
       ELSE Return(c)
    /\ UNCHANGED <<storeVars, workerVars>>

Warn(c) ==
    /\ pc[c] = "warn"
    /\ IF Loads THEN RecordAttemptWarning(plan[c].id) ELSE UNCHANGED storeVars
    /\ Return(c)
    /\ UNCHANGED workerVars

-----------------------------------------------------------------------------
(* launch-next: a command or script step.  The prompt and the log are      *)
(* prepared as for a worker; the process runs from its start, before it is *)
(* on record.                                                              *)

CommandReport(pair, allowStarting) ==
    [state |-> "reported", pair |-> pair, findings |-> {}, allowStarting |-> allowStarting]

SpawnCommand(c) ==
    /\ pc[c] = "spawn" /\ ~IsAgent(plan[c].id)
    /\ proc' = [proc EXCEPT ![plan[c].id] = "running"]
    /\ Goto(c, "process")
    /\ UNCHANGED <<storeVars, plan, overdue, crashes>>

RecordCommand(c) ==
    /\ pc[c] = "process" /\ ~IsAgent(plan[c].id)
    /\ IF CanProcess(plan[c].id)
         THEN RecordAttemptProcess(plan[c].id) /\ Goto(c, "waitCommand")
         ELSE UNCHANGED storeVars /\ Goto(c, "setupError")
    /\ UNCHANGED <<plan, workerVars>>

\* The process cannot be started or identified.
FailSpawn(c) ==
    /\ MayCancel
    /\ pc[c] \in {"spawn", "process"} /\ ~IsAgent(plan[c].id)
    /\ Goto(c, "setupError")
    /\ UNCHANGED <<storeVars, plan, workerVars>>

\* The report of a step that never ran may end an attempt still starting.
SetupError(c) ==
    /\ pc[c] = "setupError"
    /\ Kill(plan[c].id)
    /\ Planned(c, "report",
               [plan[c] EXCEPT !.req = CommandReport(SystemPair["process_error"], TRUE)])
    /\ UNCHANGED <<storeVars, overdue, crashes>>

CommandExit(c) ==
    /\ pc[c] = "waitCommand"
    /\ ~Alive(plan[c].id)
    /\ \E pair \in {PassedPair, FailedPair} :
          Planned(c, "output", [plan[c] EXCEPT !.req = CommandReport(pair, FALSE)])
    /\ UNCHANGED <<storeVars, workerVars>>

CommandTimeoutLeavingCommand(c) ==
    /\ pc[c] = "waitCommand"
    /\ plan[c].id \in overdue
    /\ Planned(c, "output",
               [plan[c] EXCEPT !.req = CommandReport(SystemPair["timed_out"], FALSE)])
    /\ UNCHANGED <<storeVars, workerVars>>

CommandTimeout(c) ==
    /\ pc[c] = "waitCommand"
    /\ plan[c].id \in overdue
    /\ Kill(plan[c].id)
    /\ Planned(c, "output",
               [plan[c] EXCEPT !.req = CommandReport(SystemPair["timed_out"], FALSE)])
    /\ UNCHANGED <<storeVars, overdue, crashes>>

InterruptCommand(c) ==
    /\ MayCancel
    /\ pc[c] = "waitCommand"
    /\ Kill(plan[c].id)
    /\ Planned(c, "output",
               [plan[c] EXCEPT !.req = CommandReport(SystemPair["process_error"], FALSE)])
    /\ UNCHANGED <<storeVars, overdue, crashes>>

\* Standard output and error are kept if they can be.
WriteOutput(c) ==
    /\ pc[c] = "output"
    /\ IF Loads THEN WriteArtifact(LogRef(plan[c].id)) ELSE UNCHANGED storeVars
    /\ Goto(c, "report")
    /\ UNCHANGED <<plan, workerVars>>

ReportCommand(c) ==
    LET id == plan[c].id
        req == plan[c].req
    IN  /\ pc[c] = "report"
        /\ IF Loads /\ ActiveIs(replayed, id) /\ ReportOK(replayed.active, req.allowStarting)
             THEN RecordAttemptReport(id, req) /\ Return(c)
             ELSE /\ UNCHANGED storeVars
                  /\ IF req.allowStarting
                       THEN Planned(c, "fail", [plan[c] EXCEPT !.end = "process_error"])
                       ELSE Return(c)
        /\ UNCHANGED workerVars

-----------------------------------------------------------------------------
(* skip-step.                                                              *)

\* The command decides, and decides again under the lock, by the workflow wf
\* it has loaded.

SkipDecision(wf, s, step) ==
    Evaluate(wf, [status |-> Running, active |-> FALSE, selected |-> step,
                  retry |-> DecisionBy(wf, s).retry,
                  outcome |-> [step |-> step, pair |-> SkipPair]])

MaySkip(wf, s, step) ==
    /\ SkipValidator(s)
    /\ DecisionBy(wf, s).kind = "select"
    /\ DecisionBy(wf, s).target = step
    /\ step \in wf.skippable
    /\ SkipDecision(wf, s, step).kind \in {"select", "terminal"}

SkipCap(wf, s, step) == LoopCap(wf, s.counts, SkipDecision(wf, s, step))

SkipRequestFor(wf, s, step) ==
    LET d == SkipDecision(wf, s, step)
    IN  [step  |-> step,
         state |-> IF d.kind = "select" THEN Running ELSE d.target,
         entry |-> [state |-> d.target,
                    key   |-> IF d.kind = "select" THEN wf.key[d.target] ELSE d.target,
                    prev  |-> step, pair |-> SkipPair]]

PlanSkip(c) ==
    /\ pc[c] = "idle" /\ Loads
    /\ \E step \in Steps :
          /\ MaySkip(workflow, replayed, step)
          /\ LET hit == SkipCap(workflow, replayed, step)
                 cap == CapOf(workflow, replayed.counts,
                              SkipDecision(workflow, replayed, step).target)
             IN  IF hit = "hard" THEN Planned(c, "blockCap", [NoPlan EXCEPT !.req = cap])
                 ELSE Planned(c, "skip",
                         [NoPlan EXCEPT !.req = [step |-> step, by |-> workflow],
                                        !.cap = IF hit = "soft" THEN cap ELSE None])
    /\ UNCHANGED <<storeVars, workerVars>>

\* The validator runs again under the lock, so the transition is never stale;
\* the soft cap that is recorded afterwards is the one decided before.
Skip(c) ==
    LET step == plan[c].req.step
        wf == plan[c].req.by
        allowed == Loads /\ MaySkip(wf, replayed, step) /\ SkipCap(wf, replayed, step) # "hard"
    IN  /\ pc[c] = "skip"
        /\ IF allowed THEN RoomForEntry /\ RecordStepSkip(SkipRequestFor(wf, replayed, step))
           ELSE UNCHANGED storeVars
        /\ IF allowed /\ plan[c].cap # None
             THEN Planned(c, "softCap", [NoPlan EXCEPT !.cap = plan[c].cap])
             ELSE Return(c)
        /\ UNCHANGED workerVars

-----------------------------------------------------------------------------
(* run continue: the human answers a block.                                *)

Continue ==
    /\ AllowWorkflowLoopHardCap \/ AllowRepeatedReviewFinding \/ ResolveHumanBlock
    /\ UNCHANGED <<commandVars, workerVars>>

-----------------------------------------------------------------------------
(* Workers, time, and the death of commands.                               *)

\* Only the workers of agents report.  What orc report accepts: an outcome the
\* step declares and no system owns;
\* changes are never requested without findings.  Anything else is an invalid
\* report.
ReportsOf(step) ==
    {[state |-> "reported", pair |-> pair, findings |-> found, allowStarting |-> FALSE] :
        pair \in {p \in Pairs : /\ workflow.on[step][p] # NoTarget
                                /\ p # SkipPair
                                /\ \A a \in DOMAIN SystemPair : p # SystemPair[a]},
        found \in FindingSets \union {{}}}

InvalidReport == [state |-> "invalid_report", pair |-> SystemPair["invalid_report"],
                  findings |-> {}, allowStarting |-> FALSE]

Report(id) ==
    /\ proc[id] = "running"
    /\ Loads /\ ActiveIs(replayed, id) /\ replayed.active.state = "active"
    /\ IsAgent(id)
    /\ \/ \E req \in ReportsOf(replayed.active.step) :
             /\ req.pair = ChangesPair => req.findings # {}
             /\ RecordAttemptReport(id, req)
       \/ RecordAttemptReport(id, InvalidReport)
    /\ UNCHANGED <<commandVars, workerVars>>

WorkerExit(id) ==
    /\ proc[id] = "running"
    /\ proc' = [proc EXCEPT ![id] = "exited"]
    /\ UNCHANGED <<storeVars, commandVars, overdue, crashes>>

\* The timer of the command that waits for the worker runs on after a report
\* it has not polled, and after an invalid one, which it never polls for.
Timeout(id) ==
    /\ MayTimeOut
    /\ id \notin overdue
    /\ id \in 1..Len(replayed.attempts)
    /\ \/ replayed.attempts[id].state \in LiveStates
       \/ \E c \in Commands : pc[c] = "wait" /\ plan[c].id = id
    /\ overdue' = overdue \union {id}
    /\ UNCHANGED <<storeVars, commandVars, proc, crashes>>

\* The exec gate closes with the command that holds it; a worker that has been
\* released goes on alone.
Crash(c) ==
    /\ pc[c] # "idle"
    /\ crashes < MaxCrashes
    /\ crashes' = crashes + 1
    /\ proc' = IF plan[c].id \in DOMAIN proc /\ proc[plan[c].id] = "gated"
                 THEN [proc EXCEPT ![plan[c].id] = "killed"] ELSE proc
    /\ Return(c)
    /\ UNCHANGED <<storeVars, overdue>>

-----------------------------------------------------------------------------

CommandInit ==
    /\ workflow \in Workflows
    /\ replayed = InitialStatus(workflow.start)
    /\ file = replayed
    /\ accepted = TRUE
    /\ pc = [c \in Commands |-> "idle"]
    /\ plan = [c \in Commands |-> NoPlan]
    /\ proc = [i \in 1..MaxAttempts |-> "none"]
    /\ overdue = {}
    /\ crashes = 0

\* One step of a command, interruptions and death aside.
CommandStep(c) ==
    /\ \/ PlanRecovery(c) \/ PlanLaunch(c)
       \/ Recover(c) \/ Terminalize(c) \/ BlockFinding(c) \/ BlockCap(c) \/ Start(c)
       \/ RecordSoftCap(c)
       \/ RenderPrompt(c) \/ RecordPrompt(c) \/ OpenLog(c) \/ RecordLog(c)
       \/ Spawn(c) \/ RecordProcess(c) \/ Release(c) \/ Abort(c) \/ Finish(c)
       \/ WaitExit(c) \/ WaitTimeout(c) \/ PollReport(c) \/ GraceExceeded(c)
       \/ Collect(c) \/ Warn(c)
       \/ SpawnCommand(c) \/ RecordCommand(c) \/ SetupError(c) \/ CommandExit(c)
       \/ CommandTimeout(c) \/ WriteOutput(c) \/ ReportCommand(c)
       \/ Skip(c)
    /\ UNCHANGED workflow

\* What happens to a command, and what happens beside the commands.
Interrupt(c) == InterruptSoftCap(c) \/ Cancel(c) \/ InterruptWait(c) \/ InterruptCommand(c)

World ==
    \/ Continue
    \/ \E id \in 1..MaxAttempts : Report(id) \/ WorkerExit(id) \/ Timeout(id)

Environment ==
    /\ \/ \E c \in Commands : PlanSkip(c) \/ FailSpawn(c) \/ Interrupt(c) \/ Crash(c)
       \/ World
    /\ UNCHANGED workflow

CommandNext == (\E c \in Commands : CommandStep(c)) \/ Environment

CommandSpec == CommandInit /\ [][CommandNext]_vars

-----------------------------------------------------------------------------
(* What the commands together promise.                                     *)

LauncherTypeOK ==
    /\ TypeOK
    /\ ValidConfiguration(workflow)
    /\ pc \in [Commands -> PCs]
    /\ proc \in [1..MaxAttempts -> ProcStates]
    /\ overdue \in SUBSET (1..MaxAttempts)
    /\ crashes \in 0..MaxCrashes
    /\ \A c \in Commands :
          /\ DOMAIN plan[c] = DOMAIN NoPlan
          /\ plan[c].id \in 0..MaxAttempts
          /\ plan[c].cap \in Cap \union {None}
          /\ plan[c].end \in EndStates \union {None}

\* No agent's worker executes before its process is on record: whatever dies
\* in between, a later command knows whom to watch or to kill.
NoUnrecordedWorker ==
    \A id \in DOMAIN proc :
       proc[id] = "running" =>
          /\ id \in 1..Len(replayed.attempts)
          /\ IsAgent(id) => replayed.attempts[id].pid

\* Only a worker that has reported may run on after its attempt ended: no
\* recovery, timeout, interruption or exit of a command gives an attempt up
\* and leaves its process behind, except that of a command nobody recorded.
GivenUpWorkersAreDead ==
    \A id \in 1..Len(replayed.attempts) :
       LET a == replayed.attempts[id]
       IN  /\ a.state \in EndStates /\ (IsAgent(id) \/ a.pid) => proc[id] # "running"
           /\ a.state = "reported" /\ ~IsAgent(id) => proc[id] # "running"

\* A recovery that finds a recorded process alive calls the attempt timed out,
\* having killed it; process_error is for what cannot be verified.
RecoveryVerified ==
    [][\A id \in 1..Len(replayed.attempts) :
          LET a == replayed.attempts[id]
              b == replayed'.attempts[id]
          IN  a.pid /\ Alive(id) /\ ~a.recovered /\ b.recovered => b.state = "timed_out"]_vars

\* An attempt is given up by the command that started it, or by a recovery of
\* this very attempt: a late finish never ends its successor.
EndedByItsOwner ==
    [][\A id \in 1..Len(replayed.attempts) :
          LET a == replayed.attempts[id]
              b == replayed'.attempts[id]
          IN  a.state \in LiveStates /\ b.state \in EndStates =>
                 \E c \in Commands :
                    /\ plan[c].id = id
                    /\ pc[c] \in IF b.recovered THEN {"recover"} ELSE {"fail", "finish"}]_vars

\* A pair is retried as often as configured and no more.
RetriesBounded ==
    [][replayed'.lineage # None /\ replayed'.lineage # replayed.lineage =>
          \A p \in Pairs : replayed'.lineage.counts[p] <= workflow.retries[p]]_vars

\* Entering a step beyond its hard cap takes, and spends, a human's override.
HardCapHolds ==
    [][\A step \in Steps :
          LET k == workflow.key[step]
          IN  /\ workflow.capped
              /\ Len(replayed'.entries) > Len(replayed.entries)
              /\ replayed'.entries[Len(replayed'.entries)].state = step
              /\ replayed'.counts[k] > workflow.hard[step]
              => replayed.hardOverride # None /\ replayed'.hardOverride = None]_vars

\* A new attempt never passes over the outcome before it: the outcome is
\* consumed with the start, has been before, or was resolved by a human.
NoOutcomePassedOver ==
    [][Len(replayed'.attempts) > Len(replayed.attempts) /\ replayed.attempts # <<>> =>
          \/ replayed'.attempts[Len(replayed.attempts)].consumed
          \/ Resolved(replayed)]_vars

\* Once a human has resolved a block, the outcome that caused it is not
\* routed again.
ResolvedOutcomeStaysPut ==
    [][Resolved(replayed) =>
          LatestConsumable(replayed') # replayed.continued.attempt]_vars

\* The log never becomes unreadable.
RunStaysLoadable == accepted

\* A hard-cap block can be answered by the command that answers such blocks.
HardCapAnswerable ==
    replayed.state = Blocked /\ replayed.hardBlock # None => replayed.hardOverride = None

\* A run is blocked for one reason at a time, and only while it is blocked.
OneBlockAtATime ==
    /\ replayed.hardBlock = None \/ replayed.findBlock = None
    /\ replayed.hardBlock # None \/ replayed.findBlock # None => replayed.state = Blocked

\* A counter that passes its soft cap has a warning on record, or a command is
\* about to record it.
SoftCapRecorded ==
    \A step \in Steps :
       LET k == workflow.key[step]
       IN  workflow.capped /\ replayed.counts[k] > workflow.soft[step] =>
              \/ k \in replayed.softCaps
              \/ \E c \in Commands : pc[c] = "softCap" /\ plan[c].cap.key = k

\* A repeated finding is not sent to correction a second time without the
\* override a human gave for it.
NoUnreviewedCorrection ==
    [][Len(replayed'.attempts) > Len(replayed.attempts) /\ replayed.attempts # <<>> =>
          LET latest == Len(replayed.attempts)
              a == LastAttempt(replayed)
          IN  /\ AcceptedFinding(a)
              /\ LastAttempt(replayed').step \in workflow.agents
              /\ replayed'.attempts[latest].consumed /\ ~a.consumed
              /\ ~replayed'.attempts[latest].superseded
              /\ \E f \in a.findings : FirstReport(replayed, f) # latest /\ Corrected(replayed, f, latest)
              => replayed.findOverride # None /\ replayed'.findOverride = None]_vars

\* Every attempt ends, whoever dies and whatever the worker does.
AttemptEnds == replayed.active # None ~> replayed.active = None
=============================================================================
