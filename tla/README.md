# tiny-llm-orchestrator in TLA+

`orc` drives a run of a workflow: each step is an attempt of a worker process,
the worker reports an outcome, and a deterministic engine routes the outcome to
the next step, a retry, or a terminal state that waits for a human. There is no
daemon. Every command loads the run from files, decides, and writes back, and
several commands, the workers they started and a human may be at it at the same
time. This directory holds TLA+ modules of that system, TLC configurations that
check them on small instances, and machine-checked proofs.

Paths below are relative to `src/internal/`.

## The system

| component | state | operations | talks to |
|---|---|---|---|
| workflow engine (`workflow`), loop caps (`loopcap`) | none, pure functions | `Evaluate`: select, retry, terminal, wait or an error; cap decision none, soft or hard | called by launcher, advance, skip, inspect, refresh |
| run store (`runstore`) | per run `events.jsonl` (append-only), `status.json` (materialised), artifact files, configuration snapshots, a lock file | start, prompt, log, process, report, finish, recover, warn; update status; soft cap, hard-cap block and override; finding block and override; resolve; skip; refresh; read and write artifacts | called by every command; each operation takes the run lock, replays the log, checks, appends one event, rewrites `status.json` |
| run state (`runstate`, `runcontext`) | none | what the engine is asked about a loaded status | launcher, advance, skip, refresh |
| launcher (`launcher`) | the operating system's processes, timers | `LaunchNext`: recover or refuse the active attempt, block, start, prepare, then either spawn an agent behind a gate, record, release and supervise it, or run a command and report for it | store, engine, workers |
| advance (`launcher/advance.go`) | what one loop has launched | evaluate, stop with a reason or launch, judge, repeat | launcher, store, engine |
| report (`report`) | none | accept, reject as invalid, or ignore a worker's report | run by workers while the launcher polls the store |
| skip (`runskip`), continue (`cli`) | none | a human skips a step, answers a block | store, engine |
| config refresh (`runconfigrefresh`) | none | load run and live configuration, check under the lock that the run makes sense under both, publish a snapshot and move the pointer, recount the loops | store, engine |
| run start (`runstart`, `configsnapshot`, `vcs`) | the run directory while it is published | create, pin configuration, write artifacts, roll back | store |
| init and init upgrade (`initconfig`, `initupgrade`) | a project's setup files, the manifest of what Orc owns | plan, prepare, apply with group rollback; `orc init` | nothing else |
| rest: prompt rendering, inspection, progress, sandbox, command line | files and text | no routing state | |

### What is hard about it

- **Two descriptions of every event.** An operation edits the loaded status and
  appends an event; every later load re-validates and re-applies that event with
  other code. If the two disagree, `status.json` lies, or the run cannot be
  loaded ever again.
- **Two copies of the active attempt**, in `active_attempt` and at the end of
  `attempts`, which every operation edits both.
- **Decide, then act.** A command holds the lock within one operation, not
  between its load and its operations. What it decided may be stale; only what
  the operation checks again under the lock protects the run. `advance` decides
  twice: once by itself, and once inside the launch-next it calls.
- **Processes and files.** A launcher may die before or after any operation, and
  between creating a process and recording it; an operation may fail, or its
  process die, between any two of its system calls.
- **Two locks, one of them inside the thing it protects.** The lock on all runs is
  held while a run's own lock is awaited, and a failed start removes the run
  with its lock file.
- **Reports race** with timeouts, interruptions, recoveries and exits.
- **One-shot human answers** (an override, a resolved block) stay pending until
  the routing step they were given for comes, if it comes.
- **Boundaries**: caps that fire at soft + 1 and from hard + 1 on, retry counts
  per step and pair, counters shared by steps, and recounted when a refresh
  changes who shares them.
- **Setup files are edited by people** between plan, comparison and write, and the
  manifest that proves what Orc owns is itself one of them.

The full list, each at its line with the properties that would notice, is under
`hazards` in `PROJECT.json`.

What makes each component correct: the *store* never loses, changes or doubles an
outcome, never writes what it cannot read, and agrees with its own replay; its
*files* load after any failure, and locks exclude; the *engine* respects retries
and caps; the *launcher* never has a worker that nobody knows of, never passes
over an outcome, and ends every attempt; *advance* comes back, and for the reason
it gives; a *refresh* leaves, once its event is recorded, counters that are those of the new
configuration, and a run that still routes; a *human's answer* is used once, for what it was given
for; an *upgrade* does what its plan said, reports what it did, and keeps what
people wrote.

## Modules

| module | models | how |
|---|---|---|
| `Workflow` | `workflow/engine.go`, `loopcap/loopcap.go`, the facts of `config/validate.go` routing relies on | operators on a configuration record and a run state; a pair `status/result` is one value |
| `RunStore` | `runstore/*.go` | one action per store operation |
| `AttemptLifecycle` | nothing in particular: the abstract specification | the phases live, ended, routed of every attempt |
| `Launcher` | `launcher/*.go` without advance, `runskip`, `cli/run_continue.go`, `report`, `runstate`, `runcontext` | commands with a program counter above the store's operations |
| `ConfigRefresh` | `runconfigrefresh`, the recount of `runstore/config_snapshot.go` | the steps of one more command above `Launcher` |
| `Advance` | `launcher/advance.go`, `cli/run_advance.go` | a loop around the steps of launch-next, above `ConfigRefresh` |
| `RunFiles` | the same store, one system call at a time: publication, locks, artifacts, appends, snapshots; `runstart` | one action per system call |
| `InitUpgrade` | `initupgrade`, `initconfig`, `cli/init_upgrade.go` | plan as operators, apply as actions |
| `MCRunStore`, `MCLauncher`, `MCAdvance`, `MCRunFiles`, `MCInitUpgrade` | | small instances: requests, workflows, projects |
| `RunStore_proofs`, `RunStoreLoops_proofs`, `Launcher_proofs`, `ConfigRefresh_proofs`, `Advance_proofs`, `RunFiles_proofs`, `RunFilesData_proofs`, `InitUpgrade_proofs` | | theorems and their proofs |

`Workflow` <- `RunStore` <- `Launcher` <- `ConfigRefresh` <- `Advance` is one tower: each
module extends the one before and composes its actions with its own. `RunFiles`
looks at the inside of one operation of `RunStore`, and knows of its content only
what the files must tell apart. `InitUpgrade` shares nothing with a run.

### RunStore

`replayed` is the status that replaying the log yields, `accepted` whether replay
accepts the log, `file` what `status.json` holds. Replay is a left fold over the
events, so one commit is one more step of the fold and the log itself need not be
kept. `Commit(live, ok, replay)` is `commitStatusBackedEvent`: the event becomes
part of the log (`ok` says whether replay takes it and `replay` what it makes of
it), then `status.json` becomes `live`, unless the rewrite fails or the process
dies before it, which may happen below the bound `MaxStale`. `Live...` operators
come from the code of the operation, `Replay...` operators from `replay.go` and the replay halves of `workflow_state.go` and
`review_finding.go`. Where an operation and its replay call the same helper,
or set the same fields to the same given values, one operator stands for both,
and `LiveAgreesWithReplay` says nothing about it.

In `RunStore` itself, callers are unconstrained: the constants name sets of
requests and any of them may arrive in any state. That is what the lock allows: a
caller decides on a status it loaded earlier. `RequestAssumption` says what
callers always respect. Attempt ids, random in the code, are positions in the
history. Times, sequence numbers, wording and payload fields that nothing
modelled reads are left out.

### Launcher

`pc[c]` and `plan[c]` are what command `c` does next and what it decided; `proc[i]`
is the worker process of attempt `i`: created behind the exec gate of
`newWorkerCommand` (`gated`), released (`running`), `exited` or `killed`. `overdue` is
the set of attempts whose timeout has passed. `PlanLaunch` and `PlanRecovery` are one
load-and-decide; the actions after it are one store operation or one process
operation each. An operation whose guard fails returns its error and the command
gives up the way the code does (`Return`, or `abort`: kill the worker, finish the
attempt as a process error). `Cancel`, `InterruptWait` and `InterruptCommand` stand for an
interruption and for every local failure of the preparation (rendering, opening
the log, starting the process). `Crash` is the death of a command before any of its
steps: its gate closes, and a worker that was not released never executes.
`workflow` is the pinned configuration, which only `ConfigRefresh` replaces.

The timer of an attempt runs in the command that waits for its worker. It goes
on after the attempt has ended in an invalid report, which the poll does not see,
and after a valid one that has not been polled yet; `Timeout` therefore also fires
for an attempt some command waits for.

A step that is not an agent's runs a command or a script (`deterministic_steps.go`):
its process executes at once (`SpawnCommand`), before it is on record, and the
launcher writes the report: passed or failed by the exit code, the system
outcomes for a timeout, an interruption or a failure to start. `allowStarting` is
the one field that tells the last of these from the others.

An attempt carries `fix`, where its own configuration sends a request for changes
from its step. The code stores the version of the configuration with the attempt
and looks that up (`launcher/review_finding.go:72-86`); a refresh may change the
route for later attempts.

The soft-cap record follows the start in its own step and nothing finishes the
attempt when it fails, as in `LaunchNext`. `orc report` loads and writes in one
step: validation reads the configuration and the active attempt, and a report
whose target is gone is recorded as ignored, which changes nothing but the
sequence number.

The runs of `Launcher` have `MaxStale = 0`: a command whose status
rewrite fails returns with its event in the log, which for the run is the same as
dying at that point, and that is `Crash`.

### ConfigRefresh

`PlanRefresh` is the load. Then the command takes the lock and keeps it for two
steps: `PublishSnapshot` checks and moves `config/current.json`, which puts the new
workflow in force (`workflow`, `version`); `RecordRefresh` appends the event with the
recount (`recorded`, and the counters of the log). `Compatible` is what
`validateRefreshCompatible` and the checks of the store demand of the run under the
old and the new workflow, `Rekeyed` the recount of the entries. A refresh decided on
another `version` is refused. The append may fail (`FailRefresh`, unless a run sets
`RefreshMayFail` to FALSE) or the command may die before it: nothing puts the pointer
back, and `recorded` stays behind `version` until a later refresh.

While a refresh is between its two steps (`Locked`) no step of another command, a
worker or a human changes the store (`Excluded`). An operation that the code would
make wait for the lock and then refuse may be refused earlier in the model; the
outcome is one it also has before or after the refresh.

### Advance

`adv[c].at` is where the loop stands, `why` the reason it will stop for whatever the
step under way returns, `last` the outcome it judges. `EvaluateRun` is the load and the
decision at the top of the loop, `LaunchStep` one step of the launch-next inside (or of
the soft-cap record, or of the update that ends the run), `Judge` the way back to the
top. Where launch-next would return an error without doing anything,
`NothingToLaunch` holds; `Fails` tells the steps that make it return one. The resting values
of `at` are the stop reasons themselves. Between advances the operator may run
launch-next (`PlainStep`), skip-step and refresh-config (`OtherCommand`).

### RunFiles

`disk` maps the five parts of a run directory (artifacts, configuration, follow-ups,
events, status) to their content, `runs` and `lock` are the holders of the two lock files.
An operation is a sequence: lock all runs, validate that the run exists, lock the
run, give up the first lock, load, stage, rename artifacts one by one, append the
event, rewrite `status.json`, unlock; a refresh writes the two files of its snapshot and
the pointer in between. `Fault` makes a call fail once, `AppendUnclear` is the append of which
nobody can tell what it wrote, `Rollback` takes renamed artifacts back, `Crash` is a death
at any of these points. `orc run start` reserves the directory, publishes the parts,
then runs each of its `StartSteps` as an operation of its own; when one fails, it
removes the run without any lock, part by part, the lock file included.
`before` and `outcome` are history variables: what the operation found, and what it
told its caller (`ok`, `failed`, or `unclear`, `EventAppendError` in the code). A worker
that got no clear answer may send
the same report again (`ReportAgain`).

`RunFiles` is not shown to refine `RunStore`: events there are operations with their
content abstracted, and what it adds (torn lines, missing files) is what `RunStore`
excludes by taking an operation as one step. `PublishedLoads`, `OneInside` and
`FailureLeavesNothing` are the assumptions `RunStore` makes of it: a run loads, operations
exclude each other, and one that fails has not happened. A refresh is the exception:
what a failed one leaves under `config/` is `FailRefresh` in `ConfigRefresh`, for which
`RunFiles` shows when it happens and what is on the disk then.

### InitUpgrade

A file is what its writer put there and `text`, how much a person wrote since; two
contents are equal exactly when the bytes are. The configuration is the set of
edits the migrations make to it (setup version, loop caps, references,
references found elsewhere), the manifest maps a file to the release it was
written by. `Actions(F, r)` is the plan: what each path becomes, and which paths it
depends on. `Prepare` is the two passes of `actionableSubset` around the check for
uncommitted changes and the comparison of every target, `WriteOrder` the sort of the
writes, `Compare`, `Rename`, `OpenCreate`, `Fill` the steps of one write; a file is created
empty before it is filled (`Torn`). `Reject` is a write that fails, with the rollback of
the manifest group. `orc init` is the same writes without plan or rollback, stopped
by its first failure.

Abstractions: a torn configuration cannot be parsed, so it cannot be edited; a
manifest a person edited proves nothing; a failing version-control query ends the
command before it writes, which is a death before the first write; the rollback
of a group is one step; the sort is insertion sort, which is what the library's stable sort
is for at most twenty writes; the deprecated `legacy_runtime`, which nobody can
migrate, is folded into `elsewhere`. An edit between the last comparison and the rename or
truncation it
allows is in `late`: the code loses it, and the properties leave it out.


## Runs

All run with `CHECK_DEADLOCK FALSE`: a run that has reached a terminal state, a
block nobody answers, a setup nobody edits, or one of the bounds does stop.

| run | question | properties |
|---|---|---|
| `RunStore` | does the store keep its promises whatever is asked of it, and also when `status.json` lags behind the log? | `TypeOK`, `HistoryOK`, `CountsMatchEntries`, `OutcomesFinal`, `OnlyFindingBlockBreaksLog`, `OverrideSpentOnTarget`, `LiveAgreesWithReplay`, `ImplementsLifecycle` |
| `LauncherRace` | two launch-next on one run, timeouts, one death | `NoUnrecordedWorker`, `EndedByItsOwner` |
| `AdvanceCrash` | launch-next and advance over agents and commands, interrupted, timed out or dying before every step | `AdvanceTypeOK`, `GivenUpWorkersAreDead`, `RecoveryVerified`, `AttemptEnds`, `AdvanceReturns` |
| `Advance` | routing over three workflows, with blocks, human answers, skips and a refresh of the configuration that may fail halfway | `RunStaysLoadable`, `OneBlockAtATime`, `SoftCapWarned`, `CountsFollowRecorded`, `StuckOnlyUndeclared`, `RetriesBounded`, `HardCapHolds`, `NoOutcomePassedOver`, `NoUnreviewedCorrection`, `StopReasonsTrue`, `GoesOnAfterDone` |
| `RunFiles` | the files of a run, with a failing call and a death between any two of them | `TypeOK`, `OneInside`, `PublishedLoads`, `NothingOverwritten`, `PointerComplete`, `FailureLeavesNothing`, `ReportedOnce`, `EveryoneReturns` |
| `InitUpgrade` | plans, applies and `orc init` while people edit and binaries are upgraded | `TypeOK`, `PlanForetells`, `CleanMeansCurrent`, `ReportMatchesDisk`, `OwnershipKept`, `EditsPreserved` |
| `PoisonedLog`, `StuckHardCap`, `ResolvedTwice`, `RefreshWedged`, `HardCapNotBlocked`, `RefreshMiscounts` | see Findings | one each, violated |

### Bounds, and why they are enough

- `RunStore`: two attempts, three entries, one loop, one cap, one finding. Two
  attempts are the least in which an outcome is consumed, superseded, passed over
  or resolved by the next start; three entries allow an override to be reached,
  given and spent (count 1 to 2). Requests cover each combination a start can
  carry: consume or not, retry or enter, with or without each override.
  A rewrite of `status.json` may fail as long as entries and attempts together are
  fewer than `MaxStale` (4), so that an operation, and the one after it, meet a status
  that lags behind by one event or several.
- `LauncherRace`: two commands are enough for every pair of overlapping steps;
  two attempts, so that a late command meets the successor of its attempt; one
  crash, so that the other command recovers what it left.
- `AdvanceCrash`: two attempts, so that a recovery is followed by a start; one
  crash, which suffices because a second one finds a run that looks like the
  first one left it; interruptions and timeouts without bound; a workflow of
  agents, and one whose first step is a command.
- `Advance`: four attempts and five entries reach the first finding, its
  correction, the repeated finding, its block, the human's override and the
  start it allows, and on the shared loop the soft cap, the hard cap and the
  start beyond it. One refresh splits the shared loop, drops a transition and
  changes where a request for changes leads; it may stop between pointer and event.
  (With three versions, so that a refresh follows one that failed, the same
  properties hold: 3.0 million states.)
  `--max-steps 2` lets an advance go on after a step and be stopped by its limit.
  Commands do not overlap here; the violation runs show what happens when they do.
- `HardCapNotBlocked`, `RefreshMiscounts`: the shared loop alone, with six entries; without
  and with a refresh.
- `RunFiles`: two processes, three operations after which two of them (a start
  followed by a report and a refresh, two refreshes, a report sent twice) have met on
  the same files, one failing call, one death. A failed call and a death in the
  operation after it is the longest chain the code has a rule for.
- `InitUpgrade`: seven starting projects (none, a fresh one, one from before the
  setup version, an incomplete one, one that refers to its files elsewhere, two
  whose configuration cannot be migrated), an agent, a runtime and two workflows,
  whose paths lie on both sides of the manifest's; two releases after that of the
  start, so that a file may be two behind; one edit or failing write during an apply, and one death.

`MaxAttempts`, `MaxEntries`, `MaxStale`, `MaxVersions`, `MaxOps`, `MaxRelease`, `MaxFaults` and `MaxCrashes`
are the only bounds on the behaviour and stand in guards. `MaxSteps` is the
program's own parameter.

### Fairness

`FairAdvanceSpec`: a command that is running proceeds (weak fairness of `AdvanceStep(c)`),
time passes (weak fairness of each `Timeout`), and an operator who only ever runs
`advance` also runs launch-next at times (strong fairness of `PlainStep(c)`): an
attempt whose launcher died stops every advance, and only launch-next recovers
it. Nothing is assumed of workers (they may never exit or report), of reports, of
humans, of interruptions, of skips or of refreshes. `AttemptEnds` and `AdvanceReturns` are
checked under it.

`FairSpec` of `RunFiles`: each process that can proceed does (weak fairness of `Step(p)`).
`flock` wakes some waiter; that it wakes each one follows here from the bound on
operations and is not assumed. `EveryoneReturns` is checked under it.

### Mutants

Each property of a passing run has a mutant in the module it is about: a
definition whose name extends the name of the definition below it, such as
`PointFirst` above `WriteManifest` or `ValidateHoldingOn` above `Validate`. Put in place of the
original it makes TLC report that property violated, on the same instance.

## Findings

Met while modelling; each is a run in which TLC finds the violation.

1. **`PoisonedLog`**: `BlockRepeatedReviewFinding` checks that the run is running and
   idle (`runstore/review_finding.go:38`). Its replay also requires that no finding
   block or override is pending (`:132`). Two launch-next commands decide to block,
   the first one does, the human answers, the second one blocks: its event is in
   the log, and no load accepts the log again.
2. **`StuckHardCap`**: after an override for one target, routing may lead elsewhere on
   the same loop and block again. `AllowWorkflowLoopHardCap` refuses because an
   override is pending (`runstore/workflow_state.go:178`), and nothing else clears it.
3. **`ResolvedTwice`**: skip-step on a step whose block was resolved clears the marker
   (`runstore/workflow_state.go:322`) and leaves the resolved outcome to be routed again.
   If a refresh has meanwhile dropped that outcome, routing is stuck for good.
4. **`RefreshWedged`**: a refresh that dies, or fails, between the first file of its
   snapshot and the pointer leaves `config/<version>/resolved.json` behind
   (`runstore/config_snapshot.go:252`). The next one computes the same version from the
   pointer, accepts the directory, and is refused by `writeNewRegularFile` (`:336`), which
   only creates: the run keeps its old configuration for good.
5. **`RefreshMiscounts`**: a refresh replaces the pointer (`runstore/config_snapshot.go:260`)
   before it appends the event with the new counts (`:153`). When the append fails, or
   the command dies before it, the new workflow is in force and the counters are
   on the keys of the old one: caps compare the wrong numbers, and a step that has
   got a key of its own starts again at zero. A later refresh counts everything
   again; until then no load compares the pointer with the log. What holds is
   `CountsFollowRecorded`.
6. **`HardCapNotBlocked`**: `advance` takes it for granted that launch-next blocks the run at a
   hard cap (`launcher/advance.go:208`). With an override pending for that step launch-next
   launches the worker, and `advance` stops with `loop_hard_cap` when the worker has
   ended. `docs/features/worker-launching.md:160` says the cap "blocked the run before
   another launch".

Also met, stated as hazards and without a run of their own:

- A start that consumes nothing is refused only after an outcome the launcher
  recorded (`runstore/attempts.go:875`): a launch-next that decided early launches a step
  over a worker's report. `NoOutcomePassedOver` holds when commands do not overlap.
- A recovery of an overdue starting attempt, planned before its process was
  recorded, ends it as unverifiable and leaves the worker running
  (`launcher/worker_runner.go:810`).
- A start decided before a refresh counts on the old loop key, since
  `StartAttemptContext` does not compare configuration versions.
- `advance` asks whether a finding is repeated with the outcome that a resolved block
  continues from (`launcher/advance.go:127`), launch-next with the latest unconsumed outcome
  (`launcher/launcher.go:125`), of which there is none after a resolved block. In a
  workflow of three steps in which one reviewer's `done/changes_requested` leads to
  `blocked_for_human` and repeats a finding that was corrected before, `advance` after
  resolve-block expects a block; launch-next starts the reviewer again
  (`docs/features/worker-launching.md:141-143` says it should), and `advance` stops with
  `repeated_review_finding` and final status `blocked_for_human`: the run is neither, and
  `:127-132` gives this reason for a stop before another correction attempt.
  The workflows of the run `Advance` have no such transition, and `StopReasonsTrue` holds of
  them.
- A soft cap that is on record stops every later advance
  at that count. A refresh may carry a count past the soft cap, which then
  never fires. A worker's outcome that leads to `cancelled` ends no run through `advance`.
- An upgrade that refuses `.gitignore` (uncommitted changes) and writes the configuration
  raises the setup version, by which alone the change of `.gitignore` is planned
  (`initupgrade/planner.go:156`): the next plan says `current`. `CleanMeansCurrent` speaks of an
  apply that refused nothing.
- The order of an upgrade's writes comes from a comparison that is not transitive
  (`initupgrade/apply.go:458`); with three files it need not follow the dependencies.
- A command step that is sent SIGTERM at its timeout and exits with 0 is
  reported as passed.
- `orc init` truncates a file before it fills it: a death leaves it empty. An append
  that is cut short loses the run for every command. A failed start removes the
  run without its lock (`runstart/runstart.go:492`). A follow-up is doubled when its report
  died after the rename and is sent again.

## Proofs

The theorems hold for all values of the constants that satisfy the
assumptions of the module they are about.

### The store

`RunStore_proofs` (any set of well-formed requests, any bounds, status rewrites that
may fail):

| theorem | statement |
|---|---|
| `TypeCorrect` | `Spec => []TypeOK` |
| `HistoryCorrect` | `Spec => []HistoryOK` |
| `OutcomesStayFinal` | `Spec => OutcomesFinal` |
| `LiveIsReplay` | `Spec => LiveAgreesWithReplay` |
| `ReplayAccepts` | `Spec => OnlyFindingBlockBreaksLog` |
| `StoreImplementsLifecycle` | `Spec => ImplementsLifecycle`: every step maps to a step of `AttemptLifecycle` or a stutter |

The invariant is `TypeOK /\ HistoryOK`. Neither half is inductive alone: an
operation on the active attempt writes it back to the history at its id, which is
inside the history only because the active attempt is its last element; and the
history stays well formed only because the edited record has its type. `HistoryOK`
says that the active attempt equals the last element of the history and is live,
that no other attempt is, and that only ended attempts are consumed.

A step is proved once for all theorems. `Sound(s, live, ok, replay)` says of an
operation on status `s` that the status it writes is well typed with a good history,
keeps the recorded outcomes and moves the phases by one abstract step or none
(`PhaseStep`), that replay accepts its event, and that replay yields the same status.
It has no primes; there is one such lemma per operation (`StartSound`, `EndSound`,
`ReportSound`, `SkipSound`, ...), and one that the action, which commits that status, has
`StepEffect`, what every step of the store does. `StepSound` splits `Next` into its
actions, `StoreInvariant` is the induction, and each theorem follows from both by
propositional temporal logic.

### Loops and their caps

`RunStoreLoops_proofs` builds on the store's invariant:

| theorem | statement |
|---|---|
| `CountersCount` | `Spec => []CountsMatchEntries` |
| `OverrideSpent` | `Spec => OverrideSpentOnTarget` |

`LoopStep(s, t)` says what an operation may do to the loops: leave entries, counters and
override alone (a pending override may be recorded, or stay), or make one entry and
raise the counter of its key by one, in which case an override that goes is the one
recorded for the step that starts. There is one lemma per group of operations.
`Counted`, that each counter is the cardinality of the entries made on its key, is
inductive over such steps: the new entry's index is not in the old set, so exactly one
cardinality grows. A skip makes an entry on the target's key without starting
it, which is why `LoopStep` speaks of entries and not of starts.

### The commands

`Launcher_proofs` (any number of commands on any valid workflows, with workers that
report, exit and run late, interruptions and deaths of commands wherever `Launcher`
allows them):

| theorem | statement |
|---|---|
| `CommandsKeepHistory` | `CommandSpec => [](TypeOK /\ HistoryOK)` |
| `CommandsImplementLifecycle` | `CommandSpec => ImplementsLifecycle` |
| `CommandsKeepCounts` | `CommandSpec => []CountsMatchEntries` |
| `WorkersRecorded` | `CommandSpec => []NoUnrecordedWorker` |
| `OwnersEnd` | `CommandSpec => EndedByItsOwner` |
| `RetriesStayBounded` | `CommandSpec => RetriesBounded` |

The theorems about the store assume well-formed requests (`RequestAssumption`). Its
lemmas are about any one such request, and the commands are shown to send no
others: `Fits` says that a plan carries the request that its `pc` is about to send, which
holds from the decision on (`DecisionLeads`, `StartPlanFits`, `SkipRequestType`, ...) because the
workflow is valid, and stays true however long the command hesitates, since it speaks
of the plan alone.

The inductive invariant `CommandInv` adds `Tracks`, what a command may rely on between two
operations: its attempt is in the history, and at the release its process is on
record. Others may have ended that attempt meanwhile, so nothing is said of its state.
It survives the steps of others because an operation leaves every attempt its place, its
step and its recorded process (`Carried`). `Served` is what an operation does for whoever
asks: `StepEffect`, `LoopStep`, `Carried`, and `Owned`, who may do what to an attempt: its owner
or a recovery gives it up, its agent at work or the command that runs its step reports
it, its launcher puts its process on record. There is one lemma per group of actions that
they have the effect `Kept`;
`EffectKeeps` shows once that the effect preserves the invariant, and the theorems
follow from the effect. `NoUnrecordedWorker` is part of the invariant: only `Release` and the
start of a step without an agent make a process run.

`RetriesStayBounded` needs a second invariant, for a start is decided on a status that may be
gone: `RetryInv` says that the retries on record are within the limits, and so
are those of every start that has been decided on (`RetryWithin`). Every operation but a
start and a skip keeps the retries on record (`RoutineKeepsLineage`).

### One command at a time

`Advance_proofs`, on the lemmas of `ConfigRefresh_proofs` (any workflows, caps, retries,
refreshes, skips, answers of humans, deaths, timeouts and bounds):

| theorem | statement |
|---|---|
| `AdvanceTyped` | `AdvanceSpec => []AdvanceTypeOK` |
| `AloneRunsLoad` | `AdvanceSpec => []RunStaysLoadable` |
| `AloneBlocksOnce` | `AdvanceSpec => []OneBlockAtATime` |
| `AloneCountsFollow` | `AdvanceSpec => []CountsFollowRecorded` |
| `AloneHardCapHolds` | `AdvanceSpec => HardCapHolds` |
| `AlonePassesOverNothing` | `AdvanceSpec => NoOutcomePassedOver` |
| `AloneCorrectsReviewed` | `AdvanceSpec => NoUnreviewedCorrection` |
| `AloneStuckOnlyUndeclared` | `AdvanceSpec => []StuckOnlyUndeclared` |
| `RefreshedWorkersRecorded` | `AdvanceSpec => []NoUnrecordedWorker` |
| `AloneGivenUpDead` | `AdvanceSpec => []GivenUpWorkersAreDead` |
| `AloneRecoveryVerified` | `AdvanceSpec => RecoveryVerified` |
| `AloneSoftCapWarned` | `AdvanceSpec => []SoftCapWarned` |

`AdvanceTyped` and `RefreshedWorkersRecorded` hold of any number of commands. The invariant of
the first, `AdvanceInv`, adds to that of the
commands what a loop of advance is entitled to (`TurnOK`): between two launches its command
is idle; inside one it works on an attempt, or is about to start one and there is room
below `--max-steps`. It also says that a command about to record a refresh has
moved the pointer (`Published`), and that the log never names a configuration which
the pointer has not reached.

The others assume `Alone`, that `Commands` has one member: an operator waits for a command
before giving the next one, while workers, timers and humans act when they like. The
assumption is needed. With two commands `RunStaysLoadable` is false, which is the run
`PoisonedLog`, and what a command is about to do may have been decided on a status
that is gone.

`RunInv` is the invariant. It has three parts:

- replay accepts the log;
- `StatusInv`, about the status alone: ended attempts carry the pair of their end; one block
  at a time, and only in a blocked run; a run that goes on has entered a step last
  (`LastEntered`), unless a human has just resolved the block that its last outcome led to;
  a pending finding, or the override that answers it, concerns what routing would do next
  (`Answers`, `Waits`); and, when the log names the configuration in force, each counter
  is the number of entries of its key under it (`sure`, `CountsFollow`);
- `AllFresh`, about the plan a command carries: what it is about to do is still
  what it would decide now (`Fresh`), because nothing that humans, workers or timers
  do meanwhile changes what routing reads (`Alike`).

Each operation is shown to keep `StatusInv` as a function of the status (`StartKeeps`,
`SkipKeeps`, `FindingBlockKeeps`, `RecountKeeps`, ...), with no prime in sight; `RunStepEffect` says
once that every step of the system has one of eight effects on the status, or puts a
new workflow in force, or counts again (`Effect`, `Repointed`, `Recounted`), and the
three action properties are read off the effect. `sure` is a parameter of `StatusInv`: a
step other than those two keeps the counters in tune with the workflow when they
were, and says nothing when they were not, so a pointer that moves only makes it false
and a recount makes it true of whatever was entered meanwhile. `Waits` is the part that took most
to find: a repeated finding blocks the run before its correction starts, and replay
accepts the block only if the same finding would be found again, which a human's
override, a skip or a refresh in between must not change.

`AloneStuckOnlyUndeclared` has an invariant of its own beside `RunInv`: `RouteInv` says that the
marker and the lineage are those of the latest attempt, that an outcome still to be routed
is one that routing knows, or that the launcher recorded for a step which does not
declare it (`Expected`), and that the outcome a run is blocked by, or was resolved from,
is declared by every workflow there is (`Settled`). The last part is what the hypothesis
`BlocksStayDeclared` is for: no refresh takes away an outcome that some workflow blocks on.
Without it TLC finds this: `code` reports `blocked`; a refresh that no longer declares
it is accepted, since a blocked run is checked for the start step's outcomes only; the
human resolves the block, and skips `code`, which brings the outcome back to be routed
(finding 3). Routing then fails, and goes on failing.

`AloneCorrectsReviewed` needs nothing of refreshes: the correction of a finding is looked for
at the step each attempt itself recorded (`fix`), which no refresh changes.

The three before the last are about worker processes, and read `Owned` against `WorkerInv`, what a
command knows of the process of its attempt (`WorkerKnown`): past the end of the
supervision (`Stopping`) it does not execute; at a recovery it is not on record, or over;
and until the release (`Preparing`) the attempt is live and its agent does not execute. Each
is a fact about `proc` that nobody else may undo: with one command, only that command
starts a process (`AloneStarts`), and only its own operation, or the report of an agent at
work, ends a live attempt (`StaysLive`). `CommandKnown` goes through the actions, `GivenUpStays`
compares the two. With two commands both properties fail: a recovery decided before the
process was recorded ends the attempt after its release. The hypothesis `KindsStay` says
that no refresh turns an agent's step into a command's or back. Refresh-config allows that; the
properties judge an attempt by the kind its step has in the workflow in force, and so
would be about the wrong kind. `AloneRecoveryVerified` proves more than the property says,
which allows a living process for a timeout: when the end is recorded it is gone.

`AloneSoftCapWarned` assumes, as the run `Advance` does, that the command is neither
interrupted nor killed: a cap is recorded only by the operation after the entry that passed
it, and asked for only by the entry that finds the counter just at the soft limit, so a
warning lost to a death is never made up. The proof says of each step that a counter
beyond its soft cap was so before, or the command is about to record it (`Noticed`). Its
other hypothesis, `LoopsApart`, is about workflows: validation takes any word as the
name of a loop (`validate.go:563-577`), `blocked_for_human` for example, and an entry that ends a run counts on the name of its state without asking for a cap.

### The files of a run

`RunFiles_proofs` (any number of processes, operations, failing calls and deaths, any
sequence of start steps that begins with the configuration):

| theorem | statement |
|---|---|
| `LocksExclude` | `Spec => []OneInside` |
| `PointerNeverTorn` | `Spec => []PointerComplete` |

`OneInside` is not inductive. Whoever is at a step under a lock holds it (`LocksHeld`), which
would be enough if every lock were taken when it is free. The reservation of a
new run is the exception: it makes the run's lock file and locks it without
asking. That is safe because until then everybody else finds no run and turns
away (`AloneUntilReserved`), which in turn needs that a run id is started once
(`QuietUntilStarted`), and that a command is not on its way through the steps of a start
before it has published (`Todo`). `IInv` is their conjunction with the shape of the state.
The proof classifies steps: most are `Within` an operation and touch no lock; a command
`Leaves`, `GoesOn` to its next operation, or is one of the few that change hands.

`PointerComplete` needs more than the locks: a snapshot is never touched once it is
complete (versions only grow, `Grows`), the process at the manifest has its own
`resolved.yaml` in place and the one at the pointer both files (`WriterOK`), whatever
others do meanwhile; and nothing but a new run's publication, which only fills in
what is missing, or a removal replaces the configuration. Exclusion plays no part
in it, so it also holds of readers, which take no lock.

`RunFilesData_proofs` is about what is in the files:

| theorem | statement |
|---|---|
| `FilesTyped` | `Spec => []TypeOK` |
| `PublishedRunsLoad` | `Spec => []PublishedLoads` |
| `NamedFilesKept` | `Spec => []NothingOverwritten` |
| `FailuresLeaveNothing` | `Spec => []FailureLeavesNothing` |
| `ReportsEndOnce` | `Spec => []ReportedOnce` |

`PublishedLoads` leaves out a last line that was cut short, which no load accepts, and says
that each file and follow-up the log names is there, not that the events make sense in
their order: that is `RunStore`. `FailureLeavesNothing` is about everything outside `config/`.

All but the first assume `Distinct`: the constant that stands for a missing file is
none of the contents a file can have. It is a hypothesis of these theorems and not an
assumption of the module because TLC cannot ask of a model value, for which it is
true, whether it is a set of files.

`Typed` gives every operation's record and every part of the disk its type. The
invariant is `Data`: unless the run is being removed,

- `FilesOK`: until the log is published nothing lies beside it; from then on each line
  names only files that are there (`Kept`), reports end attempts once and in order
  (`OncePer`, `InOrder`), and, when no process is between a rename and its event and no
  answer is missing (`Quiet`), each entry of `followups.md` is there once and in the log;
- `ProcOK`, of each process. An operation halfway is `MidOK`: the log is still the one it
  loaded; it writes W, some of its file and its follow-up entry, of which it has done D
  (`Plan`, `Order`, `Phase`); and the files are those it loaded plus D (`FilesAre`), or,
  when a failing call leaves that open, one of two possibilities (`Unclear`). `NothingLeft`
  is what the rollback owes its caller, `Fresher` that a follow-up is in the file only
  when its own operation put it there.

`MidOK` compares the disk with what was loaded, so it lives by exclusion: whoever is
in it holds the run's lock (`RunFiles_proofs`), so that any other process leaves the
disk alone or is outside (`Minds`). `OthersKeep` says this once for all steps; what is left
is one lemma per action about the process that moves. Neither `PublishedLoads` nor
`NothingOverwritten` is inductive without it: the append makes a log that names a file,
and that the file is still there is known only from the rename, some steps ago.

### The setup commands

`InitUpgrade_proofs` (any set of managed paths, any releases, any starting projects of
the types of `Contents`, any edits, failing writes and deaths within the bounds):

| theorem | statement |
|---|---|
| `SetupTyped` | `Spec => []TypeOK` |
| `EditsKept` | `Spec => EditsPreserved` |
| `ReportsMatchDisk` | `Spec => []ReportMatchesDisk` |
| `OwnershipStays` | `Spec => []OwnershipKept` |
| `PlansForetell` | `Spec => []PlanForetells` |
| `CleanIsCurrent` | `Spec => []CleanMeansCurrent` |

The invariants build on one another:

- `Shape`: types, and what each step of an apply may take for granted; the queue and
  the paths written are disjoint, without repetition, and part of the plan.
- `DiskOK`: a file nobody else has touched holds what the plan found, or what the
  command wrote. With it, a report is true of the disk.
- `PlanOK`: the actions of an upgrade are those of the plan for the files it found. The
  conflicts and skips are the plan's own only until the first write, since refused
  writes add to them.
- `GroupOK`: when the manifest has been written, so has each refresh it vouches for, or
  it is still to come, unblocked. This is what the order of the writes and the rollback
  of the group are for, and it needs the lemma that whatever order the sort yields, it
  permutes: the comparison of the writes is not transitive (see Findings).
- `CleanOK`, `ForetoldOK`: an apply that has refused nothing has done or will do its whole
  plan; one that nothing disturbs refuses and skips what the plan foretold.

`PlanForetells` compares two computations of what is skipped: the closure the plan takes
over all actions, and the one the apply takes over those that are left. The lemmas
`UpToDateIsCurrent` and `PlanDone` say of a finished apply that a plan made now would be
empty, and `ThreeDeep` that dependencies end after three steps, which is why as many rounds
as there are paths suffice.

`Only`, `Sorted` and the closure are recursive functions over positions or rounds. An
induction theorem would take an operator, which the provers cannot instantiate.
What is needed of them is proved by least counterexample instead: a set of positions
at which a fixed statement fails has a least element (`LeastOf`, `UpTo`), which is neither
the first nor, by the equation of the function, any other.

### Only model-checked

- `StopReasonsTrue` and `GoesOnAfterDone`. They speak of what a loop of advance has
  decided, and hold for one command at a time. `StopReasonsTrue` also needs that no workflow
  blocks on `done/changes_requested` (see Also met).
- `RetriesBounded` is proved of `CommandSpec`, whose workflow is fixed; that it also holds
  when refreshes change the limits is checked by `Advance` only.
- `AttemptEnds`, `AdvanceReturns` and `EveryoneReturns`, liveness under fairness, which the
  prover does not reach.

## What is left

- The safety properties listed above as theorems.
- Several runs beside each other, which share only the lock on all of them.

## Not modelled

- `promptrender`, `runinspect`, `progress`, the progress display, help and output: text
  made of a loaded run; nothing reads it back into a decision.
- `sandbox`, `vcs`: arguments and output of external programs. What matters of them,
  whether a file has uncommitted changes and whether a query fails, is an input of
  `InitUpgrade`.
- Parsing and validation of YAML, agents, runtimes and prompt files: the facts about
  a valid workflow that routing relies on are assumptions of `Workflow`.
- Modes, symbolic links, temporary files and hashes, which protect the files against
  other programs.
- Reuse of process ids: the code compares the start time of the process as well.

`PROJECT.json` lists every component with its status.
