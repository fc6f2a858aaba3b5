---------------------------- MODULE Advance_proofs ----------------------------
(***************************************************************************)
(* Proofs about `orc run advance` beside launch-next, skip-step, continue  *)
(* and refresh-config.                                                     *)
(*                                                                         *)
(* Whatever an advance does to the run is a step of a command, a warning   *)
(* of a soft cap, or nothing: what is proved about those holds of advance. *)
(* The rest is about the loop itself: where it stands, what it remembers,  *)
(* and why it stops.                                                       *)
(***************************************************************************)
EXTENDS Advance, ConfigRefresh_proofs

-----------------------------------------------------------------------------
(* Where a command and its loop stand.                                     *)

Points == {"evaluate", "act", "launch", "judge"}

Loop == [at : Resting \union Points, once : BOOLEAN, launched : 0..MaxSteps,
         why : StopReasons \union {None}, last : Pairs \union {None}, cancelled : BOOLEAN]

\* Steps of launch-next that work on no attempt yet.
Early == {"idle", "update", "blockFinding", "blockCap", "start"}

\* Steps of launch-next that do.
Late == PCs \ (Early \union {"skip", "refresh", "recount"})

\* A step launch-next may be at: past its decision it works on an attempt.
OnAttempt(step, p) ==
    step \notin {"skip", "refresh", "recount"} /\ (step \notin Early => p.id # 0)

\* Between two launches a command is idle; inside one it has an attempt, or is
\* about to start it, and there is room left below the limit.
TurnOK(a, step, p) ==
    /\ a.at \in {"evaluate", "judge"} => step = "idle"
    /\ a.at = "act" => a.why \in StopReasons
    /\ a.at = "launch" => a.launched < MaxSteps /\ OnAttempt(step, p)
    /\ step = "refresh" => p.req.version < MaxVersions /\ p.req.to \in LiveWorkflows

Bounded ==
    /\ Len(replayed.attempts) <= MaxAttempts
    /\ overdue \subseteq 1..MaxAttempts
    /\ crashes \in 0..MaxCrashes

\* A refresh records what it has published.
Published == \A c \in Commands : pc[c] = "recount" => version > 1

AdvanceInv ==
    /\ CommandInv
    /\ Bounded
    /\ version \in 1..MaxVersions
    /\ recorded \in 1..version
    /\ Published
    /\ adv \in [Commands -> Loop]
    /\ \A c \in Commands : TurnOK(adv[c], pc[c], plan[c])

LEMMA Reasons ==
    /\ None \notin StopReasons /\ Resting \cap Points = {}
    /\ TerminalStates \subseteq StopReasons
  BY AdvanceAssumption, WorkflowAssumption DEF StopReasons, Resting, Points, TerminalStates, Blocked

LEMMA StoppedType ==
    /\ \A reason \in Resting \union Points : Stopped(reason) \in Loop
    /\ \A reason : Stopped(reason).at = reason
  BY AdvanceAssumption DEF Stopped, Loop

-----------------------------------------------------------------------------
(* Moves of a command.                                                     *)

\* Command c goes on to step with p.
GoesTo(c, step, p) == pc' = [pc EXCEPT ![c] = step] /\ plan' = [plan EXCEPT ![c] = p]

LEMMA LateSteps ==
    /\ PrepareSteps \subseteq Late \ {"softCap"}
    /\ {"recover", "wait", "grace", "collect", "warn", "finish", "abort", "fail", "setupError",
        "waitCommand", "output", "report"} \subseteq Late \ {"softCap"}
    /\ {"render", "prompt", "openLog", "log", "spawn", "process", "release"} \subseteq PrepareSteps
    /\ "softCap" \in Late
  BY DEF Late, Early, PCs, PrepareSteps

\* Where a step of launch-next or skip-step leads.
LEMMA CommandMoves ==
    ASSUME CommandInv, NEW c \in Commands,
           CommandStep(c) \/ Interrupt(c) \/ FailSpawn(c) \/ Crash(c)
    PROVE  \E step, p :
              /\ GoesTo(c, step, p)
              /\ \/ step = "idle" /\ pc[c] # "idle"
                 \/ /\ pc[c] = "idle" /\ step = "recover"
                    /\ p.id = replayed.active.id /\ replayed.active # None
                 \/ pc[c] = "idle" /\ step \in Early \ {"idle"}
                 \/ pc[c] = "start" /\ step \in {"softCap", "render"} /\ p.id = Len(replayed.attempts) + 1
                 \/ pc[c] = "skip" /\ step = "softCap"
                 \/ pc[c] \in Late /\ step \in Late \ {"softCap"} /\ p.id = plan[c].id
  <1> DEFINE Goal == \E step, p :
              /\ GoesTo(c, step, p)
              /\ \/ step = "idle" /\ pc[c] # "idle"
                 \/ /\ pc[c] = "idle" /\ step = "recover"
                    /\ p.id = replayed.active.id /\ replayed.active # None
                 \/ pc[c] = "idle" /\ step \in Early \ {"idle"}
                 \/ pc[c] = "start" /\ step \in {"softCap", "render"} /\ p.id = Len(replayed.attempts) + 1
                 \/ pc[c] = "skip" /\ step = "softCap"
                 \/ pc[c] \in Late /\ step \in Late \ {"softCap"} /\ p.id = plan[c].id
  <1> SUFFICES Goal
    OBVIOUS
  <1>1. plan = [plan EXCEPT ![c] = plan[c]] /\ plan[c] \in Plan
    BY DEF CommandInv
  <1>2. Return(c) /\ pc[c] # "idle" => Goal
    BY DEF Return, Goto, GoesTo
  <1>3. ASSUME pc[c] \in Late, NEW to \in Late \ {"softCap"}, Goto(c, to), UNCHANGED plan
        PROVE  Goal
    BY <1>1, <1>3 DEF Goto, GoesTo
  <1>4. ASSUME pc[c] \in Late, NEW to \in Late \ {"softCap"}, NEW p, Planned(c, to, p),
               p.id = plan[c].id
        PROVE  Goal
    BY <1>4 DEF Planned, Goto, GoesTo
  <1>5. CASE PlanRecovery(c)
    <2>1. PICK p : Planned(c, "recover", p) /\ p.id = replayed.active.id
      <3> DEFINE P(p) == p.id = replayed.active.id
      <3>1. \A end : P([NoPlan EXCEPT !.id = replayed.active.id, !.end = end])
        BY DEF NoPlan
      <3> HIDE DEF P
      <3>2. \E p : Planned(c, "recover", p) /\ P(p)
        BY <1>5, <3>1 DEF PlanRecovery
      <3> QED
        BY <3>2 DEF P
    <2>2. pc[c] = "idle" /\ replayed.active # None
      BY <1>5, DecisionCases DEF PlanRecovery, CommandInv, TypeOK, Status, Decision
    <2> QED
      BY <2>1, <2>2 DEF Planned, Goto, GoesTo
  <1>6. CASE PlanLaunch(c)
    <2>1. pc[c] = "idle" /\ \E p : \E step \in Early \ {"idle"} : Planned(c, step, p)
      BY <1>6 DEF PlanLaunch, PlanTerminal, PlanFindingBlock, PlanCapBlock, PlanStart, Early
    <2> QED
      BY <2>1 DEF Planned, Goto, GoesTo
  <1>7. CASE Recover(c) \/ Terminalize(c) \/ BlockFinding(c) \/ BlockCap(c) \/ Finish(c) \/ Warn(c)
             \/ InterruptSoftCap(c) \/ Crash(c)
    BY <1>2, <1>7 DEF Recover, Terminalize, BlockFinding, BlockCap, Finish, Warn, InterruptSoftCap,
       Crash
  <1>8. CASE Start(c)
    <2>1. CASE Return(c)
      BY <1>2, <1>8, <2>1 DEF Start
    <2>2. CASE ~Return(c)
      <3>1. /\ pc[c] = "start"
            /\ Planned(c, IF plan[c].cap # None THEN "softCap" ELSE "render",
                         [NoPlan EXCEPT !.id = Len(replayed.attempts) + 1, !.cap = plan[c].cap])
        BY <1>8, <2>2 DEF Start
      <3> DEFINE p == [NoPlan EXCEPT !.id = Len(replayed.attempts) + 1, !.cap = plan[c].cap]
      <3>2. p.id = Len(replayed.attempts) + 1
        BY DEF NoPlan
      <3>3. \E step \in {"softCap", "render"} : Planned(c, step, p)
        BY <3>1
      <3> HIDE DEF p
      <3> QED
        BY <3>1, <3>2, <3>3 DEF Planned, Goto, GoesTo
    <2> QED
      BY <2>1, <2>2
  <1>9. CASE RecordSoftCap(c)
    <2>1. CASE Return(c)
      BY <1>2, <1>9, <2>1 DEF RecordSoftCap
    <2>2. CASE ~Return(c)
      <3>1. pc[c] = "softCap" /\ Planned(c, "render", [plan[c] EXCEPT !.cap = None])
        BY <1>9, <2>2 DEF RecordSoftCap
      <3> QED
        BY <1>1, <1>4, <3>1, LateSteps DEF Plan
    <2> QED
      BY <2>1, <2>2
  <1>10. CASE RenderPrompt(c) \/ RecordPrompt(c) \/ OpenLog(c) \/ RecordLog(c) \/ RecordProcess(c)
    <2>1. /\ pc[c] \in {"render", "prompt", "openLog", "log", "process"} /\ UNCHANGED plan
          /\ \E to \in {"prompt", "openLog", "log", "spawn", "release", "abort"} : Goto(c, to)
      BY <1>10
         DEF RenderPrompt, RecordPrompt, OpenLog, RecordLog, RecordProcess, Prepare
    <2> QED
      BY <1>3, <2>1, LateSteps
  <1>11. CASE Spawn(c) \/ Release(c) \/ Cancel(c) \/ PollReport(c) \/ SpawnCommand(c)
              \/ RecordCommand(c) \/ FailSpawn(c) \/ WriteOutput(c)
    <2>1. /\ pc[c] \in PrepareSteps \union {"wait", "output", "setupError"} /\ UNCHANGED plan
          /\ \E to \in {"process", "wait", "abort", "grace", "waitCommand", "setupError", "report"} :
                Goto(c, to)
      BY <1>11
         DEF Spawn, Release, Cancel, PollReport, SpawnCommand, RecordCommand, FailSpawn, WriteOutput,
             PrepareSteps
    <2> QED
      BY <1>3, <2>1, LateSteps
  <1>12. CASE Collect(c)
    <2>1. CASE Return(c)
      BY <1>2, <1>12, <2>1 DEF Collect
    <2>2. CASE ~Return(c)
      <3>1. pc[c] = "collect" /\ UNCHANGED plan /\ \E to \in {"finish", "warn"} : Goto(c, to)
        BY <1>12, <2>2 DEF Collect
      <3> QED
        BY <1>3, <3>1, LateSteps
    <2> QED
      BY <2>1, <2>2
  <1>13. CASE Abort(c) \/ WaitExit(c) \/ WaitTimeout(c) \/ GraceExceeded(c) \/ InterruptWait(c)
              \/ SetupError(c) \/ CommandExit(c) \/ CommandTimeout(c) \/ InterruptCommand(c)
    <2>1. /\ pc[c] \in {"abort", "wait", "grace", "setupError", "waitCommand"}
          /\ \E p : \E to \in {"fail", "collect", "report", "output"} :
                Planned(c, to, p) /\ p.id = plan[c].id
      <3> DEFINE P(p) == p.id = plan[c].id
      <3>1. /\ \A x : P([plan[c] EXCEPT !.end = x])
            /\ \A x, y : P([plan[c] EXCEPT !.end = x, !.warn = y])
            /\ \A x : P([plan[c] EXCEPT !.req = x])
        BY <1>1 DEF Plan
      <3> HIDE DEF P
      <3>2. /\ pc[c] \in {"abort", "wait", "grace", "setupError", "waitCommand"}
            /\ \E p : \E to \in {"fail", "collect", "report", "output"} : Planned(c, to, p) /\ P(p)
        BY <1>13, <3>1
           DEF Abort, WaitExit, WaitTimeout, GraceExceeded, InterruptWait, SetupError, CommandExit,
               CommandTimeout, InterruptCommand
      <3> QED
        BY <3>2 DEF P
    <2> QED
      BY <1>4, <2>1, LateSteps
  <1>14. CASE ReportCommand(c)
    <2>1. CASE Return(c)
      BY <1>2, <1>14, <2>1 DEF ReportCommand
    <2>2. CASE ~Return(c)
      <3>1. pc[c] = "report" /\ Planned(c, "fail", [plan[c] EXCEPT !.end = "process_error"])
        BY <1>14, <2>2 DEF ReportCommand
      <3>2. [plan[c] EXCEPT !.end = "process_error"].id = plan[c].id
        BY <1>1 DEF Plan
      <3> QED
        BY <1>4, <3>1, <3>2, LateSteps
    <2> QED
      BY <2>1, <2>2
  <1>15. CASE Skip(c)
    <2>1. CASE Return(c)
      BY <1>2, <1>15, <2>1 DEF Skip
    <2>2. CASE ~Return(c)
      <3>1. pc[c] = "skip" /\ Planned(c, "softCap", [NoPlan EXCEPT !.cap = plan[c].cap])
        BY <1>15, <2>2 DEF Skip
      <3> QED
        BY <3>1 DEF Planned, Goto, GoesTo
    <2> QED
      BY <2>1, <2>2
  <1> QED
    BY <1>5, <1>6, <1>7, <1>8, <1>9, <1>10, <1>11, <1>12, <1>13, <1>14, <1>15
       DEF CommandStep, Interrupt

-----------------------------------------------------------------------------
(* What an advance does to the run.                                        *)

LEMMA DecisionTarget ==
    ASSUME CommandInv
    PROVE  /\ Decision(replayed).kind = "terminal" => Decision(replayed).target \in TerminalStates
           /\ Launchable(Decision(replayed)) => Decision(replayed).target \in Steps
  <1>1. workflow \in Configuration /\ replayed \in Status
    BY Configured DEF CommandInv, TypeOK
  <1>2. Leads(Decision(replayed))
    BY <1>1, DecisionLeads DEF Decision
  <1> QED
    BY <1>2 DEF Leads, Launchable

\* The loop goes on only if nothing stops it at once.
LEMMA GoesOnWhen ==
    ASSUME CommandInv, NEW c \in Commands, StopNow(c, Decision(replayed)) = None
    PROVE  LET d == Decision(replayed)
           IN  /\ ~adv[c].cancelled /\ Loads
               /\ d.kind \notin {"error", "wait"}
               /\ d.kind = "terminal" => LatestConsumable(replayed) # 0 /\ d.target # "cancelled"
               /\ Launchable(d) => ~AtMaxSteps(c)
  <1> DEFINE d == Decision(replayed)
  <1>1. d.kind = "terminal" => d.target # None
    BY DecisionTarget, WorkflowAssumption DEF RunStates
  <1>2. {"error", "active_attempt_exists", "max_steps_reached"} \subseteq StopReasons
    BY DEF StopReasons
  <1>3. None \notin {"error", "active_attempt_exists", "max_steps_reached"}
    BY <1>2, AdvanceAssumption
  <1> HIDE DEF d
  <1> QED
    BY <1>1, <1>3 DEF StopNow, d

LEMMA StopNowType ==
    ASSUME CommandInv, NEW c \in Commands
    PROVE  StopNow(c, Decision(replayed)) \in StopReasons \union {None}
  <1> DEFINE d == Decision(replayed)
  <1>1. d.kind = "terminal" => d.target \in StopReasons
    BY DecisionTarget, Reasons
  <1>2. {"error", "active_attempt_exists", "max_steps_reached"} \subseteq StopReasons
    BY DEF StopReasons
  <1> HIDE DEF d
  <1> QED
    BY <1>1, <1>2 DEF StopNow, d

LEMMA EvaluateRuns ==
    ASSUME AdvanceInv, NEW c \in Commands, EvaluateRun(c)
    PROVE  (CommandStep(c) \/ Warns(c) \/ UNCHANGED vars) /\ UNCHANGED <<version, recorded>>
  <1> DEFINE d == Decision(replayed)
  <1>1. pc[c] = "idle" /\ CommandInv
    BY DEF EvaluateRun, AdvanceInv, TurnOK
  <1>2. CASE EvaluateStop(c, d) \/ EvaluateLaunch(c, d)
    BY <1>2 DEF EvaluateStop, EvaluateLaunch, refreshVars
  <1>3. CASE EvaluateTerminal(c, d)
    <2>1. StopNow(c, d) = None /\ d.kind = "terminal"
      BY <1>3 DEF EvaluateTerminal
    <2>2. Loads /\ LatestConsumable(replayed) # 0
      BY <1>1, <2>1, GoesOnWhen
    <2>3. PlanTerminal(c, d)
      BY <1>3, <2>2 DEF EvaluateTerminal, PlanTerminal
    <2>4. PlanLaunch(c)
      BY <1>1, <1>3, <2>2, <2>3 DEF EvaluateTerminal, PlanLaunch
    <2> QED
      BY <1>3, <2>4 DEF EvaluateTerminal, CommandStep
  <1>4. CASE EvaluateSoftCap(c, d)
    BY <1>4 DEF EvaluateSoftCap, Warns
  <1> QED
    BY <1>2, <1>3, <1>4 DEF EvaluateRun

LEMMA AdvanceRuns ==
    ASSUME AdvanceInv, AdvanceNext
    PROVE  /\ RunStep \/ UNCHANGED <<vars, version, recorded>>
           /\ UNCHANGED <<version, recorded>> \/ \E c \in Commands : RefreshStep(c)
  <1>1. ASSUME NEW c \in Commands, StartAdvance(c) \/ Judge(c)
        PROVE  UNCHANGED <<vars, version, recorded>>
    BY <1>1 DEF StartAdvance, Judge, refreshVars
  <1>2. ASSUME NEW c \in Commands, EvaluateRun(c)
        PROVE  (RunStep \/ UNCHANGED vars) /\ UNCHANGED <<version, recorded>>
    BY <1>2, EvaluateRuns DEF RunStep, CommandNext
  <1>3. ASSUME NEW c \in Commands, LaunchStep(c) \/ PlainStep(c)
        PROVE  (RunStep \/ UNCHANGED vars) /\ UNCHANGED <<version, recorded>>
    BY <1>3 DEF LaunchStep, PlainStep, RunStep, CommandNext
  <1>4. ASSUME NEW c \in Commands, OtherCommand(c)
        PROVE  RunStep /\ (UNCHANGED <<version, recorded>> \/ RefreshStep(c))
    <2>1. CASE PlanSkip(c) /\ UNCHANGED <<workflow, version, recorded>>
      BY <2>1 DEF RunStep, CommandNext, Environment
    <2>2. CASE RefreshStep(c)
      BY <2>2 DEF RunStep
    <2> QED
      BY <1>4, <2>1, <2>2 DEF OtherCommand
  <1>5. ASSUME NEW c \in Commands, Disturbance(c)
        PROVE  RunStep /\ UNCHANGED <<version, recorded>>
    BY <1>5 DEF Disturbance, RunStep, CommandNext, Environment
  <1>6. CASE World /\ UNCHANGED <<workflow, version, recorded, adv>>
    BY <1>6 DEF RunStep, CommandNext, Environment
  <1> QED
    BY <1>1, <1>2, <1>3, <1>4, <1>5, <1>6 DEF AdvanceNext, AdvanceStep

LEMMA VersionCounts ==
    ASSUME AdvanceInv, AdvanceNext
    PROVE  /\ version' \in 1..MaxVersions /\ recorded' \in 1..version'
           /\ version <= version' /\ (version' = 1 => UNCHANGED version)
  <1>1. version \in 1..MaxVersions /\ recorded \in 1..version /\ MaxVersions \in Nat
    BY RefreshAssumption DEF AdvanceInv
  <1>2. ASSUME NEW c \in Commands, PlanRefresh(c) \/ FailRefresh(c)
        PROVE  UNCHANGED <<version, recorded>>
    BY <1>2 DEF PlanRefresh, FailRefresh
  <1>3. ASSUME NEW c \in Commands, PublishSnapshot(c)
        PROVE  UNCHANGED <<version, recorded>>
               \/ (version' = version + 1 /\ version < MaxVersions /\ UNCHANGED recorded)
    BY <1>3 DEF PublishSnapshot, AdvanceInv, TurnOK
  <1>4. ASSUME NEW c \in Commands, RecordRefresh(c)
        PROVE  UNCHANGED version /\ recorded' = version
    BY <1>4 DEF RecordRefresh
  <1> QED
    BY <1>1, <1>2, <1>3, <1>4, AdvanceRuns DEF RefreshStep

-----------------------------------------------------------------------------
(* Where the loop goes on.                                                 *)

\* Command c goes on to step with p, and its loop to a.
Advances(c) ==
    \E step, p : \E a \in Loop :
       /\ Set(c, a) /\ GoesTo(c, step, p) /\ TurnOK(a, step, p)
       /\ step = "recount" => version' > 1

LEMMA AdvancesKeep ==
    ASSUME AdvanceInv, NEW c \in Commands, Advances(c),
           version' \in Nat, version <= version'
    PROVE  /\ adv' \in [Commands -> Loop] /\ Published'
           /\ \A b \in Commands : TurnOK(adv'[b], pc'[b], plan'[b])
  <1>1. PICK a, step, p :
           /\ a \in Loop /\ Set(c, a) /\ GoesTo(c, step, p) /\ TurnOK(a, step, p)
           /\ step = "recount" => version' > 1
    BY DEF Advances
  <1>2. /\ adv \in [Commands -> Loop] /\ DOMAIN pc = Commands /\ DOMAIN plan = Commands
        /\ \A b \in Commands : TurnOK(adv[b], pc[b], plan[b])
    BY DEF AdvanceInv, CommandInv
  <1>3. adv'[c] = a /\ pc'[c] = step /\ plan'[c] = p
    BY <1>1, <1>2 DEF Set, GoesTo
  <1>4. \A b \in Commands \ {c} : adv'[b] = adv[b] /\ pc'[b] = pc[b] /\ plan'[b] = plan[b]
    BY <1>1, <1>2 DEF Set, GoesTo
  <1>5. adv' \in [Commands -> Loop]
    BY <1>1, <1>2 DEF Set
  <1>6. ASSUME NEW b \in Commands PROVE TurnOK(adv'[b], pc'[b], plan'[b])
    BY <1>1, <1>2, <1>3, <1>4
  <1>7. ASSUME NEW b \in Commands, pc'[b] = "recount" PROVE version' > 1
    <2>1. CASE b = c
      BY <1>1, <1>3, <1>7, <2>1
    <2>2. CASE b # c
      <3>1. version > 1 /\ version \in Nat
        BY <1>4, <1>7, <2>2 DEF AdvanceInv, Published
      <3> QED
        BY <3>1
    <2> QED
      BY <2>1, <2>2
  <1> QED
    BY <1>5, <1>6, <1>7 DEF Published

\* A loop that has stopped asks nothing of its command.
LEMMA StopsAdvance ==
    ASSUME NEW c \in Commands, NEW reason \in Resting, Stop(c, reason),
           NEW step, NEW p, GoesTo(c, step, p),
           step = "refresh" => p.req.version < MaxVersions /\ p.req.to \in LiveWorkflows,
           step = "recount" => version' > 1
    PROVE  Advances(c)
  <1>1. Stopped(reason) \in Loop /\ Stopped(reason).at = reason
    BY StoppedType
  <1>2. TurnOK(Stopped(reason), step, p)
    BY <1>1, Reasons DEF TurnOK, Points
  <1> QED
    BY <1>1, <1>2 DEF Advances, Stop

LEMMA StaysThere ==
    ASSUME AdvanceInv, NEW c \in Commands, UNCHANGED commandVars
    PROVE  /\ GoesTo(c, pc[c], plan[c])
           /\ pc[c] = "refresh" =>
                 plan[c].req.version < MaxVersions /\ plan[c].req.to \in LiveWorkflows
  BY DEF AdvanceInv, CommandInv, TurnOK, GoesTo, commandVars

LEMMA ActiveId ==
    ASSUME CommandInv, replayed.active # None
    PROVE  /\ replayed.active.id = Len(replayed.attempts) /\ replayed.active.id \in Nat \ {0}
           /\ replayed.active = LastAttempt(replayed)
           /\ LastAttempt(replayed).state \in LiveStates
  <1>1. replayed.attempts \in Seq(Attempt) /\ replayed.attempts # <<>>
        /\ replayed.active = LastAttempt(replayed)
        /\ replayed.active.state \in LiveStates
        /\ \A i \in 1..Len(replayed.attempts) : replayed.attempts[i].id = i
    BY DEF CommandInv, TypeOK, Status, HistoryOK, GoodHistory
  <1>2. Len(replayed.attempts) \in 1..Len(replayed.attempts)
    BY <1>1
  <1> QED
    BY <1>1, <1>2 DEF LastAttempt

\* Whatever a step of a command or an interruption makes of it, inside
\* launch-next it stays on its attempt.
LEMMA LaunchMoves ==
    ASSUME CommandInv, NEW c \in Commands, NEW step, NEW p, GoesTo(c, step, p),
           CommandStep(c) \/ Interrupt(c) \/ FailSpawn(c) \/ Crash(c)
    PROVE  /\ OnAttempt(pc[c], plan[c]) => OnAttempt(step, p)
           /\ step \notin {"refresh", "recount"}
           /\ pc[c] = "idle" => step # "idle"
  <1>1. pc'[c] = step /\ plan'[c] = p
    BY DEF CommandInv, GoesTo
  <1>2. PICK to, q :
          /\ GoesTo(c, to, q)
          /\ \/ to = "idle" /\ pc[c] # "idle"
             \/ /\ pc[c] = "idle" /\ to = "recover"
                /\ q.id = replayed.active.id /\ replayed.active # None
             \/ pc[c] = "idle" /\ to \in Early \ {"idle"}
             \/ pc[c] = "start" /\ to \in {"softCap", "render"} /\ q.id = Len(replayed.attempts) + 1
             \/ pc[c] = "skip" /\ to = "softCap"
             \/ pc[c] \in Late /\ to \in Late \ {"softCap"} /\ q.id = plan[c].id
    BY CommandMoves
  <1>3. to = step /\ q = p
    BY <1>1, <1>2 DEF CommandInv, GoesTo
  <1>4. replayed.active # None => replayed.active.id # 0
    BY ActiveId
  <1>5. Len(replayed.attempts) + 1 # 0
    BY DEF CommandInv, TypeOK, Status
  <1> QED
    BY <1>2, <1>3, <1>4, <1>5 DEF OnAttempt, Late, Early

LEMMA StartAdvanceTurns ==
    ASSUME AdvanceInv, NEW c \in Commands, StartAdvance(c)
    PROVE  Advances(c)
  <1>1. PICK once \in BOOLEAN : Set(c, [Stopped("evaluate") EXCEPT !.once = once])
    BY DEF StartAdvance
  <1> DEFINE a == [Stopped("evaluate") EXCEPT !.once = once]
  <1>2. a \in Loop /\ a.at = "evaluate"
    BY StoppedType DEF Stopped, Points, Loop
  <1>3. pc[c] = "idle" /\ UNCHANGED commandVars
    BY DEF StartAdvance, refreshVars, vars
  <1>4. Set(c, a)
    BY <1>1
  <1> HIDE DEF a
  <1>5. TurnOK(a, pc[c], plan[c])
    BY <1>2, <1>3 DEF TurnOK
  <1> QED
    BY <1>2, <1>3, <1>4, <1>5, StaysThere DEF Advances

\* Changes of a loop that goes on.
LEMMA LoopAt ==
    ASSUME AdvanceInv, NEW c \in Commands, NEW at \in Points
    PROVE  LET a == [adv[c] EXCEPT !.at = at]
           IN  a \in Loop /\ a.at = at /\ a.launched = adv[c].launched
  BY DEF AdvanceInv, Loop

LEMMA LoopLater ==
    ASSUME AdvanceInv, NEW c \in Commands, NEW at \in Points, NEW why \in StopReasons \union {None},
           StopLater(c, at, why)
    PROVE  \E a \in Loop : Set(c, a) /\ a.at = at /\ a.why = why /\ a.launched = adv[c].launched
  <1> DEFINE a == [adv[c] EXCEPT !.at = at, !.why = why]
  <1>1. a \in Loop /\ a.at = at /\ a.why = why /\ a.launched = adv[c].launched
    BY DEF AdvanceInv, Loop
  <1>2. Set(c, a)
    BY DEF StopLater
  <1> QED
    BY <1>1, <1>2

LEMMA EvaluateTurns ==
    ASSUME AdvanceInv, NEW c \in Commands, EvaluateRun(c)
    PROVE  Advances(c)
  <1> DEFINE d == Decision(replayed)
             stay == GoesTo(c, pc[c], plan[c])
  <1>1. pc[c] = "idle" /\ CommandInv
    BY DEF EvaluateRun, AdvanceInv, TurnOK
  <1>2. CASE EvaluateStop(c, d)
    <2>1. StopNow(c, d) \in Resting /\ Stop(c, StopNow(c, d)) /\ UNCHANGED commandVars
      BY <1>1, <1>2, StopNowType DEF EvaluateStop, Resting, refreshVars, vars
    <2> HIDE DEF d
    <2> QED
      BY <1>1, <2>1, StaysThere, StopsAdvance
  <1>3. CASE EvaluateTerminal(c, d)
    <2>1. d.kind = "terminal" /\ StopLater(c, "act", d.target)
      BY <1>3 DEF EvaluateTerminal
    <2>2. d.target \in StopReasons
      BY <1>1, <2>1, DecisionTarget, Reasons
    <2>3. \E p : GoesTo(c, "update", p)
      BY <1>3 DEF EvaluateTerminal, Planned, Goto, GoesTo
    <2> HIDE DEF d
    <2>4. PICK a \in Loop : Set(c, a) /\ a.at = "act" /\ a.why = d.target
      BY <2>1, <2>2, LoopLater DEF Points
    <2>5. \A p : TurnOK(a, "update", p)
      BY <2>2, <2>4 DEF TurnOK
    <2> QED
      BY <2>3, <2>4, <2>5 DEF Advances
  <1>4. CASE EvaluateSoftCap(c, d)
    <2>1. StopLater(c, "act", "loop_soft_cap") /\ "loop_soft_cap" \in StopReasons
      BY <1>4 DEF EvaluateSoftCap, StopReasons
    <2>2. \E p : GoesTo(c, "softCap", p)
      BY <1>4 DEF EvaluateSoftCap, Planned, Goto, GoesTo
    <2>3. PICK a \in Loop : Set(c, a) /\ a.at = "act" /\ a.why = "loop_soft_cap"
      BY <2>1, LoopLater DEF Points
    <2>4. \A p : TurnOK(a, "softCap", p)
      BY <2>1, <2>3 DEF TurnOK
    <2> QED
      BY <2>2, <2>3, <2>4 DEF Advances
  <1>5. CASE EvaluateLaunch(c, d)
    <2>1. StopNow(c, d) = None /\ Launchable(d) /\ UNCHANGED commandVars
      BY <1>5 DEF EvaluateLaunch, refreshVars, vars
    <2>2. ~AtMaxSteps(c)
      BY <1>1, <2>1, GoesOnWhen
    <2>3. PICK why \in StopReasons \union {None} : StopLater(c, "launch", why)
      BY <1>5 DEF EvaluateLaunch, StopReasons
    <2>4. PICK a \in Loop : Set(c, a) /\ a.at = "launch" /\ a.launched = adv[c].launched
      BY <2>3, LoopLater DEF Points
    <2>5. adv[c].launched < MaxSteps
      BY <2>2, AdvanceAssumption DEF AtMaxSteps, AdvanceInv, Loop
    <2>6. TurnOK(a, pc[c], plan[c])
      BY <1>1, <2>4, <2>5 DEF TurnOK, OnAttempt, Early
    <2> QED
      BY <1>1, <2>1, <2>4, <2>6, StaysThere DEF Advances
  <1> QED
    BY <1>2, <1>3, <1>4, <1>5 DEF EvaluateRun

LEMMA JudgeTurns ==
    ASSUME AdvanceInv, NEW c \in Commands, Judge(c)
    PROVE  Advances(c)
  <1>1. pc[c] = "idle" /\ UNCHANGED commandVars /\ GoesTo(c, pc[c], plan[c])
    BY StaysThere DEF Judge, AdvanceInv, TurnOK, refreshVars, vars
  <1>2. CASE To(c, "evaluate")
    <2> DEFINE a == [adv[c] EXCEPT !.at = "evaluate"]
    <2>1. a \in Loop /\ a.at = "evaluate" /\ Set(c, a)
      <3>1. "evaluate" \in Points
        BY DEF Points
      <3>2. a \in Loop /\ a.at = "evaluate"
        BY <3>1, LoopAt
      <3> QED
        BY <1>2, <3>2 DEF To
    <2> HIDE DEF a
    <2>2. TurnOK(a, pc[c], plan[c])
      BY <1>1, <2>1 DEF TurnOK
    <2> QED
      BY <1>1, <2>1, <2>2 DEF Advances
  <1>3. CASE ~To(c, "evaluate")
    <2>1. \E reason \in Resting : Stop(c, reason)
      BY <1>3 DEF Judge, Resting, StopReasons
    <2> QED
      BY <1>1, <2>1, StopsAdvance
  <1> QED
    BY <1>2, <1>3

\* The steps after which a command returns.
LEMMA ReturnsFrom ==
    ASSUME CommandInv, NEW c \in Commands, CommandStep(c), pc'[c] = "idle"
    PROVE  pc[c] \in {"recover", "update", "blockFinding", "blockCap", "start", "softCap", "fail",
                      "finish", "report", "warn", "collect", "skip"}
  <1>1. DOMAIN pc = Commands
    BY DEF CommandInv
  <1>2. \A to : Goto(c, to) => to = "idle"
    BY <1>1 DEF Goto
  <1>3. ~(\/ PlanRecovery(c) \/ PlanLaunch(c)
          \/ Abort(c) \/ WaitExit(c) \/ WaitTimeout(c) \/ GraceExceeded(c)
          \/ SetupError(c) \/ CommandExit(c) \/ CommandTimeout(c))
    BY <1>2 DEF PlanRecovery, PlanLaunch, PlanTerminal, PlanFindingBlock, PlanCapBlock, PlanStart,
       Abort, WaitExit, WaitTimeout, GraceExceeded, SetupError, CommandExit, CommandTimeout, Planned
  <1>4. ~(\/ RenderPrompt(c) \/ RecordPrompt(c) \/ OpenLog(c) \/ RecordLog(c) \/ RecordProcess(c)
          \/ Spawn(c) \/ Release(c) \/ PollReport(c) \/ SpawnCommand(c) \/ RecordCommand(c)
          \/ WriteOutput(c))
    BY <1>2 DEF RenderPrompt, RecordPrompt, OpenLog, RecordLog, RecordProcess, Prepare, Spawn,
       Release, PollReport, SpawnCommand, RecordCommand, WriteOutput
  <1>5. \/ Recover(c) \/ Terminalize(c) \/ BlockFinding(c) \/ BlockCap(c) \/ Start(c)
        \/ RecordSoftCap(c) \/ Finish(c) \/ Collect(c) \/ Warn(c) \/ ReportCommand(c) \/ Skip(c)
    BY <1>3, <1>4 DEF CommandStep
  <1> QED
    BY <1>5 DEF Recover, Terminalize, BlockFinding, BlockCap, Start, RecordSoftCap, Finish, Collect,
       Warn, ReportCommand, Skip

\* What launch-next returns with.
LEMMA ReturnedAttempt ==
    ASSUME AdvanceInv, CommandInv', NEW c \in Commands, LaunchStep(c), CommandStep(c),
           adv[c].at = "launch", pc'[c] = "idle", ~Fails(c)
    PROVE  /\ pc[c] \in {"recover", "finish", "report", "warn", "collect"}
           /\ plan[c].id \in 1..Len(replayed.attempts)
           /\ replayed'.attempts[plan[c].id] \in Attempt
  <1>1. CommandInv /\ OnAttempt(pc[c], plan[c])
    BY DEF AdvanceInv, TurnOK
  <1>2. pc[c] \in {"recover", "finish", "report", "warn", "collect"}
    <2>1. pc[c] \notin {"update", "blockFinding", "blockCap", "start", "fail"}
          /\ ~(pc[c] = "softCap" /\ plan[c].id # 0)
      BY DEF Fails
    <2>2. pc[c] # "skip" /\ (pc[c] = "softCap" => plan[c].id # 0)
      BY <1>1 DEF OnAttempt, Early
    <2> QED
      BY <1>1, <2>1, <2>2, ReturnsFrom
  <1>3. plan[c].id \in 1..Len(replayed.attempts)
    <2>1. plan[c].id # 0
      BY <1>1, <1>2 DEF OnAttempt, Early
    <2>2. plan[c].id \in 0..Len(replayed.attempts)
      BY <1>1 DEF CommandInv, Tracks
    <2>3. Len(replayed.attempts) \in Nat
      BY <1>1 DEF CommandInv, TypeOK, Status
    <2> QED
      BY <2>1, <2>2, <2>3
  <1>4. Carried(replayed.attempts, replayed'.attempts)
    <2>1. CommandNext
      BY DEF CommandNext
    <2> QED
      BY <1>1, <2>1, NextKept, HistoryCarried DEF CommandInv, Kept
  <1> QED
    BY <1>2, <1>3, <1>4 DEF Carried, CommandInv, TypeOK, Status

LEMMA LaunchTurns ==
    ASSUME AdvanceInv, CommandInv', NEW c \in Commands, LaunchStep(c)
    PROVE  Advances(c)
  <1>1. CommandInv /\ adv[c] \in Loop /\ TurnOK(adv[c], pc[c], plan[c])
    BY DEF AdvanceInv
  <1>2. CASE pc[c] = "idle" /\ (adv[c].cancelled \/ NothingToLaunch)
    <2>1. Stop(c, IF adv[c].at = "act" \/ adv[c].why = None THEN "error" ELSE adv[c].why)
          /\ UNCHANGED commandVars
      BY <1>2 DEF LaunchStep, vars
    <2>2. \E reason \in Resting : Stop(c, reason)
      BY <1>1, <2>1 DEF Loop, Resting, StopReasons
    <2> QED
      BY <1>2, <2>1, <2>2, StaysThere, StopsAdvance
  <1>3. CASE ~(pc[c] = "idle" /\ (adv[c].cancelled \/ NothingToLaunch))
    <2>1. /\ CommandStep(c)
          /\ IF pc'[c] # "idle" THEN UNCHANGED adv
             ELSE IF adv[c].at = "act" THEN AfterAction(c) ELSE AfterLaunch(c)
          /\ adv[c].at \in {"launch", "act"}
      BY <1>3 DEF LaunchStep
    <2>2. PICK step, p : GoesTo(c, step, p)
      BY <1>1, <2>1, CommandMoves
    <2>3. pc'[c] = step
      BY <1>1, <2>2 DEF GoesTo, CommandInv
    <2>4. /\ OnAttempt(pc[c], plan[c]) => OnAttempt(step, p)
          /\ step \notin {"refresh", "recount"}
      BY <1>1, <2>1, <2>2, LaunchMoves
    <2>5. CASE pc'[c] # "idle"
      <3>1. Set(c, adv[c])
        BY <2>1, <2>5 DEF Set, AdvanceInv
      <3>2. TurnOK(adv[c], step, p)
        BY <1>1, <2>1, <2>4 DEF TurnOK
      <3> QED
        BY <1>1, <2>2, <2>4, <3>1, <3>2 DEF Advances
    <2>6. CASE pc'[c] = "idle" /\ adv[c].at = "act"
      <3>1. \E reason \in Resting : Stop(c, reason)
        BY <1>1, <2>1, <2>6 DEF AfterAction, TurnOK, Resting, StopReasons
      <3> QED
        BY <2>2, <2>4, <3>1, StopsAdvance
    <2>7. CASE pc'[c] = "idle" /\ adv[c].at = "launch"
      <3>1. AfterLaunch(c)
        BY <2>1, <2>7
      <3>2. CASE adv[c].why # None \/ Fails(c)
        <4>1. \E reason \in Resting : Stop(c, reason)
          BY <1>1, <3>1, <3>2 DEF AfterLaunch, Loop, Resting, StopReasons
        <4> QED
          BY <2>2, <2>4, <4>1, StopsAdvance
      <3>3. CASE ~(adv[c].why # None \/ Fails(c))
        <4> DEFINE pair == replayed'.attempts[plan[c].id].pair
                   n == IF pc[c] = "recover" THEN adv[c].launched ELSE adv[c].launched + 1
                   a == [adv[c] EXCEPT !.at = "judge", !.launched = n, !.last = pair]
        <4>1. Set(c, a)
          BY <3>1, <3>3 DEF AfterLaunch
        <4>2. pair \in Pairs \union {None}
          BY <2>1, <2>7, <3>3, ReturnedAttempt DEF Attempt
        <4>3. adv[c].launched \in Nat /\ adv[c].launched < MaxSteps
          BY <1>1, <2>7, AdvanceAssumption DEF TurnOK, Loop
        <4>6. n \in 0..MaxSteps
          BY <4>3, AdvanceAssumption
        <4> HIDE DEF pair, n
        <4>4. a \in Loop /\ a.at = "judge"
          BY <1>1, <4>2, <4>6 DEF Loop, Points
        <4> HIDE DEF a
        <4>5. TurnOK(a, step, p)
          BY <2>3, <2>7, <4>4 DEF TurnOK
        <4> QED
          BY <2>2, <2>4, <4>1, <4>4, <4>5 DEF Advances
      <3> QED
        BY <3>2, <3>3
    <2> QED
      BY <2>1, <2>5, <2>6, <2>7
  <1> QED
    BY <1>2, <1>3

LEMMA PlainTurns ==
    ASSUME AdvanceInv, NEW c \in Commands, PlainStep(c)
    PROVE  Advances(c)
  <1>1. CommandInv /\ CommandStep(c) /\ Stop(c, "never") /\ "never" \in Resting
    BY DEF AdvanceInv, PlainStep, Resting
  <1>2. PICK step, p : GoesTo(c, step, p)
    BY <1>1, CommandMoves
  <1>3. step \notin {"refresh", "recount"}
    BY <1>1, <1>2, LaunchMoves
  <1> QED
    BY <1>1, <1>2, <1>3, StopsAdvance

LEMMA OtherTurns ==
    ASSUME AdvanceInv, NEW c \in Commands, OtherCommand(c)
    PROVE  Advances(c)
  <1>1. CommandInv /\ Stop(c, "never") /\ "never" \in Resting
    BY DEF AdvanceInv, OtherCommand, Resting
  <1>2. CASE PlanSkip(c)
    <2>1. \E p : \E step \in {"blockCap", "skip"} : Planned(c, step, p)
      BY <1>2 DEF PlanSkip
    <2>2. \E p : \E step \in {"blockCap", "skip"} : GoesTo(c, step, p)
      BY <2>1 DEF Planned, Goto, GoesTo
    <2> QED
      BY <1>1, <2>2, StopsAdvance
  <1>3. CASE PlanRefresh(c)
    <2>1. version < MaxVersions
          /\ \E wf \in LiveWorkflows :
                Planned(c, "refresh", [NoPlan EXCEPT !.req = [version |-> version, to |-> wf]])
      BY <1>3 DEF PlanRefresh
    <2>2. PICK wf \in LiveWorkflows :
             Planned(c, "refresh", [NoPlan EXCEPT !.req = [version |-> version, to |-> wf]])
      BY <2>1
    <2> DEFINE p == [NoPlan EXCEPT !.req = [version |-> version, to |-> wf]]
    <2>3. p.req.version = version /\ p.req.to \in LiveWorkflows
      BY DEF NoPlan
    <2>4. GoesTo(c, "refresh", p)
      BY <2>2 DEF Planned, Goto, GoesTo
    <2> HIDE DEF p
    <2> QED
      BY <1>1, <2>1, <2>3, <2>4, StopsAdvance
  <1>4. CASE Return(c)
    <2>1. GoesTo(c, "idle", NoPlan)
      BY <1>4 DEF Return, Goto, GoesTo
    <2> QED
      BY <1>1, <2>1, StopsAdvance
  <1>5. CASE PublishSnapshot(c) /\ ~Return(c)
    <2>1. GoesTo(c, "recount", plan[c]) /\ version' = version + 1
      BY <1>1, <1>5 DEF PublishSnapshot, Goto, GoesTo, CommandInv
    <2>2. version' > 1
      BY <2>1 DEF AdvanceInv
    <2> QED
      BY <1>1, <2>1, <2>2, StopsAdvance
  <1>6. CASE RecordRefresh(c) \/ FailRefresh(c)
    BY <1>4, <1>6 DEF RecordRefresh, FailRefresh
  <1> QED
    BY <1>2, <1>3, <1>4, <1>5, <1>6 DEF OtherCommand, RefreshStep

LEMMA DisturbanceTurns ==
    ASSUME AdvanceInv, NEW c \in Commands, Disturbance(c)
    PROVE  Advances(c)
  <1>1. CommandInv /\ adv[c] \in Loop /\ TurnOK(adv[c], pc[c], plan[c])
    BY DEF AdvanceInv
  <1>2. /\ Interrupt(c) \/ FailSpawn(c) \/ Crash(c)
        /\ \/ Set(c, [adv[c] EXCEPT !.cancelled = Advancing(c)])
           \/ UNCHANGED adv
           \/ Stop(c, "never")
    BY DEF Disturbance
  <1>3. PICK step, p : GoesTo(c, step, p)
    BY <1>1, <1>2, CommandMoves
  <1>4. /\ OnAttempt(pc[c], plan[c]) => OnAttempt(step, p)
        /\ step \notin {"refresh", "recount"}
    BY <1>1, <1>2, <1>3, LaunchMoves
  <1>5. pc[c] # "idle"
    BY <1>2 DEF Interrupt, InterruptSoftCap, Cancel, InterruptWait, InterruptCommand, FailSpawn, Crash,
       PrepareSteps
  <1>6. CASE Stop(c, "never")
    BY <1>3, <1>4, <1>6, StopsAdvance DEF Resting
  <1>7. CASE ~Stop(c, "never")
    <2>1. PICK a \in Loop : Set(c, a) /\ a.at = adv[c].at /\ a.why = adv[c].why
                            /\ a.launched = adv[c].launched
      <3>1. CASE UNCHANGED adv
        BY <1>1, <3>1 DEF Set, AdvanceInv
      <3>2. CASE Set(c, [adv[c] EXCEPT !.cancelled = Advancing(c)])
        <4> DEFINE a == [adv[c] EXCEPT !.cancelled = Advancing(c)]
        <4>1. Advancing(c) \in BOOLEAN
          BY DEF Advancing
        <4>2. a \in Loop /\ a.at = adv[c].at /\ a.why = adv[c].why /\ a.launched = adv[c].launched
          BY <1>1, <4>1 DEF Loop
        <4> HIDE DEF a
        <4>3. Set(c, a)
          BY <3>2 DEF a
        <4> QED
          BY <4>2, <4>3
      <3> QED
        BY <1>2, <1>7, <3>1, <3>2
    <2>2. TurnOK(a, step, p)
      BY <1>1, <1>4, <1>5, <2>1 DEF TurnOK
    <2> QED
      BY <1>3, <1>4, <2>1, <2>2 DEF Advances
  <1> QED
    BY <1>6, <1>7

LEMMA AdvanceTurns ==
    ASSUME AdvanceInv, CommandInv', AdvanceNext
    PROVE  /\ adv' \in [Commands -> Loop] /\ Published'
           /\ \A b \in Commands : TurnOK(adv'[b], pc'[b], plan'[b])
  <1>0. version' \in Nat /\ version <= version'
    BY VersionCounts
  <1>1. ASSUME NEW c \in Commands,
               StartAdvance(c) \/ AdvanceStep(c) \/ PlainStep(c) \/ OtherCommand(c) \/ Disturbance(c)
        PROVE  Advances(c)
    BY <1>1, StartAdvanceTurns, EvaluateTurns, LaunchTurns, JudgeTurns, PlainTurns, OtherTurns,
       DisturbanceTurns DEF AdvanceStep
  <1>2. CASE World /\ UNCHANGED <<workflow, version, recorded, adv>>
    <2>1. UNCHANGED <<adv, version, commandVars>>
      BY <1>2, WorldKeepsRetries
    <2> QED
      BY <2>1 DEF AdvanceInv, Published, commandVars
  <1> QED
    BY <1>0, <1>1, <1>2, AdvancesKeep DEF AdvanceNext

-----------------------------------------------------------------------------
(* The bounds of the model.                                                *)

SameLength == Len(replayed'.attempts) = Len(replayed.attempts)

LEMMA RoutineKeepsLength ==
    ASSUME TypeOK, Routine
    PROVE  SameLength
  <1> DEFINE n == Len(replayed.attempts)
  <1>0. replayed \in Status /\ \A i, a : Len([replayed.attempts EXCEPT ![i] = a]) = n
    <2>1. replayed.attempts \in Seq(Attempt)
      BY DEF TypeOK, Status
    <2> QED
      BY <2>1 DEF TypeOK
  <1>1. \A a : /\ Len(ReplayUpdate(replayed, a).attempts) = n
               /\ Len(ReplayEnd(replayed, a).attempts) = n
    BY <1>0 DEF ReplayUpdate, ReplayEnd, Status
  <1>2. \A a, req : Len(ReplayReport(replayed, a, req).attempts) = n
    BY <1>0 DEF ReplayReport, ReplayUpdate, Status
  <1>3. /\ \A x : InState(replayed, x).attempts = replayed.attempts
        /\ \A x : HardCapped(replayed, x).attempts = replayed.attempts
        /\ \A x : HardCapOverridden(replayed, x).attempts = replayed.attempts
        /\ \A x : FindingBlocked(replayed, x).attempts = replayed.attempts
        /\ FindingOverridden(replayed).attempts = replayed.attempts
        /\ Continued(replayed).attempts = replayed.attempts
    BY <1>0 DEF InState, HardCapped, HardCapOverridden, FindingBlocked, FindingOverridden, Continued,
           Status
  <1>4. /\ \A x : [replayed EXCEPT !.warned = @ \union {x}].attempts = replayed.attempts
        /\ \A x : [replayed EXCEPT !.artifacts = @ \union {x}].attempts = replayed.attempts
        /\ \A x : [replayed EXCEPT !.softCaps = @ \union {x}].attempts = replayed.attempts
    BY <1>0 DEF Status
  <1> HIDE DEF n
  <1>5. CASE UNCHANGED storeVars
    BY <1>5 DEF SameLength, storeVars
  <1>8. CASE \E id, ref : RecordAttemptPrompt(id, ref) \/ RecordAttemptLog(id, ref)
    <2>1. PICK a : replayed' = ReplayUpdate(replayed, a)
      BY <1>8 DEF Commit, RecordAttemptPrompt, RecordAttemptLog
    <2> QED
      BY <1>1, <2>1 DEF SameLength, n
  <1>9. CASE \E id : RecordAttemptProcess(id)
    BY <1>1, <1>9 DEF SameLength, Commit, RecordAttemptProcess, n
  <1>10. CASE \E id, state, recovered : TerminalizeAttempt(id, state, recovered)
    BY <1>1, <1>10 DEF SameLength, Commit, TerminalizeAttempt, n
  <1>11. CASE \E id, req : RecordAttemptReport(id, req)
    BY <1>2, <1>11 DEF SameLength, Commit, RecordAttemptReport, n
  <1>6. CASE \E id : RecordAttemptWarning(id)
    BY <1>4, <1>6 DEF SameLength, Commit, RecordAttemptWarning
  <1>12. CASE \E ref : WriteArtifact(ref)
    BY <1>4, <1>12 DEF SameLength, Commit, WriteArtifact
  <1>13. CASE \E cap : RecordWorkflowLoopSoftCap(cap)
    BY <1>4, <1>13 DEF SameLength, Commit, RecordWorkflowLoopSoftCap
  <1>7. CASE \/ \E req : UpdateStatus(req)
             \/ \E cap : BlockWorkflowLoopHardCap(cap)
             \/ \E block : BlockRepeatedReviewFinding(block)
             \/ AllowWorkflowLoopHardCap \/ AllowRepeatedReviewFinding \/ ResolveHumanBlock
    BY <1>3, <1>7
       DEF SameLength, Commit, UpdateStatus, BlockWorkflowLoopHardCap,
           BlockRepeatedReviewFinding, AllowWorkflowLoopHardCap, AllowRepeatedReviewFinding,
           ResolveHumanBlock
  <1> QED
    BY <1>5, <1>6, <1>7, <1>8, <1>9, <1>10, <1>11, <1>12, <1>13 DEF Routine

LEMMA SkipKeepsLength ==
    ASSUME CommandInv, NEW c \in Commands, Skip(c)
    PROVE  SameLength
  <1>1. replayed \in Status /\ replayed.attempts \in Seq(Attempt)
    BY DEF CommandInv, TypeOK, Status
  <1>2. \A consume : Len(SkippedHistory(replayed, consume)) = Len(replayed.attempts)
    <2>1. \A i, a : Len([replayed.attempts EXCEPT ![i] = a]) = Len(replayed.attempts)
      BY <1>1
    <2> QED
      BY <2>1 DEF SkippedHistory
  <1>3. \A ev : Len(ReplaySkip(replayed, ev).attempts) = Len(replayed.attempts)
    BY <1>1, <1>2 DEF ReplaySkip, Status
  <1>4. CASE UNCHANGED storeVars
    BY <1>4 DEF SameLength, storeVars
  <1>5. CASE \E req : RecordStepSkip(req)
    BY <1>3, <1>5 DEF RecordStepSkip, Commit, SameLength
  <1> QED
    BY <1>4, <1>5 DEF Skip

\* Only a start makes the history longer, by one attempt.
StartsOne ==
    /\ RoomForStart
    /\ \E c \in Commands : Start(c)
    /\ Len(replayed'.attempts) = Len(replayed.attempts) + 1

\* A step of the life cycle makes the history longer by one attempt at most.
LEMMA PhaseLength ==
    ASSUME CommandInv, CommandNext
    PROVE  SameLength \/ Len(replayed'.attempts) = Len(replayed.attempts) + 1
  <1> DEFINE p == PhasesOf(replayed.attempts)
             q == PhasesOf(replayed'.attempts)
  <1>1. CASE UNCHANGED storeVars
    BY <1>1 DEF SameLength, storeVars
  <1>2. CASE Served
    <2>1. PhaseStep(p, q) /\ TypeOK /\ TypeOK'
      BY <1>2 DEF Served, StepEffect, CommandInv
    <2>2. /\ p \in Seq({"live", "ended", "routed"}) /\ Len(p) = Len(replayed.attempts)
          /\ q \in Seq({"live", "ended", "routed"}) /\ Len(q) = Len(replayed'.attempts)
      BY <2>1, PhasesType DEF TypeOK, Status
    <2> HIDE DEF p, q
    <2>3. Len(q) = Len(p) \/ Len(q) = Len(p) + 1
      BY <2>1, <2>2 DEF PhaseStep
    <2> QED
      BY <2>2, <2>3 DEF SameLength
  <1> QED
    BY <1>1, <1>2, CommandStepEffect

LEMMA StartLength ==
    ASSUME CommandInv, NEW c \in Commands, CommandStep(c), Start(c)
    PROVE  SameLength \/ StartsOne
  <1>1. CASE UNCHANGED storeVars
    BY <1>1 DEF SameLength, storeVars
  <1>2. CASE RoomForStart
    BY <1>2, PhaseLength DEF CommandNext, StartsOne
  <1> QED
    BY <1>1, <1>2 DEF Start

LEMMA RunStepLength ==
    ASSUME CommandInv, RunStep
    PROVE  SameLength \/ StartsOne
  <1>1. TypeOK
    BY DEF CommandInv
  <1>2. ASSUME NEW c \in Commands, CommandStep(c)
        PROVE  SameLength \/ StartsOne
    <2>1. CASE Start(c)
      BY <1>2, <2>1, StartLength
    <2>2. CASE Skip(c)
      BY <2>2, SkipKeepsLength
    <2>3. CASE PlanLaunch(c)
      BY <2>3 DEF PlanLaunch, SameLength, storeVars
    <2>4. CASE Routine
      BY <1>1, <2>4, RoutineKeepsLength
    <2> QED
      BY <1>2, <2>1, <2>2, <2>3, <2>4, ApartKeepsRetries, OperationKeepsRetries DEF CommandStep
  <1>3. CASE Environment
    BY <1>1, <1>3, ApartKeepsRetries, WorldKeepsRetries, RoutineKeepsLength DEF Environment, Interrupt
  <1>4. ASSUME NEW c \in Commands,
               PlanRefresh(c) \/ PublishSnapshot(c) \/ FailRefresh(c) \/ Warns(c)
        PROVE  SameLength
    BY <1>4 DEF PlanRefresh, PublishSnapshot, FailRefresh, Warns, SameLength, storeVars
  <1>5. ASSUME NEW c \in Commands, RecordRefresh(c)
        PROVE  SameLength
    <2>1. \A x : [replayed EXCEPT !.counts = x].attempts = replayed.attempts
      BY <1>1 DEF TypeOK, Status
    <2> QED
      BY <1>5, <2>1 DEF RecordRefresh, Commit, SameLength, storeVars
  <1> QED
    BY <1>2, <1>3, <1>4, <1>5 DEF RunStep, CommandNext, RefreshStep

LEMMA RunStepBounded ==
    ASSUME CommandInv, Bounded, RunStep
    PROVE  Bounded'
  <1>0. /\ Len(replayed.attempts) \in Nat /\ MaxAttempts \in Nat /\ MaxCrashes \in Nat
        /\ Len(replayed.attempts) <= MaxAttempts
    BY RequestAssumption, LauncherAssumption DEF CommandInv, TypeOK, Status, Bounded
  <1>1. Len(replayed'.attempts) <= MaxAttempts
    BY <1>0, RunStepLength DEF SameLength, StartsOne, RoomForStart
  <1>2. \/ UNCHANGED <<overdue, crashes>>
        \/ \E id \in 1..MaxAttempts : Timeout(id)
        \/ \E c \in Commands : Crash(c)
    <2>1. ASSUME NEW c \in Commands, CommandStep(c)
          PROVE  UNCHANGED <<overdue, crashes>>
      <3>1. CASE \/ PlanRecovery(c) \/ PlanLaunch(c)
                 \/ Recover(c) \/ Terminalize(c) \/ BlockFinding(c) \/ BlockCap(c) \/ Start(c)
                 \/ RecordSoftCap(c) \/ Abort(c) \/ Finish(c) \/ Collect(c) \/ Warn(c) \/ Skip(c)
        BY <3>1 DEF PlanRecovery, PlanLaunch, Recover, Terminalize, BlockFinding, BlockCap, Start,
           RecordSoftCap, Abort, Finish, Collect, Warn, Skip, workerVars
      <3>2. CASE \/ RenderPrompt(c) \/ RecordPrompt(c) \/ OpenLog(c) \/ RecordLog(c)
                 \/ Spawn(c) \/ RecordProcess(c) \/ Release(c)
                 \/ WaitExit(c) \/ WaitTimeout(c) \/ PollReport(c) \/ GraceExceeded(c)
                 \/ SpawnCommand(c) \/ RecordCommand(c) \/ SetupError(c) \/ CommandExit(c)
                 \/ CommandTimeout(c) \/ WriteOutput(c) \/ ReportCommand(c)
        BY <3>2 DEF RenderPrompt, RecordPrompt, OpenLog, RecordLog, RecordProcess, Prepare, Spawn,
           Release, WaitExit, WaitTimeout, PollReport, GraceExceeded, SpawnCommand, RecordCommand,
           SetupError, CommandExit, CommandTimeout, WriteOutput, ReportCommand, workerVars
      <3> QED
        BY <2>1, <3>1, <3>2 DEF CommandStep
    <2>2. ASSUME NEW c \in Commands, PlanSkip(c) \/ FailSpawn(c) \/ Interrupt(c)
          PROVE  UNCHANGED <<overdue, crashes>>
      BY <2>2 DEF PlanSkip, FailSpawn, Interrupt, InterruptSoftCap, Cancel, InterruptWait,
         InterruptCommand, workerVars
    <2>3. ASSUME World
          PROVE  UNCHANGED <<overdue, crashes>> \/ \E id \in 1..MaxAttempts : Timeout(id)
      BY <2>3 DEF World, Continue, Report, WorkerExit, workerVars
    <2>4. ASSUME NEW c \in Commands, RefreshStep(c) \/ Warns(c)
          PROVE  UNCHANGED <<overdue, crashes>>
      BY <2>4 DEF RefreshStep, PlanRefresh, PublishSnapshot, RecordRefresh, FailRefresh, Warns,
         workerVars
    <2> QED
      BY <2>1, <2>2, <2>3, <2>4 DEF RunStep, CommandNext, Environment
  <1> DEFINE StillBounded == overdue' \subseteq 1..MaxAttempts /\ crashes' \in 0..MaxCrashes
  <1>3. StillBounded
    <2>1. CASE UNCHANGED <<overdue, crashes>>
      BY <2>1 DEF Bounded
    <2>2. ASSUME NEW id \in 1..MaxAttempts, Timeout(id)
          PROVE  StillBounded
      BY <2>2 DEF Bounded, Timeout
    <2>3. ASSUME NEW c \in Commands, Crash(c)
          PROVE  StillBounded
      BY <1>0, <2>3 DEF Bounded, Crash
    <2> QED
      BY <1>2, <2>1, <2>2, <2>3
  <1> QED
    BY <1>1, <1>3 DEF Bounded

-----------------------------------------------------------------------------
(* The invariant.                                                          *)

LEMMA AdvanceKeeps ==
    ASSUME AdvanceInv, AdvanceNext
    PROVE  AdvanceInv'
  <1>1. CommandInv /\ Bounded /\ version \in Nat
    BY DEF AdvanceInv
  <1>2. CommandInv' /\ Bounded'
    <2>1. CASE RunStep
      BY <1>1, <2>1, RunStepKeeps, RunStepBounded
    <2>2. CASE UNCHANGED vars
      BY <1>1, <2>2 DEF vars, storeVars, commandVars, workerVars, CommandInv, TypeOK, HistoryOK, Bounded
    <2> QED
      BY <2>1, <2>2, AdvanceRuns
  <1>3. version' \in 1..MaxVersions /\ recorded' \in 1..version'
    BY VersionCounts
  <1> QED
    BY <1>2, <1>3, AdvanceTurns DEF AdvanceInv

LEMMA AdvanceInitInv == AdvanceInit => AdvanceInv
  <1> SUFFICES ASSUME AdvanceInit PROVE AdvanceInv
    OBVIOUS
  <1>1. CommandInit /\ version = 1 /\ recorded = 1 /\ adv = [c \in Commands |-> Stopped("never")]
    BY DEF AdvanceInit, RefreshInit
  <1>2. CommandInv
    BY <1>1, CommandInitInv
  <1>3. replayed.attempts = <<>> /\ overdue = {} /\ crashes = 0 /\ pc = [c \in Commands |-> "idle"]
    BY <1>1 DEF CommandInit, InitialStatus
  <1>4. Bounded
    BY <1>3, RequestAssumption, LauncherAssumption DEF Bounded
  <1>5. "never" \in Resting /\ Stopped("never") \in Loop /\ Stopped("never").at = "never"
    BY StoppedType DEF Resting
  <1>6. \A c \in Commands : TurnOK(adv[c], pc[c], plan[c])
    BY <1>1, <1>3, <1>5 DEF TurnOK
  <1> QED
    BY <1>1, <1>2, <1>3, <1>4, <1>5, <1>6, RefreshAssumption DEF AdvanceInv, Published

LEMMA AdvanceInvariant == AdvanceSpec => []AdvanceInv
  <1>1. AdvanceInv /\ [AdvanceNext]_advanceVars => AdvanceInv'
    <2>1. ASSUME AdvanceInv, UNCHANGED advanceVars
          PROVE  AdvanceInv'
      BY <2>1 DEF advanceVars, refreshVars, vars, storeVars, commandVars, workerVars, AdvanceInv,
         CommandInv, TypeOK, HistoryOK, Bounded, Published
    <2> QED
      BY <2>1, AdvanceKeeps
  <1> QED
    BY <1>1, AdvanceInitInv, PTL DEF AdvanceSpec

\* The store, the commands and the loop of advance keep their types, however
\* many commands run, and the bounds of the model hold the counters they are
\* about: a loop never launches more workers than it was allowed.
THEOREM AdvanceTyped == AdvanceSpec => []AdvanceTypeOK
  <1>1. AdvanceInv => AdvanceTypeOK
    <2> SUFFICES ASSUME AdvanceInv PROVE AdvanceTypeOK
      OBVIOUS
    <2>1. TypeOK /\ ValidConfiguration(workflow) /\ pc \in [Commands -> PCs]
          /\ proc \in [1..MaxAttempts -> ProcStates]
      BY DEF AdvanceInv, CommandInv, Valid
    <2>2. ASSUME NEW c \in Commands
          PROVE  /\ DOMAIN plan[c] = DOMAIN NoPlan
                 /\ plan[c].id \in 0..MaxAttempts
                 /\ plan[c].cap \in Cap \union {None}
                 /\ plan[c].end \in EndStates \union {None}
      <3>1. plan[c] \in Plan /\ plan[c].id \in 0..Len(replayed.attempts)
        BY DEF AdvanceInv, CommandInv, Tracks
      <3>2. Len(replayed.attempts) \in Nat /\ Len(replayed.attempts) <= MaxAttempts /\ MaxAttempts \in Nat
        BY RequestAssumption DEF AdvanceInv, Bounded, CommandInv, TypeOK, Status
      <3>3. DOMAIN plan[c] = DOMAIN NoPlan
        BY <3>1 DEF Plan, NoPlan
      <3> QED
        BY <3>1, <3>2, <3>3 DEF Plan
    <2>3. overdue \in SUBSET (1..MaxAttempts) /\ crashes \in 0..MaxCrashes
      BY DEF AdvanceInv, Bounded
    <2>4. LauncherTypeOK
      BY <2>1, <2>2, <2>3 DEF LauncherTypeOK
    <2>5. /\ version \in 1..MaxVersions /\ recorded \in 1..version
          /\ \A c \in Commands : adv[c] \in Loop
      BY DEF AdvanceInv
    <2> QED
      BY <2>4, <2>5 DEF AdvanceTypeOK, Loop, Points
  <1> QED
    BY <1>1, AdvanceInvariant, PTL

-----------------------------------------------------------------------------
(* One command at a time.                                                  *)

LEMMA RunInvariant ==
    ASSUME Alone
    PROVE  AdvanceSpec => []RunInv
  <1>1. AdvanceInit => RunInv
    BY RunInvInit DEF AdvanceInit, RefreshInit
  <1>2. AdvanceInv /\ RunInv /\ [AdvanceNext]_advanceVars => RunInv'
    <2>1. ASSUME AdvanceInv, RunInv, UNCHANGED <<vars, version, recorded>>
          PROVE  RunInv'
      <3>1. UNCHANGED <<accepted, replayed, workflow, pc, plan, version, recorded>>
        BY <2>1 DEF vars, storeVars, commandVars
      <3>2. StatusInv(workflow', replayed', recorded' = version')
        BY <2>1, <3>1 DEF RunInv
      <3>3. \A c \in Commands : Fresh(pc[c], plan[c])'
        BY <2>1, <3>1, FreshStays DEF RunInv, AllFresh
      <3> QED
        BY <2>1, <3>1, <3>2, <3>3 DEF RunInv, AllFresh, StatusInv, EndedPairs, OneBlock, LastEntered,
           Answers, CountsFollow
    <2>2. ASSUME AdvanceInv, RunInv, RunStep
          PROVE  RunInv'
      <3>1. CommandInv /\ version \in Nat /\ recorded \in Nat /\ recorded <= version
        BY <2>2 DEF AdvanceInv
      <3> QED
        BY <2>2, <3>1, RunStepKeepsRun
    <2> QED
      BY <2>1, <2>2, AdvanceRuns DEF advanceVars, refreshVars
  <1> QED
    BY <1>1, <1>2, AdvanceInvariant, PTL DEF AdvanceSpec

\* A run operated by one command at a time never becomes unreadable: the two
\* checks of a finding block that operations omit and replay makes are those
\* of a run no second command has changed since the decision.
THEOREM AloneRunsLoad ==
    ASSUME Alone
    PROVE  AdvanceSpec => []RunStaysLoadable
  <1>1. RunInv => RunStaysLoadable
    BY DEF RunInv, RunStaysLoadable
  <1> QED
    BY <1>1, RunInvariant, PTL

\* Such a run is blocked for one reason at a time, and only while it is blocked.
THEOREM AloneBlocksOnce ==
    ASSUME Alone
    PROVE  AdvanceSpec => []OneBlockAtATime
  <1>1. RunInv => OneBlockAtATime
    BY DEF RunInv, StatusInv, OneBlock, OneBlockAtATime
  <1> QED
    BY <1>1, RunInvariant, PTL

\* Whenever the log names the configuration in force, the counters of such a
\* run are those of that configuration: whatever has been skipped, retried or
\* blocked on the way, whichever refreshes failed or died before they recorded
\* what they had published, and whatever was entered in between.
THEOREM AloneCountsFollow ==
    ASSUME Alone
    PROVE  AdvanceSpec => []CountsFollowRecorded
  <1>1. RunInv => CountsFollowRecorded
    BY DEF RunInv, StatusInv, CountsFollowRecorded
  <1> QED
    BY <1>1, RunInvariant, PTL

\* What one step does to such a run.
LEMMA AloneStep ==
    ASSUME Alone, AdvanceInv, RunInv, AdvanceNext
    PROVE  Moved \/ UNCHANGED vars
  <1>1. Dated => Moved
    BY DEF Dated, Moved
  <1> QED
    BY <1>1, AdvanceRuns, RunStepEffect DEF AdvanceInv

\* The cap of a loop is passed only with the override a human gave for it, and
\* the override is spent: the workflow may have been refreshed and counted
\* again, and other steps may share the counter.
THEOREM AloneHardCapHolds ==
    ASSUME Alone
    PROVE  AdvanceSpec => HardCapHolds
  <1> DEFINE Body ==
          \A step \in Steps :
              LET k == workflow.key[step]
              IN  /\ workflow.capped
                  /\ Len(replayed'.entries) > Len(replayed.entries)
                  /\ replayed'.entries[Len(replayed'.entries)].state = step
                  /\ replayed'.counts[k] > workflow.hard[step]
                  => replayed.hardOverride # None /\ replayed'.hardOverride = None
  <1>1. ASSUME AdvanceInv, RunInv, AdvanceNext, ~UNCHANGED vars PROVE Body
    <2> SUFFICES ASSUME NEW step \in Steps,
                        workflow.capped,
                        Len(replayed'.entries) > Len(replayed.entries),
                        replayed'.entries[Len(replayed'.entries)].state = step,
                        replayed'.counts[workflow.key[step]] > workflow.hard[step]
                 PROVE  replayed.hardOverride # None /\ replayed'.hardOverride = None
      BY Zenon
    <2> QED
      BY <1>1, AloneStep, CapHeld DEF AdvanceInv, Entered
  <1>2. UNCHANGED advanceVars => UNCHANGED vars
    BY DEF advanceVars, refreshVars
  <1> HIDE DEF Body
  <1>3. AdvanceInv /\ RunInv /\ [AdvanceNext]_advanceVars => [Body]_vars
    BY <1>1, <1>2
  <1> USE DEF Body
  <1> QED
    BY <1>3, AdvanceInvariant, RunInvariant, PTL DEF AdvanceSpec, HardCapHolds

\* No worker is started over an outcome nobody has acted on: the start consumes
\* the latest outcome, it was consumed before, or a human resolved its block.
THEOREM AlonePassesOverNothing ==
    ASSUME Alone
    PROVE  AdvanceSpec => NoOutcomePassedOver
  <1> DEFINE Body ==
          Len(replayed'.attempts) > Len(replayed.attempts) /\ replayed.attempts # <<>> =>
             \/ replayed'.attempts[Len(replayed.attempts)].consumed
             \/ Resolved(replayed)
  <1>1. ASSUME AdvanceInv, RunInv, AdvanceNext, ~UNCHANGED vars PROVE Body
    <2> SUFFICES ASSUME
                        Len(replayed'.attempts) > Len(replayed.attempts), replayed.attempts # <<>>
                 PROVE  \/ replayed'.attempts[Len(replayed.attempts)].consumed
                        \/ Resolved(replayed)
      BY Zenon
    <2> QED
      BY <1>1, AloneStep, OutcomeUsed DEF AdvanceInv, RunInv
  <1>2. UNCHANGED advanceVars => UNCHANGED vars
    BY DEF advanceVars, refreshVars
  <1> HIDE DEF Body
  <1>3. AdvanceInv /\ RunInv /\ [AdvanceNext]_advanceVars => [Body]_vars
    BY <1>1, <1>2
  <1> USE DEF Body
  <1> QED
    BY <1>3, AdvanceInvariant, RunInvariant, PTL DEF AdvanceSpec, NoOutcomePassedOver

\* An agent is not sent to correct what it has been sent to correct before,
\* unless a human has looked at the repeated finding and allowed it.
THEOREM AloneCorrectsReviewed ==
    ASSUME Alone
    PROVE  AdvanceSpec => NoUnreviewedCorrection
  <1> DEFINE Body ==
          Len(replayed'.attempts) > Len(replayed.attempts) /\ replayed.attempts # <<>> =>
             LET latest == Len(replayed.attempts)
                 a == LastAttempt(replayed)
             IN  /\ AcceptedFinding(a)
                 /\ LastAttempt(replayed').step \in workflow.agents
                 /\ replayed'.attempts[latest].consumed /\ ~a.consumed
                 /\ ~replayed'.attempts[latest].superseded
                 /\ \E f \in a.findings :
                       FirstReport(replayed, f) # latest /\ Corrected(replayed, f, latest)
                 => replayed.findOverride # None /\ replayed'.findOverride = None
  <1>1. ASSUME AdvanceInv, RunInv, AdvanceNext, ~UNCHANGED vars PROVE Body
    <2> SUFFICES ASSUME
                        Len(replayed'.attempts) > Len(replayed.attempts), replayed.attempts # <<>>,
                        AcceptedFinding(LastAttempt(replayed)),
                        LastAttempt(replayed').step \in workflow.agents,
                        replayed'.attempts[Len(replayed.attempts)].consumed,
                        ~LastAttempt(replayed).consumed,
                        ~replayed'.attempts[Len(replayed.attempts)].superseded,
                        \E f \in LastAttempt(replayed).findings :
                           /\ FirstReport(replayed, f) # Len(replayed.attempts)
                           /\ Corrected(replayed, f, Len(replayed.attempts))
                 PROVE  replayed.findOverride # None /\ replayed'.findOverride = None
      BY Zenon
    <2> QED
      BY <1>1, AloneStep, CorrectionReviewed DEF AdvanceInv
  <1>2. UNCHANGED advanceVars => UNCHANGED vars
    BY DEF advanceVars, refreshVars
  <1> HIDE DEF Body
  <1>3. AdvanceInv /\ RunInv /\ [AdvanceNext]_advanceVars => [Body]_vars
    BY <1>1, <1>2
  <1> USE DEF Body
  <1> QED
    BY <1>3, AdvanceInvariant, RunInvariant, PTL DEF AdvanceSpec, NoUnreviewedCorrection

\* The workflow of a run is one it was created with or refreshed to.
OnKnown == workflow \in Known

LEMMA KnownInvariant == AdvanceSpec => []OnKnown
  <1>1. AdvanceInit => OnKnown
    BY RouteInit DEF AdvanceInit, RefreshInit, OnKnown
  <1>2. AdvanceInv /\ OnKnown /\ [AdvanceNext]_advanceVars => OnKnown'
    <2>1. ASSUME AdvanceInv, workflow \in Known, AdvanceNext
          PROVE  workflow' \in Known
      <3>1. CASE UNCHANGED workflow
        BY <2>1, <3>1
      <3>2. CASE ~UNCHANGED workflow
        <4>1. RunStep
          BY <2>1, <3>2, AdvanceRuns DEF vars
        <4>2. PICK c \in Commands : RefreshStep(c)
          BY <3>2, <4>1 DEF RunStep, CommandNext, CommandStep, Environment, Warns
        <4>3. CommandInv /\ version \in Nat
          BY <2>1 DEF AdvanceInv
        <4>4. pc[c] = "refresh" /\ workflow' = plan[c].req.to
          BY <3>2, <4>2, <4>3, PlanRefreshKept
             DEF RefreshStep, PublishSnapshot, RecordRefresh, FailRefresh
        <4> QED
          BY <2>1, <4>4 DEF AdvanceInv, TurnOK, Known
      <3> QED
        BY <3>1, <3>2
    <2>2. workflow \in Known /\ UNCHANGED advanceVars => workflow' \in Known
      BY DEF advanceVars, refreshVars, vars
    <2> QED
      BY <2>1, <2>2 DEF OnKnown
  <1> QED
    BY <1>1, <1>2, AdvanceInvariant, PTL DEF AdvanceSpec

LEMMA RouteInvariant ==
    ASSUME Alone, BlocksStayDeclared
    PROVE  AdvanceSpec => []RouteInv(workflow, replayed)
  <1> DEFINE Inv == AdvanceInv /\ RunInv /\ OnKnown
             Routed == RouteInv(workflow, replayed)
  <1>1. AdvanceInit => Routed
    BY RouteInit DEF AdvanceInit, RefreshInit
  <1>2. Inv /\ Inv' /\ Routed /\ [AdvanceNext]_advanceVars => Routed'
    <2>1. ASSUME Routed, UNCHANGED vars PROVE Routed'
      BY <2>1 DEF vars, storeVars, RouteInv, Open, Going, LastAttempt, Expected, Settled
    <2>2. ASSUME Inv, Inv', Routed, Moved PROVE Routed'
      <3>1. StatusInv(workflow', replayed', recorded' = version') /\ CommandInv'
        BY <2>2 DEF RunInv, AdvanceInv, StatusInv, EndedPairs, OneBlock, LastEntered, Answers,
           CountsFollow
      <3>2. RouteInv(workflow', replayed')
        BY <2>2, <3>1, EffectRoutes DEF AdvanceInv, RunInv, OnKnown
      <3> QED
        BY <3>2 DEF RouteInv, Open, Going, LastAttempt, Expected, Settled
    <2> QED
      BY <2>1, <2>2, AloneStep DEF advanceVars, refreshVars
  <1> HIDE DEF Routed
  <1>3. AdvanceSpec => []Inv
    BY AdvanceInvariant, RunInvariant, KnownInvariant, PTL
  <1> HIDE DEF Inv
  <1>4. AdvanceSpec => []Routed
    BY <1>1, <1>2, <1>3, PTL DEF AdvanceSpec
  <1> QED
    BY <1>4 DEF Routed

\* No report, skip, answer of a human or refresh leaves a run without a next
\* step: routing gets stuck only on an outcome the launcher recorded itself for
\* a step that does not declare it. The hypothesis is needed: a refresh that
\* takes away the outcome a run is blocked by goes unnoticed, and when the block
\* is resolved and its step then skipped, that outcome is there to route again.
THEOREM AloneStuckOnlyUndeclared ==
    ASSUME Alone, BlocksStayDeclared
    PROVE  AdvanceSpec => []StuckOnlyUndeclared
  <1>1. AdvanceInv /\ RunInv /\ RouteInv(workflow, replayed) => StuckOnlyUndeclared
    <2> SUFFICES ASSUME AdvanceInv, RunInv, RouteInv(workflow, replayed),
                        Decision(replayed).kind = "error"
                 PROVE  LET a == replayed.attempts[LatestConsumable(replayed)]
                        IN  /\ LatestConsumable(replayed) # 0
                            /\ workflow.on[a.step][a.pair] = NoTarget
                            /\ a.pair \in LauncherPairs
      BY DEF StuckOnlyUndeclared, LauncherPairs
    <2>1. /\ workflow \in Valid /\ replayed \in Status
          /\ StatusInv(workflow, replayed, recorded = version)
      BY DEF AdvanceInv, CommandInv, TypeOK, RunInv
    <2> QED
      BY <2>1, RouteStuck DEF Decision
  <1> QED
    BY <1>1, AdvanceInvariant, RunInvariant, RouteInvariant, PTL

-----------------------------------------------------------------------------
(* Workers.                                                                *)

\* No refresh changes which steps agents run: it compares the outcomes steps
\* declare, not what runs them.
KindsStay == MaxVersions = 1 \/ \A old, new \in Known : new.agents = old.agents

\* Steps at which the process of an attempt is over.
Stopping == {"collect", "finish", "fail", "output", "report"}

\* Steps before the process of an attempt executes.
Preparing == PrepareSteps \union {"softCap"}

\* What a command knows of the process of its attempt.
WorkerKnown(step, id) ==
    id # 0 =>
       /\ step \in Stopping => proc[id] # "running"
       /\ step = "recover" => (replayed.attempts[id].pid => ~Alive(id))
       /\ step \in Preparing => replayed.attempts[id].state \in LiveStates /\ ~AtWork(id)

WorkerInv ==
    /\ NoUnrecordedWorker
    /\ GivenUpWorkersAreDead
    /\ \A c \in Commands : WorkerKnown(pc[c], plan[c].id)

\* No process starts.
NoneStarts ==
    \A id \in 1..MaxAttempts :
       (proc'[id] = "running" => proc[id] = "running") /\ (Alive(id)' => Alive(id))

\* The attempts so far keep their kind, those that ended their outcome, and
\* what else happens to them is their owner's doing.
Continues ==
    /\ Len(replayed'.attempts) >= Len(replayed.attempts)
    /\ \A i \in 1..Len(replayed.attempts) :
          /\ IsAgent(i)' <=> IsAgent(i)
          /\ replayed'.attempts[i].state \in AttemptStates
          /\ replayed.attempts[i].state \notin LiveStates =>
                /\ replayed'.attempts[i].state = replayed.attempts[i].state
                /\ replayed'.attempts[i].recovered = replayed.attempts[i].recovered
          /\ OwnedAttempt(i, replayed.attempts[i], replayed'.attempts[i])

LEMMA StoreContinues ==
    ASSUME CommandInv, StoreKept, UNCHANGED workflow
    PROVE  Continues
  <1>1. /\ replayed.attempts \in Seq(Attempt) /\ Len(replayed.attempts) \in Nat
        /\ \A i \in 1..Len(replayed.attempts) : replayed.attempts[i] \in Attempt
    BY DEF CommandInv, TypeOK, Status
  <1>2. CASE UNCHANGED storeVars
    <2>1. replayed' = replayed
      BY <1>2 DEF storeVars
    <2>2. \A i \in 1..Len(replayed.attempts) :
             /\ IsAgent(i)' <=> IsAgent(i)
             /\ replayed'.attempts[i].state \in AttemptStates
      BY <1>1, <2>1 DEF IsAgent, Attempt
    <2>3. \A i \in 1..Len(replayed.attempts) :
             OwnedAttempt(i, replayed.attempts[i], replayed'.attempts[i])
      BY <2>1, LiveIsNotEnded DEF OwnedAttempt
    <2> QED
      BY <1>1, <2>1, <2>2, <2>3 DEF Continues
  <1>3. CASE Served
    <2>1. /\ replayed'.attempts \in Seq(Attempt)
          /\ Len(replayed'.attempts) \in Nat /\ Len(replayed'.attempts) >= Len(replayed.attempts)
          /\ Owned /\ OutcomesKept(replayed.attempts, replayed'.attempts)
          /\ \A i \in 1..Len(replayed.attempts) : replayed'.attempts[i].step = replayed.attempts[i].step
      BY <1>3 DEF Served, StepEffect, TypeOK, Status, Carried
    <2> SUFFICES ASSUME NEW i \in 1..Len(replayed.attempts)
                 PROVE  /\ IsAgent(i)' <=> IsAgent(i)
                        /\ replayed'.attempts[i].state \in AttemptStates
                        /\ replayed.attempts[i].state \notin LiveStates =>
                              /\ replayed'.attempts[i].state = replayed.attempts[i].state
                              /\ replayed'.attempts[i].recovered = replayed.attempts[i].recovered
      BY <2>1 DEF Continues, Owned
    <2>2. IsAgent(i)' <=> IsAgent(i)
      BY <2>1 DEF IsAgent
    <2>3. replayed'.attempts[i] \in Attempt /\ replayed.attempts[i] \in Attempt
      BY <1>1, <2>1
    <2>4. SameOutcome(replayed.attempts[i], replayed'.attempts[i])
      BY <2>1 DEF OutcomesKept
    <2> QED
      BY <2>2, <2>3, <2>4 DEF SameOutcome, Attempt
  <1> QED
    BY <1>2, <1>3 DEF StoreKept

\* Alone, whoever is at a step with an attempt is the one command.
LEMMA SoleAt ==
    ASSUME Alone, NEW c \in Commands
    PROVE  /\ \A steps, i : At(steps, i) => pc[c] \in steps /\ plan[c].id = i
           /\ \A i, r : OwnedBy(i, r) =>
                 plan[c].id = i /\ pc[c] \in IF r THEN {"recover"} ELSE {"fail", "finish"}
  BY DEF Alone, At, OwnedBy

LEMMA StepsApart ==
    /\ Starters \subseteq Preparing /\ "process" \in Preparing
    /\ Preparing \cap (Stopping \union {"recover"}) = {}
    /\ {"fail", "finish", "report"} \subseteq Stopping
    /\ "recover" \notin Stopping
  BY DEF Starters, Preparing, Stopping, PrepareSteps

\* An attempt under preparation stays live.
LEMMA StaysLive ==
    ASSUME Alone, CommandInv, Continues, NEW c \in Commands, NEW i \in 1..Len(replayed.attempts),
           pc[c] \in Preparing, plan[c].id = i, WorkerKnown(pc[c], plan[c].id)
    PROVE  replayed'.attempts[i].state \in LiveStates
  <1>1. i # 0 /\ replayed.attempts[i].state \in LiveStates /\ ~AtWork(i)
    BY DEF WorkerKnown, CommandInv, TypeOK, Status
  <1>2. \A r : ~OwnedBy(i, r)
    BY SoleAt, StepsApart
  <1>3. ~At({"report"}, i)
    BY SoleAt, StepsApart
  <1> QED
    BY <1>1, <1>2, <1>3 DEF Continues, OwnedAttempt, AttemptStates

LEMMA GivenUpStays ==
    ASSUME Alone, CommandInv, Bounded, WorkerInv, Kept, UNCHANGED workflow,
           Len(replayed'.attempts) <= MaxAttempts
    PROVE  GivenUpWorkersAreDead'
  <1>1. Continues
    BY StoreContinues DEF Kept
  <1>2. /\ Len(replayed.attempts) \in Nat /\ Len(replayed'.attempts) \in Nat
        /\ proc \in [1..MaxAttempts -> ProcStates] /\ MaxAttempts \in Nat
        /\ Len(replayed.attempts) <= MaxAttempts
    BY RequestAssumption DEF CommandInv, Kept, StoreKept, Served, StepEffect, storeVars, TypeOK, Status, Bounded
  <1> SUFFICES ASSUME NEW i \in 1..Len(replayed'.attempts), proc'[i] = "running"
               PROVE  LET b == replayed'.attempts[i]
                      IN  /\ ~(b.state \in EndStates /\ (IsAgent(i)' \/ b.pid))
                          /\ ~(b.state = "reported" /\ ~IsAgent(i)')
    BY DEF GivenUpWorkersAreDead
  <1>3. i \in 1..MaxAttempts
    BY <1>2
  <1>4. i \in 1..Len(replayed.attempts) /\ (proc[i] = "running" \/ At(Starters, i))
    BY <1>2, <1>3 DEF Kept, ProcKept, WorkerInv, NoUnrecordedWorker
  <1> DEFINE a == replayed.attempts[i]
             b == replayed'.attempts[i]
  <1>5. CASE \E steps \in SUBSET Preparing : At(steps, i)
    <2>1. PICK c \in Commands : pc[c] \in Preparing /\ plan[c].id = i
      BY <1>5 DEF At
    <2>2. b.state \in LiveStates
      BY <1>1, <1>4, <2>1, StaysLive DEF WorkerInv
    <2> QED
      BY <2>2, LiveIsNotEnded DEF ReportedStates
  <1>6. CASE \A steps \in SUBSET Preparing : ~At(steps, i)
    <2>1. proc[i] = "running" /\ ~At({"process"}, i)
      BY <1>4, <1>6, StepsApart
    <2>2. /\ IsAgent(i)' <=> IsAgent(i)
          /\ b.pid => a.pid
          /\ a.state \notin LiveStates => b.state = a.state
          /\ a.state \in LiveStates /\ b.state \in EndStates => OwnedBy(i, b.recovered)
          /\ a.state \in LiveStates /\ b.state \in ReportedStates => AtWork(i) \/ At({"report"}, i)
      BY <1>1, <1>4, <2>1 DEF Continues, OwnedAttempt
    <2>3. ASSUME NEW c \in Commands, pc[c] \in Stopping, plan[c].id = i
          PROVE  FALSE
      BY <1>4, <2>1, <2>3 DEF WorkerInv, WorkerKnown
    <2>4. ASSUME NEW c \in Commands, pc[c] = "recover", plan[c].id = i
          PROVE  ~a.pid /\ ~IsAgent(i)
      <3>1. a.pid => ~Alive(i)
        BY <1>4, <2>4 DEF WorkerInv, WorkerKnown
      <3>2. ~a.pid
        BY <2>1, <3>1 DEF Alive
      <3> QED
        BY <1>2, <1>3, <2>1, <3>2 DEF WorkerInv, NoUnrecordedWorker
    <2>5. CASE a.state \notin LiveStates
      BY <1>4, <2>1, <2>2, <2>5 DEF WorkerInv, GivenUpWorkersAreDead
    <2>6. CASE a.state \in LiveStates /\ b.state \in EndStates
      <3>1. OwnedBy(i, b.recovered)
        BY <2>2, <2>6
      <3>2. ~b.pid /\ ~IsAgent(i)
        BY <2>2, <2>3, <2>4, <3>1, StepsApart DEF OwnedBy
      <3> QED
        BY <2>2, <2>6, <3>2, LiveIsNotEnded DEF ReportedStates
    <2>7. CASE a.state \in LiveStates /\ b.state \in ReportedStates
      <3>1. IsAgent(i)
        BY <2>2, <2>3, <2>7, StepsApart DEF At, AtWork
      <3> QED
        BY <2>2, <2>7, <3>1, LiveIsNotEnded
    <2>8. CASE b.state \notin EndStates \union ReportedStates
      BY <2>8 DEF ReportedStates
    <2> QED
      BY <2>5, <2>6, <2>7, <2>8
  <1> QED
    BY <1>5, <1>6

-----------------------------------------------------------------------------
(* What a command knows of its process, step by step.                      *)

\* Command c goes on to step with p, and knows what it has to.
KnownMove(c) == \E step, p : GoesTo(c, step, p) /\ WorkerKnown(step, p.id)'

\* A command that goes on with its attempt, to a step of the same kind.
LEMMA KnowsOn ==
    ASSUME Alone, CommandInv, Bounded, Continues, NoneStarts, NEW c \in Commands,
           WorkerKnown(pc[c], plan[c].id), NEW step, NEW id, id = plan[c].id,
           step \in Stopping => pc[c] \in Stopping,
           step = "recover" => pc[c] = "recover",
           step \in Preparing => pc[c] \in Preparing
    PROVE  WorkerKnown(step, id)'
  <1>1. /\ id \in 0..Len(replayed.attempts) /\ Len(replayed.attempts) \in Nat
        /\ Len(replayed.attempts) <= MaxAttempts /\ MaxAttempts \in Nat
    BY RequestAssumption DEF CommandInv, Tracks, TypeOK, Status, Bounded
  <1> SUFFICES ASSUME id # 0 PROVE WorkerKnown(step, id)'
    BY DEF WorkerKnown
  <1>2. id \in 1..Len(replayed.attempts) /\ id \in 1..MaxAttempts
    BY <1>1
  <1>3. step \in Stopping => proc'[id] # "running"
    BY <1>2 DEF WorkerKnown, NoneStarts
  <1>4. step = "recover" => (replayed'.attempts[id].pid => ~Alive(id)')
    <2>1. pc[c] = "recover" => ~At({"process"}, id)
      BY SoleAt
    <2> QED
      BY <1>2, <2>1 DEF WorkerKnown, NoneStarts, Continues, OwnedAttempt
  <1>5. step \in Preparing => replayed'.attempts[id].state \in LiveStates /\ ~AtWork(id)'
    <2>1. step \in Preparing => replayed'.attempts[id].state \in LiveStates
      BY <1>2, StaysLive
    <2>2. step \in Preparing => ~AtWork(id)
      BY <1>2 DEF WorkerKnown
    <2>3. ~AtWork(id) => ~AtWork(id)'
      BY <1>2 DEF AtWork, NoneStarts, Continues
    <2> QED
      BY <2>1, <2>2, <2>3
  <1> QED
    BY <1>3, <1>4, <1>5 DEF WorkerKnown

\* A command that works on no attempt, or is where it need not know anything.
Careless == PCs \ (Stopping \union {"recover"} \union Preparing)

LEMMA KnowsNothing ==
    /\ \A step, id : step \in Careless => WorkerKnown(step, id)'
    /\ \A step : WorkerKnown(step, 0)'
    /\ {"idle", "update", "blockFinding", "blockCap", "start", "skip", "refresh", "recount", "wait", "grace",
        "warn", "abort", "setupError", "waitCommand"} \subseteq Careless
  BY DEF WorkerKnown, Careless, Stopping, Preparing, PrepareSteps, PCs

LEMMA ReturnsKnown ==
    ASSUME NEW c \in Commands, Return(c)
    PROVE  KnownMove(c)
  <1>1. GoesTo(c, "idle", NoPlan) /\ NoPlan.id = 0
    BY DEF Return, Goto, GoesTo, NoPlan
  <1> QED
    BY <1>1, KnowsNothing DEF KnownMove

\* A command alone that does not start its process.
LEMMA AloneStarts ==
    ASSUME Alone, ProcKept, NEW c \in Commands, pc[c] \notin Starters
    PROVE  NoneStarts
  <1>1. \A i : ~At(Starters, i)
    BY SoleAt
  <1> QED
    BY <1>1 DEF ProcKept, NoneStarts, Alive

\* What every step below starts from.
Knowing(c) == CommandInv /\ Bounded /\ Continues /\ ProcKept /\ WorkerKnown(pc[c], plan[c].id)

LEMMA GoesKnown ==
    ASSUME Alone, NEW c \in Commands, Knowing(c), NEW step, Goto(c, step), UNCHANGED plan,
           \/ step \in Careless
           \/ /\ pc[c] \notin Starters
              /\ step \in Stopping => pc[c] \in Stopping
              /\ step # "recover"
              /\ step \in Preparing => pc[c] \in Preparing
    PROVE  KnownMove(c)
  <1>1. PICK p : p = plan[c]
    OBVIOUS
  <1>2. GoesTo(c, step, p)
    BY <1>1 DEF Knowing, CommandInv, Goto, GoesTo
  <1>3. WorkerKnown(step, p.id)'
    <2>1. CASE step \in Careless
      BY <2>1, KnowsNothing
    <2>2. CASE step \notin Careless
      <3>1. NoneStarts
        BY <2>2, AloneStarts DEF Knowing
      <3>2. PICK id : id = p.id
        OBVIOUS
      <3>3. WorkerKnown(step, id)'
        BY <1>1, <2>2, <3>1, <3>2, KnowsOn DEF Knowing
      <3> QED
        BY <3>2, <3>3
    <2> QED
      BY <2>1, <2>2
  <1> QED
    BY <1>2, <1>3 DEF KnownMove

\* The same with a new plan for the same attempt, whose process is over.
LEMMA PlansKnown ==
    ASSUME NEW c \in Commands, NEW step, NEW p, Planned(c, step, p), p.id = plan[c].id,
           step \in Stopping \/ step \in Careless,
           step \in Stopping => plan[c].id = 0 \/ proc'[plan[c].id] # "running"
    PROVE  KnownMove(c)
  <1>1. GoesTo(c, step, p)
    BY DEF Planned, Goto, GoesTo
  <1>2. WorkerKnown(step, p.id)'
    BY KnowsNothing, StepsApart DEF WorkerKnown
  <1> QED
    BY <1>1, <1>2 DEF KnownMove

\* A plan without an attempt.
LEMMA RequestKnown ==
    ASSUME NEW c \in Commands, NEW step, NEW p, Planned(c, step, p), p.id = 0
    PROVE  KnownMove(c)
  BY KnowsNothing DEF KnownMove, Planned, Goto, GoesTo

LEMMA KilledDead ==
    ASSUME CommandInv, Bounded, NEW c \in Commands,
           Kill(plan[c].id) \/ (UNCHANGED proc /\ ~Alive(plan[c].id))
    PROVE  plan[c].id = 0 \/ proc'[plan[c].id] # "running"
  <1>1. plan[c].id # 0 => plan[c].id \in 1..MaxAttempts
    BY RequestAssumption DEF CommandInv, Tracks, TypeOK, Status, Bounded
  <1>2. proc \in [1..MaxAttempts -> ProcStates]
    BY DEF CommandInv
  <1> QED
    BY <1>1, <1>2 DEF Kill, Alive

LEMMA CommandKnown ==
    ASSUME Alone, CommandInv, Bounded, WorkerInv, Kept, UNCHANGED workflow, NEW c \in Commands,
           CommandStep(c) \/ PlanSkip(c) \/ FailSpawn(c) \/ Interrupt(c) \/ Crash(c)
    PROVE  KnownMove(c)
  <1>1. Knowing(c)
    BY StoreContinues DEF Knowing, Kept, WorkerInv
  <1>2. plan[c] \in Plan
    BY DEF CommandInv
  <1>3. CASE PlanRecovery(c)
    <2>1. PICK p : /\ Planned(c, "recover", p) /\ p.id = replayed.active.id
      <3> DEFINE P(p) == p.id = replayed.active.id
      <3>1. \A end : P([NoPlan EXCEPT !.id = replayed.active.id, !.end = end])
        BY DEF NoPlan
      <3> HIDE DEF P
      <3>2. \E p : Planned(c, "recover", p) /\ P(p)
        BY <1>3, <3>1 DEF PlanRecovery
      <3> QED
        BY <3>2 DEF P
    <2>2. replayed.active # None /\ replayed' = replayed
      BY <1>3, DecisionCases DEF PlanRecovery, CommandInv, TypeOK, Status, Decision, storeVars
    <2>3. /\ replayed.active.id = Len(replayed.attempts) /\ replayed.active.id \in 1..MaxAttempts
          /\ replayed.attempts[replayed.active.id] = replayed.active
      BY <2>2, ActiveId, RequestAssumption DEF Bounded, LastAttempt, CommandInv, TypeOK, Status
    <2>4. PICK id : id = replayed.active.id
      OBVIOUS
    <2>5. Kill(id) \/ (UNCHANGED proc /\ (replayed.active.pid => ~Alive(id)))
      BY <1>3, <2>4 DEF PlanRecovery
    <2>6. replayed.attempts[id].pid => ~Alive(id)'
      BY <2>3, <2>4, <2>5 DEF Kill, Alive, CommandInv
    <2>7. WorkerKnown("recover", id)'
      BY <2>2, <2>6, StepsApart DEF WorkerKnown
    <2>8. GoesTo(c, "recover", p)
      BY <2>1 DEF Planned, Goto, GoesTo
    <2> QED
      BY <2>1, <2>4, <2>7, <2>8 DEF KnownMove
  <1>4. CASE PlanLaunch(c)
    <2>1. \E p : \E step \in Early \ {"idle"} : Planned(c, step, p)
      BY <1>4 DEF PlanLaunch, PlanTerminal, PlanFindingBlock, PlanCapBlock, PlanStart, Early
    <2> QED
      BY <2>1, KnowsNothing DEF KnownMove, Planned, Goto, GoesTo, Early
  <1>5. CASE Recover(c) \/ Terminalize(c) \/ BlockFinding(c) \/ BlockCap(c) \/ Finish(c) \/ Warn(c)
             \/ InterruptSoftCap(c) \/ Crash(c)
    BY <1>5, ReturnsKnown
       DEF Recover, Terminalize, BlockFinding, BlockCap, Finish, Warn, InterruptSoftCap, Crash
  <1>6. CASE Start(c)
    <2>1. CASE Return(c)
      BY <2>1, ReturnsKnown
    <2>2. CASE ~Return(c)
      <3>1. /\ pc[c] = "start" /\ StartAttempt(plan[c].req) /\ UNCHANGED workerVars
            /\ Planned(c, IF plan[c].cap # None THEN "softCap" ELSE "render",
                         [NoPlan EXCEPT !.id = Len(replayed.attempts) + 1, !.cap = plan[c].cap])
        BY <1>6, <2>2 DEF Start
      <3> DEFINE p == [NoPlan EXCEPT !.id = Len(replayed.attempts) + 1, !.cap = plan[c].cap]
      <3>2. p.id = Len(replayed.attempts) + 1
        BY DEF NoPlan
      <3>3. PICK step \in {"softCap", "render"} : Planned(c, step, p)
        BY <3>1
      <3> HIDE DEF p
      <3>4. PICK id, q : id = Len(replayed.attempts) + 1 /\ q = p
        OBVIOUS
      <3>5. replayed'.attempts[id].state \in LiveStates
        BY <3>1, <3>4, StartServed, CommandPlan DEF CommandInv, Fits, EnteringStart
      <3>6. ~AtWork(id)'
        <4>1. id \notin 1..Len(replayed.attempts)
          BY <3>4 DEF CommandInv, TypeOK, Status
        <4>2. proc[id] # "running" \/ id \notin DOMAIN proc
          BY <4>1 DEF WorkerInv, NoUnrecordedWorker
        <4>3. id \in DOMAIN proc
          BY <1>6, <2>2, <3>4, RequestAssumption DEF Start, RoomForStart, CommandInv, TypeOK, Status
        <4> QED
          BY <3>1, <4>2, <4>3 DEF AtWork, workerVars
      <3>7. WorkerKnown(step, id)'
        BY <3>5, <3>6 DEF WorkerKnown, Stopping
      <3> QED
        BY <3>2, <3>3, <3>4, <3>7 DEF KnownMove, Planned, Goto, GoesTo
    <2> QED
      BY <2>1, <2>2
  <1>7. CASE RecordSoftCap(c)
    <2>1. CASE Return(c)
      BY <2>1, ReturnsKnown
    <2>2. CASE ~Return(c)
      <3>1. pc[c] = "softCap" /\ Planned(c, "render", [plan[c] EXCEPT !.cap = None])
        BY <1>7, <2>2 DEF RecordSoftCap
      <3>2. [plan[c] EXCEPT !.cap = None].id = plan[c].id
        BY <1>2 DEF Plan
      <3>3. PICK p, id : p = [plan[c] EXCEPT !.cap = None] /\ id = plan[c].id
        OBVIOUS
      <3>4. NoneStarts
        BY <1>1, <3>1, AloneStarts DEF Knowing, Starters
      <3>5. "softCap" \in Preparing /\ "render" \in Preparing
        BY DEF Preparing, PrepareSteps
      <3>6. WorkerKnown("render", id)'
        BY <1>1, <3>1, <3>3, <3>4, <3>5, KnowsOn, StepsApart DEF Knowing
      <3> QED
        BY <3>1, <3>2, <3>3, <3>6 DEF KnownMove, Planned, Goto, GoesTo
    <2> QED
      BY <2>1, <2>2
  <1>8. CASE RenderPrompt(c) \/ RecordPrompt(c) \/ OpenLog(c) \/ RecordLog(c) \/ RecordProcess(c)
    <2>1. /\ pc[c] \in {"render", "prompt", "openLog", "log", "process"} /\ UNCHANGED plan
          /\ \E to \in {"prompt", "openLog", "log", "spawn", "release", "abort"} : Goto(c, to)
      BY <1>8 DEF RenderPrompt, RecordPrompt, OpenLog, RecordLog, RecordProcess, Prepare
    <2>2. pc[c] \in Preparing /\ pc[c] \notin Starters
      BY <2>1 DEF Preparing, PrepareSteps, Starters
    <2>3. \A to \in {"prompt", "openLog", "log", "spawn", "release", "abort"} :
             to \notin Stopping /\ to # "recover"
      BY DEF Stopping
    <2> QED
      BY <1>1, <2>1, <2>2, <2>3, GoesKnown
  <1>9. CASE Spawn(c) \/ SpawnCommand(c)
    <2>1. PICK id, p : id = plan[c].id /\ p = plan[c]
      OBVIOUS
    <2>2. /\ pc[c] = "spawn" /\ Goto(c, "process") /\ UNCHANGED plan /\ UNCHANGED storeVars
          /\ \/ IsAgent(id) /\ proc' = [proc EXCEPT ![id] = "gated"]
             \/ ~IsAgent(id)
      BY <1>9, <2>1 DEF Spawn, SpawnCommand
    <2>3. id \in 1..Len(replayed.attempts) /\ id \in 1..MaxAttempts /\ id # 0
      BY <2>1, <2>2, RequestAssumption DEF CommandInv, Tracks, PrepareSteps, TypeOK, Status, Bounded
    <2>4. replayed' = replayed /\ (IsAgent(id)' <=> IsAgent(id))
      BY <1>1, <2>2, <2>3 DEF storeVars, Knowing, Continues
    <2>5. ~AtWork(id)'
      BY <2>2, <2>3, <2>4 DEF AtWork, CommandInv
    <2>6. replayed.attempts[id].state \in LiveStates
      BY <2>1, <2>2, <2>3, StepsApart DEF WorkerInv, WorkerKnown, Starters
    <2>7. WorkerKnown("process", id)'
      BY <2>4, <2>5, <2>6, StepsApart DEF WorkerKnown
    <2>8. GoesTo(c, "process", p)
      BY <2>1, <2>2 DEF Goto, GoesTo, CommandInv
    <2> QED
      BY <2>1, <2>7, <2>8 DEF KnownMove
  <1>10. CASE Release(c) \/ Cancel(c) \/ PollReport(c) \/ FailSpawn(c)
    <2>1. UNCHANGED plan /\ \E to \in {"wait", "abort", "grace", "setupError"} : Goto(c, to)
      BY <1>10 DEF Release, Cancel, PollReport, FailSpawn
    <2> QED
      BY <1>1, <2>1, KnowsNothing, GoesKnown
  <1>11. CASE RecordCommand(c) \/ WriteOutput(c) \/ (Collect(c) /\ ~Return(c))
    <2>1. /\ UNCHANGED plan
          /\ \/ \E to \in {"waitCommand", "setupError", "warn"} : Goto(c, to)
             \/ pc[c] = "output" /\ Goto(c, "report")
             \/ pc[c] = "collect" /\ Goto(c, "finish")
      BY <1>11 DEF RecordCommand, WriteOutput, Collect
    <2>2. /\ {"collect", "output", "report", "finish"} \subseteq Stopping
          /\ Starters \cap Stopping = {} /\ Preparing \cap Stopping = {}
      BY DEF Stopping, Starters, Preparing, PrepareSteps
    <2> QED
      BY <1>1, <2>1, <2>2, KnowsNothing, GoesKnown, StepsApart
  <1>12. CASE Abort(c) \/ WaitExit(c) \/ WaitTimeout(c) \/ GraceExceeded(c) \/ InterruptWait(c)
              \/ SetupError(c) \/ CommandExit(c) \/ CommandTimeout(c) \/ InterruptCommand(c)
    <2> DEFINE P(p) == p.id = plan[c].id
    <2>1. /\ \A x : P([plan[c] EXCEPT !.end = x])
          /\ \A x, y : P([plan[c] EXCEPT !.end = x, !.warn = y])
          /\ \A x : P([plan[c] EXCEPT !.req = x])
      BY <1>2 DEF Plan
    <2> HIDE DEF P
    <2>2. /\ Kill(plan[c].id) \/ (UNCHANGED proc /\ ~Alive(plan[c].id))
          /\ \E p : \E to \in {"fail", "collect", "report", "output"} : Planned(c, to, p) /\ P(p)
      BY <1>12, <2>1
         DEF Abort, WaitExit, WaitTimeout, GraceExceeded, InterruptWait, SetupError, CommandExit,
             CommandTimeout, InterruptCommand, workerVars
    <2>3. {"fail", "collect", "report", "output"} \subseteq Stopping
      BY DEF Stopping
    <2> QED
      BY <2>2, <2>3, KilledDead, PlansKnown DEF P
  <1>13. CASE ReportCommand(c) /\ ~Return(c)
    <2>1. /\ pc[c] = "report" /\ Planned(c, "fail", [plan[c] EXCEPT !.end = "process_error"])
          /\ UNCHANGED proc
      BY <1>13 DEF ReportCommand, workerVars
    <2>2. [plan[c] EXCEPT !.end = "process_error"].id = plan[c].id
      BY <1>2 DEF Plan
    <2>3. plan[c].id = 0 \/ proc[plan[c].id] # "running"
      BY <2>1 DEF WorkerInv, WorkerKnown, Stopping
    <2> QED
      BY <2>1, <2>2, <2>3, PlansKnown, StepsApart
  <1>14. CASE (Collect(c) \/ ReportCommand(c) \/ Skip(c)) /\ Return(c)
    BY <1>14, ReturnsKnown
  <1>15. CASE Skip(c) /\ ~Return(c)
    <2>1. Planned(c, "softCap", [NoPlan EXCEPT !.cap = plan[c].cap])
      BY <1>15 DEF Skip
    <2>2. [NoPlan EXCEPT !.cap = plan[c].cap].id = 0
      BY DEF NoPlan
    <2> QED
      BY <2>1, <2>2, RequestKnown
  <1>16. CASE PlanSkip(c)
    <2>1. \E p : Planned(c, "blockCap", p) \/ Planned(c, "skip", p)
      BY <1>16 DEF PlanSkip
    <2> QED
      BY <2>1, KnowsNothing DEF KnownMove, Planned, Goto, GoesTo
  <1> QED
    BY <1>3, <1>4, <1>5, <1>6, <1>7, <1>8, <1>9, <1>10, <1>11, <1>12, <1>13, <1>14, <1>15, <1>16
       DEF CommandStep, Interrupt

LEMMA KnownMoves ==
    ASSUME Alone, CommandInv, NEW c \in Commands, KnownMove(c)
    PROVE  \A b \in Commands : WorkerKnown(pc[b], plan[b].id)'
  <1>1. PICK step, p : GoesTo(c, step, p) /\ WorkerKnown(step, p.id)'
    BY DEF KnownMove
  <1>2. pc'[c] = step /\ plan'[c] = p
    BY <1>1 DEF GoesTo, CommandInv
  <1>3. \A b \in Commands : b = c
    BY DEF Alone
  <1> QED
    BY <1>1, <1>2, <1>3 DEF WorkerKnown

\* Workers and humans.
LEMMA WorldKnown ==
    ASSUME Alone, CommandInv, Bounded, WorkerInv, Continues, World
    PROVE  \A b \in Commands : WorkerKnown(pc[b], plan[b].id)'
  <1>1. UNCHANGED commandVars /\ NoneStarts
    <2>1. CASE Continue \/ \E i \in 1..MaxAttempts : Report(i) \/ Timeout(i)
      <3>1. UNCHANGED commandVars /\ UNCHANGED proc
        BY <2>1 DEF Continue, Report, Timeout, workerVars
      <3> QED
        BY <3>1 DEF NoneStarts, Alive
    <2>2. ASSUME NEW i \in 1..MaxAttempts, WorkerExit(i)
          PROVE  UNCHANGED commandVars /\ NoneStarts
      BY <2>2 DEF WorkerExit, NoneStarts, Alive, CommandInv
    <2> QED
      BY <2>1, <2>2 DEF World
  <1> SUFFICES ASSUME NEW b \in Commands PROVE WorkerKnown(pc[b], plan[b].id)'
    OBVIOUS
  <1>2. PICK step, id : step = pc[b] /\ id = plan[b].id
    OBVIOUS
  <1>3. WorkerKnown(step, id)'
    BY <1>1, <1>2, KnowsOn DEF WorkerInv
  <1> QED
    BY <1>1, <1>2, <1>3 DEF WorkerKnown, commandVars

\* The steps of a refresh that change the run.
Refreshes(c) == PublishSnapshot(c) \/ RecordRefresh(c)

\* They leave attempts, processes and the kinds of steps alone.
LEMMA RefreshBeside ==
    ASSUME KindsStay, AdvanceInv, OnKnown, NEW c \in Commands, Refreshes(c)
    PROVE  /\ replayed'.attempts = replayed.attempts /\ UNCHANGED proc
           /\ \A i \in 1..Len(replayed.attempts) : IsAgent(i)' <=> IsAgent(i)
  <1>1. UNCHANGED proc
    BY DEF Refreshes, PublishSnapshot, RecordRefresh, workerVars
  <1>2. replayed'.attempts = replayed.attempts
    <2>1. \A x : [replayed EXCEPT !.counts = x].attempts = replayed.attempts
      BY DEF AdvanceInv, CommandInv, TypeOK, Status
    <2> QED
      BY <2>1 DEF Refreshes, PublishSnapshot, RecordRefresh, Commit, storeVars
  <1>3. workflow'.agents = workflow.agents
    <2>1. CASE UNCHANGED workflow
      BY <2>1
    <2>2. CASE ~UNCHANGED workflow
      <3>1. /\ pc[c] = "refresh" /\ plan[c].req.version = version /\ workflow' = plan[c].req.to
        BY <2>2 DEF Refreshes, PublishSnapshot, RecordRefresh
      <3>2. version < MaxVersions /\ version \in 1..MaxVersions /\ workflow' \in LiveWorkflows
        BY <3>1 DEF AdvanceInv, TurnOK
      <3>3. MaxVersions # 1
        BY <3>2
      <3> QED
        BY <3>2, <3>3 DEF KindsStay, OnKnown, Known
    <2> QED
      BY <2>1, <2>2
  <1> QED
    BY <1>1, <1>2, <1>3 DEF IsAgent

\* Every step but a refresh keeps the workflow.
LEMMA RunStepKept ==
    ASSUME AdvanceInv, RunStep
    PROVE  (Kept /\ UNCHANGED workflow) \/ \E c \in Commands : Refreshes(c)
  <1>1. CommandInv /\ version \in Nat
    BY DEF AdvanceInv
  <1>2. \A c \in Commands : Warns(c) => UNCHANGED workflow
    BY DEF Warns
  <1> QED
    BY <1>1, <1>2, NextKept, WarnsKept, PlanRefreshKept, FailKept
       DEF RunStep, RefreshStep, Refreshes

LEMMA RecordedStays ==
    ASSUME KindsStay, AdvanceInv, OnKnown, NoUnrecordedWorker, RunStep
    PROVE  NoUnrecordedWorker'
  <1>1. CASE Kept /\ UNCHANGED workflow
    BY <1>1, KeptKeepsWorkers DEF AdvanceInv
  <1>2. ASSUME NEW c \in Commands, Refreshes(c)
        PROVE  NoUnrecordedWorker'
    BY <1>2, RefreshBeside DEF NoUnrecordedWorker
  <1> QED
    BY <1>1, <1>2, RunStepKept

LEMMA WorkersStay ==
    ASSUME Alone, KindsStay, AdvanceInv, AdvanceInv', OnKnown, WorkerInv, RunStep
    PROVE  WorkerInv'
  <1>1. NoUnrecordedWorker'
    BY RecordedStays DEF WorkerInv
  <1>2. CommandInv /\ Bounded /\ Len(replayed'.attempts) <= MaxAttempts /\ version \in Nat
    BY DEF AdvanceInv, Bounded
  <1>3. ASSUME Kept, UNCHANGED workflow,
               (\E c \in Commands : KnownMove(c)) \/ World
        PROVE  WorkerInv'
    <2>1. GivenUpWorkersAreDead'
      BY <1>2, <1>3, GivenUpStays
    <2>2. Continues
      BY <1>2, <1>3, StoreContinues DEF Kept
    <2>3. \A b \in Commands : WorkerKnown(pc[b], plan[b].id)'
      BY <1>2, <1>3, <2>2, KnownMoves, WorldKnown
    <2> QED
      BY <1>1, <2>1, <2>3 DEF WorkerInv
  <1>4. CASE CommandNext
    <2>1. Kept /\ UNCHANGED workflow
      BY <1>2, <1>4, NextKept
    <2>2. (\E c \in Commands : KnownMove(c)) \/ World
      BY <1>2, <1>4, <2>1, CommandKnown DEF CommandNext, Environment
    <2> QED
      BY <1>3, <2>1, <2>2
  <1>5. ASSUME NEW c \in Commands, Warns(c) \/ PlanRefresh(c)
        PROVE  WorkerInv'
    <2>1. Kept /\ UNCHANGED workflow
      BY <1>2, <1>5, WarnsKept, PlanRefreshKept DEF Warns
    <2>2. \E step, p : Planned(c, step, p) /\ p.id = 0
      <3> DEFINE P(p) == p.id = 0
      <3>1. (\A x : P([NoPlan EXCEPT !.cap = x])) /\ (\A x : P([NoPlan EXCEPT !.req = x]))
        BY DEF NoPlan
      <3> HIDE DEF P
      <3>2. \E step, p : Planned(c, step, p) /\ P(p)
        BY <1>5, <3>1 DEF Warns, PlanRefresh
      <3> QED
        BY <3>2 DEF P
    <2> QED
      BY <1>3, <2>1, <2>2, RequestKnown
  <1>6. ASSUME NEW c \in Commands, Refreshes(c)
        PROVE  WorkerInv'
    <2>1. GivenUpWorkersAreDead'
      BY <1>6, RefreshBeside DEF WorkerInv, GivenUpWorkersAreDead
    <2>2. KnownMove(c)
      <3>1. Return(c) \/ GoesTo(c, "recount", plan[c])
        BY <1>2, <1>6 DEF Refreshes, PublishSnapshot, RecordRefresh, Goto, GoesTo, CommandInv
      <3> QED
        BY <3>1, ReturnsKnown, KnowsNothing DEF KnownMove
    <2> QED
      BY <1>1, <1>2, <2>1, <2>2, KnownMoves DEF WorkerInv
  <1>7. ASSUME NEW c \in Commands, FailRefresh(c)
        PROVE  WorkerInv'
    <2>1. Kept /\ UNCHANGED workflow
      BY <1>2, <1>7, FailKept
    <2>2. KnownMove(c)
      BY <1>7, ReturnsKnown DEF FailRefresh
    <2> QED
      BY <1>3, <2>1, <2>2
  <1> QED
    BY <1>4, <1>5, <1>6, <1>7 DEF RunStep, RefreshStep, Refreshes

LEMMA WorkersInit == AdvanceInit => WorkerInv
  <1> SUFFICES ASSUME AdvanceInit PROVE WorkerInv
    OBVIOUS
  <1>1. CommandInit
    BY DEF AdvanceInit, RefreshInit
  <1>2. NoUnrecordedWorker
    BY <1>1 DEF CommandInit, NoUnrecordedWorker
  <1>3. GivenUpWorkersAreDead
    BY <1>1 DEF CommandInit, InitialStatus, GivenUpWorkersAreDead
  <1>4. \A c \in Commands : WorkerKnown(pc[c], plan[c].id)
    BY <1>1 DEF CommandInit, NoPlan, WorkerKnown
  <1> QED
    BY <1>2, <1>3, <1>4 DEF WorkerInv

LEMMA WorkerInvariant ==
    ASSUME Alone, KindsStay
    PROVE  AdvanceSpec => []WorkerInv
  <1> DEFINE Inv == AdvanceInv /\ OnKnown
  <1>1. Inv /\ Inv' /\ WorkerInv /\ [AdvanceNext]_advanceVars => WorkerInv'
    <2>1. ASSUME WorkerInv, UNCHANGED vars PROVE WorkerInv'
      BY <2>1 DEF vars, storeVars, commandVars, workerVars, WorkerInv, NoUnrecordedWorker,
         GivenUpWorkersAreDead, WorkerKnown, AtWork, IsAgent, Alive
    <2> QED
      BY <2>1, AdvanceRuns, WorkersStay DEF advanceVars, refreshVars
  <1>2. AdvanceSpec => []Inv
    BY AdvanceInvariant, KnownInvariant, PTL
  <1> HIDE DEF Inv
  <1> QED
    BY <1>1, <1>2, WorkersInit, PTL DEF AdvanceSpec

\* No agent executes before its process is on record, also where the run's
\* configuration is refreshed under its workers, as long as no refresh makes an
\* agent's step of one that is not.
THEOREM RefreshedWorkersRecorded ==
    ASSUME KindsStay
    PROVE  AdvanceSpec => []NoUnrecordedWorker
  <1>1. AdvanceInit => NoUnrecordedWorker
    BY WorkersInit DEF WorkerInv
  <1>2. AdvanceInv /\ OnKnown /\ NoUnrecordedWorker /\ [AdvanceNext]_advanceVars
          => NoUnrecordedWorker'
    <2>1. ASSUME NoUnrecordedWorker, UNCHANGED vars
          PROVE  NoUnrecordedWorker'
      BY <2>1 DEF vars, storeVars, workerVars, NoUnrecordedWorker, IsAgent
    <2> QED
      BY <2>1, AdvanceRuns, RecordedStays DEF advanceVars, refreshVars
  <1> QED
    BY <1>1, <1>2, AdvanceInvariant, KnownInvariant, PTL DEF AdvanceSpec

\* Whoever gives an attempt up, the command that started it or a recovery, has
\* seen to it that its process is over: no recovery, timeout, interruption, exit
\* or death of the one command at work leaves an abandoned worker running.
THEOREM AloneGivenUpDead ==
    ASSUME Alone, KindsStay
    PROVE  AdvanceSpec => []GivenUpWorkersAreDead
  <1>1. WorkerInv => GivenUpWorkersAreDead
    BY DEF WorkerInv
  <1> QED
    BY <1>1, WorkerInvariant, PTL

\* A recovery verifies before it gives up: the process it may have found alive
\* is gone when the end of the attempt is recorded, whatever it calls that end.
THEOREM AloneRecoveryVerified ==
    ASSUME Alone, KindsStay
    PROVE  AdvanceSpec => RecoveryVerified
  <1> DEFINE Body ==
          \A id \in 1..Len(replayed.attempts) :
             LET a == replayed.attempts[id]
                 b == replayed'.attempts[id]
             IN  a.pid /\ Alive(id) /\ ~a.recovered /\ b.recovered => b.state = "timed_out"
  <1>1. ASSUME AdvanceInv, OnKnown, WorkerInv, AdvanceNext, ~UNCHANGED vars PROVE Body
    <2>1. RunStep
      BY <1>1, AdvanceRuns
    <2>2. CASE Kept /\ UNCHANGED workflow
      <3> SUFFICES ASSUME NEW id \in 1..Len(replayed.attempts), replayed.attempts[id].pid, Alive(id),
                          ~replayed.attempts[id].recovered, replayed'.attempts[id].recovered
                   PROVE  FALSE
        BY Zenon
      <3> DEFINE a == replayed.attempts[id]
                 b == replayed'.attempts[id]
      <3>1. Continues
        BY <1>1, <2>2, StoreContinues DEF AdvanceInv, Kept
      <3>2. a.state \in LiveStates /\ b.state \in EndStates
        BY <3>1 DEF Continues, OwnedAttempt
      <3>3. OwnedBy(id, b.recovered)
        BY <3>1, <3>2 DEF Continues, OwnedAttempt
      <3>4. PICK c \in Commands : pc[c] = "recover" /\ plan[c].id = id
        BY <3>3 DEF OwnedBy
      <3> QED
        BY <1>1, <3>4 DEF WorkerInv, WorkerKnown
    <2>3. ASSUME NEW c \in Commands, Refreshes(c)
          PROVE  Body
      BY <1>1, <2>3, RefreshBeside
    <2> QED
      BY <1>1, <2>1, <2>2, <2>3, RunStepKept
  <1>2. UNCHANGED advanceVars => UNCHANGED vars
    BY DEF advanceVars, refreshVars
  <1> HIDE DEF Body
  <1>3. AdvanceInv /\ OnKnown /\ WorkerInv /\ [AdvanceNext]_advanceVars => [Body]_vars
    BY <1>1, <1>2
  <1> USE DEF Body
  <1> QED
    BY <1>3, AdvanceInvariant, KnownInvariant, WorkerInvariant, PTL DEF AdvanceSpec, RecoveryVerified
-----------------------------------------------------------------------------
(* Soft caps.                                                              *)

\* No step counts on the name of a state the run may end in. The loop keys of
\* a configuration are arbitrary words, and the entry that ends a run counts on
\* the name of its state without asking for a cap.
LoopsApart == \A wf \in Known : \A step \in Steps : wf.key[step] \notin TerminalStates

\* The counters stay as they are, and warnings on record too.
LoopsKept == replayed'.counts = replayed.counts /\ replayed.softCaps \subseteq replayed'.softCaps

\* A counter that is beyond the soft cap of a step now was before, or command c
\* is about to record it.
Noticed(c) ==
    /\ UNCHANGED workflow
    /\ replayed.softCaps \subseteq replayed'.softCaps
    /\ \A step \in Steps :
          LET k == workflow.key[step]
          IN  workflow.capped /\ replayed'.counts[k] > workflow.soft[step] =>
                 \/ replayed.counts[k] > workflow.soft[step]
                 \/ pc'[c] = "softCap" /\ plan'[c].cap.key = k

LEMMA OperationLoops ==
    ASSUME TypeOK,
           \/ UNCHANGED storeVars
           \/ \E id, ref : RecordAttemptPrompt(id, ref) \/ RecordAttemptLog(id, ref)
           \/ \E id : RecordAttemptProcess(id) \/ RecordAttemptWarning(id)
           \/ \E id, state, recovered : TerminalizeAttempt(id, state, recovered)
           \/ \E id, req : RecordAttemptReport(id, req)
           \/ \E ref : WriteArtifact(ref)
           \/ \E cap : RecordWorkflowLoopSoftCap(cap) \/ BlockWorkflowLoopHardCap(cap)
           \/ \E block : BlockRepeatedReviewFinding(block)
           \/ AllowWorkflowLoopHardCap \/ AllowRepeatedReviewFinding \/ ResolveHumanBlock
    PROVE  LoopsKept
  <1> DEFINE Same(t) == t.counts = replayed.counts /\ replayed.softCaps \subseteq t.softCaps
  <1>0. replayed \in Status
    BY DEF TypeOK
  <1>1. /\ Same(replayed)
        /\ \A a : Same(ReplayUpdate(replayed, a)) /\ Same(ReplayEnd(replayed, a))
        /\ \A a, req : Same(ReplayReport(replayed, a, req))
    BY <1>0 DEF ReplayUpdate, ReplayEnd, ReplayReport, Status
  <1>2. /\ \A x : Same([replayed EXCEPT !.warned = @ \union {x}])
        /\ \A x : Same([replayed EXCEPT !.artifacts = @ \union {x}])
        /\ \A x : Same([replayed EXCEPT !.softCaps = @ \union {x}])
    BY <1>0 DEF Status
  <1>3. /\ \A x : Same(HardCapped(replayed, x)) /\ Same(HardCapOverridden(replayed, x))
        /\ \A x : Same(FindingBlocked(replayed, x))
        /\ Same(FindingOverridden(replayed)) /\ Same(Continued(replayed))
    BY <1>0 DEF HardCapped, HardCapOverridden, FindingBlocked, FindingOverridden, Continued, Status
  <1> HIDE DEF Same
  <1>4. \A live, ok, t : Commit(live, ok, t) /\ Same(t) => Same(replayed')
    BY <1>1 DEF Commit
  <1>5. CASE \/ UNCHANGED storeVars
             \/ \E id, ref : RecordAttemptPrompt(id, ref) \/ RecordAttemptLog(id, ref)
             \/ \E id : RecordAttemptProcess(id) \/ RecordAttemptWarning(id)
             \/ \E id, state, recovered : TerminalizeAttempt(id, state, recovered)
             \/ \E id, req : RecordAttemptReport(id, req)
    <2>1. CASE UNCHANGED storeVars
      BY <1>1, <2>1 DEF storeVars, Same, LoopsKept
    <2>2. CASE \/ \E id, ref : RecordAttemptPrompt(id, ref) \/ RecordAttemptLog(id, ref)
               \/ \E id : RecordAttemptProcess(id)
               \/ \E id, state, recovered : TerminalizeAttempt(id, state, recovered)
      <3>1. Same(replayed')
        BY <1>1, <1>4, <2>2 DEF RecordAttemptPrompt, RecordAttemptLog, RecordAttemptProcess,
           TerminalizeAttempt
      <3> QED
        BY <3>1 DEF Same, LoopsKept
    <2>3. CASE \/ \E id : RecordAttemptWarning(id)
               \/ \E id, req : RecordAttemptReport(id, req)
      <3>1. Same(replayed')
        BY <1>1, <1>2, <1>4, <2>3 DEF RecordAttemptWarning, RecordAttemptReport
      <3> QED
        BY <3>1 DEF Same, LoopsKept
    <2> QED
      BY <1>5, <2>1, <2>2, <2>3
  <1>6. CASE \/ \E ref : WriteArtifact(ref)
             \/ \E cap : RecordWorkflowLoopSoftCap(cap) \/ BlockWorkflowLoopHardCap(cap)
             \/ \E block : BlockRepeatedReviewFinding(block)
             \/ AllowWorkflowLoopHardCap \/ AllowRepeatedReviewFinding \/ ResolveHumanBlock
    <2>1. Same(replayed')
      BY <1>2, <1>3, <1>4, <1>6
         DEF WriteArtifact, RecordWorkflowLoopSoftCap, BlockWorkflowLoopHardCap,
             BlockRepeatedReviewFinding, AllowWorkflowLoopHardCap, AllowRepeatedReviewFinding,
             ResolveHumanBlock
    <2> QED
      BY <2>1 DEF Same, LoopsKept
  <1> QED
    BY <1>5, <1>6

LEMMA KeptNoticed ==
    ASSUME LoopsKept, UNCHANGED workflow, NEW c
    PROVE  Noticed(c)
  BY DEF LoopsKept, Noticed

\* A decided entry of step to that passes its soft cap comes with the cap to
\* record.
LEMMA PassesNoticed ==
    ASSUME CommandInv, NEW c \in Commands, NEW d, d.kind = "select", d.target \in Steps,
           replayed.softCaps \subseteq replayed'.softCaps, UNCHANGED workflow,
           LET key == workflow.key[d.target]
           IN  replayed'.counts = [replayed.counts EXCEPT ![key] = replayed.counts[key] + 1],
           LET cap == SoftCapOf(replayed, LoopCap(workflow, replayed.counts, d), d.target)
           IN  cap # None => pc'[c] = "softCap" /\ plan'[c].cap = cap
    PROVE  Noticed(c)
  <1> DEFINE to == d.target
             key == workflow.key[to]
             cap == CapOf(workflow, replayed.counts, to)
  <1>0. replayed \in Status /\ workflow \in Valid /\ workflow \in Configuration
    BY Configured DEF CommandInv, TypeOK
  <1>1. /\ replayed.counts \in [Keys -> Nat] /\ key \in Keys /\ workflow.key \in [Steps -> Keys]
        /\ workflow.soft \in [Steps -> Nat] /\ workflow.hard \in [Steps -> Nat]
    BY <1>0 DEF Status, Configuration
  <1>2. cap.key = key /\ cap.target = to /\ cap.after = replayed.counts[key] + 1 /\ cap \in Cap
    <2>1. cap \in Cap
      BY <1>0, CapOfType
    <2> QED
      BY <2>1 DEF CapOf
  <1> SUFFICES ASSUME NEW step \in Steps, workflow.capped,
                      replayed'.counts[workflow.key[step]] > workflow.soft[step],
                      ~(replayed.counts[workflow.key[step]] > workflow.soft[step])
               PROVE  pc'[c] = "softCap" /\ plan'[c].cap.key = workflow.key[step]
    BY DEF Noticed
  <1>3. /\ workflow.key[step] \in Keys
        /\ replayed.counts[workflow.key[step]] \in Nat
        /\ replayed'.counts[workflow.key[step]] \in Nat
    BY <1>1
  <1>4. workflow.key[step] = key
    BY <1>1, <1>3
  <1>5. workflow.soft[step] = workflow.soft[to] /\ workflow.soft[to] < workflow.hard[to]
    BY <1>0, <1>4 DEF Valid, ValidConfiguration
  <1>6. replayed.counts[key] = workflow.soft[to]
    BY <1>1, <1>3, <1>4, <1>5
  <1> HIDE DEF to, key, cap
  <1>7. /\ workflow.soft[to] \in Nat /\ workflow.hard[to] \in Nat
    BY <1>1 DEF to
  <1>8. ~HardCapHit(workflow, cap) /\ SoftCapHit(workflow, cap)
    BY <1>2, <1>5, <1>6, <1>7 DEF HardCapHit, SoftCapHit
  <1>9. LoopCap(workflow, replayed.counts, d) = "soft"
    BY <1>8 DEF LoopCap, cap, to
  <1>10. SoftCapOf(replayed, "soft", to) = cap /\ cap # None
    BY <1>2, NoneAssumption DEF SoftCapOf, cap
  <1> QED
    BY <1>2, <1>4, <1>9, <1>10 DEF to

\* An entry into a state the run ends in passes no soft cap.
LEMMA EndNoticed ==
    ASSUME CommandInv, OnKnown, LoopsApart, UNCHANGED workflow, NEW c, NEW end \in TerminalStates,
           replayed.softCaps \subseteq replayed'.softCaps,
           replayed'.counts = [replayed.counts EXCEPT ![end] = replayed.counts[end] + 1]
    PROVE  Noticed(c)
  <1>1. replayed.counts \in [Keys -> Nat] /\ workflow \in Configuration
    BY Configured DEF CommandInv, TypeOK, Status
  <1>2. ASSUME NEW step \in Steps
        PROVE  replayed'.counts[workflow.key[step]] = replayed.counts[workflow.key[step]]
    <2>1. workflow.key[step] \in Keys /\ workflow.key[step] # end
      BY <1>1 DEF Configuration, LoopsApart, OnKnown
    <2> QED
      BY <1>1, <2>1
  <1> QED
    BY <1>2 DEF Noticed

LEMMA StartNoticed ==
    ASSUME CommandInv, RunInv, UNCHANGED workflow, NEW c \in Commands, Start(c)
    PROVE  Noticed(c)
  <1> DEFINE d == Decision(replayed)
             p == [NoPlan EXCEPT !.id = Len(replayed.attempts) + 1, !.cap = plan[c].cap]
  <1>1. TypeOK /\ HistoryOK /\ plan[c].req \in EnteringStart /\ DOMAIN pc = Commands
        /\ DOMAIN plan = Commands
    BY CommandPlan DEF CommandInv, Start, Fits
  <1>2. /\ Startable(replayed) /\ plan[c].req = RequestOf(replayed, d)
        /\ plan[c].cap = SoftCapOf(replayed, LoopCap(workflow, replayed.counts, d), d.target)
    BY DEF Start, RunInv, AllFresh, Fresh
  <1>3. CASE UNCHANGED storeVars
    BY <1>1, <1>3, OperationLoops, KeptNoticed
  <1>4. CASE /\ StartAttempt(plan[c].req)
             /\ Planned(c, IF plan[c].cap # None THEN "softCap" ELSE "render", p)
    <2>1. Begun
      BY <1>1, <1>2, <1>4, StartReplayed DEF Begun
    <2>2. p.cap = plan[c].cap
      BY DEF NoPlan
    <2>3. /\ d.target \in Steps /\ d.kind \in {"select", "retry"}
          /\ replayed'.softCaps = replayed.softCaps
          /\ d.kind = "retry" => replayed'.counts = replayed.counts
          /\ d.kind = "select" =>
                replayed'.counts = [replayed.counts EXCEPT ![workflow.key[d.target]] =
                                      replayed.counts[workflow.key[d.target]] + 1]
      BY <2>1, BegunRun
    <2>4. plan[c].cap # None => pc'[c] = "softCap" /\ plan'[c].cap = plan[c].cap
      <3> HIDE DEF p
      <3> QED
        BY <1>1, <1>4, <2>2 DEF Planned, Goto
    <2> HIDE DEF d, p
    <2>5. CASE d.kind = "retry"
      BY <2>3, <2>5, KeptNoticed DEF LoopsKept
    <2>6. CASE d.kind = "select"
      BY <1>2, <2>3, <2>4, <2>6, PassesNoticed
    <2> QED
      BY <2>3, <2>5, <2>6
  <1> QED
    BY <1>3, <1>4 DEF Start

LEMMA SkipNoticed ==
    ASSUME CommandInv, RunInv, OnKnown, LoopsApart, UNCHANGED workflow, NEW c \in Commands, Skip(c)
    PROVE  Noticed(c)
  <1> DEFINE step == plan[c].req.step
             d == SkipDecision(workflow, replayed, step)
             p == [NoPlan EXCEPT !.cap = plan[c].cap]
  <1>1. TypeOK /\ HistoryOK /\ replayed \in Status /\ workflow \in Valid
        /\ step \in Steps /\ plan[c].req.by = workflow /\ DOMAIN pc = Commands
        /\ DOMAIN plan = Commands
    BY CommandPlan DEF CommandInv, RunInv, Skip, Fits, AllFresh, Fresh, TypeOK, SkipPlan
  <1>2. /\ plan[c].cap = SoftCapOf(replayed, SkipCap(workflow, replayed, step), d.target)
        /\ MaySkip(workflow, replayed, step)
    BY DEF Skip, RunInv, AllFresh, Fresh
  <1>3. CASE UNCHANGED storeVars
    BY <1>1, <1>3, OperationLoops, KeptNoticed
  <1>4. CASE /\ SkipCap(workflow, replayed, step) # "hard"
             /\ RecordStepSkip(SkipRequestFor(workflow, replayed, step))
             /\ plan[c].cap # None => Planned(c, "softCap", p)
    <2>1. SkippedBy(step)
      BY <1>1, <1>2, <1>4, SkipRequestType, SkipReplayed DEF SkippedBy
    <2>2. p.cap = plan[c].cap
      BY DEF NoPlan
    <2>3. /\ Leads(d) /\ d.kind \in {"select", "terminal"}
          /\ replayed'.softCaps = replayed.softCaps
          /\ LET key == IF d.kind = "select" THEN workflow.key[d.target] ELSE d.target
             IN  replayed'.counts = [replayed.counts EXCEPT ![key] = replayed.counts[key] + 1]
      BY <1>1, <2>1, SkippedRun
    <2>4. plan[c].cap # None => pc'[c] = "softCap" /\ plan'[c].cap = plan[c].cap
      <3> HIDE DEF p
      <3> QED
        BY <1>1, <1>4, <2>2 DEF Planned, Goto
    <2>5. SkipCap(workflow, replayed, step) = LoopCap(workflow, replayed.counts, d)
      BY DEF SkipCap
    <2> HIDE DEF d, p, step
    <2>6. CASE d.kind = "select"
      BY <1>2, <2>3, <2>4, <2>5, <2>6, PassesNoticed DEF Leads
    <2>7. CASE d.kind = "terminal"
      BY <1>1, <2>3, <2>7, EndNoticed DEF Leads
    <2> QED
      BY <2>3, <2>6, <2>7
  <1> QED
    BY <1>1, <1>2, <1>3, <1>4 DEF Skip

LEMMA TerminalizeNoticed ==
    ASSUME CommandInv, RunInv, OnKnown, LoopsApart, UNCHANGED workflow, NEW c \in Commands,
           Terminalize(c)
    PROVE  Noticed(c)
  <1>1. /\ replayed \in Status /\ GoodHistory(replayed) /\ TypeOK /\ Fits(pc[c], plan[c]) /\ Fresh(pc[c], plan[c])
    BY CommandPlan DEF CommandInv, TypeOK, HistoryOK, RunInv, AllFresh
  <1>2. CASE UNCHANGED storeVars
    BY <1>1, <1>2, OperationLoops, KeptNoticed
  <1>3. CASE pc[c] = "update" /\ UpdateStatus(plan[c].req)
    <2>1. plan[c].req \in UpdateRequest
      BY <1>1, <1>3 DEF Fits
    <2>2. Over(replayed) /\ plan[c].req = EndOf(replayed, Decision(replayed))
      BY <1>1, <1>3 DEF Fresh
    <2>3. replayed' = InState(replayed, plan[c].req)
      BY <1>1, <1>3, <2>1, InStateSound DEF UpdateStatus, CanUpdate, Commit
    <2>4. Closed
      BY <2>2, <2>3 DEF Closed
    <2> QED
      BY <2>4, ClosedRun, EndNoticed
  <1> QED
    BY <1>2, <1>3 DEF Terminalize

\* Every other step of a command.
LEMMA BesideNoticed ==
    ASSUME CommandInv, UNCHANGED workflow, NEW c \in Commands,
           \/ PlanRecovery(c) \/ PlanLaunch(c) \/ PlanSkip(c)
           \/ Interrupt(c) \/ FailSpawn(c) \/ Crash(c)
           \/ CommandStep(c) /\ ~Start(c) /\ ~Skip(c) /\ ~Terminalize(c)
    PROVE  Noticed(c)
  <1>1. TypeOK
    BY DEF CommandInv
  <1>2. CASE \/ PlanRecovery(c) \/ PlanLaunch(c) \/ PlanSkip(c)
             \/ Interrupt(c) \/ FailSpawn(c) \/ Crash(c)
             \/ Spawn(c) \/ SpawnCommand(c) \/ Release(c) \/ Abort(c)
             \/ WaitExit(c) \/ WaitTimeout(c) \/ PollReport(c) \/ GraceExceeded(c) \/ Collect(c)
             \/ SetupError(c) \/ CommandExit(c) \/ CommandTimeout(c)
    <2>1. UNCHANGED storeVars
      BY <1>2 DEF PlanRecovery, PlanLaunch, PlanSkip, Interrupt, InterruptSoftCap, Cancel,
         InterruptWait, InterruptCommand, FailSpawn, Crash, Spawn, SpawnCommand, Release, Abort,
         WaitExit, WaitTimeout, PollReport, GraceExceeded, Collect, SetupError, CommandExit,
         CommandTimeout
    <2> QED
      BY <1>1, <2>1, OperationLoops, KeptNoticed
  <1>3. CASE Recover(c) \/ Finish(c) \/ BlockFinding(c) \/ BlockCap(c) \/ Warn(c) \/ RecordSoftCap(c)
    <2>1. LoopsKept
      BY <1>1, <1>3, OperationLoops
         DEF Recover, Finish, BlockFinding, BlockCap, Warn, RecordSoftCap
    <2> QED
      BY <2>1, KeptNoticed
  <1>4. CASE \/ RenderPrompt(c) \/ RecordPrompt(c) \/ OpenLog(c) \/ RecordLog(c) \/ RecordProcess(c)
             \/ RecordCommand(c) \/ WriteOutput(c) \/ ReportCommand(c)
    <2>1. LoopsKept
      BY <1>1, <1>4, OperationLoops
         DEF RenderPrompt, RecordPrompt, OpenLog, RecordLog, RecordProcess, Prepare, RecordCommand,
             WriteOutput, ReportCommand
    <2> QED
      BY <2>1, KeptNoticed
  <1> QED
    BY <1>2, <1>3, <1>4 DEF CommandStep

LEMMA WorldLoops ==
    ASSUME TypeOK, World
    PROVE  LoopsKept
  <1>1. CASE Continue
    BY <1>1, OperationLoops DEF Continue
  <1>2. CASE \E id \in 1..MaxAttempts : Report(id)
    <2>1. \E id, req : RecordAttemptReport(id, req)
      BY <1>2 DEF Report
    <2> QED
      BY <2>1, OperationLoops
  <1>3. CASE \E id \in 1..MaxAttempts : WorkerExit(id) \/ Timeout(id)
    BY <1>3, OperationLoops DEF WorkerExit, Timeout
  <1> QED
    BY <1>1, <1>2, <1>3 DEF World

\* Before any refresh, no step lets a counter pass a soft cap unnoticed.
LEMMA AdvanceNoticed ==
    ASSUME AdvanceInv, RunInv, OnKnown, LoopsApart, AdvanceNext, version' = 1
    PROVE  \/ \E c \in Commands : Noticed(c)
           \/ LoopsKept /\ UNCHANGED workflow
  <1>1. CommandInv /\ TypeOK /\ UNCHANGED version
    BY VersionCounts DEF AdvanceInv, CommandInv
  <1>2. CASE UNCHANGED vars
    BY <1>1, <1>2, OperationLoops DEF vars
  <1>3. ASSUME NEW c \in Commands, CommandStep(c)
        PROVE  Noticed(c)
    BY <1>1, <1>3, StartNoticed, SkipNoticed, TerminalizeNoticed, BesideNoticed DEF CommandStep
  <1>4. ASSUME NEW c \in Commands, UNCHANGED workflow,
               PlanSkip(c) \/ FailSpawn(c) \/ Interrupt(c) \/ Crash(c)
        PROVE  Noticed(c)
    BY <1>1, <1>4, BesideNoticed
  <1>5. CASE World /\ UNCHANGED workflow
    BY <1>1, <1>5, WorldLoops
  <1>6. ASSUME NEW c \in Commands, RefreshStep(c) \/ Warns(c)
        PROVE  UNCHANGED storeVars /\ UNCHANGED workflow
    <2>1. version \in Nat
      BY DEF AdvanceInv
    <2>2. CASE PlanRefresh(c) \/ FailRefresh(c) \/ Warns(c)
      BY <2>2 DEF PlanRefresh, FailRefresh, Warns
    <2>3. CASE PublishSnapshot(c)
      <3>1. UNCHANGED <<storeVars, workflow, version>> \/ version' = version + 1
        BY <2>3 DEF PublishSnapshot
      <3>2. version' # version + 1
        BY <1>1, <2>1
      <3> QED
        BY <2>3, <3>1, <3>2 DEF PublishSnapshot
    <2>4. ~RecordRefresh(c)
      <3>1. pc[c] # "recount"
        BY <1>1, <2>1 DEF AdvanceInv, Published
      <3> QED
        BY <3>1 DEF RecordRefresh
    <2> QED
      BY <1>6, <2>2, <2>3, <2>4 DEF RefreshStep
  <1> QED
    BY <1>1, <1>2, <1>3, <1>4, <1>5, <1>6, AdvanceRuns, OperationLoops
       DEF RunStep, CommandNext, Environment

\* A command that is about to record a soft cap records it, or waits.
LEMMA SoftCapLeft ==
    ASSUME AdvanceInv, ~MayCancel, MaxCrashes = 0, AdvanceNext,
           NEW c \in Commands, \A b \in Commands : b = c, pc[c] = "softCap"
    PROVE  RecordSoftCap(c) \/ UNCHANGED commandVars
  <1>1. ~Interrupt(c) /\ ~FailSpawn(c) /\ ~Crash(c)
    BY DEF Interrupt, InterruptSoftCap, Cancel, InterruptWait, InterruptCommand, FailSpawn, Crash,
       AdvanceInv, Bounded
  <1>2. CommandStep(c) => RecordSoftCap(c)
    BY DEF CommandStep, PlanRecovery, PlanLaunch, Recover, Terminalize, BlockFinding, BlockCap, Start,
       RenderPrompt, RecordPrompt, OpenLog, RecordLog, Spawn, RecordProcess, Prepare, Release, Abort,
       Finish, WaitExit, WaitTimeout, PollReport, GraceExceeded, Collect, Warn, SpawnCommand,
       RecordCommand, SetupError, CommandExit, CommandTimeout, WriteOutput, ReportCommand, Skip
  <1>3. ~PlanSkip(c) /\ ~RefreshStep(c) /\ ~EvaluateRun(c)
    BY DEF PlanSkip, RefreshStep, PlanRefresh, PublishSnapshot, RecordRefresh, FailRefresh,
       EvaluateRun, AdvanceInv, TurnOK
  <1>4. StartAdvance(c) \/ Judge(c) => UNCHANGED commandVars
    BY DEF StartAdvance, Judge, refreshVars, vars
  <1>5. LaunchStep(c) => CommandStep(c) \/ UNCHANGED commandVars
    BY DEF LaunchStep, vars
  <1>6. World => UNCHANGED commandVars
    BY WorldKeepsRetries
  <1> QED
    BY <1>1, <1>2, <1>3, <1>4, <1>5, <1>6 DEF AdvanceNext, AdvanceStep, PlainStep, OtherCommand,
       Disturbance

LEMMA SoftCapKeeps ==
    ASSUME Alone, ~MayCancel, MaxCrashes = 0, LoopsApart,
           AdvanceInv, RunInv, OnKnown, AdvanceNext, SoftCapWarned
    PROVE  SoftCapWarned'
  <1> SUFFICES ASSUME version' = 1, NEW step \in Steps, workflow'.capped,
                      replayed'.counts[workflow'.key[step]] > workflow'.soft[step]
               PROVE  \/ workflow'.key[step] \in replayed'.softCaps
                      \/ \E c \in Commands : pc'[c] = "softCap" /\ plan'[c].cap.key = workflow'.key[step]
    BY DEF SoftCapWarned, SoftCapRecorded
  <1> DEFINE k == workflow.key[step]
  <1>1. CommandInv /\ TypeOK /\ version = 1 /\ accepted /\ DOMAIN plan = Commands
    BY VersionCounts DEF AdvanceInv, CommandInv, RunInv
  <1>2. /\ UNCHANGED workflow /\ replayed.softCaps \subseteq replayed'.softCaps
        /\ \/ replayed.counts[k] > workflow.soft[step]
           \/ \E c \in Commands : pc'[c] = "softCap" /\ plan'[c].cap.key = k
    BY AdvanceNoticed DEF Noticed, LoopsKept
  <1>3. ASSUME replayed.counts[k] > workflow.soft[step]
        PROVE  \/ k \in replayed'.softCaps
               \/ \E c \in Commands : pc'[c] = "softCap" /\ plan'[c].cap.key = k
    <2>1. k \in replayed.softCaps
          \/ \E c \in Commands : pc[c] = "softCap" /\ plan[c].cap.key = k
      BY <1>1, <1>2, <1>3 DEF SoftCapWarned, SoftCapRecorded
    <2>2. ASSUME NEW c \in Commands, pc[c] = "softCap", plan[c].cap.key = k
          PROVE  k \in replayed'.softCaps \/ (pc'[c] = "softCap" /\ plan'[c].cap.key = k)
      <3>1. RecordSoftCap(c) \/ UNCHANGED commandVars
        BY <2>2, SoftCapLeft DEF Alone
      <3>2. CASE UNCHANGED commandVars
        BY <2>2, <3>2 DEF commandVars
      <3>3. CASE RecordSoftCap(c)
        <4>1. CASE k \in replayed.softCaps
          BY <1>2, <4>1
        <4>2. CASE RecordWorkflowLoopSoftCap(plan[c].cap)
          <5>1. replayed' = [replayed EXCEPT !.softCaps = @ \union {plan[c].cap.key}]
            BY <4>2 DEF RecordWorkflowLoopSoftCap, Commit
          <5> QED
            BY <1>1, <2>2, <5>1 DEF TypeOK, Status
        <4> QED
          BY <1>1, <2>2, <3>3, <4>1, <4>2 DEF RecordSoftCap, Loads
      <3> QED
        BY <3>1, <3>2, <3>3
    <2> QED
      BY <1>2, <2>1, <2>2
  <1> QED
    BY <1>2, <1>3

\* The operator is warned of every counter that passes its soft cap: the
\* cap is on record, or the command whose start or skip passed it is about to
\* record it, as long as that command is neither interrupted nor killed and no
\* refresh counts the entries again.
THEOREM AloneSoftCapWarned ==
    ASSUME Alone, ~MayCancel, MaxCrashes = 0, LoopsApart
    PROVE  AdvanceSpec => []SoftCapWarned
  <1> DEFINE Inv == AdvanceInv /\ RunInv /\ OnKnown
  <1>1. AdvanceInit => SoftCapWarned
    <2> SUFFICES ASSUME AdvanceInit, NEW step \in Steps,
                        replayed.counts[workflow.key[step]] > workflow.soft[step]
                 PROVE  FALSE
      BY DEF SoftCapWarned, SoftCapRecorded
    <2>1. workflow \in Configuration /\ replayed = InitialStatus(workflow.start)
      BY Configured DEF AdvanceInit, RefreshInit, CommandInit
    <2>2. replayed.counts = [k \in Keys |-> 0] /\ workflow.key[step] \in Keys
          /\ workflow.soft[step] \in Nat
      BY <2>1 DEF InitialStatus, Configuration
    <2> QED
      BY <2>2
  <1>2. Inv /\ SoftCapWarned /\ [AdvanceNext]_advanceVars => SoftCapWarned'
    <2>1. ASSUME SoftCapWarned, UNCHANGED advanceVars PROVE SoftCapWarned'
      BY <2>1 DEF SoftCapWarned, SoftCapRecorded, advanceVars, refreshVars, vars, storeVars, commandVars
    <2> QED
      BY <2>1, SoftCapKeeps
  <1>3. AdvanceSpec => []Inv
    BY AdvanceInvariant, RunInvariant, KnownInvariant, PTL
  <1> HIDE DEF Inv
  <1> QED
    BY <1>1, <1>2, <1>3, PTL DEF AdvanceSpec
===============================================================================
