------------------------------- MODULE Advance -------------------------------
(***************************************************************************)
(* `orc run advance` (internal/launcher/advance.go): launch-next in a      *)
(* loop, until something calls for the operator.  Every turn loads the run *)
(* and decides by itself whether to go on; launch-next then loads the run  *)
(* and decides again.  The operator may also run launch-next, skip-step    *)
(* and refresh-config between two advances, and answer blocks at any time. *)
(*                                                                         *)
(* adv[c].at is where the loop of command c stands: the reason it stopped  *)
(* for (never, when c has done something else since), or                  *)
(*   evaluate   at the top of the loop                                     *)
(*   act        about to record a soft cap or the end of the run           *)
(*   launch     inside launch-next                                         *)
(*   judge      back from launch-next                                      *)
(*                                                                         *)
(* A definition whose name extends the name of the one below it is a       *)
(* mutant.                                                                 *)
(***************************************************************************)
EXTENDS ConfigRefresh

CONSTANTS
    BlockedPairs,   \* pairs blocked/...
    FailedPairs,    \* pairs failed/...
    MaxSteps        \* --max-steps

VARIABLE adv        \* the advance loop each command is in

advanceVars == <<refreshVars, adv>>

StopReasons ==
    {"ready_for_human", "blocked_for_human", "cancelled", "worker_blocked", "worker_failed",
     "loop_hard_cap", "repeated_review_finding", "loop_soft_cap", "active_attempt_exists",
     "max_steps_reached", "error", "once"}
Resting == StopReasons \union {"never"}

\* launched: workers launched so far; why: the reason to stop for whatever
\* becomes of the step under way; last: the pair of the latest attempt;
\* cancelled: the context of the command is.
Stopped(reason) ==
    [at |-> reason, once |-> FALSE, launched |-> 0, why |-> None, last |-> None,
     cancelled |-> FALSE]

ASSUME AdvanceAssumption ==
    /\ BlockedPairs \subseteq Pairs /\ FailedPairs \subseteq Pairs
    /\ BlockedPairs \cap FailedPairs = {}
    /\ {SystemPair[end] : end \in DOMAIN SystemPair} \subseteq FailedPairs
    /\ MaxSteps \in Nat \ {0}
    /\ None \notin StopReasons

Advancing(c) == adv[c].at \notin Resting

Set(c, a) == adv' = [adv EXCEPT ![c] = a]
Stop(c, reason) == Set(c, Stopped(reason))
To(c, at) == Set(c, [adv[c] EXCEPT !.at = at])
StopLater(c, at, reason) == Set(c, [adv[c] EXCEPT !.at = at, !.why = reason])

StartAdvance(c) ==
    /\ ~Advancing(c)
    /\ pc[c] = "idle"
    /\ \E once \in BOOLEAN : Set(c, [Stopped("evaluate") EXCEPT !.once = once])
    /\ UNCHANGED refreshVars

-----------------------------------------------------------------------------
(* The top of the loop.                                                    *)

\* A resolved block counts as the outcome that selects its step again.
EntryOutcome(s) == IF EntryTrigger(s) = None THEN 0 ELSE EntryTrigger(s).id

Launchable(d) == d.kind \in {"select", "retry"}

AtMaxStepsLate(c) == adv[c].launched > MaxSteps

AtMaxSteps(c) == adv[c].launched >= MaxSteps

StopNowUnrecorded(c, d) ==
    CASE adv[c].cancelled \/ ~Loads \/ d.kind = "error" -> "error"
      [] d.kind = "terminal" -> d.target
      [] d.kind = "wait" -> "active_attempt_exists"
      [] Launchable(d) /\ AtMaxSteps(c) -> "max_steps_reached"
      [] OTHER -> None

\* What the decision d on the loaded run makes of the loop: the reason to stop
\* at once, or None.
StopNow(c, d) ==
    CASE adv[c].cancelled \/ ~Loads \/ d.kind = "error" -> "error"
      [] d.kind = "terminal" /\ (LatestConsumable(replayed) = 0 \/ d.target = "cancelled") ->
            d.target
      [] d.kind = "wait" -> "active_attempt_exists"
      [] Launchable(d) /\ AtMaxSteps(c) -> "max_steps_reached"
      [] OTHER -> None

EvaluateStop(c, d) ==
    /\ StopNow(c, d) # None
    /\ Stop(c, StopNow(c, d))
    /\ UNCHANGED refreshVars

\* The outcome ends the run: record that, then stop.
EvaluateTerminal(c, d) ==
    LET latest == LatestConsumable(replayed)
    IN  /\ StopNow(c, d) = None
        /\ d.kind = "terminal"
        /\ Planned(c, "update",
              [NoPlan EXCEPT !.req =
                 [state |-> d.target,
                  entry |-> TerminalEntry(replayed.attempts[latest], d.target)]])
        /\ StopLater(c, "act", d.target)
        /\ UNCHANGED <<storeVars, workerVars, workflow, version, recorded>>

\* A soft cap is recorded and left to the operator.
EvaluateSoftCap(c, d) ==
    /\ StopNow(c, d) = None
    /\ Launchable(d)
    /\ Repeated(replayed, d, EntryOutcome(replayed)) = {}
    /\ LoopCap(workflow, replayed.counts, d) = "soft"
    /\ Planned(c, "softCap", [NoPlan EXCEPT !.cap = CapOf(workflow, replayed.counts, d.target)])
    /\ StopLater(c, "act", "loop_soft_cap")
    /\ UNCHANGED <<storeVars, workerVars, workflow, version, recorded>>

\* A repeated finding or a hard cap is left to launch-next, which blocks the
\* run; whatever it does, the loop ends with it.
EvaluateLaunch(c, d) ==
    LET repeated == Repeated(replayed, d, EntryOutcome(replayed)) # {}
        cap == LoopCap(workflow, replayed.counts, d)
    IN  /\ StopNow(c, d) = None
        /\ Launchable(d)
        /\ repeated \/ cap # "soft"
        /\ StopLater(c, "launch",
              IF repeated THEN "repeated_review_finding"
              ELSE IF cap = "hard" THEN "loop_hard_cap" ELSE None)
        /\ UNCHANGED refreshVars

\* The run is loaded and evaluated once.
EvaluateRun(c) ==
    /\ adv[c].at = "evaluate"
    /\ \E d \in {Decision(replayed)} :
          EvaluateStop(c, d) \/ EvaluateTerminal(c, d) \/ EvaluateSoftCap(c, d)
             \/ EvaluateLaunch(c, d)

-----------------------------------------------------------------------------
(* Inside launch-next.                                                     *)

\* launch-next finds nothing to do: the run is over, is stuck, or waits for
\* an attempt nobody has to recover.
NothingToLaunch ==
    LET id == replayed.active.id
    IN  \/ ~Loads
        \/ \E d \in {Decision(replayed)} :
              \/ d.kind = "error"
              \/ d.kind = "terminal" /\ LatestConsumable(replayed) = 0
              \/ /\ d.kind = "wait"
                 /\ id \notin overdue
                 /\ replayed.active.pid => Alive(id)

\* The operation the next step of the command performs is refused, or is one
\* launch-next performs only to return an error.
Fails(c) ==
    LET p == plan[c]
    IN  \/ ~Loads
        \/ pc[c] \in {"blockFinding", "blockCap", "start", "fail"}
        \/ pc[c] = "softCap" /\ p.id # 0
        \/ pc[c] = "update" /\ (adv[c].at = "launch" \/ ~CanUpdate)
        \/ pc[c] \in {"recover", "finish"} /\ ~CanEnd(p.id, p.end)
        \/ /\ pc[c] = "report"
           /\ \/ p.req.allowStarting
              \/ ~(ActiveIs(replayed, p.id) /\ ReportOK(replayed.active, FALSE))
              \/ workflow.on[replayed.attempts[p.id].step][p.req.pair] = NoTarget

\* launch-next has returned: a reason to stop stands, whatever it returned.
AfterLaunch(c) ==
    IF adv[c].why # None THEN Stop(c, adv[c].why)
    ELSE IF Fails(c) THEN Stop(c, "error")
    ELSE Set(c, [adv[c] EXCEPT
                    !.at = "judge",
                    !.launched = IF pc[c] = "recover" THEN @ ELSE @ + 1,
                    !.last = replayed'.attempts[plan[c].id].pair])

AfterAction(c) == Stop(c, IF Fails(c) THEN "error" ELSE adv[c].why)

LaunchStep(c) ==
    /\ adv[c].at \in {"launch", "act"}
    /\ IF pc[c] = "idle" /\ (adv[c].cancelled \/ NothingToLaunch)
         THEN /\ Stop(c, IF adv[c].at = "act" \/ adv[c].why = None THEN "error" ELSE adv[c].why)
              /\ UNCHANGED vars
         ELSE /\ CommandStep(c)
              /\ IF pc'[c] # "idle" THEN UNCHANGED adv
                 ELSE IF adv[c].at = "act" THEN AfterAction(c) ELSE AfterLaunch(c)
    /\ UNCHANGED <<version, recorded>>

-----------------------------------------------------------------------------
(* Back from launch-next.                                                  *)

JudgeFailedOn(c) ==
    /\ adv[c].at = "judge"
    /\ IF ~adv[c].once /\ adv[c].last \notin BlockedPairs THEN To(c, "evaluate")
       ELSE Stop(c, IF adv[c].cancelled \/ ~Loads \/ Decision(replayed).kind = "error" THEN "error"
                    ELSE IF adv[c].once THEN "once" ELSE "worker_blocked")
    /\ UNCHANGED refreshVars

\* Go on only after done/...; the final status is read again, which may fail.
Judge(c) ==
    /\ adv[c].at = "judge"
    /\ IF ~adv[c].once /\ adv[c].last \notin BlockedPairs \union FailedPairs
         THEN To(c, "evaluate")
       ELSE Stop(c, IF adv[c].cancelled \/ ~Loads \/ Decision(replayed).kind = "error" THEN "error"
                    ELSE IF adv[c].once THEN "once"
                    ELSE IF adv[c].last \in BlockedPairs THEN "worker_blocked"
                    ELSE "worker_failed")
    /\ UNCHANGED refreshVars

-----------------------------------------------------------------------------

AdvanceInit == RefreshInit /\ adv = [c \in Commands |-> Stopped("never")]

AdvanceStep(c) ==
    /\ EvaluateRun(c) \/ LaunchStep(c) \/ Judge(c)
    /\ Excluded

\* launch-next and the rest of skip-step by themselves; the reason of an
\* advance before them is forgotten.
PlainStep(c) ==
    /\ ~Advancing(c)
    /\ CommandStep(c)
    /\ Stop(c, "never")
    /\ UNCHANGED <<version, recorded>>
    /\ Excluded

OtherCommand(c) ==
    /\ ~Advancing(c)
    /\ \/ PlanSkip(c) /\ UNCHANGED <<workflow, version, recorded>>
       \/ RefreshStep(c)
    /\ Stop(c, "never")

Disturbance(c) ==
    /\ \/ Interrupt(c) /\ Set(c, [adv[c] EXCEPT !.cancelled = Advancing(c)])
       \/ FailSpawn(c) /\ UNCHANGED adv
       \/ Crash(c) /\ Stop(c, "never")
    /\ UNCHANGED <<workflow, version, recorded>>

AdvanceNext ==
    \/ \E c \in Commands :
          StartAdvance(c) \/ AdvanceStep(c) \/ PlainStep(c) \/ OtherCommand(c) \/ Disturbance(c)
    \/ World /\ UNCHANGED <<workflow, version, recorded, adv>> /\ Excluded

AdvanceSpec == AdvanceInit /\ [][AdvanceNext]_advanceVars

\* A command that runs proceeds, time passes, and an operator who runs advance
\* again and again also runs launch-next at times: an attempt whose process has
\* died stops every advance, and only launch-next recovers it.
FairAdvanceSpec ==
    /\ AdvanceSpec
    /\ \A c \in Commands : WF_advanceVars(AdvanceStep(c)) /\ SF_advanceVars(PlainStep(c))
    /\ \A id \in 1..MaxAttempts :
          WF_advanceVars(Timeout(id) /\ UNCHANGED <<workflow, version, recorded, adv>>)

-----------------------------------------------------------------------------
(* What advance promises, to an operator who runs one command at a time.   *)

AdvanceTypeOK ==
    /\ LauncherTypeOK
    /\ recorded \in 1..version
    /\ version \in 1..MaxVersions
    /\ \A c \in Commands :
          /\ adv[c].at \in Resting \union {"evaluate", "act", "launch", "judge"}
          /\ adv[c].launched \in 0..MaxSteps
          /\ adv[c].why \in StopReasons \union {None}
          /\ adv[c].last \in Pairs \union {None}

StopsFor(c, reason) == adv[c].at # reason /\ adv'[c].at = reason

\* The reason advance gives is true of the run it leaves behind: the run is in
\* the state it names, the worker it names ended so, the attempt it names is
\* active, and after a soft cap the warning is on record.
StopReasonsTrue ==
    [][\A c \in Commands :
          /\ \A state \in {"ready_for_human", "blocked_for_human"} :
                StopsFor(c, state) => replayed'.state = state
          /\ StopsFor(c, "repeated_review_finding") =>
                replayed'.state = Blocked /\ replayed'.findBlock # None
          /\ StopsFor(c, "worker_blocked") => LastAttempt(replayed').pair \in BlockedPairs
          /\ StopsFor(c, "worker_failed") => LastAttempt(replayed').pair \in FailedPairs
          /\ StopsFor(c, "active_attempt_exists") => replayed'.active # None
          /\ StopsFor(c, "loop_soft_cap") =>
                /\ replayed'.attempts = replayed.attempts
                /\ workflow.key[Decision(replayed').target] \in replayed'.softCaps]_advanceVars

\* A hard cap named as the reason has blocked the run before another launch.
\* False of the code: an entry at the cap that a human has overridden is
\* launched, and the reason stands whatever becomes of it.
HardCapStopsBlocked ==
    [][\A c \in Commands :
          StopsFor(c, "loop_hard_cap") => replayed'.state = Blocked]_advanceVars

\* Within one advance a worker is launched only after the one before it ended
\* done/...: a blocked or failed outcome is for the operator to see first,
\* even where the workflow routes it to another step.
GoesOnAfterDone ==
    [][\A c \in Commands :
          /\ Advancing(c) /\ adv[c].launched > 0
          /\ Len(replayed'.attempts) > Len(replayed.attempts)
          => LastAttempt(replayed).pair \notin BlockedPairs \union FailedPairs]_advanceVars

\* A counter that has passed its soft cap was warned about, as long as no
\* refresh has counted the entries on other keys.
SoftCapWarned == version = 1 => SoftCapRecorded

\* Where the bounds of the model stop a command.
OutOfRoom(c) ==
    \/ pc[c] = "start" /\ ~RoomForStart
    \/ pc[c] = "update" /\ ~RoomForEntry

\* Advance comes back, whatever workers do and report: one that reports
\* something invalid and keeps running is timed out like a silent one.
AdvanceReturns == \A c \in Commands : Advancing(c) ~> ~Advancing(c) \/ OutOfRoom(c)
=============================================================================
