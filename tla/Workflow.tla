------------------------------ MODULE Workflow ------------------------------
(***************************************************************************)
(* The deterministic routing of a run: internal/workflow (Evaluate and the *)
(* retry lineage) and internal/loopcap (soft and hard workflow-loop caps). *)
(*                                                                         *)
(* Everything here is a pure function of a workflow configuration and a    *)
(* run state.  A configuration wf is a record:                             *)
(*   start      the first step                                             *)
(*   on         for each step, the targets of its declared outcome pairs   *)
(*              (NoTarget for a pair the step does not declare)            *)
(*   retries    defaults.retries: how often a pair is retried              *)
(*   key        the loop counter a step counts on (EffectiveStepLoop)      *)
(*   soft, hard the caps that apply to a step                              *)
(*   capped     whether loop caps are enabled                              *)
(*   skippable  the steps a human may skip                                 *)
(*   agents     the steps of kind agent                                    *)
(* A pair "status/result" is one value.                                    *)
(*                                                                         *)
(* RetryLeftOneMore, SoftCapHitLate and HardCapHitLate are mutants: the    *)
(* definition below each of them with a plausible bug.                     *)
(***************************************************************************)
EXTENDS Naturals

CONSTANTS
    Steps,      \* step ids of the workflow
    Pairs,      \* status/result pairs an attempt can end with
    Keys,       \* loop counter keys
    None        \* the absent value (nil pointer, empty string)

Running == "running"
Blocked == "blocked_for_human"
TerminalStates == {"ready_for_human", Blocked, "cancelled"}
RunStates == {Running} \union TerminalStates

\* The pair the launcher or the report command records with each terminal
\* attempt state that is not a worker's own report.
SystemPair == [missing_report |-> "failed/missing_report",
               process_error  |-> "failed/process_error",
               timed_out      |-> "failed/timeout",
               invalid_report |-> "failed/invalid_report"]

SkipPair == "done/skipped"
NoTarget == "no_target"
Targets == Steps \union TerminalStates

\* Entries into terminal states count on the state's own name.
ASSUME WorkflowAssumption ==
    /\ Steps \cap (RunStates \union {NoTarget, None}) = {}
    /\ {SystemPair[s] : s \in DOMAIN SystemPair} \subseteq Pairs
    /\ None \notin Pairs \union RunStates \union Keys
    /\ TerminalStates \subseteq Keys

Configuration ==
    [start : Steps, on : [Steps -> [Pairs -> Targets \union {NoTarget}]],
     retries : [Pairs -> Nat], key : [Steps -> Keys],
     soft : [Steps -> Nat], hard : [Steps -> Nat], capped : BOOLEAN,
     skippable : SUBSET Steps, agents : SUBSET Steps]

\* What config validation guarantees: a step is skippable exactly when it
\* declares the system outcome done/skipped; the caps of a step are positive
\* and in order, and steps that share a counter share its caps.
ValidConfiguration(wf) ==
    /\ wf \in Configuration
    /\ \A s \in Steps :
         (s \in wf.skippable) <=> (SkipPair \in Pairs /\ wf.on[s][SkipPair] # NoTarget)
    /\ wf.capped => \A s \in Steps : 0 < wf.soft[s] /\ wf.soft[s] < wf.hard[s]
    /\ \A s, t \in Steps : wf.key[s] = wf.key[t] =>
          wf.soft[s] = wf.soft[t] /\ wf.hard[s] = wf.hard[t]

-----------------------------------------------------------------------------
(* Retry lineage: the step being retried and how often each of its pairs   *)
(* has been retried, or None.                                              *)

Lineage == [step : Steps, counts : [Pairs -> Nat]]

LineageFits(retry, step) == retry = None \/ retry.step = step

RetryCount(retry, step, pair) ==
    IF retry # None /\ retry.step = step THEN retry.counts[pair] ELSE 0

RetryLeftOneMore(wf, retry, step, pair) == RetryCount(retry, step, pair) <= wf.retries[pair]

RetryLeft(wf, retry, step, pair) == RetryCount(retry, step, pair) < wf.retries[pair]

NextLineage(retry, step, pair) ==
    [step   |-> step,
     counts |-> [p \in Pairs |->
                    LET n == RetryCount(retry, step, p)
                    IN  IF p = pair THEN n + 1 ELSE n]]

-----------------------------------------------------------------------------
(* Evaluate.  A run state is [status, active, selected, outcome, retry];   *)
(* outcome is None or [step, pair].  A decision is                         *)
(* [kind, target, retry] with kind "select", "retry", "terminal", "wait"   *)
(* or "error".                                                             *)

Decide(kind, target, retry) == [kind |-> kind, target |-> target, retry |-> retry]
EvalError == Decide("error", None, None)

EvaluateOutcome(wf, st) ==
    LET step   == st.outcome.step
        pair   == st.outcome.pair
        target == IF step \in Steps THEN wf.on[step][pair] ELSE NoTarget
    IN  IF st.selected # step \/ target = NoTarget \/ ~LineageFits(st.retry, step)
          THEN EvalError
        ELSE IF RetryLeft(wf, st.retry, step, pair)
          THEN Decide("retry", step, NextLineage(st.retry, step, pair))
        ELSE IF target \in Steps
          THEN Decide("select", target, None)
        ELSE Decide("terminal", target, None)

EvaluateSelected(wf, st) ==
    LET step == IF st.selected = None THEN wf.start ELSE st.selected
    IN  IF step \in Steps /\ LineageFits(st.retry, step)
          THEN Decide("select", step, st.retry)
          ELSE EvalError

Evaluate(wf, st) ==
    CASE st.status \in TerminalStates -> Decide("terminal", st.status, None)
      [] st.status = Running /\ st.active ->
            IF st.selected # None \/ st.outcome # None THEN EvalError
            ELSE Decide("wait", None, None)
      [] st.status = Running /\ ~st.active /\ st.outcome = None ->
            EvaluateSelected(wf, st)
      [] OTHER -> EvaluateOutcome(wf, st)

-----------------------------------------------------------------------------
(* Loop caps.  A cap carries the step the decision enters, its counter and *)
(* the count before and after the entry.                                   *)

Cap == [target : Steps, key : Keys, before : Nat, after : Nat]

CapOf(wf, counts, step) ==
    [target |-> step, key |-> wf.key[step],
     before |-> counts[wf.key[step]], after |-> counts[wf.key[step]] + 1]

SoftCapHitLate(wf, cap) == cap.before = wf.soft[cap.target] + 1

SoftCapHit(wf, cap) == cap.after = wf.soft[cap.target] + 1

HardCapHitLate(wf, cap) == cap.before > wf.hard[cap.target]

HardCapHit(wf, cap) == cap.after >= wf.hard[cap.target] + 1

LoopCap(wf, counts, decision) ==
    IF ~wf.capped \/ decision.kind # "select" THEN "none"
    ELSE LET cap == CapOf(wf, counts, decision.target)
         IN  IF HardCapHit(wf, cap) THEN "hard" ELSE IF SoftCapHit(wf, cap) THEN "soft" ELSE "none"
=============================================================================
