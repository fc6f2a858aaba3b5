----------------------------- MODULE MCLauncher -----------------------------
(***************************************************************************)
(* Small workflows for the launcher: a code step and a review step.        *)
(***************************************************************************)
EXTENDS Launcher

CONSTANTS code, review, finding

Systems == {SystemPair[a] : a \in DOMAIN SystemPair}
MCReady == "done/ready"
MCChanges == "done/changes_requested"
MCBlocked == "blocked/blocked"
MCPassed == "done/passed"
MCFailed == "done/failed"
MCPairs == Systems \union {MCReady, MCChanges, MCBlocked, MCPassed, MCFailed, SkipPair}
MCKeys == {code, review, "loop"} \union TerminalStates
MCSteps == {code, review}

\* code hands over to review or is blocked; review asks for changes, or the
\* run is ready for the human.  A process error blocks, a missing report is
\* retried once and then blocks, a timeout is not declared.
MCOn ==
    [s \in MCSteps |-> [p \in MCPairs |->
        CASE s = code /\ p = MCReady -> review
          [] s = code /\ p = MCBlocked -> Blocked
          [] s = review /\ p = MCChanges -> code
          [] s = review /\ p = MCReady -> "ready_for_human"
          [] p \in {"failed/process_error", "failed/missing_report"} -> Blocked
          [] OTHER -> NoTarget]]

Common ==
    [start |-> code, on |-> MCOn,
     retries |-> [p \in MCPairs |-> IF p = "failed/missing_report" THEN 1 ELSE 0],
     key |-> [s \in MCSteps |-> s],
     soft |-> [s \in MCSteps |-> 1], hard |-> [s \in MCSteps |-> 2],
     capped |-> TRUE, skippable |-> {}, agents |-> MCSteps]

\* Review first, caps out of reach: the shortest way to a repeated finding.
ReviewWorkflow == [Common EXCEPT !.start = review, !.hard = [s \in MCSteps |-> 4]]

\* Both steps count on one loop, so that its hard cap is near.
LoopWorkflow == [Common EXCEPT !.key = [s \in MCSteps |-> "loop"]]

\* A human may skip either step.
SkipOn ==
    [s \in MCSteps |-> [MCOn[s] EXCEPT ![SkipPair] =
        IF s = code THEN review ELSE "ready_for_human"]]
SkipWorkflow == [Common EXCEPT !.on = SkipOn, !.skippable = MCSteps]
LoopSkipWorkflow == [SkipWorkflow EXCEPT !.key = [s \in MCSteps |-> "loop"]]

\* code is a command: when it fails it is run again.
CommandOn ==
    [MCOn EXCEPT ![code] = [p \in MCPairs |->
        CASE p = MCPassed -> review
          [] p = MCFailed -> code
          [] p \in {"failed/process_error", "failed/timeout"} -> Blocked
          [] OTHER -> NoTarget]]
CommandWorkflow == [Common EXCEPT !.on = CommandOn, !.agents = {review}]

PlainWorkflows == {Common}
MixedWorkflows == {Common, CommandWorkflow}
RoutingWorkflows == {LoopWorkflow, ReviewWorkflow, SkipWorkflow}
ReviewWorkflows == {ReviewWorkflow}
SkipWorkflows == {SkipWorkflow}
LoopSkipWorkflows == {LoopSkipWorkflow}
=============================================================================
