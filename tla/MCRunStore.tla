----------------------------- MODULE MCRunStore -----------------------------
(***************************************************************************)
(* The run store under a small but unfriendly set of requests: starts that *)
(* consume, retry, or ignore the last outcome, with and without overrides, *)
(* caps and finding blocks that arrive in any state, updates that are late.*)
(***************************************************************************)
EXTENDS RunStore

CONSTANTS code, review, finding

MCPairs == {"done/ready", "failed/missing_report", "failed/process_error",
            "failed/timeout", "failed/invalid_report"}
MCKeys == {"loop"} \union TerminalStates

Retried == [step |-> code, counts |-> [p \in MCPairs |-> IF p = "done/ready" THEN 1 ELSE 0]]
LoopCapped == [target |-> code, key |-> "loop", before |-> 1, after |-> 2]
FirstBlock == [finding |-> finding, target |-> code, first |-> 1, repeated |-> 1]

Enter(state, key, prev, pair) ==
    [state |-> state, key |-> key, prev |-> prev, pair |-> pair]
EnterCode == Enter(code, "loop", None, None)

Start(consume, retry, entry, hardOverride, findOverride) ==
    [step |-> code, fix |-> NoTarget, consume |-> consume, retry |-> retry, entry |-> entry,
     hardOverride |-> hardOverride, findOverride |-> findOverride]

MCStartRequests ==
    {Start(consume, None, EnterCode, cap, block) :
        consume \in {0, 1}, cap \in {None, LoopCapped}, block \in {None, FirstBlock}}
    \union {Start(consume, Retried, None, None, None) : consume \in {0, 1}}

BlockedByCode == Enter(Blocked, Blocked, code, "done/ready")
MCUpdateRequests == {[state |-> Blocked, entry |-> BlockedByCode]}
MCSkipRequests == {[step |-> code, state |-> Running,
                    entry |-> Enter(review, "loop", code, "done/ready")]}
MCCapRequests == {LoopCapped}
MCBlockRequests == {FirstBlock}
MCReportRequests ==
    {[state |-> "reported", pair |-> "done/ready", findings |-> {finding},
      allowStarting |-> allow] : allow \in BOOLEAN}
    \union {[state |-> "invalid_report", pair |-> "failed/invalid_report",
             findings |-> {}, allowStarting |-> FALSE]}
MCArtifactRequests == [kind : {"prompt", "log"}, of : {1}]
=============================================================================
