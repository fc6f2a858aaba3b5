---------------------------- MODULE ConfigRefresh ----------------------------
(***************************************************************************)
(* `orc run refresh-config` (internal/runconfigrefresh): a run adopts the  *)
(* live .orc configuration.  The command loads the run and the live files, *)
(* and publishes them later under the run lock, after it has checked there *)
(* that the state of the run still makes sense under them.  Under that one *)
(* lock config/current.json is replaced first, which puts the new workflow *)
(* in force, and the event that counts the entries of the run again on the *)
(* keys of the new workflow is appended after it.                          *)
(*                                                                         *)
(* version stands for the directory config/current.json names, recorded    *)
(* for the one the log names; how their files are written is RunFiles.     *)
(*                                                                         *)
(* RekeyedByEntry and CompatibleUnevaluated are mutants.                   *)
(***************************************************************************)
EXTENDS Launcher

CONSTANTS
    LiveWorkflows,  \* what the live workflow of the run may be edited to
    MaxVersions,    \* bound: configuration snapshots of the run
    RefreshMayFail  \* whether the append of a refresh may fail

VARIABLES
    version,    \* the configuration snapshot in force
    recorded    \* the one the log's latest refresh names; 1 before any

refreshVars == <<vars, version, recorded>>

Declared(wf, step) == \E p \in Pairs : wf.on[step][p] # NoTarget

ASSUME RefreshAssumption ==
    /\ \A wf \in LiveWorkflows : ValidConfiguration(wf)
    /\ \A wf \in LiveWorkflows : Declared(wf, wf.start)
    /\ MaxVersions \in Nat \ {0}
    /\ RefreshMayFail \in BOOLEAN

-----------------------------------------------------------------------------
(* Compatibility of a run with a workflow.                                 *)

Referenced(s) ==
    LET st == WorkflowState(s)
        named == {st.selected}
                 \union (IF st.outcome = None THEN {} ELSE {st.outcome.step})
                 \union (IF s.lineage = None THEN {} ELSE {s.lineage.step})
                 \union (IF s.continued = None THEN {} ELSE {s.continued.step})
                 \union {s.attempts[i].step : i \in 1..Len(s.attempts)}
                 \union {s.skipped[i] : i \in 1..Len(s.skipped)}
                 \union UNION {{s.entries[i].state, s.entries[i].prev} : i \in 1..Len(s.entries)}
    IN  named \cap Steps

\* Unless its outcome is known, the pending step may not lose a pair its
\* worker was told it may report, nor one it is being retried for.
PendingPairsKept(s, old, new) ==
    LET st == WorkflowState(s)
        step == IF st.selected = None THEN old.start ELSE st.selected
        retried == IF st.retry = None THEN {} ELSE {p \in Pairs : st.retry.counts[p] > 0}
    IN  st.outcome = None /\ Declared(old, step) /\ Declared(new, step) =>
           \A p \in Pairs :
              old.on[step][p] # NoTarget \/ p \in retried => new.on[step][p] # NoTarget

CompatibleUnevaluated(s, old, new) ==
    /\ s.active = None
    /\ s.hardBlock = None /\ s.hardOverride = None
    /\ s.findBlock = None /\ s.findOverride = None
    /\ \A step \in Referenced(s) : Declared(new, step)
    /\ PendingPairsKept(s, old, new)

Compatible(s, old, new) ==
    /\ s.active = None
    /\ s.hardBlock = None /\ s.hardOverride = None
    /\ s.findBlock = None /\ s.findOverride = None
    /\ \A step \in Referenced(s) : Declared(new, step)
    /\ PendingPairsKept(s, old, new)
    /\ DecisionBy(old, s).kind # "error"
    /\ DecisionBy(new, s).kind # "error"

-----------------------------------------------------------------------------
(* Counting again.                                                         *)

KeyIn(wf, state) == IF state \in Steps THEN wf.key[state] ELSE state

Counted(s, i) == s.entries[i].count # 0

RekeyedByEntry(s, wf) ==
    [k \in Keys |-> Cardinality({i \in 1..Len(s.entries) :
                                    Counted(s, i) /\ s.entries[i].key = k})]

Rekeyed(s, wf) ==
    [k \in Keys |-> Cardinality({i \in 1..Len(s.entries) :
                                    Counted(s, i) /\ KeyIn(wf, s.entries[i].state) = k})]

-----------------------------------------------------------------------------

\* Load the run, its snapshot and the live configuration.
PlanRefresh(c) ==
    /\ pc[c] = "idle" /\ Loads
    /\ version < MaxVersions
    /\ \E wf \in LiveWorkflows :
          Planned(c, "refresh", [NoPlan EXCEPT !.req = [version |-> version, to |-> wf]])
    /\ UNCHANGED <<storeVars, workerVars, workflow, version, recorded>>

\* A refresh holds the lock of the run until the event is appended.
Locked == \E c \in Commands : pc[c] = "recount"

\* What the others change they change before or after that.
Excluded == Locked => UNCHANGED storeVars

\* Replace the pointer, unless the run has moved on.
PublishSnapshot(c) ==
    LET to == plan[c].req.to
        allowed == /\ Loads
                   /\ plan[c].req.version = version
                   /\ Compatible(replayed, workflow, to)
    IN  /\ pc[c] = "refresh"
        /\ ~Locked
        /\ IF allowed
             THEN /\ workflow' = to
                  /\ version' = version + 1
                  /\ Goto(c, "recount") /\ UNCHANGED plan
             ELSE Return(c) /\ UNCHANGED <<workflow, version>>
        /\ UNCHANGED <<storeVars, workerVars, recorded>>

\* Append the event that counts the entries again.
RecordRefresh(c) ==
    LET recounted == [replayed EXCEPT !.counts = Rekeyed(replayed, plan[c].req.to)]
    IN  /\ pc[c] = "recount"
        /\ Commit(recounted, TRUE, recounted)
        /\ recorded' = version
        /\ Return(c)
        /\ UNCHANGED <<workerVars, workflow, version>>

\* The append fails: nothing puts the pointer back.
FailRefresh(c) ==
    /\ pc[c] = "recount" /\ RefreshMayFail
    /\ Return(c)
    /\ UNCHANGED <<storeVars, workerVars, workflow, version, recorded>>

RefreshInit == CommandInit /\ version = 1 /\ recorded = 1

RefreshStep(c) == PlanRefresh(c) \/ PublishSnapshot(c) \/ RecordRefresh(c) \/ FailRefresh(c)

-----------------------------------------------------------------------------

\* Every entry but the first counts, on the key its state has now.
CountedOn(wf, s, k) ==
    {i \in 1..Len(s.entries) :
        s.entries[i].count # 0 /\ k = KeyIn(wf, s.entries[i].state)}

CountsFollow(wf, s) == \A k \in Keys : s.counts[k] = Cardinality(CountedOn(wf, s, k))

\* The counters are those of the configuration in force: every entry made so
\* far, before a refresh or after it, counts on the key its step has now.
\* False of the code: a refresh that fails or dies between the pointer and the
\* event leaves the new workflow in force and the counters on the old keys.
CountsFollowConfig == ~Locked => CountsFollow(workflow, replayed)

\* Whenever the log names the configuration in force, the counters are those of
\* that configuration: also after the refresh that follows one that failed, with
\* entries of three configurations.
\* (A start decided before a refresh of another command and recorded after it
\* counts on the old key: nothing compares the two versions.)
CountsFollowRecorded == recorded = version => CountsFollow(workflow, replayed)

\* Routing gets stuck only on an outcome the system recorded for a step that
\* does not declare it: no report, skip, human's answer or refresh leads there.
\* (One sequence does when a refresh drops the very outcome a run is blocked by:
\* the check of a blocked run does not look at it, and once the block is resolved
\* and its step skipped that outcome is the latest again.)
StuckOnlyUndeclared ==
    Loads /\ Decision(replayed).kind = "error" =>
       LET latest == LatestConsumable(replayed)
       IN  /\ latest # 0
           /\ LET a == replayed.attempts[latest]
              IN  /\ workflow.on[a.step][a.pair] = NoTarget
                  /\ a.pair \in {SystemPair[end] : end \in DOMAIN SystemPair}
                                 \union {PassedPair, FailedPair}
=============================================================================
