------------------------------ MODULE RunStore ------------------------------
(***************************************************************************)
(* The run store: one run directory with an append-only events.jsonl and a *)
(* materialised status.json (internal/runstore).                           *)
(*                                                                         *)
(* Every operation takes the run lock, loads the run by REPLAYING the      *)
(* events, checks its own preconditions on the replayed status, appends    *)
(* one event and rewrites status.json.  Two pieces of code therefore have  *)
(* to agree on what an event means: the live path, which edits the loaded  *)
(* status, and the replay path, which re-validates and re-applies the      *)
(* event on every later load.  Both are modelled: operators named Live...  *)
(* are the first, those named Replay... the second.  One operator serves   *)
(* both where the code calls one helper from both, or assigns the same     *)
(* fields twice without computing anything.                                *)
(*                                                                         *)
(* The log is represented by what can be observed of it, the status that   *)
(* replaying it yields and whether replay accepts it; replay is a left     *)
(* fold over the events, so one commit is one more step of the fold.       *)
(* Timestamps, sequence numbers, wording and file contents are left out.   *)
(*                                                                         *)
(* A definition whose name extends the name of the one below it            *)
(* (ActiveIsAny, ActiveIs) is a mutant: the same code with a plausible     *)
(* bug, there to show that a property notices.                             *)
(***************************************************************************)
EXTENDS Workflow, Sequences, FiniteSets

CONSTANTS
    Findings,           \* stable ids of review findings
    \* The requests callers may send.  The specification takes any set of
    \* well-formed requests: a caller decides on a snapshot of the run it
    \* loaded earlier, which may be stale when the request arrives.
    StartRequests, UpdateRequests, SkipRequests, CapRequests, BlockRequests,
    ReportRequests, ArtifactRequests,
    MaxAttempts,        \* bound: attempts started in a run
    MaxEntries,         \* bound: workflow state entries recorded in a run
    MaxStale            \* bound: status.json may be left behind the log while
                        \* the run has fewer entries and attempts together
                        \* than this; 0 for never

VARIABLES
    replayed,   \* the status that replaying events.jsonl yields
    accepted,   \* replay accepts every event of the log
    file        \* the status in status.json

storeVars == <<replayed, accepted, file>>

-----------------------------------------------------------------------------
(* Data.  Attempt ids are random and unique; an attempt is named here by   *)
(* its place in the history, and 0 names no attempt.  fix stands for the    *)
(* configuration snapshot the attempt was started under: where that sends  *)
(* a request for changes.                                                  *)

LiveStates == {"starting", "active"}
ReportedStates == {"reported", "invalid_report"}
EndStates == {"missing_report", "process_error", "timed_out"}
AttemptStates == LiveStates \union ReportedStates \union EndStates

Attempt == [id : Nat, step : Steps, fix : Targets \union {NoTarget}, state : AttemptStates,
            pair : Pairs \union {None},
            prompt : BOOLEAN, log : BOOLEAN, pid : BOOLEAN,
            recovered : BOOLEAN, consumed : BOOLEAN, superseded : BOOLEAN,
            findings : SUBSET Findings]

NewAttempt(id, step, fix) ==
    [id |-> id, step |-> step, fix |-> fix, state |-> "starting", pair |-> None,
     prompt |-> FALSE, log |-> FALSE, pid |-> FALSE, recovered |-> FALSE,
     consumed |-> FALSE, superseded |-> FALSE, findings |-> {}]

Artifact == [kind : {"prompt", "log", "report"}, of : Nat]

EntryRequest == [state : Targets, key : Keys,
                 prev : Steps \union {None}, pair : Pairs \union {None}]
\* The entry a run is created with has no counter and count 0.
Entry == [state : Targets, key : Keys \union {None}, count : Nat,
          prev : Steps \union {None}, pair : Pairs \union {None}]

\* A repeated review finding: the finding, the correction step routing wants
\* to enter, and the first and the repeating review attempt.
FindingBlock == [finding : Findings, target : Steps, first : Nat, repeated : Nat]

Continuation == [attempt : Nat, step : Steps, pair : Pairs]

Status ==
    [state : RunStates, active : Attempt \union {None}, attempts : Seq(Attempt),
     lineage : Lineage \union {None}, continued : Continuation \union {None},
     entries : Seq(Entry), counts : [Keys -> Nat], softCaps : SUBSET Keys,
     hardBlock : Cap \union {None}, hardOverride : Cap \union {None},
     findBlock : FindingBlock \union {None},
     findOverride : FindingBlock \union {None},
     skipped : Seq(Steps), artifacts : SUBSET Artifact, warned : SUBSET Nat]

StartRequest == [step : Steps, fix : Targets \union {NoTarget}, consume : Nat,
                 retry : Lineage \union {None},
                 entry : EntryRequest \union {None},
                 hardOverride : Cap \union {None},
                 findOverride : FindingBlock \union {None}]
UpdateRequest == [state : TerminalStates, entry : EntryRequest \union {None}]
SkipRequest == [step : Steps, state : RunStates, entry : EntryRequest \union {None}]
ReportRequest == [state : ReportedStates, pair : Pairs, findings : SUBSET Findings,
                  allowStarting : BOOLEAN]

\* Callers enter the step they start, report the system pair with an invalid
\* report, and block a cap before the count they would reach.
ASSUME RequestAssumption ==
    /\ StartRequests \subseteq StartRequest
    /\ \A r \in StartRequests : r.entry # None => r.entry.state = r.step
    /\ UpdateRequests \subseteq UpdateRequest
    /\ SkipRequests \subseteq SkipRequest
    /\ CapRequests \subseteq Cap
    /\ \A c \in CapRequests : c.before < c.after
    /\ BlockRequests \subseteq FindingBlock
    /\ ReportRequests \subseteq ReportRequest
    /\ ArtifactRequests \subseteq Artifact
    /\ \A r \in ReportRequests :
          r.state = "invalid_report" => r.pair = SystemPair["invalid_report"]
    /\ MaxAttempts \in Nat /\ MaxEntries \in Nat /\ MaxStale \in Nat

\* None is not a value of any optional field.
ASSUME NoneAssumption ==
    /\ None \notin Attempt
    /\ None \notin Lineage
    /\ None \notin [step : Steps, pair : Pairs]
    /\ None \notin Continuation
    /\ None \notin Cap
    /\ None \notin FindingBlock
    /\ None \notin EntryRequest
    /\ None \notin Entry

-----------------------------------------------------------------------------
(* Reading a status.                                                       *)

\* An attempt whose outcome routing may still act on.
RoutingOutcome(a) ==
    /\ ~a.consumed
    /\ ~a.superseded
    /\ \/ a.state = "reported" /\ a.pair # None
       \/ a.state \in DOMAIN SystemPair /\ a.pair = SystemPair[a.state]

LastAttempt(s) == s.attempts[Len(s.attempts)]

\* The attempt whose outcome the next routing decision consumes, 0 if none.
LatestConsumable(s) ==
    IF /\ s.state = Running
       /\ s.active = None
       /\ s.attempts # <<>>
       /\ ~(s.continued # None /\ s.continued.attempt = Len(s.attempts))
       /\ RoutingOutcome(LastAttempt(s))
      THEN Len(s.attempts)
      ELSE 0

\* The run is blocked by the outcome of its latest attempt: the last entry is
\* the transition that outcome caused.
ResolvableBlock(s) ==
    /\ s.state = Blocked
    /\ s.active = None
    /\ s.attempts # <<>>
    /\ RoutingOutcome(LastAttempt(s))
    /\ s.entries # <<>>
    /\ LET e == s.entries[Len(s.entries)]
       IN  /\ e.state = Blocked
           /\ e.prev = LastAttempt(s).step
           /\ e.pair = LastAttempt(s).pair

NextEntryByPosition(s, req) ==
    [state |-> req.state, key |-> req.key, count |-> Len(s.entries),
     prev |-> req.prev, pair |-> req.pair]

NextEntry(s, req) ==
    [state |-> req.state, key |-> req.key, count |-> s.counts[req.key] + 1,
     prev |-> req.prev, pair |-> req.pair]

EntryFor(s, req) == IF req = None THEN None ELSE NextEntry(s, req)

CountsAfter(s, e) ==
    IF e = None \/ (e # None /\ e.count = 0) THEN s.counts
    ELSE [s.counts EXCEPT ![e.key] = e.count]

EntriesAfter(s, e) == IF e = None THEN s.entries ELSE Append(s.entries, e)

\* Replay recomputes the count an entry must carry.
ReplayEntryOK(s, e) == e = None \/ e.count = s.counts[e.key] + 1

-----------------------------------------------------------------------------
(* Committing.  The event is appended first and status.json rewritten      *)
(* second: the process may die, or the rewrite fail, in between.           *)

Commit(live, ok, replay) ==
    /\ accepted' = ok
    /\ replayed' = IF ok THEN replay ELSE replayed
    /\ \/ file' = live
       \/ Len(replay.entries) + Len(replay.attempts) < MaxStale /\ UNCHANGED file

\* Loading replays the log: nothing can be done to a run it rejects.
Loads == accepted

\* A guard named Can... is what an operation checks on the status it loads
\* under the run lock; the operation fails and changes nothing otherwise.

-----------------------------------------------------------------------------
(* Starting an attempt.                                                    *)

\* An unconsumed outcome the launcher itself recorded has to be consumed, and
\* only the latest outcome can be; a retry consumes what it retries.
StartRoutingOK(s, req) ==
    LET latest == LatestConsumable(s)
    IN  /\ (latest # 0 /\ s.attempts[latest].state # "reported") => req.consume = latest
        /\ req.consume # 0 => req.consume = latest
        /\ req.retry # None => req.consume # 0

HardOverrideConsumableByTarget(s, e, override) ==
    s.hardOverride = override /\ e.state = override.target /\ e.key = override.key

HardOverrideConsumable(s, e, override) ==
    /\ s.hardOverride = override
    /\ e.state = override.target
    /\ e.key = override.key
    /\ e.count = override.after
    /\ s.counts[e.key] = override.before

LiveStartOK(s, req) ==
    LET e == EntryFor(s, req.entry)
    IN  /\ s.state = Running
        /\ s.active = None
        /\ StartRoutingOK(s, req)
        /\ e = None => req.hardOverride = None /\ req.findOverride = None
        /\ req.hardOverride # None => HardOverrideConsumable(s, e, req.hardOverride)
        /\ req.findOverride # None =>
              s.findOverride = req.findOverride /\ req.findOverride.target = e.state

HistoryAfterStartUnmarked(s, consume, retry, attempt) == Append(s.attempts, attempt)

HistoryAfterStartCleared(s, consume, retry, attempt) ==
    Append(IF consume = 0 THEN s.attempts
           ELSE [s.attempts EXCEPT ![consume].consumed = TRUE, ![consume].pair = None],
           attempt)

\* The history after a start: the consumed outcome is marked, superseded too
\* when the start retries it, and the new attempt is appended.
HistoryAfterStart(s, consume, retry, attempt) ==
    Append(IF consume = 0 THEN s.attempts
           ELSE [s.attempts EXCEPT ![consume].consumed = TRUE,
                                   ![consume].superseded = @ \/ retry # None],
           attempt)

LiveStart(s, req) ==
    LET e == EntryFor(s, req.entry)
        attempt == NewAttempt(Len(s.attempts) + 1, req.step, req.fix)
    IN  [s EXCEPT !.counts = CountsAfter(s, e),
                  !.entries = EntriesAfter(s, e),
                  !.hardOverride = IF req.hardOverride # None THEN None ELSE @,
                  !.findOverride = IF req.findOverride # None THEN None ELSE @,
                  !.continued = None,
                  !.lineage = req.retry,
                  !.active = attempt,
                  !.attempts = HistoryAfterStart(s, req.consume, req.retry, attempt)]

\* The attempt.started event of a request.
StartEvent(s, req) ==
    [attempt |-> NewAttempt(Len(s.attempts) + 1, req.step, req.fix),
     consume |-> req.consume, retry |-> req.retry, entry |-> EntryFor(s, req.entry),
     hardOverride |-> req.hardOverride, findOverride |-> req.findOverride]

ReplayStartOK(s, ev) ==
    /\ s.state = Running
    /\ s.active = None
    /\ StartRoutingOK(s, ev)
    /\ ev.hardOverride # None =>
          ev.entry # None /\ HardOverrideConsumable(s, ev.entry, ev.hardOverride)
    /\ ev.findOverride # None =>
          /\ ev.entry # None
          /\ s.findOverride = ev.findOverride
          /\ ev.findOverride.target = ev.entry.state
          /\ ev.findOverride.target = ev.attempt.step
    /\ ev.attempt.state = "starting" /\ ~ev.attempt.pid
    /\ ReplayEntryOK(s, ev.entry)

ReplayStart(s, ev) ==
    [s EXCEPT !.counts = CountsAfter(s, ev.entry),
              !.entries = EntriesAfter(s, ev.entry),
              !.hardOverride = IF ev.hardOverride # None THEN None ELSE @,
              !.findOverride = IF ev.findOverride # None THEN None ELSE @,
              !.continued = None,
              !.lineage = ev.retry,
              !.active = ev.attempt,
              !.attempts = HistoryAfterStart(s, ev.consume, ev.retry, ev.attempt)]

CanStart(req) == Loads /\ LiveStartOK(replayed, req)

StartAttempt(req) ==
    /\ CanStart(req)
    /\ Commit(LiveStart(replayed, req),
              ReplayStartOK(replayed, StartEvent(replayed, req)),
              ReplayStart(replayed, StartEvent(replayed, req)))

-----------------------------------------------------------------------------
(* Updating the active attempt: prompt, log, process, end, report.         *)

ActiveIsAny(s, id) == s.active # None

ActiveIs(s, id) == s.active # None /\ s.active.id = id

\* The live path writes the edited copy of the active attempt back to the
\* history and drops it once it is terminal; the replay handlers write it
\* back, and those of terminal events drop it.
LiveUpdate(s, a) ==
    [s EXCEPT !.attempts[a.id] = a,
              !.active = IF a.state \in LiveStates THEN a ELSE None]

ReplayUpdateActiveOnly(s, a) == [s EXCEPT !.active = a]

ReplayUpdate(s, a) == [s EXCEPT !.attempts[a.id] = a, !.active = a]
ReplayEnd(s, a) == [s EXCEPT !.attempts[a.id] = a, !.active = None]

\* Helpers both paths call on the copy of the active attempt.
PromptOK(s, a, ref) ==
    /\ a.state = "starting"
    /\ ~a.prompt
    /\ ref \in s.artifacts
    /\ ref.kind = "prompt"

LogOK(s, a, ref) ==
    /\ a.state = "starting"
    /\ ~a.log
    /\ ref \in s.artifacts
    /\ ref.kind = "log"

ProcessOK(a) == a.state = "starting" /\ ~a.pid /\ a.prompt /\ a.log

\* Before a process exists an attempt can only end in process_error.
EndOK(a, state) == a.pid \/ state = "process_error"

Prompted(a) == [a EXCEPT !.prompt = TRUE]
Logged(a) == [a EXCEPT !.log = TRUE]
Processed(a) == [a EXCEPT !.state = "active", !.pid = TRUE]
EndedConsumed(a, state, recovered) ==
    [a EXCEPT !.state = state, !.pair = SystemPair[state], !.recovered = recovered,
              !.consumed = TRUE]
Ended(a, state, recovered) ==
    [a EXCEPT !.state = state, !.pair = SystemPair[state], !.recovered = recovered]
Reported(a, req) ==
    [a EXCEPT !.state = req.state, !.pair = req.pair, !.findings = req.findings]

CanPrompt(id, ref) ==
    Loads /\ ActiveIs(replayed, id) /\ PromptOK(replayed, replayed.active, ref)
CanLog(id, ref) ==
    Loads /\ ActiveIs(replayed, id) /\ LogOK(replayed, replayed.active, ref)
CanProcess(id) == Loads /\ ActiveIs(replayed, id) /\ ProcessOK(replayed.active)
CanEnd(id, state) == Loads /\ ActiveIs(replayed, id) /\ EndOK(replayed.active, state)

RecordAttemptPrompt(id, ref) ==
    LET a == replayed.active
    IN  /\ CanPrompt(id, ref)
        /\ Commit(LiveUpdate(replayed, Prompted(a)), TRUE, ReplayUpdate(replayed, Prompted(a)))

RecordAttemptLog(id, ref) ==
    LET a == replayed.active
    IN  /\ CanLog(id, ref)
        /\ Commit(LiveUpdate(replayed, Logged(a)), TRUE, ReplayUpdate(replayed, Logged(a)))

RecordAttemptProcess(id) ==
    LET a == replayed.active
    IN  /\ CanProcess(id)
        /\ Commit(LiveUpdate(replayed, Processed(a)), TRUE, ReplayUpdate(replayed, Processed(a)))

\* FinishAttempt and RecoverAttempt are one code path with two event types;
\* a restart of the launcher recovers, the launcher itself finishes.
TerminalizeAttempt(id, state, recovered) ==
    LET a == replayed.active
    IN  /\ CanEnd(id, state)
        /\ Commit(LiveUpdate(replayed, Ended(a, state, recovered)),
                  TRUE,
                  ReplayEnd(replayed, Ended(a, state, recovered)))

\* A report ends an active attempt, or a starting one when the caller is the
\* launcher of a step without a worker; replay takes the latter's permission
\* from the state it finds the attempt in.
ReportOK(a, allowStarting) == a.state = "active" \/ (allowStarting /\ a.state = "starting")

ReportArtifacts(a, req) ==
    IF req.state = "reported" THEN {[kind |-> "report", of |-> a.id]} ELSE {}

LiveReport(s, a, req) ==
    [s EXCEPT !.attempts[a.id] = Reported(a, req),
              !.active = None,
              !.artifacts = @ \union ReportArtifacts(a, req)]

ReplayReport(s, a, req) ==
    LET ended == ReplayUpdate(s, Reported(a, req))
    IN  [ended EXCEPT !.artifacts = @ \union ReportArtifacts(a, req),
                      !.active = None]

RecordAttemptReport(id, req) ==
    LET a == replayed.active
    IN  /\ Loads
        /\ ActiveIs(replayed, id)
        /\ ReportOK(a, req.allowStarting)
        /\ Commit(LiveReport(replayed, a, req),
                  ReportOK(a, a.state = "starting"),
                  ReplayReport(replayed, a, req))

-----------------------------------------------------------------------------
(* Artifacts, warnings, ignored reports: events beside the attempt's state *)

\* An artifact file is renamed into place and its event appended; the model
\* names an artifact by its kind and the attempt it was rendered for.
WriteArtifact(ref) ==
    LET s == [replayed EXCEPT !.artifacts = @ \union {ref}]
    IN  Loads /\ Commit(s, TRUE, s)

WarningOK(s, id) == id \in 1..Len(s.attempts)

RecordAttemptWarningOnFile(id) ==
    /\ Loads
    /\ WarningOK(replayed, id)
    /\ Commit([file EXCEPT !.warned = @ \union {id}], TRUE,
              [replayed EXCEPT !.warned = @ \union {id}])

RecordAttemptWarning(id) ==
    LET s == [replayed EXCEPT !.warned = @ \union {id}]
    IN  /\ Loads
        /\ WarningOK(replayed, id)
        /\ Commit(s, WarningOK(replayed, id), s)

\* report.ignored and caller-defined events change nothing but the sequence.
RecordIgnoredReport == Loads /\ Commit(replayed, TRUE, replayed)

-----------------------------------------------------------------------------
(* Moving the run between its states.                                      *)

InState(s, req) ==
    LET e == EntryFor(s, req.entry)
    IN  [s EXCEPT !.counts = CountsAfter(s, e), !.entries = EntriesAfter(s, e),
                  !.state = req.state]

\* Only an active attempt protects the run from an update to a terminal state;
\* neither the state the run is in nor a pending block does.
CanUpdate == Loads /\ replayed.active = None

UpdateStatus(req) ==
    /\ CanUpdate
    /\ Commit(InState(replayed, req),
              /\ replayed.active = None
              /\ ReplayEntryOK(replayed, EntryFor(replayed, req.entry)),
              InState(replayed, req))

\* A worker-loop soft cap is recorded once per counter.
RecordWorkflowLoopSoftCap(cap) ==
    LET s == [replayed EXCEPT !.softCaps = @ \union {cap.key}]
    IN  /\ Loads
        /\ cap.key \notin replayed.softCaps
        /\ Commit(s, TRUE, s)

HardCapped(s, cap) == [s EXCEPT !.hardBlock = cap, !.state = Blocked]

CanBlockAnyState == Loads /\ replayed.active = None

\* What both blocks check: the run is running and nothing is active.
CanBlock == Loads /\ replayed.active = None /\ replayed.state = Running

BlockWorkflowLoopHardCap(cap) ==
    /\ CanBlock
    /\ Commit(HardCapped(replayed, cap), replayed.active = None, HardCapped(replayed, cap))

HardCapOverridden(s, override) ==
    [s EXCEPT !.hardOverride = override, !.hardBlock = None, !.state = Running]

\* The human's one-shot override is the block it answers.
AllowWorkflowLoopHardCap ==
    /\ Loads
    /\ replayed.state = Blocked
    /\ replayed.hardBlock # None
    /\ replayed.hardOverride = None
    /\ Commit(HardCapOverridden(replayed, replayed.hardBlock),
              replayed.state = Blocked /\ replayed.hardBlock # None,
              HardCapOverridden(replayed, replayed.hardBlock))

FindingBlocked(s, block) == [s EXCEPT !.findBlock = block, !.state = Blocked]

\* Replay asks more of a finding block than the operation that writes it:
\* no finding block or finding override may be pending.
ReplayFindingBlockOK(s) ==
    /\ s.state = Running
    /\ s.active = None
    /\ s.findBlock = None
    /\ s.findOverride = None

BlockRepeatedReviewFinding(block) ==
    /\ CanBlock
    /\ Commit(FindingBlocked(replayed, block),
              ReplayFindingBlockOK(replayed),
              FindingBlocked(replayed, block))

FindingOverriddenKept(s) == [s EXCEPT !.findOverride = s.findBlock, !.state = Running]

FindingOverridden(s) ==
    [s EXCEPT !.findOverride = s.findBlock, !.findBlock = None, !.state = Running]

AllowRepeatedReviewFinding ==
    /\ Loads
    /\ replayed.state = Blocked
    /\ replayed.findBlock # None
    /\ replayed.findOverride = None
    /\ Commit(FindingOverridden(replayed),
              replayed.active = None,
              FindingOverridden(replayed))

ContinuedByState(s) ==
    [s EXCEPT !.state = Running,
              !.continued = [attempt |-> Len(s.attempts),
                             step |-> LastAttempt(s).step,
                             pair |-> LastAttempt(s).state]]

\* A human attests that the blocker is gone: the blocked step is selected
\* again and its old outcome is left unconsumed, excluded by the marker.
Continued(s) ==
    [s EXCEPT !.state = Running,
              !.continued = [attempt |-> Len(s.attempts),
                             step |-> LastAttempt(s).step,
                             pair |-> LastAttempt(s).pair]]

ContinuedOK(s) == s.hardBlock = None /\ s.active = None /\ ResolvableBlock(s)

ResolveHumanBlock ==
    /\ Loads
    /\ ContinuedOK(replayed)
    /\ Commit(Continued(replayed), ContinuedOK(replayed), Continued(replayed))

-----------------------------------------------------------------------------
(* Skipping a step.  The caller's validator runs under the lock; what it   *)
(* always checks is here, what depends on the workflow is its caller's.    *)

SkipValidator(s) ==
    /\ s.active = None
    /\ s.hardOverride = None
    /\ s.findOverride = None
    /\ s.state = Running

SkippedHistory(s, consume) ==
    IF consume = 0 THEN s.attempts
    ELSE [s.attempts EXCEPT ![consume].consumed = TRUE]

LiveSkip(s, req) ==
    LET e == EntryFor(s, req.entry)
    IN  [s EXCEPT !.counts = CountsAfter(s, e),
                  !.entries = EntriesAfter(s, e),
                  !.attempts = SkippedHistory(s, LatestConsumable(s)),
                  !.skipped = Append(@, req.step),
                  !.state = req.state,
                  !.lineage = None,
                  !.continued = None]

SkipEvent(s, req) ==
    [step |-> req.step, state |-> req.state,
     consume |-> LatestConsumable(s), entry |-> EntryFor(s, req.entry)]

ReplaySkipOK(s, ev) ==
    /\ s.active = None
    /\ s.state = Running
    /\ ev.consume # 0 => ev.consume = LatestConsumable(s)
    /\ ReplayEntryOK(s, ev.entry)

ReplaySkipUncounted(s, ev) ==
    [s EXCEPT !.entries = EntriesAfter(s, ev.entry),
              !.attempts = SkippedHistory(s, ev.consume),
              !.skipped = Append(@, ev.step),
              !.state = ev.state,
              !.lineage = None,
              !.continued = None]

ReplaySkip(s, ev) ==
    [s EXCEPT !.counts = CountsAfter(s, ev.entry),
              !.entries = EntriesAfter(s, ev.entry),
              !.attempts = SkippedHistory(s, ev.consume),
              !.skipped = Append(@, ev.step),
              !.state = ev.state,
              !.lineage = None,
              !.continued = None]

RecordStepSkip(req) ==
    /\ Loads
    /\ SkipValidator(replayed)
    /\ Commit(LiveSkip(replayed, req),
              ReplaySkipOK(replayed, SkipEvent(replayed, req)),
              ReplaySkip(replayed, SkipEvent(replayed, req)))

-----------------------------------------------------------------------------
(* The store under callers that send any request at any time.              *)

InitialEntry(step) ==
    [state |-> step, key |-> None, count |-> 0, prev |-> None, pair |-> None]

InitialStatus(step) ==
    [state |-> Running, active |-> None, attempts |-> <<>>, lineage |-> None,
     continued |-> None, entries |-> <<InitialEntry(step)>>,
     counts |-> [k \in Keys |-> 0], softCaps |-> {},
     hardBlock |-> None, hardOverride |-> None,
     findBlock |-> None, findOverride |-> None,
     skipped |-> <<>>, artifacts |-> {}, warned |-> {}]

\* A run is published with its first event and its status.json in place.
Init ==
    /\ \E step \in Steps : replayed = InitialStatus(step)
    /\ file = replayed
    /\ accepted = TRUE

AttemptIds == 1..MaxAttempts
RoomForEntry == Len(replayed.entries) < MaxEntries

Next ==
    \/ \E req \in StartRequests :
          Len(replayed.attempts) < MaxAttempts /\ RoomForEntry /\ StartAttempt(req)
    \/ \E id \in AttemptIds :
          \/ \E ref \in ArtifactRequests :
                RecordAttemptPrompt(id, ref) \/ RecordAttemptLog(id, ref)
          \/ RecordAttemptProcess(id)
          \/ \E state \in EndStates, recovered \in BOOLEAN :
                TerminalizeAttempt(id, state, recovered)
          \/ \E req \in ReportRequests : RecordAttemptReport(id, req)
          \/ RecordAttemptWarning(id)
    \/ \E ref \in ArtifactRequests : WriteArtifact(ref)
    \/ RecordIgnoredReport
    \/ \E req \in UpdateRequests : RoomForEntry /\ UpdateStatus(req)
    \/ \E cap \in CapRequests :
          RecordWorkflowLoopSoftCap(cap) \/ BlockWorkflowLoopHardCap(cap)
    \/ AllowWorkflowLoopHardCap
    \/ \E block \in BlockRequests : BlockRepeatedReviewFinding(block)
    \/ AllowRepeatedReviewFinding
    \/ ResolveHumanBlock
    \/ \E req \in SkipRequests : RoomForEntry /\ RecordStepSkip(req)

Spec == Init /\ [][Next]_storeVars

-----------------------------------------------------------------------------
(* What the store promises whatever its callers do.                        *)

TypeOK ==
    /\ replayed \in Status
    /\ file \in Status
    /\ accepted \in BOOLEAN

GoodHistory(s) ==
    /\ s.active # None =>
          /\ s.state = Running
          /\ s.attempts # <<>>
          /\ s.active = LastAttempt(s)
          /\ s.active.state \in LiveStates
    /\ \A i \in 1..Len(s.attempts) :
          /\ s.attempts[i].id = i
          /\ s.attempts[i].state \in LiveStates => s.active # None /\ i = Len(s.attempts)
          /\ s.attempts[i].superseded => s.attempts[i].consumed
          /\ s.attempts[i].consumed => s.attempts[i].state \notin LiveStates

\* The attempt history and the active attempt are two copies of one fact, and
\* every operation edits both.  At most the last attempt is live, it is the
\* active one, its copy in the history is the same, and the run is running;
\* an outcome is consumed only after it exists, superseded only if consumed.
HistoryOK == GoodHistory(replayed)

SameOutcome(a, b) ==
    /\ a.state \notin LiveStates =>
          b = [a EXCEPT !.consumed = b.consumed, !.superseded = b.superseded]
    /\ a.consumed => b.consumed
    /\ a.superseded => b.superseded

OutcomesKept(before, after) ==
    /\ Len(after) >= Len(before)
    /\ \A i \in 1..Len(before) : SameOutcome(before[i], after[i])

\* The outcome of an attempt is final: a late report, a recovery that lost the
\* race or a retry may mark it consumed and superseded, but never changes it,
\* unmarks it or drops it from the history.
OutcomesFinal == [][OutcomesKept(replayed.attempts, replayed'.attempts)]_storeVars

\* The status an operation writes to status.json is the status that replaying
\* the log, with the event it has just appended, yields.
LiveAgreesWithReplay ==
    [][accepted' /\ file' # file => file' = replayed']_storeVars

\* No operation appends an event that makes the run unloadable, with one
\* exception: a finding block recorded while an earlier finding block or its
\* override is still pending, which the operation allows and replay does not.
OnlyFindingBlockBreaksLog ==
    [][accepted /\ ~accepted' =>
          replayed.findBlock # None \/ replayed.findOverride # None]_storeVars

\* The history of a run implements the life cycle of attempts.
PhaseOf(a) ==
    IF a.state \in LiveStates THEN "live" ELSE IF a.consumed THEN "routed" ELSE "ended"

Lifecycle == INSTANCE AttemptLifecycle
                WITH phases <- [i \in 1..Len(replayed.attempts) |-> PhaseOf(replayed.attempts[i])]

ImplementsLifecycle == Lifecycle!Spec

\* Loop counters count the entries made on their key.
CountsMatchEntries ==
    \A k \in Keys :
       replayed.counts[k] =
          Cardinality({i \in 1..Len(replayed.entries) : replayed.entries[i].key = k})

\* A hard-cap override is spent by one start only: the one that enters its
\* target and takes the counter to exactly the count the human agreed to.
OverrideSpentOnTarget ==
    [][replayed.hardOverride # None /\ replayed'.hardOverride # replayed.hardOverride =>
          LET o == replayed.hardOverride
          IN  /\ replayed'.hardOverride = None
              /\ replayed'.active # None
              /\ replayed'.active.step = o.target
              /\ replayed.counts[o.key] = o.before
              /\ replayed'.counts[o.key] = o.after]_storeVars
=============================================================================
