----------------------------- MODULE InitUpgrade -----------------------------
(***************************************************************************)
(* The files of a project's setup, and the two commands that write them:   *)
(* orc init (initconfig) and orc init upgrade (initupgrade).  A plan is a  *)
(* pure function of the files and of the release, the scaffold embedded in *)
(* the binary.  Applying it takes many steps, between which people edit    *)
(* files, writes fail, and the command may die.                            *)
(*                                                                         *)
(* A file's content is what its writer put there and, as `text', how much  *)
(* of it a person wrote since.  Two contents are equal when the bytes are. *)
(***************************************************************************)
EXTENDS Integers, FiniteSets, Sequences, SequencesExt, FiniteSetsExt

CONSTANTS
    Absent,           \* no file
    Torn,             \* created or truncated, and nothing written yet
    Config,           \* .orc/config.yaml
    Lock,             \* .orc/scaffold.lock.yaml, the ownership manifest
    Gitignore,        \* .gitignore
    Instructions,     \* AGENTS.md
    Managed,          \* the agents, runtimes and workflows of the scaffold
    PathOrder,        \* every path, in byte order
    InitOrder,        \* every path, in the order orc init writes them
    Projects,         \* the files projects start with
    MaxRelease, MaxFaults, MaxCrashes

Paths == {Config, Lock, Gitignore, Instructions} \union Managed
Owned == Managed \union {Config, Lock}

ASSUME PathsAssumption ==
    /\ IsInjective(<<Config, Lock, Gitignore, Instructions>>)
    /\ {Config, Lock, Gitignore, Instructions} \intersect Managed = {}
ASSUME OrderAssumption ==
    /\ PathOrder \in Seq(Paths) /\ Range(PathOrder) = Paths /\ IsInjective(PathOrder)
    /\ InitOrder \in Seq(Paths) /\ Range(InitOrder) = Paths /\ IsInjective(InitOrder)
ASSUME BoundsAssumption ==
    MaxRelease \in Nat \ {0} /\ MaxFaults \in Nat /\ MaxCrashes \in Nat

VARIABLES
    files,      \* path -> content
    release,    \* the scaffold the installed binary embeds
    pc,         \* what the command does next
    job,        \* what it decided and did
    faults,     \* edits by people, dirty files and failed writes so far
    crashes

vars == <<files, release, pc, job, faults, crashes>>

-----------------------------------------------------------------------------
(* Contents.                                                               *)

Releases == 0..MaxRelease
Scaffold(r) == [text |-> 0, base |-> r]
LockOf(entries) == [text |-> 0, entries |-> entries]
NewConfig == [text |-> 0, setup |-> 1, caps |-> "caps", refs |-> Managed, elsewhere |-> {}]
EmptyConfig == [text |-> 0, setup |-> 0, caps |-> "none", refs |-> {}, elsewhere |-> {}]

Caps == {"none", "caps", "max", "both", "unparsable"}

\* What a file can hold once it has been written.
Contents(p) ==
    CASE p = Config -> [text : Nat, setup : {0, 1}, caps : Caps,
                        refs : SUBSET Managed, elsewhere : SUBSET Managed]
      [] p = Lock -> [text : Nat, entries : [Managed -> Releases]]
      [] p = Gitignore -> [text : Nat, runs : BOOLEAN, broad : BOOLEAN]
      [] p = Instructions -> [text : Nat, section : BOOLEAN]
      [] p \in Managed -> [text : Nat, base : Releases]

FilesOK(F) == DOMAIN F = Paths /\ \A p \in Paths : F[p] \in Contents(p) \union {Absent, Torn}

ASSUME ContentsAssumption ==
    Absent # Torn /\ \A p \in Paths : {Absent, Torn} \intersect Contents(p) = {}
ASSUME ProjectsAssumption == \A F \in Projects : FilesOK(F)

IsRecord(c) == c \notin {Absent, Torn}
Text(c) == IF IsRecord(c) THEN c.text ELSE 0

\* What a person puts where there is no file.
OwnContent(p) ==
    CASE p = Config -> [EmptyConfig EXCEPT !.text = 1]
      [] p = Lock -> [text |-> 1, entries |-> [m \in Managed |-> 0]]
      [] p = Gitignore -> [text |-> 1, runs |-> FALSE, broad |-> FALSE]
      [] p = Instructions -> [text |-> 1, section |-> FALSE]
      [] p \in Managed -> [text |-> 1, base |-> 0]

WithRunsEntry(c) ==
    IF IsRecord(c) THEN [c EXCEPT !.runs = TRUE] ELSE [text |-> 0, runs |-> TRUE, broad |-> FALSE]
WithSection(c) ==
    IF IsRecord(c) THEN [c EXCEPT !.section = TRUE] ELSE [text |-> 0, section |-> TRUE]

-----------------------------------------------------------------------------
(* The plan of an upgrade.                                                 *)

ConfigOf(F) == IF F[Config] = Torn THEN EmptyConfig ELSE F[Config]

\* Planning stops at a configuration that is missing or does not parse.
Loads(F) == F[Config] # Absent /\ ConfigOf(F).caps # "unparsable"

\* loop_caps beside max_loops: the schema migration cannot tell which counts.
Ambiguous(F) == ConfigOf(F).caps = "both"

\* max_loops becomes loop_caps at any setup version; setup 0 also gets the
\* version, the defaults and the missing references.
ConfigTarget(F) ==
    LET c == ConfigOf(F)
        schema == IF c.caps = "max" THEN [c EXCEPT !.caps = "caps"] ELSE c
    IN  IF Ambiguous(F) THEN F[Config]
        ELSE IF c.setup # 0 THEN (IF schema = c THEN F[Config] ELSE schema)
        ELSE [schema EXCEPT !.setup = 1,
                            !.caps = IF @ = "none" THEN "caps" ELSE @,
                            !.refs = Managed \ c.elsewhere]

LockValid(F) == IsRecord(F[Lock]) /\ F[Lock].text = 0
LockUsable(F) == F[Lock] = Absent \/ LockValid(F)

\* The manifest proves that Orc wrote these very bytes.
ProvesManaged(F, p) ==
    LockValid(F) /\ F[Lock].entries[p] # 0 /\ F[p] = Scaffold(F[Lock].entries[p])

ManagedTarget(F, r, p) ==
    IF F[p] = Absent \/ ProvesManaged(F, p) THEN Scaffold(r) ELSE F[p]

Customized(F, r, p) == ManagedTarget(F, r, p) # Scaffold(r)

LockTargetOfExisting(F, r) ==
    IF LockUsable(F)
      THEN LockOf([p \in Managed |-> IF F[p] = Absent \/ Customized(F, r, p) THEN 0 ELSE r])
      ELSE F[Lock]

\* The manifest lists what will be, or is, the current scaffold.
LockTarget(F, r) ==
    IF LockUsable(F)
      THEN LockOf([p \in Managed |-> IF Customized(F, r, p) THEN 0 ELSE r])
      ELSE F[Lock]

GitignoreTarget(F) ==
    LET c == F[Gitignore]
    IN  IF ConfigOf(F).setup # 0 \/ (IsRecord(c) /\ (c.broad \/ c.runs)) THEN c
        ELSE WithRunsEntry(c)

InstructionsTarget(F) ==
    LET c == F[Instructions]
    IN  IF ConfigOf(F).setup # 0 \/ (IsRecord(c) /\ c.section) THEN c ELSE WithSection(c)

Target(F, r, p) ==
    CASE p = Config -> ConfigTarget(F)
      [] p = Gitignore -> GitignoreTarget(F)
      [] p = Instructions -> InstructionsTarget(F)
      [] p = Lock -> LockTarget(F, r)
      [] p \in Managed -> ManagedTarget(F, r, p)

ActionPaths(F, r) == IF Loads(F) THEN {p \in Paths : Target(F, r, p) # F[p]} ELSE {}

\* A new file needs its reference in the configuration, a refreshed file its
\* manifest entry, and the manifest every file it vouches for.
DependsOn(F, r, p) ==
    CASE p = Lock -> ActionPaths(F, r) \intersect Managed
      [] p \in Managed ->
            IF F[p] # Absent THEN {Lock}
            ELSE IF p \in ConfigOf(F).refs THEN {} ELSE {Config}
      [] OTHER -> {}

Actions(F, r) ==
    [p \in ActionPaths(F, r) |->
        [kind |-> IF F[p] = Absent THEN "create" ELSE "modify",
         was |-> F[p], next |-> Target(F, r, p), deps |-> DependsOn(F, r, p)]]

PlanConflicts(F) ==
    IF ~Loads(F) THEN {Config} \union (IF F[Config] = Absent \/ LockUsable(F) THEN {} ELSE {Lock})
    ELSE {p \in Paths :
            \/ p = Config /\ (Ambiguous(F) \/ ConfigOf(F).elsewhere # {})
            \/ p = Lock /\ ~LockUsable(F)
            \/ p = Gitignore /\ ConfigOf(F).setup = 0 /\ IsRecord(F[p]) /\ F[p].broad}

PlanSkips(F, r) ==
    IF F[Config] = Absent THEN {}
    ELSE IF ~Loads(F) THEN {Config}
    ELSE {p \in Managed : Customized(F, r, p)}

\* PlanSkippedActions: what is reported as skipped before anything is
\* written, closed under dependencies.
DependentsOf(A, blocked) == {p \in DOMAIN A \ blocked : A[p].deps \intersect blocked # {}}

ForetoldSkipsOnce(F, r) ==
    LET blocked == PlanConflicts(F) \union PlanSkips(F, r)
    IN  DependentsOf(Actions(F, r), blocked) \union PlanSkips(F, r)

ForetoldSkips(F, r) ==
    LET A == Actions(F, r)
        blocked[n \in 0..Cardinality(Paths)] ==
            IF n = 0 THEN PlanConflicts(F) \union PlanSkips(F, r)
            ELSE blocked[n - 1] \union DependentsOf(A, blocked[n - 1])
    IN  (blocked[Cardinality(Paths)] \ PlanConflicts(F)) \union PlanSkips(F, r)

PlanStatus(F, r) ==
    CASE PlanConflicts(F) # {} ->
            IF ActionPaths(F, r) # {} \/ ForetoldSkips(F, r) # {} THEN "partial" ELSE "blocked"
      [] PlanConflicts(F) = {} /\ ForetoldSkips(F, r) # {} -> "partial"
      [] PlanConflicts(F) = {} /\ ForetoldSkips(F, r) = {} ->
            IF ActionPaths(F, r) = {} THEN "current" ELSE "planned"

-----------------------------------------------------------------------------
(* The order of the writes.                                                *)

Idx(p) == CHOOSE i \in DOMAIN PathOrder : PathOrder[i] = p

\* The members of a sequence that are in a set, in their order.
Only(s, ps) ==
    LET kept[n \in 0..Len(s)] ==
          IF n = 0 THEN <<>>
          ELSE IF s[n] \in ps THEN Append(kept[n - 1], s[n]) ELSE kept[n - 1]
    IN  kept[Len(s)]

Needs(A, p, q) == p \in DOMAIN A /\ q \in A[p].deps

\* The manifest and the refreshes that need it and that it needs.
InGroup(A, p) ==
    IF p = Lock THEN \E q \in DOMAIN A \ {Lock} : Needs(A, q, Lock) /\ Needs(A, Lock, q)
    ELSE Needs(A, p, Lock) /\ Needs(A, Lock, p)

\* The comparison, which is not transitive.
Precedes(A, p, q) ==
    IF InGroup(A, p) /\ InGroup(A, q) THEN p = Lock \/ (q # Lock /\ Idx(p) < Idx(q))
    ELSE IF Needs(A, p, q) THEN FALSE
    ELSE Needs(A, q, p) \/ Idx(p) < Idx(q)

\* SortStableFunc moves each write left past those it precedes, and stops at
\* the first that it does not.
Insert(A, queue, p) ==
    InsertAt(queue, 1 + Max({0} \union {i \in DOMAIN queue : ~Precedes(A, p, queue[i])}), p)

Sorted(A, s) ==
    LET queue[n \in 0..Len(s)] == IF n = 0 THEN <<>> ELSE Insert(A, queue[n - 1], s[n])
    IN  queue[Len(s)]

WriteOrderOfAll(A, ps) == Sorted(A, PathOrder)
WriteOrder(A, ps) == Sorted(A, Only(PathOrder, ps))

-----------------------------------------------------------------------------
(* orc init upgrade --apply.                                               *)

Reports == {"current", "applied", "partial", "blocked"}
Outcomes == Reports \union {"none", "failed", "died"}

\* touched: paths that people changed since the plan.  disturbed: something
\* else happened since that the plan could not know.  late: paths changed
\* between the last comparison and the write it allowed.
NoJob == [command |-> "none", acts |-> <<>>, before |-> <<>>, conflicts |-> {}, skipped |-> {},
          blocked |-> {}, queue |-> <<>>, wrote |-> <<>>, outcome |-> "none",
          touched |-> {}, disturbed |-> FALSE, late |-> {}]

\* A command that ends without a report.
Ended(outcome) == [NoJob EXCEPT !.outcome = outcome]

Now == Head(job.queue)
Current == job.acts[Now]
Modifies(p) == job.acts[p].kind = "modify"

PlanUpgrade ==
    /\ pc = "idle"
    /\ pc' = "prepare"
    /\ job' = [NoJob EXCEPT !.command = "upgrade", !.acts = Actions(files, release),
                            !.before = files,
                            !.conflicts = PlanConflicts(files),
                            !.skipped = PlanSkips(files, release),
                            !.blocked = PlanConflicts(files) \union PlanSkips(files, release)]
    /\ UNCHANGED <<files, release, faults, crashes>>

\* A create whose target is there, a modification whose target has changed,
\* an edit of an empty document.
Unsafe(A, p) ==
    \/ A[p].kind = "create" /\ files[p] # Absent
    \/ A[p].kind = "modify" /\ (files[p] # A[p].was \/ (p = Config /\ files[p] = Torn))

\* The targets whose uncommitted changes version control may report.
Uncommitted(A, ps) == {p \in ps : A[p].kind = "modify"}

Gone(A, p) == A[p].kind = "modify" /\ files[p] = Absent

\* Two passes of actionableSubset around the check for uncommitted changes,
\* then every target is read and compared.  A target that is gone is an error
\* of no class, and ends the command.
Prepare(dirty) ==
    LET A == job.acts
        skip1 == DependentsOf(A, job.blocked)
        first == DOMAIN A \ (job.blocked \union skip1)
        blocked1 == job.blocked \union skip1 \union dirty
        skip2 == DependentsOf(Restrict(A, first), blocked1)
        acts == Restrict(A, first \ (blocked1 \union skip2))
        unsafe == {p \in DOMAIN acts : Unsafe(acts, p)}
        blocked2 == blocked1 \union skip2 \union unsafe
        skip3 == DependentsOf(acts, blocked2)
    IN  /\ pc = "prepare"
        /\ dirty \subseteq Uncommitted(A, first)
        /\ faults' = faults + Cardinality(dirty)
        /\ IF \E p \in DOMAIN acts : Gone(acts, p)
             THEN pc' = "idle" /\ job' = Ended("failed")
             ELSE /\ pc' = "write"
                  /\ job' = [job EXCEPT
                        !.acts = acts,
                        !.conflicts = @ \union dirty \union unsafe,
                        !.skipped = @ \union skip1 \union skip2 \union skip3,
                        !.blocked = blocked2 \union skip3,
                        !.queue = WriteOrder(acts, DOMAIN acts \ (unsafe \union skip3)),
                        !.disturbed = @ \/ dirty # {}]
        /\ UNCHANGED <<files, release, crashes>>

\* The group was rolled back, or a dependency refused, after the queue was
\* made.
PassOver ==
    /\ pc = "write" /\ job.queue # <<>>
    /\ \/ /\ Now \in job.blocked
          /\ job' = [job EXCEPT !.queue = Tail(@)]
       \/ /\ Now \notin job.blocked
          /\ Current.deps \intersect job.blocked # {}
          /\ job' = [job EXCEPT !.queue = Tail(@), !.skipped = @ \union {Now},
                                !.blocked = @ \union {Now}]
    /\ UNCHANGED <<files, release, pc, faults, crashes>>

MayWrite ==
    /\ pc = "write" /\ job.queue # <<>>
    /\ Now \notin job.blocked
    /\ Current.deps \intersect job.blocked = {}

\* What a failure of this write takes back: the modifications of the group
\* made so far, last first, up to one whose bytes are no longer those written.
GroupWritten ==
    IF Lock \in Current.deps
      THEN Only(job.wrote, {q \in DOMAIN job.acts :
                               Modifies(q) /\ (q = Lock \/ Lock \in job.acts[q].deps)})
      ELSE <<>>
Altered == {i \in DOMAIN GroupWritten : files[GroupWritten[i]] # job.acts[GroupWritten[i]].next}
RestoredNever == {p \in Paths : FALSE}
Restored == {GroupWritten[i] : i \in {j \in DOMAIN GroupWritten : j > Max({0} \union Altered)}}

\* The rest of the group is not written against the restored manifest.
GroupLeft ==
    IF InGroup(job.acts, Now)
      THEN {q \in Range(Tail(job.queue)) \ job.blocked : InGroup(job.acts, q)} ELSE {}

RejectUnreported(classified) ==
    /\ files' = [p \in Paths |-> IF p \in Restored THEN job.acts[p].was ELSE files[p]]
    /\ IF classified /\ Altered = {}
         THEN /\ pc' = "write"
              /\ job' = [job EXCEPT !.conflicts = @ \union {Now},
                                    !.blocked = @ \union {Now} \union GroupLeft,
                                    !.skipped = @ \union GroupLeft,
                                    !.queue = Tail(@), !.disturbed = TRUE]
         ELSE pc' = "idle" /\ job' = Ended("failed")
    /\ UNCHANGED <<release, crashes>>

\* A write fails for a reason that makes a conflict of its path, or for one
\* that has no class and ends the command.
Reject(classified) ==
    /\ files' = [p \in Paths |-> IF p \in Restored THEN job.acts[p].was ELSE files[p]]
    /\ IF classified /\ Altered = {}
         THEN /\ pc' = "write"
              /\ job' = [job EXCEPT !.conflicts = @ \union {Now},
                                    !.blocked = @ \union {Now} \union GroupLeft,
                                    !.skipped = @ \union GroupLeft,
                                    !.wrote = Only(@, Paths \ Restored),
                                    !.queue = Tail(@), !.disturbed = TRUE]
         ELSE pc' = "idle" /\ job' = Ended("failed")
    /\ UNCHANGED <<release, crashes>>

Done(p) == [job EXCEPT !.wrote = Append(@, p), !.queue = Tail(@)]

\* A new file exists, and is empty, before it has its content.
OpenCreate ==
    /\ MayWrite /\ Current.kind = "create" /\ files[Now] = Absent
    /\ files' = [files EXCEPT ![Now] = Torn]
    /\ pc' = "fill"
    /\ UNCHANGED <<release, job, faults, crashes>>

CompareNothing ==
    /\ MayWrite /\ Current.kind = "modify" /\ files[Now] # Absent
    /\ pc' = IF job.command = "upgrade" THEN "rename" ELSE "truncate"
    /\ UNCHANGED <<files, release, job, faults, crashes>>

\* The comparison before a rename (upgrade) or a truncation (init).
Compare ==
    /\ MayWrite /\ Current.kind = "modify" /\ files[Now] = Current.was
    /\ pc' = IF job.command = "upgrade" THEN "rename" ELSE "truncate"
    /\ UNCHANGED <<files, release, job, faults, crashes>>

Rename ==
    /\ pc = "rename"
    /\ files' = [files EXCEPT ![Now] = Current.next]
    /\ pc' = "write"
    /\ job' = Done(Now)
    /\ UNCHANGED <<release, faults, crashes>>

\* The write goes to the file that was opened, whatever has its name now.
Fill ==
    /\ pc = "fill"
    /\ files' = [files EXCEPT ![Now] = IF @ = Torn THEN Current.next ELSE @]
    /\ pc' = "write"
    /\ job' = Done(Now)
    /\ UNCHANGED <<release, faults, crashes>>

\* Something is where a new file should go, or the file is not the one that
\* was prepared.
RejectChanged ==
    /\ MayWrite /\ job.command = "upgrade"
    /\ files[Now] # (IF Current.kind = "create" THEN Absent ELSE Current.was)
    /\ Reject(Current.kind = "create" \/ files[Now] # Absent)
    /\ UNCHANGED faults

\* No permission is a conflict of the path; any other error ends the command,
\* and so does one that comes after the file was created.
WriteFails ==
    /\ faults < MaxFaults
    /\ faults' = faults + 1
    /\ job.command = "upgrade"
    /\ \/ /\ MayWrite \/ pc = "rename"
          /\ \E classified \in BOOLEAN : Reject(classified)
       \/ pc = "fill" /\ Reject(FALSE)

ApplyStatus(done) ==
    CASE job.conflicts # {} ->
            IF job.wrote # <<>> \/ job.skipped # {} THEN "partial" ELSE "blocked"
      [] job.conflicts = {} /\ job.skipped # {} -> "partial"
      [] job.conflicts = {} /\ job.skipped = {} ->
            IF job.wrote = <<>> THEN "current" ELSE done

Finish ==
    /\ pc = "write" /\ job.queue = <<>>
    /\ pc' = "idle"
    /\ job' = [job EXCEPT !.outcome = ApplyStatus("applied")]
    /\ UNCHANGED <<files, release, faults, crashes>>

-----------------------------------------------------------------------------
(* orc init.                                                               *)

InitTarget(p, guidance) ==
    CASE p = Config -> NewConfig
      [] p = Lock -> LockOf([m \in Managed |-> release])
      [] p \in Managed -> Scaffold(release)
      [] p = Gitignore -> IF IsRecord(files[p]) /\ files[p].runs THEN files[p]
                          ELSE WithRunsEntry(files[p])
      [] p = Instructions -> IF ~guidance \/ (IsRecord(files[p]) /\ files[p].section) THEN files[p]
                             ELSE WithSection(files[p])

\* Without --yes, the person at the prompts agrees to overwrite every file
\* that differs, or nothing happens; AGENTS.md may be declined alone.
PlanInit(yes, guidance) ==
    LET differing == {p \in Owned : files[p] \notin {Absent, InitTarget(p, FALSE)}}
        targets == {p \in Paths : files[p] # InitTarget(p, guidance)}
    IN  /\ pc = "idle"
        /\ yes => differing = {} /\ ~guidance
        /\ ~(IsRecord(files[Gitignore]) /\ files[Gitignore].broad)
        /\ pc' = "write"
        /\ job' = [NoJob EXCEPT
              !.command = "init", !.before = files,
              !.acts = [p \in targets |->
                          [kind |-> IF files[p] = Absent THEN "create" ELSE "modify",
                           was |-> files[p], next |-> InitTarget(p, guidance), deps |-> {}]],
              !.queue = Only(InitOrder, targets)]
        /\ UNCHANGED <<files, release, faults, crashes>>

Truncate ==
    /\ pc = "truncate"
    /\ files' = [files EXCEPT ![Now] = Torn]
    /\ pc' = "fill"
    /\ UNCHANGED <<release, job, faults, crashes>>

\* orc init stops at the first write that fails.
InitStops ==
    /\ job.command = "init"
    /\ \/ /\ MayWrite
          /\ files[Now] # (IF Current.kind = "create" THEN Absent ELSE Current.was)
          /\ UNCHANGED faults
       \/ /\ MayWrite \/ pc \in {"truncate", "fill"}
          /\ faults < MaxFaults /\ faults' = faults + 1
    /\ pc' = "idle"
    /\ job' = Ended("failed")
    /\ UNCHANGED <<files, release, crashes>>

-----------------------------------------------------------------------------
(* People, releases, death.                                                *)

Touch(p, content) ==
    /\ faults < MaxFaults
    /\ faults' = faults + 1
    /\ files' = [files EXCEPT ![p] = content]
    /\ job' = IF pc = "idle" THEN NoJob ELSE [job EXCEPT
          !.touched = @ \union {p}, !.disturbed = TRUE,
          !.late = @ \union (IF pc \in {"rename", "truncate"} /\ p = Now THEN {p} ELSE {})]
    /\ UNCHANGED <<release, pc, crashes>>

UserEdits(p) == IsRecord(files[p]) /\ Touch(p, [files[p] EXCEPT !.text = @ + 1])
UserDeletes(p) == files[p] # Absent /\ Touch(p, Absent)
UserCreates(p) == files[p] = Absent /\ Touch(p, OwnContent(p))

NewRelease ==
    /\ pc = "idle" /\ release < MaxRelease
    /\ release' = release + 1
    /\ job' = NoJob
    /\ UNCHANGED <<files, pc, faults, crashes>>

Crash ==
    /\ pc # "idle" /\ crashes < MaxCrashes
    /\ crashes' = crashes + 1
    /\ pc' = "idle"
    /\ job' = Ended("died")
    /\ UNCHANGED <<files, release, faults>>

-----------------------------------------------------------------------------

Init ==
    /\ files \in Projects
    /\ release = 1
    /\ pc = "idle"
    /\ job = NoJob
    /\ faults = 0
    /\ crashes = 0

OrcNext ==
    \/ PlanUpgrade
    \/ \E n \in 0..(MaxFaults - faults) : \E dirty \in kSubset(n, DOMAIN job.acts) : Prepare(dirty)
    \/ PassOver \/ OpenCreate \/ Compare \/ Rename \/ Fill \/ RejectChanged \/ WriteFails \/ Finish
    \/ \E yes, guidance \in BOOLEAN : PlanInit(yes, guidance)
    \/ Truncate \/ InitStops

UserNext == \E p \in Paths : UserEdits(p) \/ UserDeletes(p) \/ UserCreates(p)

Next == OrcNext \/ UserNext \/ NewRelease \/ Crash

Spec == Init /\ [][Next]_vars

-----------------------------------------------------------------------------
(* What the setup commands promise.                                        *)

TypeOK ==
    /\ FilesOK(files)
    /\ release \in 1..MaxRelease
    /\ pc \in {"idle", "prepare", "write", "rename", "truncate", "fill"}
    /\ job.outcome \in Outcomes
    /\ job.conflicts \union job.skipped \union job.blocked \union Range(job.wrote) \subseteq Paths
    /\ Range(job.queue) \subseteq DOMAIN job.acts
    /\ faults \in 0..MaxFaults /\ crashes \in 0..MaxCrashes

\* No command takes away what a person wrote: the text of a file survives every
\* step of an upgrade, and orc init overwrites only the very bytes it asked
\* about.  What is written between the last comparison and the write it allows
\* is beyond both (late).
EditsPreserved ==
    [][\A p \in Paths :
          Text(files'[p]) < Text(files[p])
          => \/ UserNext
             \/ p \in job.late
             \/ job.command = "init" /\ files[p] = job.before[p]]_vars

\* An apply that nothing disturbed writes and skips exactly what the plan said
\* before anything was written, although the plan closes the skipped set in
\* one go and the apply in three passes and once more while it writes.  (Only
\* the attempt itself shows that an empty configuration cannot be edited.)
Undisturbed == pc = "idle" /\ job.outcome \in Reports /\ ~job.disturbed

PlanForetells ==
    Undisturbed /\ job.command = "upgrade" /\ job.before[Config] # Torn =>
       /\ job.skipped = ForetoldSkips(job.before, release)
       /\ Range(job.wrote) =
             ActionPaths(job.before, release) \ (job.skipped \union job.conflicts)

\* After a clean report, the next plan has nothing to do.
CleanMeansCurrent ==
    pc = "idle" /\ job.outcome \in {"applied", "current"} /\ job.touched = {} =>
       PlanStatus(files, release) = "current"

\* The report agrees with the disk: of the files nobody else touched, those
\* that changed are those reported as written.
ReportMatchesDisk ==
    pc = "idle" /\ job.command = "upgrade" /\ job.outcome \in Reports =>
       \A p \in Paths \ job.touched : files[p] # job.before[p] <=> p \in Range(job.wrote)

\* A file that Orc could prove to be its own when an apply began is still
\* provably its own when it ends with a report, whichever writes failed:
\* otherwise every later release would take it for a customization.
Provable(F, r, p) == F[p] = Scaffold(r) \/ ProvesManaged(F, p)

OwnershipKept ==
    pc = "idle" /\ job.command = "upgrade" /\ job.outcome \in Reports /\ Lock \notin job.touched =>
       \A p \in Managed \ job.touched :
          Provable(job.before, release, p) => Provable(files, release, p)
=============================================================================
