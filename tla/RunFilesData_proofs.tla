------------------------- MODULE RunFilesData_proofs -------------------------
(***************************************************************************)
(* Proofs about what the files of a run hold: their types, what the log    *)
(* names is on disk, an operation that fails definitely leaves nothing     *)
(* behind, and a report ends its attempt once.                             *)
(***************************************************************************)
EXTENDS RunFiles_proofs, FiniteSetTheorems, SequenceTheorems

FileT == [kind : Kinds \union {"followups"}, seq : Nat, content : Nat]
EntryT == [kind : Kinds, content : Nat]
EventT == [kind : Kinds, content : Nat, refs : SUBSET FileT]
EventsT == [lines : Seq(EventT), torn : BOOLEAN]

\* That a file is missing is nothing a file can hold.
Distinct == Absent \notin (SUBSET FileT) \union Seq(EntryT) \union EventsT \union Nat

-----------------------------------------------------------------------------
(* Sequences.                                                              *)

LEMMA RangeAppend ==
    ASSUME NEW S, NEW s \in Seq(S), NEW e
    PROVE  Range(Append(s, e)) = Range(s) \union {e}
  <1>1. /\ DOMAIN s = 1..Len(s) /\ DOMAIN Append(s, e) = 1..Len(s) + 1 /\ Len(s) \in Nat
        /\ \A i \in 1..Len(s) : Append(s, e)[i] = s[i]
        /\ Append(s, e)[Len(s) + 1] = e
    OBVIOUS
  <1>2. ASSUME NEW x PROVE x \in Range(Append(s, e)) <=> x \in Range(s) \union {e}
    BY <1>1 DEF Range
  <1> QED
    BY <1>2

LEMMA InjectiveAppend ==
    ASSUME NEW S, NEW s \in Seq(S), IsInjective(s), NEW e, e \notin Range(s)
    PROVE  IsInjective(Append(s, e))
  <1>1. /\ DOMAIN s = 1..Len(s) /\ DOMAIN Append(s, e) = 1..Len(s) + 1 /\ Len(s) \in Nat
        /\ \A i \in 1..Len(s) : Append(s, e)[i] = s[i]
        /\ Append(s, e)[Len(s) + 1] = e
    OBVIOUS
  <1>2. \A i \in 1..Len(s) : s[i] # e
    BY <1>1 DEF Range
  <1>3. \A i, j \in 1..Len(s) : s[i] = s[j] => i = j
    BY <1>1 DEF IsInjective
  <1>4. ASSUME NEW i \in 1..Len(s) + 1, NEW j \in 1..Len(s) + 1,
               Append(s, e)[i] = Append(s, e)[j]
        PROVE  i = j
    BY <1>1, <1>2, <1>3, <1>4
  <1> QED
    BY <1>1, <1>4 DEF IsInjective

LEMMA SingletonTyped == ASSUME NEW S, NEW e \in S PROVE <<e>> \in Seq(S)
  OBVIOUS

LEMMA RangeIsFinite ==
    ASSUME NEW S, NEW s \in Seq(S)
    PROVE  IsFiniteSet(Range(s))
  <1>1. s \in Surjection(1..Len(s), Range(s)) /\ Len(s) \in Nat
    BY DEF Surjection, Range
  <1> QED
    BY <1>1, FS_Interval, FS_Surjection

LEMMA PairFront == ASSUME NEW o, NEW f PROVE Front(<<o, f>>) = <<o>>
  <1>1. Front(<<o, f>>) = SubSeq(<<o, f>>, 1, 1)
    BY DEF Front
  <1>2. <<o>> \in Seq({o, f}) /\ <<o, f>> \in Seq({o, f})
    OBVIOUS
  <1>3. /\ SubSeq(<<o, f>>, 1, 1) \in Seq({o, f})
        /\ Len(SubSeq(<<o, f>>, 1, 1)) = 1
        /\ SubSeq(<<o, f>>, 1, 1)[1] = o
    <2>1. \A i \in 1..1 : <<o, f>>[i] \in {o, f}
      OBVIOUS
    <2> QED
      BY <2>1, SubSeqProperties
  <1> QED
    BY <1>1, <1>2, <1>3, SeqEqual

LEMMA TupleFacts ==
    ASSUME NEW o, NEW f
    PROVE  /\ <<o>> # <<>> /\ <<o, f>> # <<>>
           /\ Head(<<o>>) = o /\ Tail(<<o>>) = <<>> /\ Last(<<o>>) = o /\ Front(<<o>>) = <<>>
           /\ Len(<<o>>) = 1 /\ Append(<<>>, o) = <<o>>
           /\ Head(<<o, f>>) = o /\ Tail(<<o, f>>) = <<f>> /\ Last(<<o, f>>) = f
           /\ Front(<<o, f>>) = <<o>>
           /\ Len(<<o, f>>) = 2 /\ Append(<<o>>, f) = <<o, f>>
  <1>1. <<o>> # <<>> /\ <<o, f>> # <<>> /\ Len(<<o>>) = 1 /\ Len(<<o, f>>) = 2
    OBVIOUS
  <1>2. Head(<<o>>) = o /\ Head(<<o, f>>) = o
    OBVIOUS
  <1>3. Tail(<<o>>) = <<>> /\ Tail(<<o, f>>) = <<f>>
    OBVIOUS
  <1>4. Append(<<>>, o) = <<o>> /\ Append(<<o>>, f) = <<o, f>>
    <2>1. /\ <<>> \in Seq({o, f}) /\ <<o>> \in Seq({o, f}) /\ <<o, f>> \in Seq({o, f})
      OBVIOUS
    <2>2. /\ Append(<<>>, o) \in Seq({o, f}) /\ Append(<<o>>, f) \in Seq({o, f})
          /\ Len(Append(<<>>, o)) = 1 /\ Len(Append(<<o>>, f)) = 2
          /\ Append(<<>>, o)[1] = o /\ Append(<<o>>, f)[1] = o /\ Append(<<o>>, f)[2] = f
      <3> DEFINE S == {o, f}
      <3>1. \A s \in Seq(S), e \in S :
               /\ Append(s, e) \in Seq(S) /\ Len(Append(s, e)) = Len(s) + 1
               /\ Append(s, e)[Len(s) + 1] = e
               /\ \A i \in 1..Len(s) : Append(s, e)[i] = s[i]
        OBVIOUS
      <3>2. o \in S /\ f \in S /\ <<>> \in Seq(S) /\ <<o>> \in Seq(S)
        BY <2>1
      <3>3. Len(<<>>) = 0 /\ Len(<<o>>) = 1 /\ <<o>>[1] = o
        OBVIOUS
      <3> HIDE DEF S
      <3>4. Append(<<>>, o) \in Seq(S) /\ Len(Append(<<>>, o)) = 1 /\ Append(<<>>, o)[1] = o
        BY <3>1, <3>2, <3>3
      <3>5. /\ Append(<<o>>, f) \in Seq(S) /\ Len(Append(<<o>>, f)) = 2
            /\ Append(<<o>>, f)[1] = o /\ Append(<<o>>, f)[2] = f
        BY <3>1, <3>2, <3>3
      <3> QED
        BY <3>4, <3>5 DEF S
    <2>3. Len(<<o>>) = 1 /\ <<o>>[1] = o /\ Len(<<o, f>>) = 2 /\ <<o, f>>[1] = o /\ <<o, f>>[2] = f
      OBVIOUS
    <2>4. Append(<<>>, o) = <<o>>
      BY <2>1, <2>2, <2>3, SeqEqual
    <2>5. Append(<<o>>, f) = <<o, f>>
      <3> DEFINE S == {o, f}
                 s == Append(<<o>>, f)
                 t == <<o, f>>
      <3>1. /\ s \in Seq(S) /\ t \in Seq(S) /\ Len(s) = 2 /\ Len(t) = 2
            /\ s[1] = t[1] /\ s[2] = t[2]
        BY <2>1, <2>2, <2>3
      <3> HIDE DEF S, s, t
      <3>2. \A i \in 1..Len(s) : s[i] = t[i]
        BY <3>1
      <3>3. s = t
        BY <3>1, <3>2, SeqEqual
      <3> QED
        BY <3>3 DEF s, t
    <2> QED
      BY <2>4, <2>5
  <1>5. Last(<<o>>) = o /\ Last(<<o, f>>) = f
    BY DEF Last
  <1>6. Front(<<o>>) = <<>>
    BY SubSeqEmpty DEF Front
  <1>7. Front(<<o, f>>) = <<o>>
    BY ONLY PairFront
  <1> QED
    BY <1>1, <1>2, <1>3, <1>4, <1>5, <1>6, <1>7

\* The paths of what an operation writes: its own file, then the follow-ups.
Both == {"file", "notes"}
Paths(o, W) ==
    IF "file" \in W THEN IF "notes" \in W THEN <<o, Followups>> ELSE <<o>>
    ELSE IF "notes" \in W THEN <<Followups>> ELSE <<>>

LEMMA PathsFacts ==
    ASSUME NEW o, NEW W \in SUBSET Both
    PROVE  /\ Paths(o, W) = <<>> <=> W = {}
           /\ "file" \in W =>
                 Head(Paths(o, W)) = o /\ Tail(Paths(o, W)) = Paths(o, W \ {"file"})
           /\ W = {"notes"} => Head(Paths(o, W)) = Followups /\ Tail(Paths(o, W)) = <<>>
           /\ W = {} => Append(Paths(o, W), o) = Paths(o, {"file"})
           /\ "notes" \notin W => Append(Paths(o, W), Followups) = Paths(o, W \union {"notes"})
           /\ "notes" \in W =>
                 Last(Paths(o, W)) = Followups /\ Front(Paths(o, W)) = Paths(o, W \ {"notes"})
           /\ W = {"file"} => Last(Paths(o, W)) = o /\ Front(Paths(o, W)) = <<>>
           /\ W # {} => (Len(Paths(o, W)) = 1 <=> W # Both)
  <1>1. /\ Paths(o, {}) = <<>> /\ Paths(o, {"notes"}) = <<Followups>>
        /\ Paths(o, {"file"}) = <<o>> /\ Paths(o, Both) = <<o, Followups>>
    BY DEF Paths, Both
  <1>2. W \in {{}, {"file"}, {"notes"}, Both}
    BY DEF Both
  <1>3. CASE W = {}
    BY <1>1, <1>3, TupleFacts DEF Both
  <1>4. CASE W = {"file"}
    <2>1. W \ {"file"} = {} /\ W \union {"notes"} = Both /\ W # {"notes"} /\ "notes" \notin W
          /\ "file" \in W /\ W # Both /\ W # {}
      BY <1>4 DEF Both
    <2>2. /\ Head(<<o>>) = o /\ Tail(<<o>>) = <<>> /\ Last(<<o>>) = o /\ Front(<<o>>) = <<>>
          /\ Len(<<o>>) = 1 /\ <<o>> # <<>> /\ Append(<<o>>, Followups) = <<o, Followups>>
      BY TupleFacts
    <2> QED
      BY ONLY <1>1, <1>4, <2>1, <2>2
  <1>5. CASE W = {"notes"}
    <2>1. W \ {"notes"} = {} /\ W # {"file"} /\ "file" \notin W
          /\ "notes" \in W /\ W # Both /\ W # {}
      BY <1>5 DEF Both
    <2> QED
      BY <1>1, <1>5, <2>1, TupleFacts
  <1>6. CASE W = Both
    <2>1. W \ {"notes"} = {"file"} /\ W \ {"file"} = {"notes"} /\ W # {"file"} /\ W # {"notes"}
          /\ "notes" \in W /\ "file" \in W /\ W # {}
      BY <1>6 DEF Both
    <2>2. /\ Head(<<o, Followups>>) = o /\ Tail(<<o, Followups>>) = <<Followups>>
          /\ Last(<<o, Followups>>) = Followups /\ Front(<<o, Followups>>) = <<o>>
          /\ Len(<<o, Followups>>) # 1 /\ <<o, Followups>> # <<>>
      <3>1. Len(<<o, Followups>>) # 1 /\ <<o, Followups>> # <<>>
        OBVIOUS
      <3>2. Head(<<o, Followups>>) = o /\ Tail(<<o, Followups>>) = <<Followups>>
        OBVIOUS
      <3>3. Last(<<o, Followups>>) = Followups
        BY DEF Last
      <3>4. Front(<<o, Followups>>) = <<o>>
        BY ONLY PairFront
      <3> QED
        BY ONLY <3>1, <3>2, <3>3, <3>4
    <2> QED
      BY ONLY <1>1, <1>6, <2>1, <2>2
  <1> QED
    BY <1>2, <1>3, <1>4, <1>5, <1>6

-----------------------------------------------------------------------------
(* Types.                                                                  *)

AllFields == {"kind", "content", "todo", "version", "staged", "moved", "base", "before", "outcome"}
Outcomes == {"none", "ok", "failed", "unclear"}

\* A record that fits the step its process is at.
RecordOK(j, at) ==
    /\ DOMAIN j = AllFields
    /\ j.kind \in Kinds /\ j.content \in Nat /\ j.outcome \in Outcomes
    /\ j.staged \in Seq(FileT) /\ j.moved \in Seq(FileT) /\ j.base \in Seq(EntryT)
    /\ j.todo \in Seq(Range(StartSteps))
    /\ at \notin {"idle", "cleanup"} => j.kind # "none"
    /\ at \notin {"idle", "cleanup", "runs", "reserve", "publish", "unpublish"} => j.kind # "start"
    /\ at = "rollback" => j.moved # <<>>

PartOK(part, content) ==
    /\ part = "artifacts" => content \in SUBSET FileT
    /\ part = "followups" => content \in Seq(EntryT)
    /\ part = "events" => content \in EventsT
    /\ part = "status" => content \in Nat

DiskOK ==
    /\ DOMAIN disk = Parts
    /\ \A part \in Parts : Has(part) => PartOK(part, disk[part])

JobsOK == \A p \in Procs : RecordOK(job[p], pc[p])

Typed == DiskOK /\ JobsOK

OnlyBy(p) == \A q \in Procs \ {p} : job'[q] = job[q] /\ pc'[q] = pc[q]

LEMMA GotoOnly ==
    ASSUME Shape, NEW p \in Procs, NEW next, Goto(p, next)
    PROVE  pc'[p] = next /\ \A q \in Procs \ {p} : pc'[q] = pc[q]
  BY DEF Shape, Goto

LEMMA BecomesOnly ==
    ASSUME Shape, NEW p \in Procs, NEW r, Becomes(p, r)
    PROVE  job'[p] = r /\ \A q \in Procs \ {p} : job'[q] = job[q]
  BY DEF Shape, JobShape, Becomes

LEMMA BeginOnly ==
    ASSUME Shape, NEW p \in Procs, NEW kind \in Commands \union {"start"},
           Begin(p, kind) \/ ReportAgain(p)
    PROVE  OnlyBy(p)
  BY GotoOnly, BecomesOnly DEF Begin, ReportAgain, OnlyBy

LEMMA StepOnly ==
    ASSUME Shape, NEW p \in Procs, Step(p) \/ FaultyStep(p)
    PROVE  OnlyBy(p)
  <1>1. CASE LockStep(p)
    BY <1>1, GotoOnly, BecomesOnly DEF LockStep, LockRuns, Validate, LockRun, Unlock, OnlyBy
  <1>2. CASE StartStep(p)
    BY <1>2, GotoOnly, BecomesOnly
       DEF StartStep, Reserve, Publish, Unpublish, RemovePart, RemoveLock, RemoveDir, OnlyBy
  <1>3. CASE Within(p)
    BY <1>3 DEF Within, Stays, Turns, Shape, OnlyBy
  <1>4. CASE GiveUp(p) \/ PublishFails(p) \/ RemovalFails(p) \/ Crash(p)
    BY <1>4, GotoOnly, BecomesOnly DEF GiveUp, PublishFails, RemovalFails, Crash, OnlyBy
  <1> QED
    BY <1>1, <1>2, <1>3, <1>4, FileStepWithin DEF Step, FaultyStep

LEMMA RecordsStay ==
    ASSUME JobsOK, NEW p \in Procs, OnlyBy(p), RecordOK(job'[p], pc'[p])
    PROVE  JobsOK'
  BY DEF JobsOK, OnlyBy

LEMMA SameRecord ==
    ASSUME NEW j, NEW at, NEW next, RecordOK(j, at),
           next = "rollback" => j.moved # <<>>,
           at \in {"idle", "cleanup"} => next \in {"idle", "cleanup"},
           at \in {"idle", "cleanup", "runs", "reserve", "publish", "unpublish"} =>
              next \in {"idle", "cleanup", "runs", "reserve", "publish", "unpublish"}
              \/ j.kind # "start"
    PROVE  RecordOK(j, next)
  BY DEF RecordOK

LEMMA NoJobOK == RecordOK(NoJob, "idle") /\ RecordOK(NoJob, "cleanup")
  <1>1. DOMAIN NoJob = AllFields
    BY DEF NoJob, AllFields
  <1>2. /\ NoJob.kind = "none" /\ NoJob.content = 0 /\ NoJob.outcome = "none"
        /\ NoJob.staged = <<>> /\ NoJob.moved = <<>> /\ NoJob.base = <<>> /\ NoJob.todo = <<>>
    BY DEF NoJob
  <1>3. \A S : <<>> \in Seq(S)
    OBVIOUS
  <1> QED
    BY <1>1, <1>2, <1>3 DEF RecordOK, Kinds, Outcomes

\* A new record of this kind.
LEMMA NewRecordOK ==
    ASSUME NEW kind \in Kinds \ {"none"}, NEW todo \in Seq(Range(StartSteps)), NEW version,
           NEW content \in Nat
    PROVE  /\ RecordOK([NoJob EXCEPT !.kind = kind, !.todo = todo, !.version = version,
                                     !.content = content], "runs")
           /\ kind # "start" =>
                 RecordOK([NoJob EXCEPT !.kind = kind, !.content = content], "runs")
           /\ RecordOK([NoJob EXCEPT !.kind = kind, !.content = content], "idle")
           /\ RecordOK([NoJob EXCEPT !.kind = kind, !.content = content], "cleanup")
  <1> DEFINE r == [NoJob EXCEPT !.kind = kind, !.todo = todo, !.version = version,
                                !.content = content]
             s == [NoJob EXCEPT !.kind = kind, !.content = content]
  <1>1. DOMAIN NoJob = AllFields
    BY DEF NoJob, AllFields
  <1>2. /\ NoJob.outcome = "none" /\ NoJob.todo = <<>>
        /\ NoJob.staged = <<>> /\ NoJob.moved = <<>> /\ NoJob.base = <<>>
    BY DEF NoJob
  <1>3. \A S : <<>> \in Seq(S)
    OBVIOUS
  <1>4. /\ DOMAIN r = AllFields /\ r.kind = kind /\ r.content = content /\ r.outcome = "none"
        /\ r.staged = <<>> /\ r.moved = <<>> /\ r.base = <<>> /\ r.todo = todo
    BY <1>1, <1>2 DEF AllFields
  <1>5. /\ DOMAIN s = AllFields /\ s.kind = kind /\ s.content = content /\ s.outcome = "none"
        /\ s.staged = <<>> /\ s.moved = <<>> /\ s.base = <<>> /\ s.todo = <<>>
    BY <1>1, <1>2 DEF AllFields
  <1> HIDE DEF r, s
  <1>6. RecordOK(r, "runs")
    BY <1>3, <1>4 DEF RecordOK, Outcomes
  <1>7. (kind # "start" => RecordOK(s, "runs")) /\ RecordOK(s, "idle") /\ RecordOK(s, "cleanup")
    BY <1>3, <1>5 DEF RecordOK, Outcomes
  <1> QED
    BY <1>6, <1>7 DEF r, s

LEMMA ReturnedOK ==
    ASSUME NEW p \in Procs, NEW at, RecordOK(job[p], at), NEW outcome
    PROVE  RecordOK(Returned(p, outcome), "idle") /\ RecordOK(Returned(p, outcome), "cleanup")
  <1>1. CASE job[p].kind = "report" /\ outcome # "ok"
    <2>1. "report" \in Kinds \ {"none"} /\ job[p].content \in Nat /\ <<>> \in Seq(Range(StartSteps))
      BY <1>1 DEF RecordOK
    <2>2. Returned(p, outcome) = [NoJob EXCEPT !.kind = "report", !.content = job[p].content]
      BY <1>1 DEF Returned
    <2> QED
      BY <2>1, <2>2, NewRecordOK
  <1>2. CASE ~(job[p].kind = "report" /\ outcome # "ok")
    BY <1>2, NoJobOK DEF Returned
  <1> QED
    BY <1>1, <1>2

\* What the disk holds.
LEMMA LogTyped ==
    ASSUME DiskOK, Has("events")
    PROVE  /\ disk["events"] \in EventsT /\ Lines \in Seq(EventT) /\ Sequence \in Nat
           /\ IsFiniteSet(Reported) /\ ActiveAttempt \in Nat
  <1>1. disk["events"] \in EventsT
    BY PartsAre DEF DiskOK, PartOK
  <1>2. Lines \in Seq(EventT) /\ Sequence \in Nat
    BY <1>1 DEF EventsT, Lines, Sequence
  <1> DEFINE S == {e \in Range(Lines) : e.kind = "report"}
             f == [e \in S |-> e.content]
  <1>3. IsFiniteSet(S)
    BY <1>2, RangeIsFinite, FS_Subset
  <1>4. f \in Surjection(S, Reported)
    BY DEF Surjection, Reported
  <1>5. IsFiniteSet(Reported)
    BY <1>3, <1>4, FS_Surjection
  <1> QED
    BY <1>1, <1>2, <1>5, FS_CardinalityType DEF ActiveAttempt

LEMMA OwnTyped ==
    ASSUME DiskOK, Has("events"), NEW p \in Procs, RecordOK(job[p], pc[p])
    PROVE  Own(p) \in FileT /\ Followups \in FileT /\ Refs(p) \subseteq FileT /\ Entry(job[p]) \in EntryT
  <1>1. PathSeq(job[p].kind) \in Nat
    BY LogTyped DEF PathSeq
  <1>2. Own(p) \in FileT /\ Followups \in FileT /\ Entry(job[p]) \in EntryT
    BY <1>1 DEF RecordOK, Own, File, Followups, FileT, Entry, EntryT
  <1>3. Refs(p) \in {{Own(p)}, {Followups}, {Own(p), Followups}, {}}
    BY DEF Refs
  <1> QED
    BY <1>2, <1>3

LEMMA Puts ==
    ASSUME DiskOK, NEW part \in Parts, NEW content, Put(part, content)
    PROVE  /\ disk'[part] = content
           /\ \A other \in Parts \ {part} : disk'[other] = disk[other]
  BY DEF DiskOK, Put

LEMMA PutTyped ==
    ASSUME DiskOK, NEW part \in Parts, NEW content, PartOK(part, content), Put(part, content)
    PROVE  /\ DiskOK' /\ disk'[part] = content
           /\ \A other \in Parts \ {part} : disk'[other] = disk[other]
  <1>1. /\ DOMAIN disk' = Parts /\ disk'[part] = content
        /\ \A other \in Parts \ {part} : disk'[other] = disk[other]
    BY DEF DiskOK, Put
  <1> QED
    BY <1>1 DEF DiskOK, Has

LEMMA KeptDisk == ASSUME DiskOK, UNCHANGED disk PROVE DiskOK'
  BY DEF DiskOK, Has

\* The tail of an append.
LEMMA AppendTyped ==
    ASSUME DiskOK, Has("events"), NEW p \in Procs, RecordOK(job[p], pc[p])
    PROVE  LET e == NewEvent(job[p].kind, job[p].content, Refs(p))
               log == [disk["events"] EXCEPT !.lines = Append(@, e)]
               torn == [disk["events"] EXCEPT !.torn = TRUE]
           IN  /\ e \in EventT
               /\ PartOK("events", log) /\ log.lines = Append(Lines, e)
               /\ log.torn = disk["events"].torn
               /\ PartOK("events", torn) /\ torn.lines = Lines /\ torn.torn
  <1> DEFINE e == NewEvent(job[p].kind, job[p].content, Refs(p))
  <1>1. e \in EventT
    BY OwnTyped DEF NewEvent, EventT, RecordOK
  <1> HIDE DEF e
  <1>2. disk["events"] \in EventsT /\ Lines \in Seq(EventT) /\ Lines = disk["events"].lines
    BY LogTyped DEF Lines
  <1>3. Append(Lines, e) \in Seq(EventT)
    BY <1>1, <1>2
  <1>4. /\ [disk["events"] EXCEPT !.lines = Append(@, e)]
             = [disk["events"] EXCEPT !.lines = Append(Lines, e)]
        /\ [disk["events"] EXCEPT !.lines = Append(Lines, e)] \in EventsT
        /\ [disk["events"] EXCEPT !.torn = TRUE] \in EventsT
    BY <1>2, <1>3 DEF EventsT
  <1>5. /\ [disk["events"] EXCEPT !.lines = Append(Lines, e)].lines = Append(Lines, e)
        /\ [disk["events"] EXCEPT !.lines = Append(Lines, e)].torn = disk["events"].torn
        /\ [disk["events"] EXCEPT !.torn = TRUE].lines = Lines
        /\ [disk["events"] EXCEPT !.torn = TRUE].torn
    BY <1>2 DEF EventsT
  <1>6. /\ PartOK("events", [disk["events"] EXCEPT !.lines = Append(@, e)])
        /\ PartOK("events", [disk["events"] EXCEPT !.torn = TRUE])
    BY <1>4 DEF PartOK
  <1>7. /\ [disk["events"] EXCEPT !.lines = Append(@, e)].lines = Append(Lines, e)
        /\ [disk["events"] EXCEPT !.lines = Append(@, e)].torn = disk["events"].torn
    BY <1>4, <1>5
  <1> QED
    BY <1>1, <1>5, <1>6, <1>7 DEF e

LEMMA FailTyped ==
    ASSUME Shape, NEW p \in Procs, RecordOK(job[p], pc[p]), Fail(p),
           pc[p] \in RunHeld \ {"publish", "unpublish"}
    PROVE  /\ RecordOK(job'[p], pc'[p])
           /\ job'[p] = [job[p] EXCEPT !.outcome = "failed", !.staged = <<>>]
           /\ pc'[p] = IF job[p].moved # <<>> THEN "rollback" ELSE "unlock"
  <1> DEFINE r == [job[p] EXCEPT !.outcome = "failed", !.staged = <<>>]
             next == IF job[p].moved # <<>> THEN "rollback" ELSE "unlock"
  <1>1. job'[p] = r
    BY BecomesOnly DEF Fail
  <1>2. pc'[p] = next
    BY GotoOnly DEF Fail
  <1>3. /\ DOMAIN r = AllFields /\ r.kind = job[p].kind /\ r.content = job[p].content
        /\ r.outcome = "failed" /\ r.staged = <<>> /\ r.moved = job[p].moved
        /\ r.base = job[p].base /\ r.todo = job[p].todo
    BY DEF RecordOK, AllFields
  <1>4. <<>> \in Seq(FileT)
    OBVIOUS
  <1> HIDE DEF r
  <1>5. RecordOK(r, next)
    BY <1>3, <1>4 DEF RecordOK, Outcomes, RunHeld
  <1> QED
    BY <1>1, <1>2, <1>5 DEF r

\* An operation that ends, or goes on, with this outcome.
LEMMA OutcomeTyped ==
    ASSUME NEW j, NEW at, RecordOK(j, at), at \in RunHeld \ {"publish", "unpublish"},
           NEW outcome \in Outcomes
    PROVE  LET r == [j EXCEPT !.outcome = outcome]
           IN  /\ RecordOK(r, "unlock") /\ r.kind = j.kind /\ r.content = j.content
               /\ r.before = j.before /\ r.moved = j.moved /\ r.staged = j.staged
               /\ r.base = j.base /\ r.outcome = outcome
  <1> DEFINE r == [j EXCEPT !.outcome = outcome]
  <1>1. /\ DOMAIN r = AllFields /\ r.kind = j.kind /\ r.content = j.content
        /\ r.outcome = outcome /\ r.staged = j.staged /\ r.moved = j.moved
        /\ r.base = j.base /\ r.todo = j.todo /\ r.before = j.before
    BY DEF RecordOK, AllFields
  <1> HIDE DEF r
  <1>2. RecordOK(r, "unlock")
    BY <1>1 DEF RecordOK, RunHeld
  <1> QED
    BY <1>1, <1>2 DEF r

-----------------------------------------------------------------------------
(* What each step of an operation makes of its process and of the disk.    *)

Same(p) ==
    /\ job'[p].kind = job[p].kind /\ job'[p].content = job[p].content
    /\ job'[p].before = job[p].before

LEMMA LoadEffect ==
    ASSUME Shape, Typed, NEW p \in Procs, Load(p), ~Fail(p)
    PROVE  /\ Loads /\ Accepted(p) /\ UNCHANGED disk
           /\ RecordOK(job'[p], pc'[p])
           /\ job'[p].kind = job[p].kind /\ job'[p].content = job[p].content
           /\ job'[p].before = <<disk>>
           /\ job'[p].staged = job[p].staged /\ job'[p].moved = job[p].moved
           /\ job'[p].outcome = IF job[p].kind = "load" THEN "ok" ELSE "none"
           /\ pc'[p] = CASE job[p].kind = "load" -> "unlock"
                         [] job[p].kind = "event" -> "append"
                         [] job[p].kind \in {"config", "refresh"} -> "resolved"
                         [] OTHER -> "stage"
  <1> DEFINE outcome == IF job[p].kind = "load" THEN "ok" ELSE "none"
             r == [job[p] EXCEPT !.before = <<disk>>, !.outcome = outcome]
             next == CASE job[p].kind = "load" -> "unlock"
                       [] job[p].kind = "event" -> "append"
                       [] job[p].kind \in {"config", "refresh"} -> "resolved"
                       [] OTHER -> "stage"
  <1>1. Loads /\ Accepted(p) /\ Goto(p, next) /\ Becomes(p, r) /\ UNCHANGED disk /\ pc[p] = "load"
    BY DEF Load, tree
  <1>2. pc'[p] = next
    BY <1>1, GotoOnly
  <1>3. job'[p] = r
    BY <1>1, BecomesOnly
  <1>4. RecordOK(job[p], "load")
    BY <1>1 DEF Typed, JobsOK
  <1>5. /\ DOMAIN r = AllFields /\ r.kind = job[p].kind /\ r.content = job[p].content
        /\ r.before = <<disk>> /\ r.outcome = outcome /\ r.staged = job[p].staged
        /\ r.moved = job[p].moved /\ r.base = job[p].base /\ r.todo = job[p].todo
    BY <1>4 DEF RecordOK, AllFields
  <1>6. outcome \in Outcomes
    BY DEF Outcomes
  <1>7. next \in {"unlock", "append", "resolved", "stage"}
    OBVIOUS
  <1> HIDE DEF r, next, outcome
  <1>8. RecordOK(r, next)
    BY <1>4, <1>5, <1>6, <1>7 DEF RecordOK
  <1> QED
    BY <1>1, <1>2, <1>3, <1>5, <1>8 DEF next, outcome

LEMMA StageEffect ==
    ASSUME Shape, Typed, NEW p \in Procs, Stage(p), ~Fail(p),
           job[p].kind \in Exclusive \union {"followup", "report"}
    PROVE  /\ ~Refused(p) /\ Has("events") /\ pc'[p] = "commit" /\ Same(p)
           /\ job'[p].staged = StagedBy(p) /\ job'[p].moved = job[p].moved
           /\ job'[p].base = IF Has("followups") THEN disk["followups"] ELSE <<>>
           /\ job'[p].outcome = job[p].outcome
           /\ Put("artifacts", IF Has("artifacts") THEN disk["artifacts"] ELSE {})
           /\ RecordOK(job'[p], pc'[p]) /\ DiskOK'
  <1> DEFINE base == IF Has("followups") THEN disk["followups"] ELSE <<>>
             r == [job[p] EXCEPT !.staged = StagedBy(p), !.base = base]
             files == IF Has("artifacts") THEN disk["artifacts"] ELSE {}
  <1>1. /\ Goto(p, "commit") /\ Becomes(p, r) /\ Put("artifacts", files)
        /\ ~Refused(p) /\ Has("events") /\ pc[p] = "stage"
    BY DEF Stage
  <1>2. pc'[p] = "commit" /\ job'[p] = r
    BY <1>1, GotoOnly, BecomesOnly
  <1>3. RecordOK(job[p], pc[p]) /\ DiskOK
    BY DEF Typed, JobsOK
  <1>4. Own(p) \in FileT /\ Followups \in FileT
    BY <1>1, <1>3, OwnTyped
  <1>5. StagedBy(p) \in Seq(FileT)
    <2>1. StagedBy(p) \in {<<Own(p)>>, <<Followups>>, <<Own(p), Followups>>}
      BY DEF StagedBy
    <2>2. <<Own(p)>> \in Seq(FileT) /\ <<Followups>> \in Seq(FileT)
          /\ <<Own(p), Followups>> \in Seq(FileT)
      BY <1>4
    <2> QED
      BY <2>1, <2>2
  <1>6. base \in Seq(EntryT)
    <2>1. <<>> \in Seq(EntryT)
      OBVIOUS
    <2> QED
      BY <1>3, <2>1, PartsAre DEF DiskOK, PartOK
  <1>7. /\ DOMAIN r = AllFields /\ r.kind = job[p].kind /\ r.content = job[p].content
        /\ r.before = job[p].before /\ r.outcome = job[p].outcome /\ r.staged = StagedBy(p)
        /\ r.moved = job[p].moved /\ r.base = base /\ r.todo = job[p].todo
    BY <1>3 DEF RecordOK, AllFields
  <1>8. PartOK("artifacts", files)
    BY <1>3, PartsAre DEF DiskOK, PartOK
  <1> HIDE DEF r, base, files
  <1>9. RecordOK(r, "commit")
    BY <1>1, <1>3, <1>5, <1>6, <1>7 DEF RecordOK
  <1>10. DiskOK'
    BY <1>1, <1>3, <1>8, PutTyped, PartsAre
  <1> QED
    BY <1>1, <1>2, <1>7, <1>9, <1>10 DEF base, files, Same

LEMMA CommitEffect ==
    ASSUME Shape, Typed, NEW p \in Procs, Commit(p), ~Fail(p), job[p].staged # <<>>
    PROVE  /\ Renamed(p, Head(job[p].staged)) /\ UNCHANGED pc /\ Same(p)
           /\ Head(job[p].staged) # Followups => Has("artifacts")
           /\ job'[p].staged = Tail(job[p].staged)
           /\ job'[p].moved = Append(job[p].moved, Head(job[p].staged))
           /\ job'[p].base = job[p].base /\ job'[p].outcome = job[p].outcome
           /\ RecordOK(job'[p], pc'[p]) /\ DiskOK'
  <1> DEFINE f == Head(job[p].staged)
             s == Tail(job[p].staged)
             m == Append(job[p].moved, Head(job[p].staged))
             r == [job[p] EXCEPT !.staged = s, !.moved = m]
  <1>1. /\ Renamed(p, f) /\ UNCHANGED pc
        /\ Becomes(p, [job[p] EXCEPT !.staged = Tail(@), !.moved = Append(@, f)])
        /\ f # Followups => Has("artifacts")
        /\ pc[p] = "commit"
    BY DEF Commit
  <1>2. RecordOK(job[p], pc[p]) /\ DiskOK
    BY DEF Typed, JobsOK
  <1>3. Becomes(p, r)
    BY <1>1
  <1>4. job'[p] = r
    BY <1>3, BecomesOnly
  <1>5. f \in FileT /\ s \in Seq(FileT)
    BY <1>2 DEF RecordOK
  <1>6. m \in Seq(FileT)
    BY <1>2, <1>5 DEF RecordOK
  <1>7. /\ DOMAIN r = AllFields /\ r.kind = job[p].kind /\ r.content = job[p].content
        /\ r.before = job[p].before /\ r.outcome = job[p].outcome /\ r.staged = s
        /\ r.moved = m /\ r.base = job[p].base /\ r.todo = job[p].todo
    BY <1>2 DEF RecordOK, AllFields
  <1> HIDE DEF r, m, s, f
  <1>8. RecordOK(r, "commit")
    BY <1>1, <1>2, <1>5, <1>6, <1>7 DEF RecordOK
  <1>9. DiskOK'
    <2>1. CASE f = Followups
      <3>1. Append(job[p].base, Entry(job[p])) \in Seq(EntryT)
        BY <1>2 DEF RecordOK, Entry, EntryT
      <3> QED
        BY <1>1, <1>2, <2>1, <3>1, PutTyped, PartsAre DEF Renamed, PartOK
    <2>2. CASE f # Followups
      <3>1. disk["artifacts"] \union {f} \in SUBSET FileT
        BY <1>1, <1>2, <1>5, <2>2, PartsAre DEF DiskOK, PartOK
      <3> QED
        BY <1>1, <1>2, <2>2, <3>1, PutTyped, PartsAre DEF Renamed, PartOK
    <2> QED
      BY <2>1, <2>2
  <1> QED
    BY <1>1, <1>4, <1>7, <1>8, <1>9 DEF Same, f, s, m

LEMMA FrontTyped ==
    ASSUME NEW S, NEW s \in Seq(S), s # <<>>
    PROVE  /\ Last(s) \in S /\ Front(s) \in Seq(S)
           /\ Front(s) = <<>> => Len(s) = 1
  <1>1. Len(s) \in Nat \ {0} /\ \A i \in 1..Len(s) : s[i] \in S
    OBVIOUS
  <1>2. Last(s) \in S
    BY <1>1 DEF Last
  <1> DEFINE n == Len(s) - 1
  <1>3. n \in Nat /\ (n = 0 => Len(s) = 1) /\ \A i \in 1..n : s[i] \in S
    BY <1>1
  <1>4. Front(s) = SubSeq(s, 1, n)
    BY DEF Front
  <1> HIDE DEF n
  <1>5. SubSeq(s, 1, n) \in Seq(S) /\ (SubSeq(s, 1, n) = <<>> => n = 0)
    <2>1. 1 \in Int /\ n \in Int /\ \A i \in 1..n : s[i] \in S
      BY <1>3
    <2>2. /\ SubSeq(s, 1, n) \in Seq(S)
          /\ Len(SubSeq(s, 1, n)) = IF 1 <= n THEN n - 1 + 1 ELSE 0
      BY <2>1, SubSeqProperties
    <2>3. Len(<<>>) = 0
      OBVIOUS
    <2>4. Len(SubSeq(s, 1, n)) = n
      BY <1>3, <2>2
    <2> QED
      BY ONLY <1>3, <2>2, <2>3, <2>4
  <1> QED
    BY ONLY <1>2, <1>3, <1>4, <1>5

\* One path less to take back.
LEMMA TakeBack ==
    ASSUME NEW j, RecordOK(j, "rollback"), NEW outcome \in Outcomes
    PROVE  LET r == [j EXCEPT !.moved = Front(@), !.outcome = outcome]
           IN  /\ RecordOK(r, IF Len(j.moved) = 1 THEN "unlock" ELSE "rollback")
               /\ r.kind = j.kind /\ r.content = j.content /\ r.before = j.before
               /\ r.moved = Front(j.moved) /\ r.staged = j.staged /\ r.base = j.base
               /\ r.outcome = outcome
  <1> DEFINE m == Front(j.moved)
             r == [j EXCEPT !.moved = m, !.outcome = outcome]
             next == IF Len(j.moved) = 1 THEN "unlock" ELSE "rollback"
  <1>1. m \in Seq(FileT) /\ (m = <<>> => Len(j.moved) = 1)
    BY FrontTyped DEF RecordOK
  <1> HIDE DEF m
  <1>2. /\ DOMAIN r = AllFields /\ r.kind = j.kind /\ r.content = j.content
        /\ r.before = j.before /\ r.outcome = outcome /\ r.staged = j.staged
        /\ r.moved = m /\ r.base = j.base /\ r.todo = j.todo
    BY DEF RecordOK, AllFields
  <1>3. next \in {"unlock", "rollback"} /\ (next = "rollback" => m # <<>>)
    BY <1>1
  <1> HIDE DEF r, next
  <1>4. RecordOK(r, next)
    BY <1>1, <1>2, <1>3 DEF RecordOK
  <1> QED
    BY <1>2, <1>4 DEF r, m, next

LEMMA RollbackEffect ==
    ASSUME Shape, Typed, NEW p \in Procs, Rollback(p)
    PROVE  LET f == Last(job[p].moved)
           IN  /\ \/ ~exists /\ UNCHANGED disk
                  \/ exists /\ f = Followups /\ Put("followups", job[p].base)
                  \/ exists /\ f # Followups /\ Has("artifacts")
                            /\ Put("artifacts", disk["artifacts"] \ {f})
                  \/ ~Has("artifacts") /\ UNCHANGED disk
               /\ pc'[p] = IF Len(job[p].moved) = 1 THEN "unlock" ELSE "rollback"
               /\ Same(p) /\ job'[p].moved = Front(job[p].moved)
               /\ job'[p].staged = job[p].staged /\ job'[p].base = job[p].base
               /\ job'[p].outcome = job[p].outcome
               /\ RecordOK(job'[p], pc'[p]) /\ DiskOK'
  <1> DEFINE f == Last(job[p].moved)
             next == IF Len(job[p].moved) = 1 THEN "unlock" ELSE "rollback"
             r == [job[p] EXCEPT !.moved = Front(@), !.outcome = job[p].outcome]
  <1>1. /\ \/ ~exists /\ UNCHANGED disk
           \/ exists /\ f = Followups /\ Put("followups", job[p].base)
           \/ exists /\ f # Followups /\ Has("artifacts")
                     /\ Put("artifacts", disk["artifacts"] \ {f})
           \/ ~Has("artifacts") /\ UNCHANGED disk
        /\ Goto(p, next) /\ pc[p] = "rollback"
    BY DEF Rollback
  <1>2. RecordOK(job[p], "rollback") /\ DiskOK
    BY <1>1 DEF Typed, JobsOK
  <1>3. [job[p] EXCEPT !.moved = Front(@)] = r
    BY <1>2 DEF RecordOK
  <1>4. Becomes(p, r)
    BY <1>3 DEF Rollback
  <1>5. job'[p] = r /\ pc'[p] = next
    BY <1>1, <1>4, GotoOnly, BecomesOnly
  <1>6. job[p].outcome \in Outcomes
    BY <1>2 DEF RecordOK
  <1>7. /\ RecordOK(r, next)
        /\ r.kind = job[p].kind /\ r.content = job[p].content /\ r.before = job[p].before
        /\ r.moved = Front(job[p].moved) /\ r.staged = job[p].staged /\ r.base = job[p].base
        /\ r.outcome = job[p].outcome
    BY <1>2, <1>6, TakeBack
  <1>8. DiskOK'
    <2>1. ASSUME UNCHANGED disk PROVE DiskOK'
      BY <1>2, <2>1, KeptDisk
    <2>2. ASSUME Put("followups", job[p].base) PROVE DiskOK'
      BY <1>2, <2>2, PutTyped, PartsAre DEF RecordOK, PartOK
    <2>3. ASSUME Has("artifacts"), Put("artifacts", disk["artifacts"] \ {f}) PROVE DiskOK'
      <3>1. disk["artifacts"] \ {f} \in SUBSET FileT
        BY <1>2, <2>3, PartsAre DEF DiskOK, PartOK
      <3> QED
        BY <1>2, <2>3, <3>1, PutTyped, PartsAre DEF PartOK
    <2> QED
      BY <1>1, <2>1, <2>2, <2>3
  <1> HIDE DEF r
  <1> QED
    BY <1>1, <1>5, <1>7, <1>8 DEF Same

LEMMA RollbackFailsEffect ==
    ASSUME Shape, Typed, NEW p \in Procs, RollbackFails(p)
    PROVE  /\ UNCHANGED disk /\ LeavesUnanswered(p)
           /\ pc'[p] = IF Len(job[p].moved) = 1 THEN "unlock" ELSE "rollback"
           /\ Same(p) /\ job'[p].moved = Front(job[p].moved)
           /\ job'[p].staged = job[p].staged /\ job'[p].base = job[p].base
           /\ job'[p].outcome = "unclear"
           /\ RecordOK(job'[p], pc'[p])
  <1> DEFINE next == IF Len(job[p].moved) = 1 THEN "unlock" ELSE "rollback"
             r == [job[p] EXCEPT !.moved = Front(@), !.outcome = "unclear"]
  <1>1. /\ UNCHANGED disk /\ LeavesUnanswered(p)
        /\ Goto(p, next) /\ pc[p] = "rollback" /\ Becomes(p, r)
    BY DEF RollbackFails, tree
  <1>2. RecordOK(job[p], "rollback")
    BY <1>1 DEF Typed, JobsOK
  <1>3. job'[p] = r /\ pc'[p] = next
    BY <1>1, GotoOnly, BecomesOnly
  <1>4. /\ RecordOK(r, next)
        /\ r.kind = job[p].kind /\ r.content = job[p].content /\ r.before = job[p].before
        /\ r.moved = Front(job[p].moved) /\ r.staged = job[p].staged /\ r.base = job[p].base
        /\ r.outcome = "unclear"
    <2>1. "unclear" \in Outcomes
      BY DEF Outcomes
    <2> QED
      BY <1>2, <2>1, TakeBack
  <1> HIDE DEF r
  <1> QED
    BY <1>1, <1>3, <1>4 DEF Same

\* A line more in the log, whole or torn.
Logged(p) == NewEvent(job[p].kind, job[p].content, Refs(p))

LEMMA AppendEffect ==
    ASSUME Shape, Typed, NEW p \in Procs, AppendEvent(p), ~Fail(p)
    PROVE  /\ Has("events") /\ pc[p] = "append" /\ pc'[p] = "status" /\ UNCHANGED job
           /\ RecordOK(job'[p], pc'[p])
           /\ DiskOK' /\ \A part \in Parts \ {"events"} : disk'[part] = disk[part]
           /\ disk'["events"].lines = Append(Lines, Logged(p)) /\ Logged(p) \in EventT
           /\ disk'["events"] \in EventsT
  <1> DEFINE log == [disk["events"] EXCEPT
                       !.lines = Append(@, NewEvent(job[p].kind, job[p].content, Refs(p)))]
  <1>1. /\ Has("events") /\ pc[p] = "append" /\ Goto(p, "status") /\ UNCHANGED job
        /\ Put("events", log)
    BY DEF AppendEvent
  <1>2. RecordOK(job[p], pc[p]) /\ DiskOK
    BY DEF Typed, JobsOK
  <1>3. PartOK("events", log) /\ log.lines = Append(Lines, Logged(p)) /\ Logged(p) \in EventT
    BY <1>1, <1>2, AppendTyped DEF Logged
  <1> HIDE DEF log
  <1>4. DiskOK' /\ disk'["events"] = log /\ \A part \in Parts \ {"events"} : disk'[part] = disk[part]
    BY <1>1, <1>2, <1>3, PutTyped, PartsAre
  <1>5. pc'[p] = "status"
    BY <1>1, GotoOnly
  <1>6. RecordOK(job'[p], pc'[p])
    BY <1>1, <1>2, <1>5, SameRecord
  <1> QED
    BY <1>1, <1>3, <1>4, <1>5, <1>6 DEF PartOK

LEMMA AppendUnclearEffect ==
    ASSUME Shape, Typed, NEW p \in Procs, AppendUnclear(p)
    PROVE  /\ Has("events") /\ pc[p] = "append" /\ pc'[p] = "unlock" /\ Same(p)
           /\ job'[p].outcome = "unclear" /\ LeavesUnanswered(p)
           /\ RecordOK(job'[p], pc'[p])
           /\ DiskOK' /\ \A part \in Parts \ {"events"} : disk'[part] = disk[part]
           /\ \/ disk'["events"].lines = Lines
              \/ disk'["events"].lines = Append(Lines, Logged(p)) /\ Logged(p) \in EventT
           /\ disk'["events"] \in EventsT
  <1> DEFINE log == [disk["events"] EXCEPT
                       !.lines = Append(@, NewEvent(job[p].kind, job[p].content, Refs(p)))]
             torn == [disk["events"] EXCEPT !.torn = TRUE]
             r == [job[p] EXCEPT !.outcome = "unclear"]
  <1>1. /\ Has("events") /\ pc[p] = "append" /\ Goto(p, "unlock") /\ Becomes(p, r)
        /\ LeavesUnanswered(p)
        /\ UNCHANGED disk \/ Put("events", torn) \/ Put("events", log)
    BY DEF AppendUnclear
  <1>2. RecordOK(job[p], pc[p]) /\ DiskOK /\ disk["events"] \in EventsT
    BY <1>1, LogTyped DEF Typed, JobsOK
  <1>3. /\ PartOK("events", log) /\ log.lines = Append(Lines, Logged(p)) /\ Logged(p) \in EventT
        /\ PartOK("events", torn) /\ torn.lines = Lines
    BY <1>1, <1>2, AppendTyped DEF Logged
  <1>4. pc'[p] = "unlock" /\ job'[p] = r
    BY <1>1, GotoOnly, BecomesOnly
  <1>5. /\ RecordOK(r, "unlock") /\ r.kind = job[p].kind /\ r.content = job[p].content
        /\ r.before = job[p].before /\ r.outcome = "unclear"
    <2>1. "unclear" \in Outcomes /\ pc[p] \in RunHeld \ {"publish", "unpublish"}
      BY <1>1 DEF Outcomes, RunHeld
    <2> QED
      BY <1>2, <2>1, OutcomeTyped
  <1> HIDE DEF log, torn, r
  <1>6. /\ DiskOK' /\ \A part \in Parts \ {"events"} : disk'[part] = disk[part]
        /\ disk'["events"] \in {disk["events"], torn, log}
    <2>1. CASE UNCHANGED disk
      BY <1>2, <2>1, KeptDisk
    <2>2. CASE Put("events", torn)
      BY <1>2, <1>3, <2>2, PutTyped, PartsAre
    <2>3. CASE Put("events", log)
      BY <1>2, <1>3, <2>3, PutTyped, PartsAre
    <2> QED
      BY <1>1, <2>1, <2>2, <2>3
  <1> QED
    BY <1>1, <1>2, <1>3, <1>4, <1>5, <1>6 DEF PartOK, Same, Lines

LEMMA CommitDone ==
    ASSUME Shape, Typed, NEW p \in Procs, Commit(p), job[p].staged = <<>>
    PROVE  /\ UNCHANGED <<disk, job>> /\ pc[p] = "commit" /\ pc'[p] = "append"
           /\ RecordOK(job'[p], pc'[p])
  <1>1. UNCHANGED <<disk, job>> /\ Goto(p, "append") /\ pc[p] = "commit"
    BY DEF Commit
  <1>2. pc'[p] = "append" /\ RecordOK(job[p], pc[p])
    BY <1>1, GotoOnly DEF Typed, JobsOK
  <1> QED
    BY <1>1, <1>2, SameRecord

LEMMA StatusEffect ==
    ASSUME Shape, Typed, NEW p \in Procs, WriteStatus(p) \/ StatusFails(p)
    PROVE  /\ pc[p] = "status" /\ pc'[p] = "unlock" /\ Same(p)
           /\ job'[p].moved = job[p].moved /\ job'[p].staged = job[p].staged
           /\ job'[p].outcome \in {"ok", "unclear"}
           /\ RecordOK(job'[p], pc'[p]) /\ DiskOK'
           /\ \A part \in Parts \ {"status"} : disk'[part] = disk[part]
           /\ UNCHANGED disk \/ disk'["status"] \in Nat
           /\ exists' = exists \/ exists'
  <1> DEFINE outcome == IF WriteStatus(p) THEN "ok" ELSE "unclear"
             r == [job[p] EXCEPT !.outcome = outcome]
  <1>1. /\ pc[p] = "status" /\ Goto(p, "unlock") /\ Becomes(p, r) /\ (exists' = exists \/ exists')
        /\ \/ UNCHANGED disk
           \/ Put("status", IF Has("events") THEN Sequence ELSE 0)
    BY DEF WriteStatus, StatusFails, tree
  <1>2. pc'[p] = "unlock" /\ job'[p] = r
    BY <1>1, GotoOnly, BecomesOnly
  <1>3. RecordOK(job[p], "status") /\ DiskOK
    BY <1>1 DEF Typed, JobsOK
  <1>4. /\ RecordOK(r, "unlock") /\ r.kind = job[p].kind /\ r.content = job[p].content
        /\ r.before = job[p].before /\ r.outcome = outcome /\ r.moved = job[p].moved
        /\ r.staged = job[p].staged
    <2>1. outcome \in Outcomes /\ "status" \in RunHeld \ {"publish", "unpublish"}
      BY DEF Outcomes, RunHeld
    <2> QED
      BY <1>3, <2>1, OutcomeTyped
  <1>5. outcome \in {"ok", "unclear"}
    OBVIOUS
  <1>6. /\ DiskOK' /\ \A part \in Parts \ {"status"} : disk'[part] = disk[part]
        /\ UNCHANGED disk \/ disk'["status"] \in Nat
    <2> DEFINE length == IF Has("events") THEN Sequence ELSE 0
    <2>1. length \in Nat /\ "status" \in Parts
      BY <1>3, LogTyped, PartsAre
    <2> HIDE DEF length
    <2>2. PartOK("status", length)
      BY <2>1 DEF PartOK
    <2>3. CASE Put("status", length)
      BY <1>3, <2>1, <2>2, <2>3, PutTyped
    <2>4. CASE UNCHANGED disk
      BY <1>3, <2>4, KeptDisk
    <2> QED
      BY <1>1, <2>3, <2>4 DEF length
  <1> HIDE DEF r, outcome
  <1> QED
    BY <1>1, <1>2, <1>4, <1>5, <1>6 DEF Same

\* A step of a configuration snapshot that does not fail.
LEMMA ConfigEffect ==
    ASSUME Shape, Typed, NEW p \in Procs, ~Fail(p),
           WriteResolved(p) \/ WriteManifest(p) \/ WriteCurrent(p)
    PROVE  /\ DiskOK' /\ \A part \in Parts \ {"config"} : disk'[part] = disk[part]
           /\ pc[p] \in {"resolved", "manifest", "current"}
           /\ \/ UNCHANGED job /\ pc'[p] \in {"manifest", "current"}
              \/ UNCHANGED job /\ pc'[p] = "append" /\ job[p].kind = "refresh"
              \/ /\ Same(p) /\ job'[p].moved = job[p].moved /\ job'[p].staged = job[p].staged
                 /\ pc'[p] = "unlock" /\ job'[p].outcome = "ok"
           /\ RecordOK(job'[p], pc'[p])
  <1> DEFINE r == [job[p] EXCEPT !.outcome = "ok"]
  <1>1. /\ pc[p] \in {"resolved", "manifest", "current"}
        /\ \E content : Put("config", content)
        /\ \/ UNCHANGED job /\ (Goto(p, "manifest") \/ Goto(p, "current"))
           \/ UNCHANGED job /\ Goto(p, "append") /\ job[p].kind = "refresh"
           \/ Becomes(p, r) /\ Goto(p, "unlock")
    BY DEF WriteResolved, WriteManifest, WriteCurrent
  <1>2. RecordOK(job[p], pc[p]) /\ DiskOK
    BY DEF Typed, JobsOK
  <1>3. DiskOK' /\ \A part \in Parts \ {"config"} : disk'[part] = disk[part]
    <2>1. PICK content : Put("config", content)
      BY <1>1
    <2>2. PartOK("config", content)
      BY DEF PartOK
    <2> QED
      BY <1>2, <2>1, <2>2, PutTyped, PartsAre
  <1>4. CASE UNCHANGED job /\ (Goto(p, "manifest") \/ Goto(p, "current"))
    <2>1. pc'[p] \in {"manifest", "current"}
      BY <1>4, GotoOnly
    <2> QED
      BY <1>1, <1>2, <1>3, <1>4, <2>1, SameRecord
  <1>5. CASE UNCHANGED job /\ Goto(p, "append") /\ job[p].kind = "refresh"
    <2>1. pc'[p] = "append"
      BY <1>5, GotoOnly
    <2> QED
      BY <1>1, <1>2, <1>3, <1>5, <2>1, SameRecord
  <1>6. CASE Becomes(p, r) /\ Goto(p, "unlock")
    <2>1. pc'[p] = "unlock" /\ job'[p] = r
      BY <1>6, GotoOnly, BecomesOnly
    <2>2. "ok" \in Outcomes /\ pc[p] \in RunHeld \ {"publish", "unpublish"}
      BY <1>1 DEF Outcomes, RunHeld
    <2>3. /\ RecordOK(r, "unlock") /\ r.kind = job[p].kind /\ r.content = job[p].content
          /\ r.before = job[p].before /\ r.outcome = "ok" /\ r.moved = job[p].moved
          /\ r.staged = job[p].staged
      BY <1>2, <2>2, OutcomeTyped
    <2> HIDE DEF r
    <2> QED
      BY <1>1, <1>3, <2>1, <2>3 DEF Same
  <1> QED
    BY <1>1, <1>4, <1>5, <1>6

\* The steps outside an operation on the published run.
LEMMA FreshOK ==
    ASSUME NEW part \in Parts
    PROVE  PartOK(part, Fresh(part))
  <1>1. Fresh("artifacts") = {} /\ Fresh("followups") = <<>> /\ Fresh("status") = 1
    BY DEF Fresh
  <1>2. Fresh("events") = [lines |-> <<NewEvent("start", 0, {})>>, torn |-> FALSE]
    BY DEF Fresh
  <1>3. NewEvent("start", 0, {}) \in EventT
    BY DEF NewEvent, EventT, Kinds
  <1>4. Fresh("events") \in EventsT
    <2>1. <<NewEvent("start", 0, {})>> \in Seq(EventT)
      BY <1>3, SingletonTyped
    <2>2. \A S : \A t \in S : [lines |-> t, torn |-> FALSE] \in [lines : S, torn : BOOLEAN]
      OBVIOUS
    <2> QED
      BY <1>2, <2>1, <2>2 DEF EventsT
  <1>5. <<>> \in Seq(EntryT) /\ {} \in SUBSET FileT /\ 1 \in Nat
    OBVIOUS
  <1> QED
    BY <1>1, <1>4, <1>5 DEF PartOK

LEMMA PublishPart ==
    ASSUME Shape, Typed, NEW p \in Procs, Publish(p), UNCHANGED pc
    PROVE  /\ pc[p] = "publish" /\ UNCHANGED <<job, exists>>
           /\ RecordOK(job'[p], pc'[p]) /\ DiskOK'
           /\ \E i \in 1..5 :
                 /\ ~Has(Layout[i]) /\ \A k \in 1..(i - 1) : Has(Layout[k])
                 /\ Put(Layout[i], Fresh(Layout[i]))
  <1>1. pc[p] = "publish" /\ UNCHANGED exists
    BY DEF Publish
  <1>2. ~Goto(p, "runs")
    BY <1>1 DEF Goto, Shape
  <1>3. DOMAIN Layout = 1..5
    BY DEF Layout
  <1>4. PICK i \in 1..5 :
             /\ ~Has(Layout[i]) /\ \A k \in 1..(i - 1) : Has(Layout[k])
             /\ Put(Layout[i], Fresh(Layout[i]))
             /\ UNCHANGED job
    BY <1>2, <1>3 DEF Publish
  <1>5. Layout[i] \in Parts
    BY <1>3 DEF Parts, Range
  <1>6. DiskOK'
    BY <1>4, <1>5, FreshOK, PutTyped DEF Typed
  <1>7. RecordOK(job'[p], pc'[p])
    BY <1>4 DEF Typed, JobsOK
  <1> QED
    BY <1>1, <1>4, <1>6, <1>7

LEMMA TodoTyped ==
    ASSUME NEW todo \in Seq(Range(StartSteps)), todo # <<>>
    PROVE  /\ Head(todo) \in Kinds \ {"none", "start"} /\ Tail(todo) \in Seq(Range(StartSteps))
           /\ Head(todo) \in Range(StartSteps)
  <1>1. Head(todo) \in Range(StartSteps) /\ Tail(todo) \in Seq(Range(StartSteps))
    OBVIOUS
  <1> QED
    BY <1>1, StartStepsKinds, StartNotAStep DEF Kinds

LEMMA PublishEnd ==
    ASSUME IInv, Typed, NEW p \in Procs, Publish(p), ~UNCHANGED pc
    PROVE  /\ pc[p] = "publish" /\ UNCHANGED <<disk, exists>> /\ pc'[p] = "runs"
           /\ \A part \in Parts : Has(part)
           /\ RecordOK(job'[p], pc'[p])
           /\ job'[p].kind \in Range(StartSteps) /\ job'[p].before = job[p].before
           /\ job'[p].moved = job[p].moved /\ job'[p].staged = job[p].staged
           /\ job'[p].outcome = job[p].outcome
  <1> DEFINE head == Head(job[p].todo)
             tail == Tail(job[p].todo)
             r == [job[p] EXCEPT !.kind = head, !.todo = tail]
  <1>1. /\ pc[p] = "publish" /\ UNCHANGED <<disk, exists>> /\ Goto(p, "runs")
        /\ \A part \in Parts : Has(part)
        /\ Becomes(p, [job[p] EXCEPT !.kind = Head(job[p].todo), !.todo = Tail(@)])
    BY DEF Publish
  <1>2. Shape /\ job[p].todo # <<>> /\ RecordOK(job[p], pc[p])
    BY <1>1 DEF IInv, Todo, Typed, JobsOK
  <1>3. [job[p] EXCEPT !.kind = Head(job[p].todo), !.todo = Tail(@)] = r
    BY <1>2 DEF RecordOK, AllFields
  <1>4. pc'[p] = "runs" /\ job'[p] = r
    BY <1>1, <1>2, <1>3, GotoOnly, BecomesOnly
  <1>5. /\ head \in Kinds \ {"none", "start"} /\ head \in Range(StartSteps)
        /\ tail \in Seq(Range(StartSteps))
    BY <1>2, TodoTyped DEF RecordOK
  <1> HIDE DEF head, tail
  <1>6. /\ DOMAIN r = AllFields /\ r.kind = head /\ r.content = job[p].content
        /\ r.before = job[p].before /\ r.outcome = job[p].outcome /\ r.staged = job[p].staged
        /\ r.moved = job[p].moved /\ r.base = job[p].base /\ r.todo = tail
    BY <1>2 DEF RecordOK, AllFields
  <1> HIDE DEF r
  <1>7. RecordOK(r, "runs")
    BY <1>2, <1>5, <1>6 DEF RecordOK
  <1> QED
    BY <1>1, <1>4, <1>5, <1>6, <1>7

LEMMA BeginEffect ==
    ASSUME Shape, Typed, NEW p \in Procs, NEW kind \in Commands \union {"start"},
           ops \in Nat, Begin(p, kind)
    PROVE  /\ pc[p] = "idle" /\ pc'[p] = "runs" /\ UNCHANGED <<disk, exists>>
           /\ ops' = ops + 1
           /\ job'[p].kind = kind
           /\ job'[p].content =
                 IF kind = "report" /\ Has("events") THEN ActiveAttempt ELSE ops + 1
           /\ job'[p].before = <<>> /\ job'[p].moved = <<>> /\ job'[p].staged = <<>>
           /\ job'[p].outcome = "none"
           /\ RecordOK(job'[p], pc'[p])
  <1> DEFINE todo == IF kind = "start" THEN StartSteps ELSE <<>>
             version == IF kind = "refresh" THEN Current + 1 ELSE 1
             content == IF kind = "report" /\ Has("events") THEN ActiveAttempt ELSE ops + 1
             r == [NoJob EXCEPT !.kind = kind, !.todo = todo, !.version = version,
                                !.content = content]
  <1>1. /\ pc[p] = "idle" /\ Goto(p, "runs") /\ UNCHANGED <<disk, exists>> /\ ops' = ops + 1
        /\ Becomes(p, r)
    BY DEF Begin, tree
  <1>2. pc'[p] = "runs" /\ job'[p] = r
    BY <1>1, GotoOnly, BecomesOnly
  <1>3. kind \in Kinds \ {"none"}
    BY StepsAssumption DEF Kinds
  <1>4. todo \in Seq(Range(StartSteps))
    <2>1. StartSteps \in Seq(Range(StartSteps)) /\ <<>> \in Seq(Range(StartSteps))
      BY StepsAssumption DEF Range
    <2> QED
      BY <2>1
  <1>5. content \in Nat
    BY LogTyped DEF Typed
  <1>6. /\ NoJob.outcome = "none" /\ NoJob.before = <<>> /\ NoJob.staged = <<>>
        /\ NoJob.moved = <<>> /\ DOMAIN NoJob = AllFields
    BY DEF NoJob, AllFields
  <1> HIDE DEF todo, version, content
  <1>7. RecordOK(r, "runs")
    BY <1>3, <1>4, <1>5, NewRecordOK
  <1>8. /\ r.kind = kind /\ r.content = content /\ r.before = <<>> /\ r.moved = <<>>
        /\ r.staged = <<>> /\ r.outcome = "none"
    BY <1>6 DEF AllFields
  <1> HIDE DEF r
  <1> QED
    BY <1>1, <1>2, <1>7, <1>8 DEF content

\* A new record that carries no more than its kind and content.
LEMMA PlainRecord ==
    ASSUME NEW kind, NEW content
    PROVE  LET s == [NoJob EXCEPT !.kind = kind, !.content = content]
           IN  /\ s.kind = kind /\ s.content = content /\ s.before = <<>> /\ s.moved = <<>>
               /\ s.staged = <<>> /\ s.outcome = "none"
  <1>1. /\ NoJob.outcome = "none" /\ NoJob.before = <<>> /\ NoJob.staged = <<>>
        /\ NoJob.moved = <<>> /\ DOMAIN NoJob = AllFields
    BY DEF NoJob, AllFields
  <1> QED
    BY <1>1 DEF AllFields

LEMMA AgainEffect ==
    ASSUME Shape, Typed, NEW p \in Procs, ReportAgain(p)
    PROVE  /\ pc[p] = "idle" /\ pc'[p] = "runs" /\ UNCHANGED <<disk, exists>>
           /\ ops' = ops + 1
           /\ job'[p].kind = "report" /\ job'[p].content = job[p].content
           /\ job'[p].before = <<>> /\ job'[p].moved = <<>> /\ job'[p].staged = <<>>
           /\ job'[p].outcome = "none"
           /\ RecordOK(job'[p], pc'[p])
  <1> DEFINE r == [NoJob EXCEPT !.kind = "report", !.content = job[p].content]
  <1>1. /\ pc[p] = "idle" /\ Goto(p, "runs") /\ UNCHANGED <<disk, exists>> /\ ops' = ops + 1
        /\ Becomes(p, r) /\ job[p].kind = "report"
    BY DEF ReportAgain, tree
  <1>2. pc'[p] = "runs" /\ job'[p] = r
    BY <1>1, GotoOnly, BecomesOnly
  <1>3. "report" \in Kinds \ {"none"} /\ job[p].content \in Nat /\ <<>> \in Seq(Range(StartSteps))
    BY <1>1 DEF Typed, JobsOK, RecordOK
  <1>4. RecordOK(r, "runs")
    BY <1>3, NewRecordOK
  <1>5. /\ r.kind = "report" /\ r.content = job[p].content /\ r.before = <<>> /\ r.moved = <<>>
        /\ r.staged = <<>> /\ r.outcome = "none"
    BY PlainRecord
  <1> HIDE DEF r
  <1> QED
    BY <1>1, <1>2, <1>4, <1>5

\* A command that returns remembers nothing but the report it made.
LEMMA ReturnEffect ==
    ASSUME Shape, NEW p \in Procs, RecordOK(job[p], pc[p]), NEW next \in {"idle", "cleanup"},
           Goto(p, next), NEW outcome, Becomes(p, Returned(p, outcome))
    PROVE  /\ pc'[p] = next /\ RecordOK(job'[p], pc'[p])
           /\ job'[p].kind = "none" \/ job'[p].kind = "report"
  <1>1. pc'[p] = next /\ job'[p] = Returned(p, outcome)
    BY GotoOnly, BecomesOnly
  <1>2. Returned(p, outcome).kind \in {"none", "report"}
    BY PlainRecord DEF Returned, NoJob
  <1> QED
    BY <1>1, <1>2, ReturnedOK

\* The steps that change neither the disk nor a record but to return.
Turning(p) ==
    \/ LockRuns(p) \/ Validate(p) \/ LockRun(p) \/ GiveUp(p) \/ Reserve(p) \/ PublishFails(p)

LEMMA TurningEffect ==
    ASSUME IInv, Typed, NEW p \in Procs, Turning(p)
    PROVE  /\ UNCHANGED disk /\ (exists' = exists \/ exists')
           /\ pc[p] \in {"runs", "validate", "run", "reserve", "publish"}
           /\ \/ /\ UNCHANGED job
                 /\ pc'[p] \in {"reserve", "validate", "run", "load", "publish", "unpublish"}
                 /\ pc'[p] = "publish" => exists'
              \/ pc'[p] \in {"idle", "cleanup"} /\ job'[p].kind \in {"none", "report"}
           /\ RecordOK(job'[p], pc'[p])
  <1>1. Shape /\ RecordOK(job[p], pc[p])
    BY DEF IInv, Typed, JobsOK
  <1>2. CASE LockRuns(p)
    <2>1. /\ UNCHANGED <<disk, exists, job>> /\ pc[p] = "runs"
          /\ pc'[p] = IF job[p].kind = "start" THEN "reserve" ELSE "validate"
      BY <1>1, <1>2, GotoOnly DEF LockRuns, tree
    <2> QED
      BY <1>1, <2>1 DEF RecordOK
  <1>3. CASE Validate(p) /\ exists
    <2>1. /\ UNCHANGED <<disk, exists, job>> /\ pc[p] = "validate" /\ pc'[p] = "run"
      BY <1>1, <1>3, GotoOnly DEF Validate, tree
    <2> QED
      BY <1>1, <2>1, SameRecord
  <1>4. CASE \/ Validate(p) /\ ~exists
             \/ GiveUp(p)
    <2>1. /\ UNCHANGED <<disk, exists>> /\ pc[p] \in {"runs", "validate", "run"}
          /\ Becomes(p, Returned(p, "failed"))
          /\ \E next \in {"idle", "cleanup"} : Goto(p, next)
      BY <1>4 DEF Validate, GiveUp, tree
    <2> QED
      BY <1>1, <2>1, ReturnEffect
  <1>5. CASE LockRun(p)
    <2>1. /\ UNCHANGED <<disk, exists, job>> /\ pc[p] = "run" /\ pc'[p] = "load"
      BY <1>1, <1>5, GotoOnly DEF LockRun, tree
    <2> QED
      BY <1>1, <2>1, SameRecord
  <1>6. CASE Reserve(p)
    <2>1. /\ UNCHANGED <<disk, job>> /\ exists' /\ pc[p] = "reserve" /\ pc'[p] = "publish"
      BY <1>1, <1>6, GotoOnly DEF Reserve
    <2> QED
      BY <1>1, <2>1, SameRecord
  <1>7. CASE PublishFails(p)
    <2>1. /\ UNCHANGED <<disk, exists, job>> /\ pc[p] = "publish" /\ pc'[p] = "unpublish"
      BY <1>1, <1>7, GotoOnly DEF PublishFails, tree
    <2> QED
      BY <1>1, <2>1, SameRecord
  <1> QED
    BY <1>2, <1>3, <1>4, <1>5, <1>6, <1>7 DEF Turning

LEMMA UnlockTyped ==
    ASSUME IInv, Typed, NEW p \in Procs, Unlock(p)
    PROVE  /\ pc[p] = "unlock" /\ UNCHANGED <<disk, exists>>
           /\ \/ pc'[p] \in {"idle", "cleanup"} /\ job'[p].kind \in {"none", "report"}
              \/ /\ pc'[p] = "runs" /\ job'[p].kind \in Range(StartSteps)
                 /\ job'[p].before = <<>> /\ job'[p].moved = <<>> /\ job'[p].staged = <<>>
                 /\ job'[p].outcome = "none"
           /\ RecordOK(job'[p], pc'[p])
  <1>1. Shape /\ RecordOK(job[p], pc[p]) /\ pc[p] = "unlock" /\ UNCHANGED <<disk, exists>>
    BY DEF IInv, Typed, JobsOK, Unlock, tree
  <1>2. CASE job[p].todo = <<>> \/ job[p].outcome # "ok"
    <2>1. /\ Becomes(p, Returned(p, job[p].outcome))
          /\ \E next \in {"idle", "cleanup"} : Goto(p, next)
      BY <1>2 DEF Unlock
    <2> QED
      BY <1>1, <2>1, ReturnEffect
  <1>3. CASE ~(job[p].todo = <<>> \/ job[p].outcome # "ok")
    <2> DEFINE head == Head(job[p].todo)
               tail == Tail(job[p].todo)
               r == [NoJob EXCEPT !.kind = head, !.todo = tail, !.version = 1,
                                  !.content = job[p].content]
    <2>1. Goto(p, "runs") /\ Becomes(p, r)
      BY <1>3 DEF Unlock
    <2>2. pc'[p] = "runs" /\ job'[p] = r
      BY <1>1, <2>1, GotoOnly, BecomesOnly
    <2>3. /\ head \in Kinds \ {"none", "start"} /\ head \in Range(StartSteps)
          /\ tail \in Seq(Range(StartSteps)) /\ job[p].content \in Nat
      BY <1>1, <1>3, TodoTyped DEF RecordOK
    <2> HIDE DEF head, tail
    <2>4. RecordOK(r, "runs")
      BY <2>3, NewRecordOK
    <2>5. /\ NoJob.outcome = "none" /\ NoJob.before = <<>> /\ NoJob.staged = <<>>
          /\ NoJob.moved = <<>> /\ DOMAIN NoJob = AllFields
      BY DEF NoJob, AllFields
    <2>6. /\ r.kind = head /\ r.before = <<>> /\ r.moved = <<>> /\ r.staged = <<>>
          /\ r.outcome = "none"
      BY <2>5 DEF AllFields
    <2> HIDE DEF r
    <2> QED
      BY <1>1, <2>2, <2>3, <2>4, <2>6
  <1> QED
    BY <1>2, <1>3

\* The steps that remove a run.
Removing(p) ==
    \/ Unpublish(p) \/ RemoveLock(p) \/ RemoveDir(p) \/ RemovalFails(p)
    \/ \E part \in Parts : RemovePart(p, part)

LEMMA RemovingEffect ==
    ASSUME IInv, Typed, NEW p \in Procs, Removing(p)
    PROVE  removing' /\ RecordOK(job'[p], pc'[p]) /\ DiskOK'
  <1>1. Shape /\ RecordOK(job[p], pc[p]) /\ DiskOK
    BY DEF IInv, Typed, JobsOK
  <1>2. CASE Unpublish(p)
    <2>1. /\ removing' /\ disk' = [part \in Parts |-> Absent]
          /\ pc'[p] = "idle" /\ job'[p] = NoJob
      BY <1>1, <1>2, GotoOnly, BecomesOnly DEF Unpublish
    <2> QED
      BY <2>1, NoJobOK DEF DiskOK, Has
  <1>3. ASSUME NEW part \in Parts, RemovePart(p, part)
        PROVE  removing' /\ RecordOK(job'[p], pc'[p]) /\ DiskOK'
    <2>1. removing' /\ UNCHANGED <<pc, job>> /\ disk' = [disk EXCEPT ![part] = Absent]
      BY <1>3 DEF RemovePart, Put
    <2> QED
      BY <1>1, <2>1 DEF DiskOK, Has
  <1>4. CASE RemoveLock(p) \/ RemoveDir(p) \/ RemovalFails(p)
    <2>1. /\ removing' /\ UNCHANGED <<disk, job>> /\ pc[p] = "cleanup"
          /\ UNCHANGED pc \/ Goto(p, "idle")
      BY <1>4 DEF RemoveLock, RemoveDir, RemovalFails, tree
    <2>2. pc'[p] \in {"idle", "cleanup"}
      BY <1>1, <2>1, GotoOnly
    <2> QED
      BY <1>1, <2>1, <2>2, SameRecord, KeptDisk
  <1> QED
    BY <1>2, <1>3, <1>4 DEF Removing

LEMMA CrashEffect ==
    ASSUME IInv, Typed, NEW p \in Procs, Crash(p)
    PROVE  /\ pc'[p] = "idle" /\ job'[p].kind \in {"none", "report"} /\ UNCHANGED exists
           /\ RecordOK(job'[p], pc'[p]) /\ LeavesUnanswered(p) /\ DiskOK'
           /\ \/ UNCHANGED disk
              \/ /\ pc[p] = "append" /\ Has("events")
                 /\ \A part \in Parts \ {"events"} : disk'[part] = disk[part]
                 /\ disk'["events"] \in EventsT /\ disk'["events"].lines = Lines
  <1> DEFINE torn == [disk["events"] EXCEPT !.torn = TRUE]
  <1>1. Shape /\ RecordOK(job[p], pc[p]) /\ DiskOK
    BY DEF IInv, Typed, JobsOK
  <1>2. /\ Goto(p, "idle") /\ Becomes(p, Returned(p, "died")) /\ LeavesUnanswered(p)
        /\ UNCHANGED exists
        /\ UNCHANGED disk \/ (pc[p] = "append" /\ Has("events") /\ Put("events", torn))
    BY DEF Crash
  <1>3. /\ pc'[p] = "idle" /\ RecordOK(job'[p], pc'[p])
        /\ job'[p].kind \in {"none", "report"}
    BY <1>1, <1>2, ReturnEffect
  <1>4. CASE UNCHANGED disk
    BY <1>1, <1>2, <1>3, <1>4, KeptDisk
  <1>5. CASE pc[p] = "append" /\ Has("events") /\ Put("events", torn)
    <2>1. PartOK("events", torn) /\ torn.lines = Lines
      BY <1>1, <1>5, AppendTyped
    <2> HIDE DEF torn
    <2>2. /\ DiskOK' /\ disk'["events"] = torn
          /\ \A part \in Parts \ {"events"} : disk'[part] = disk[part]
      BY <1>1, <1>5, <2>1, PutTyped, PartsAre
    <2> QED
      BY <1>2, <1>3, <1>5, <2>1, <2>2 DEF PartOK
  <1> QED
    BY <1>2, <1>4, <1>5

\* An operation that fails changes nothing on the disk.
Failing(p) ==
    /\ Fail(p)
    /\ \/ Load(p) \/ Stage(p) \/ Commit(p) \/ AppendEvent(p) \/ CallFails(p)
       \/ WriteResolved(p) \/ WriteManifest(p) \/ WriteCurrent(p)

LEMMA FailingEffect ==
    ASSUME Shape, Typed, NEW p \in Procs, Failing(p)
    PROVE  /\ UNCHANGED <<disk, exists, unanswered, removing, ops>>
           /\ pc[p] \in RunHeld \ {"publish", "unpublish", "rollback", "unlock", "status"}
           /\ pc'[p] = IF job[p].moved # <<>> THEN "rollback" ELSE "unlock"
           /\ Same(p) /\ job'[p].moved = job[p].moved /\ job'[p].staged = <<>>
           /\ job'[p].base = job[p].base /\ job'[p].outcome = "failed"
           /\ RecordOK(job'[p], pc'[p])
  <1> DEFINE r == [job[p] EXCEPT !.outcome = "failed", !.staged = <<>>]
  <1>1. RecordOK(job[p], pc[p])
    BY DEF Typed, JobsOK
  <1>2. pc[p] \in RunHeld \ {"publish", "unpublish", "rollback", "unlock", "status"}
    BY DEF Failing, Load, Stage, Commit, AppendEvent, CallFails, WriteResolved, WriteManifest,
           WriteCurrent, RunHeld
  <1>3. Fail(p)
    BY DEF Failing
  <1>4. /\ RecordOK(job'[p], pc'[p]) /\ job'[p] = r
        /\ pc'[p] = IF job[p].moved # <<>> THEN "rollback" ELSE "unlock"
    BY <1>1, <1>2, <1>3, FailTyped
  <1>5. /\ r.kind = job[p].kind /\ r.content = job[p].content /\ r.before = job[p].before
        /\ r.outcome = "failed" /\ r.moved = job[p].moved /\ r.staged = <<>>
        /\ r.base = job[p].base
    BY <1>1 DEF RecordOK, AllFields
  <1>6. pc'[p] \in {"rollback", "unlock"} /\ job'[p].outcome = "failed"
    BY <1>4, <1>5
  <1>7. UNCHANGED <<exists, unanswered, removing, ops>>
    BY DEF Failing, Load, Stage, Commit, AppendEvent, CallFails, WriteResolved, WriteManifest,
           WriteCurrent, tree, bounds, Steady
  <1>8. UNCHANGED disk
    <2>1. CASE Load(p) \/ CallFails(p)
      BY <2>1 DEF Load, CallFails, tree
    <2>2. CASE Stage(p)
      BY <1>6, <2>2, GotoOnly DEF Stage
    <2>3. CASE Commit(p)
      BY <1>2, <1>6, <2>3, GotoOnly DEF Commit
    <2>4. CASE AppendEvent(p)
      BY <1>6, <2>4, GotoOnly DEF AppendEvent
    <2>5. CASE WriteResolved(p)
      BY <1>6, <2>5, GotoOnly DEF WriteResolved
    <2>6. CASE WriteManifest(p)
      BY <1>6, <2>6, GotoOnly DEF WriteManifest
    <2>7. CASE WriteCurrent(p)
      <3>1. CASE job[p].kind = "refresh"
        BY <1>6, <2>7, <3>1, GotoOnly DEF WriteCurrent
      <3>2. CASE job[p].kind # "refresh"
        <4> DEFINE t == [job[p] EXCEPT !.outcome = "ok"]
        <4>1. t.outcome = "ok"
          BY <1>1 DEF RecordOK, AllFields
        <4>2. UNCHANGED disk \/ Becomes(p, t)
          BY <2>7, <3>2 DEF WriteCurrent
        <4> HIDE DEF t
        <4>3. CASE Becomes(p, t)
          BY <1>6, <4>1, <4>3, BecomesOnly
        <4> QED
          BY <4>2, <4>3
      <3> QED
        BY <3>1, <3>2
    <2> QED
      BY <2>1, <2>2, <2>3, <2>4, <2>5, <2>6, <2>7 DEF Failing
  <1> HIDE DEF r
  <1> QED
    BY <1>2, <1>4, <1>5, <1>7, <1>8 DEF Same

LEMMA LoadKinds ==
    ASSUME NEW j, RecordOK(j, "stage"), j.kind \notin {"load", "event", "config", "refresh"}
    PROVE  j.kind \in Exclusive \union {"followup", "report"}
  <1>1. j.kind \in Kinds \ {"none", "start"}
    BY DEF RecordOK
  <1>2. j.kind \in StartKinds \union {"load", "event", "summary", "followup", "report", "refresh"}
    BY <1>1, StepsAssumption, StartStepsKinds DEF Kinds
  <1> QED
    BY <1>2 DEF StartKinds, Exclusive, Singletons

-----------------------------------------------------------------------------
(* Every step keeps the types.                                             *)

\* A step does one of these.
LEMMA Steps ==
    ASSUME IInv, NEW p \in Procs, Step(p) \/ FaultyStep(p)
    PROVE  \/ Turning(p) \/ Publish(p) \/ Unlock(p) \/ Removing(p) \/ Crash(p)
           \/ Failing(p)
           \/ (Load(p) \/ Stage(p) \/ Commit(p) \/ AppendEvent(p)) /\ ~Fail(p)
           \/ (WriteResolved(p) \/ WriteManifest(p) \/ WriteCurrent(p)) /\ ~Fail(p)
           \/ Rollback(p) \/ RollbackFails(p) \/ AppendUnclear(p)
           \/ WriteStatus(p) \/ StatusFails(p)
  <1>1. CASE LockStep(p)
    BY <1>1 DEF LockStep, Turning
  <1>2. CASE StartStep(p)
    BY <1>2 DEF StartStep, Turning, Removing
  <1>3. CASE FileStep(p)
    BY <1>3 DEF FileStep, Failing
  <1>4. CASE FaultyStep(p)
    <2>1. CallFails(p) => Fail(p)
      BY DEF CallFails
    <2> QED
      BY <1>4, <2>1 DEF FaultyStep, Turning, Removing, Failing
  <1> QED
    BY <1>1, <1>2, <1>3, <1>4 DEF Step

\* The record a step of an operation leaves, and what is left on the disk.
LEMMA OperationTyped ==
    ASSUME Shape, Typed, NEW p \in Procs,
           job[p].kind \in Exclusive \union {"followup", "report"} \/ pc[p] # "stage",
           \/ (Load(p) \/ Stage(p) \/ Commit(p) \/ AppendEvent(p)) /\ ~Fail(p)
           \/ (WriteResolved(p) \/ WriteManifest(p) \/ WriteCurrent(p)) /\ ~Fail(p)
           \/ Rollback(p) \/ RollbackFails(p) \/ AppendUnclear(p)
           \/ WriteStatus(p) \/ StatusFails(p) \/ Failing(p)
    PROVE  RecordOK(job'[p], pc'[p]) /\ DiskOK'
  <1>1. DiskOK
    BY DEF Typed
  <1>2. CASE Load(p) /\ ~Fail(p)
    BY <1>1, <1>2, LoadEffect, KeptDisk
  <1>3. CASE Stage(p) /\ ~Fail(p)
    <2>1. pc[p] = "stage"
      BY <1>3 DEF Stage
    <2> QED
      BY <1>3, <2>1, StageEffect
  <1>4. CASE Commit(p) /\ ~Fail(p) /\ job[p].staged # <<>>
    BY <1>4, CommitEffect
  <1>5. CASE Commit(p) /\ job[p].staged = <<>>
    BY <1>1, <1>5, CommitDone, KeptDisk
  <1>6. CASE AppendEvent(p) /\ ~Fail(p)
    BY <1>6, AppendEffect
  <1>7. CASE (WriteResolved(p) \/ WriteManifest(p) \/ WriteCurrent(p)) /\ ~Fail(p)
    BY <1>7, ConfigEffect
  <1>8. CASE Rollback(p)
    BY <1>8, RollbackEffect
  <1>9. CASE RollbackFails(p)
    BY <1>1, <1>9, RollbackFailsEffect, KeptDisk
  <1>10. CASE AppendUnclear(p)
    BY <1>10, AppendUnclearEffect
  <1>11. CASE WriteStatus(p) \/ StatusFails(p)
    BY <1>11, StatusEffect
  <1>12. CASE Failing(p)
    BY <1>1, <1>12, FailingEffect, KeptDisk
  <1> QED
    BY <1>2, <1>3, <1>4, <1>5, <1>6, <1>7, <1>8, <1>9, <1>10, <1>11, <1>12

\* What is staged is a file of one of these commands.
Stager == Exclusive \union {"followup", "report"}
StagersOnly == \A p \in Procs : pc[p] = "stage" => job[p].kind \in Stager

LEMMA StagersStay ==
    ASSUME StagersOnly, NEW p \in Procs, OnlyBy(p), pc'[p] # "stage" \/ job'[p].kind \in Stager
    PROVE  StagersOnly'
  BY DEF StagersOnly, OnlyBy

TypedInv == Typed /\ StagersOnly

LEMMA StepTyped ==
    ASSUME IInv, TypedInv, NEW p \in Procs, Step(p) \/ FaultyStep(p)
    PROVE  TypedInv'
  <1>1. Shape /\ Typed /\ DiskOK /\ JobsOK /\ StagersOnly /\ OnlyBy(p)
    BY StepOnly DEF IInv, TypedInv, Typed
  <1>2. SUFFICES /\ RecordOK(job'[p], pc'[p]) /\ DiskOK'
                 /\ pc'[p] # "stage" \/ job'[p].kind \in Stager
    BY <1>1, RecordsStay, StagersStay DEF TypedInv, Typed
  <1>3. CASE Turning(p)
    BY <1>1, <1>3, TurningEffect, KeptDisk
  <1>4. CASE Publish(p)
    <2>1. CASE UNCHANGED pc
      BY <1>1, <1>4, <2>1, PublishPart
    <2>2. CASE ~UNCHANGED pc
      BY <1>1, <1>4, <2>2, PublishEnd, KeptDisk
    <2> QED
      BY <2>1, <2>2
  <1>5. CASE Unlock(p)
    BY <1>1, <1>5, UnlockTyped, KeptDisk
  <1>6. CASE Removing(p)
    <2>1. pc'[p] # "stage"
      BY <1>1, <1>6, GotoOnly
         DEF Removing, Unpublish, RemovePart, RemoveLock, RemoveDir, RemovalFails
    <2> QED
      BY <1>1, <1>6, <2>1, RemovingEffect
  <1>7. CASE Crash(p)
    BY <1>1, <1>7, CrashEffect
  <1>8. ASSUME \/ (Load(p) \/ Stage(p) \/ Commit(p) \/ AppendEvent(p)) /\ ~Fail(p)
               \/ (WriteResolved(p) \/ WriteManifest(p) \/ WriteCurrent(p)) /\ ~Fail(p)
               \/ Rollback(p) \/ RollbackFails(p) \/ AppendUnclear(p)
               \/ WriteStatus(p) \/ StatusFails(p) \/ Failing(p)
        PROVE  /\ RecordOK(job'[p], pc'[p]) /\ DiskOK'
               /\ pc'[p] # "stage" \/ job'[p].kind \in Stager
    <2>1. job[p].kind \in Exclusive \union {"followup", "report"} \/ pc[p] # "stage"
      BY <1>1 DEF StagersOnly, Stager
    <2>2. RecordOK(job'[p], pc'[p]) /\ DiskOK'
      BY <1>1, <1>8, <2>1, OperationTyped
    <2>3. CASE Load(p) /\ ~Fail(p)
      <3>1. CASE pc'[p] = "stage"
        <4>1. job'[p].kind = job[p].kind
          BY <1>1, <2>3, LoadEffect
        <4>2. job[p].kind \notin {"load", "event", "config", "refresh"}
          BY <1>1, <2>3, <3>1, LoadEffect
        <4> QED
          <5>1. RecordOK(job'[p], "stage")
            BY <2>2, <3>1
          <5>2. job'[p].kind \notin {"load", "event", "config", "refresh"}
            BY <4>1, <4>2
          <5>3. job'[p].kind \in Stager
            BY <5>1, <5>2, LoadKinds DEF Stager
          <5> QED
            BY <2>2, <5>3
      <3> QED
        BY <2>2, <3>1
    <2>4. ASSUME ~(Load(p) /\ ~Fail(p)) PROVE pc'[p] # "stage"
      <3>1. CASE Stage(p) /\ ~Fail(p)
        BY <1>1, <3>1, GotoOnly DEF Stage
      <3>2. CASE Commit(p) /\ ~Fail(p)
        BY <1>1, <3>2, GotoOnly DEF Commit
      <3>3. CASE AppendEvent(p) /\ ~Fail(p)
        BY <1>1, <3>3, AppendEffect
      <3>4. CASE (WriteResolved(p) \/ WriteManifest(p) \/ WriteCurrent(p)) /\ ~Fail(p)
        BY <1>1, <3>4, ConfigEffect
      <3>5. CASE Rollback(p)
        BY <1>1, <3>5, RollbackEffect
      <3>6. CASE RollbackFails(p)
        BY <1>1, <3>6, RollbackFailsEffect
      <3>7. CASE AppendUnclear(p)
        BY <1>1, <3>7, AppendUnclearEffect
      <3>8. CASE WriteStatus(p) \/ StatusFails(p)
        BY <1>1, <3>8, StatusEffect
      <3>9. CASE Failing(p)
        BY <1>1, <3>9, FailingEffect
      <3> QED
        BY <1>8, <2>4, <3>1, <3>2, <3>3, <3>4, <3>5, <3>6, <3>7, <3>8, <3>9
    <2> QED
      BY <2>2, <2>3, <2>4
  <1> QED
    BY <1>3, <1>4, <1>5, <1>6, <1>7, <1>8, Steps

LEMMA BeginTyped ==
    ASSUME IInv, TypedInv, ops \in Nat, NEW p \in Procs, NEW kind \in Commands \union {"start"},
           Begin(p, kind) \/ ReportAgain(p)
    PROVE  TypedInv'
  <1>1. Shape /\ Typed /\ DiskOK /\ JobsOK /\ StagersOnly /\ OnlyBy(p)
    BY BeginOnly DEF IInv, TypedInv, Typed
  <1>2. RecordOK(job'[p], pc'[p]) /\ pc'[p] = "runs" /\ UNCHANGED disk
    BY <1>1, BeginEffect, AgainEffect
  <1> QED
    BY <1>1, <1>2, RecordsStay, StagersStay, KeptDisk DEF TypedInv, Typed

LEMMA InitTyped == Init => TypedInv
  <1> SUFFICES ASSUME Init PROVE TypedInv
    OBVIOUS
  <1>1. disk = [part \in Parts |-> Absent] /\ \A p \in Procs : pc[p] = "idle" /\ job[p] = NoJob
    BY DEF Init
  <1> QED
    BY <1>1, NoJobOK DEF TypedInv, Typed, DiskOK, JobsOK, Has, StagersOnly

LEMMA NextTyped == IInv /\ TypedInv /\ ops \in Nat /\ [Next]_vars => TypedInv'
  <1> SUFFICES ASSUME IInv, TypedInv, ops \in Nat, [Next]_vars PROVE TypedInv'
    OBVIOUS
  <1>1. CASE UNCHANGED vars
    BY <1>1 DEF vars, tree, TypedInv, Typed, DiskOK, JobsOK, Has, StagersOnly
  <1>2. CASE Next
    <2>1. PICK p \in Procs :
             \/ \E kind \in Commands \union {"start"} : Begin(p, kind)
             \/ ReportAgain(p) \/ Step(p) \/ FaultyStep(p)
      BY <1>2 DEF Next
    <2>2. CASE (\E kind \in Commands \union {"start"} : Begin(p, kind)) \/ ReportAgain(p)
      BY <2>2, BeginTyped
    <2>3. CASE Step(p) \/ FaultyStep(p)
      BY <2>3, StepTyped
    <2> QED
      BY <2>1, <2>2, <2>3
  <1> QED
    BY <1>1, <1>2

\* The counters stay within their bounds.
Bounded ==
    /\ exists \in BOOLEAN /\ started \in BOOLEAN /\ removing \in BOOLEAN /\ unanswered \in BOOLEAN
    /\ ops \in 0..MaxOps /\ faults \in 0..MaxFaults /\ crashes \in 0..MaxCrashes

LEMMA BoundedStep ==
    ASSUME Bounded, [Next]_vars
    PROVE  Bounded'
  <1> USE DEF Bounded
  <1>1. \A n \in 0..MaxOps : n < MaxOps => n + 1 \in 0..MaxOps
    BY BoundsAssumption
  <1>2. \A n \in 0..MaxFaults : n < MaxFaults => n + 1 \in 0..MaxFaults
    BY BoundsAssumption
  <1>3. \A n \in 0..MaxCrashes : n < MaxCrashes => n + 1 \in 0..MaxCrashes
    BY BoundsAssumption
  <1>4. CASE UNCHANGED vars
    BY <1>4 DEF vars, tree, bounds
  <1>5. ASSUME NEW p \in Procs, NEW kind \in Commands \union {"start"}, Begin(p, kind)
        PROVE  Bounded'
    BY <1>1, <1>5 DEF Begin, tree
  <1>6. ASSUME NEW p \in Procs, ReportAgain(p)
        PROVE  Bounded'
    BY <1>1, <1>6 DEF ReportAgain, tree
  <1>7. ASSUME NEW p \in Procs, LockStep(p)
        PROVE  Bounded'
    BY <1>7 DEF LockStep, LockRuns, Validate, LockRun, Unlock, tree, bounds
  <1>8. ASSUME NEW p \in Procs, StartStep(p)
        PROVE  Bounded'
    BY <1>8 DEF StartStep, Reserve, Publish, Unpublish, RemovePart, RemoveLock, RemoveDir, tree, bounds
  <1>9. ASSUME NEW p \in Procs, FileStep(p)
        PROVE  Bounded'
    BY <1>9 DEF FileStep, Load, Stage, Commit, Rollback, AppendEvent, WriteStatus,
                WriteResolved, WriteManifest, WriteCurrent, tree, bounds
  <1>10. ASSUME NEW p \in Procs, FaultyStep(p)
         PROVE  Bounded'
    <2>1. CASE GiveUp(p) \/ PublishFails(p)
      BY <1>2, <2>1 DEF GiveUp, PublishFails, Fault, Steady, tree
    <2>2. CASE RemovalFails(p) \/ StatusFails(p)
      BY <1>2, <2>2 DEF RemovalFails, StatusFails, Fault, Steady, tree
    <2>3. CASE RollbackFails(p)
      BY <2>3 DEF RollbackFails, LeavesUnanswered, tree
    <2>4. CASE AppendUnclear(p)
      BY <1>2, <2>4 DEF AppendUnclear, LeavesUnanswered, Fault, Steady
    <2>5. CASE CallFails(p)
      BY <1>2, <2>5 DEF CallFails, Fault, Steady, tree
    <2>6. CASE Crash(p)
      BY <1>3, <2>6 DEF Crash, LeavesUnanswered
    <2> QED
      BY <1>10, <2>1, <2>2, <2>3, <2>4, <2>5, <2>6 DEF FaultyStep
  <1> QED
    BY <1>4, <1>5, <1>6, <1>7, <1>8, <1>9, <1>10 DEF Next, Step

LEMMA BoundedAlways == Spec => []Bounded
  <1>1. Init => Bounded
    <2>1. 0 \in 0..MaxOps /\ 0 \in 0..MaxFaults /\ 0 \in 0..MaxCrashes
      BY BoundsAssumption
    <2>2. FALSE \in BOOLEAN
      OBVIOUS
    <2> QED
      BY <2>1, <2>2, Zenon DEF Init, Bounded
  <1> QED
    BY <1>1, BoundedStep, PTL DEF Spec

LEMMA TypedAlways == Spec => []TypedInv
  <1>1. Bounded => ops \in Nat
    BY BoundsAssumption DEF Bounded
  <1> QED
    BY <1>1, InitTyped, NextTyped, BoundedAlways, RunFilesInvariant, PTL DEF Spec

\* The types: whatever fails and whoever dies, every process is at a step its
\* command has, with a record that has everything the step reads; and what is
\* still to be taken back is never empty while it is (rollbackStagedArtifacts
\* in artifacts.go).
THEOREM FilesTyped == Spec => []TypeOK
  <1>1. IInv /\ TypedInv /\ Bounded => TypeOK
    <2> SUFFICES ASSUME IInv, TypedInv, Bounded PROVE TypeOK
      OBVIOUS
    <2>1. ASSUME NEW p \in Procs
          PROVE  /\ job[p].kind \in Kinds /\ job[p].outcome \in {"none", "ok", "failed", "unclear"}
                 /\ pc[p] = "rollback" => job[p].moved # <<>>
      BY DEF TypedInv, Typed, JobsOK, RecordOK, Outcomes
    <2>2. Shape /\ DOMAIN job = Procs /\ DOMAIN disk = Parts
      BY DEF IInv, Shape, JobShape, TypedInv, Typed, DiskOK
    <2> QED
      BY <2>1, <2>2 DEF Shape, Bounded, TypeOK
  <1> QED
    BY <1>1, BoundedAlways, TypedAlways, RunFilesInvariant, PTL

-----------------------------------------------------------------------------
(* What is on the disk, at every step of every operation.                  *)

\* Of the log: whose reports are in it, and that each is there once, and in
\* the order of the attempts.
ReportsIn(lines) == {e.content : e \in {e \in Range(lines) : e.kind = "report"}}
OncePer(lines) ==
    \A i, j \in DOMAIN lines :
       lines[i].kind = "report" /\ lines[j].kind = "report" /\ lines[i].content = lines[j].content
          => i = j
InOrder(lines) == \E n \in Nat : ReportsIn(lines) = 1..n

\* Every file the log names is there, and every entry it stands for.
Kept(lines, artifacts, followups) ==
    \A e \in Range(lines) :
       /\ e.refs \ {Followups} \subseteq artifacts
       /\ Followups \in e.refs => Entry(e) \in Range(followups)

\* No entry twice, and none of a report that is not in the log.
Sound(lines, followups) ==
    /\ IsInjective(followups)
    /\ \A x \in Range(followups) : x.kind = "report" => x.content \in ReportsIn(lines)
Quiet(lines, followups) == ~unanswered => Sound(lines, followups)

\* The entries that commands of their own made.
UsedIn(followups) == {x.content : x \in {x \in Range(followups) : x.kind = "followup"}}

Moving == {"commit", "append", "rollback"}
Midway == Moving \union {"stage", "resolved", "manifest", "current"}

LogOK ==
    /\ Has("artifacts") /\ Has("followups") /\ exists
    /\ Kept(Lines, disk["artifacts"], disk["followups"])
    /\ OncePer(Lines) /\ InOrder(Lines)
    /\ \A n \in UsedIn(disk["followups"]) : n <= ops
    /\ (\A p \in Procs : pc[p] \notin Moving) => Quiet(Lines, disk["followups"])

\* Until the log has been published there is nothing beside it.
NoLogOK ==
    /\ Has("artifacts") => disk["artifacts"] = {}
    /\ Has("followups") => disk["followups"] = <<>>
    /\ ~Has("status")

FilesOK == IF Has("events") THEN LogOK ELSE NoLogOK

\* A command's follow-up is its own, and is not in the file until it is put
\* there.
Fresher(p) ==
    job[p].kind = "followup" =>
       /\ pc[p] \notin {"idle", "cleanup"}
       /\ job[p].content \in 1..ops
       /\ \A q \in Procs \ {p} : job[q].kind = "followup" => job[q].content # job[p].content
       /\ pc[p] \notin Moving \union {"status", "unlock"} /\ Has("followups") =>
             job[p].content \notin UsedIn(disk["followups"])

Outside == {"runs", "validate", "run", "load", "reserve", "publish"}
NotYet(p) ==
    pc[p] \in Outside =>
       job[p].before = <<>> /\ job[p].moved = <<>> /\ job[p].staged = <<>> /\ job[p].outcome = "none"

NothingLeft(p) ==
    pc[p] = "unlock" /\ job[p].outcome = "failed" /\ job[p].before # <<>> =>
       \A part \in Parts \ {"config"} : disk[part] = job[p].before[1][part]

-----------------------------------------------------------------------------
(* Halfway through an operation.                                           *)

Before(p) == job[p].before[1]
Added(p) == Append(Before(p)["followups"], Entry(job[p]))

\* The run as the operation loaded it, of which the log is as it was.
Loaded(p) ==
    /\ Has("events") /\ Has("status") /\ ~disk["events"].torn
    /\ job[p].before = <<Before(p)>>
    /\ Before(p)["events"] = disk["events"] /\ Before(p)["status"] = disk["status"]
    /\ Before(p)["artifacts"] \in SUBSET FileT /\ Before(p)["followups"] \in Seq(EntryT)
    /\ Kept(Lines, Before(p)["artifacts"], Before(p)["followups"])
    /\ Quiet(Lines, Before(p)["followups"])
    /\ \A n \in UsedIn(Before(p)["followups"]) : n <= ops
    /\ job[p].kind = "report" => job[p].content = ActiveAttempt
    /\ job[p].kind = "followup" => job[p].content \notin UsedIn(Before(p)["followups"])

\* The operation writes W in all, of which D is done.
Plan(p, W) ==
    /\ "file" \in W =>
          Own(p) \notin Before(p)["artifacts"] /\ job[p].kind \in Exclusive \union {"report"}
    /\ "notes" \in W =>
          job[p].base = Before(p)["followups"] /\ job[p].kind \in {"report", "followup"}
Complete(p, W) ==
    /\ job[p].kind \in Exclusive => "file" \in W
    /\ job[p].kind = "report" =>
          "notes" \in W /\ ("file" \in W \/ Own(p) \in Before(p)["artifacts"])
    /\ job[p].kind = "followup" => "notes" \in W

FilesAre(p, D) ==
    /\ disk["artifacts"] = Before(p)["artifacts"] \union (IF "file" \in D THEN {Own(p)} ELSE {})
    /\ disk["followups"] = IF "notes" \in D THEN Added(p) ELSE Before(p)["followups"]

\* An entry that could not be taken back is one of a report.
Unclear(p, D) ==
    /\ D = {"file"}
    /\ \/ FilesAre(p, D)
       \/ job[p].kind = "report" /\ unanswered /\ FilesAre(p, Both)
    /\ job[p].kind = "report" => unanswered

Order(p, W, D) ==
    /\ D \subseteq W
    /\ "notes" \in D /\ "file" \in W => "file" \in D
    /\ job[p].moved = Paths(Own(p), D) /\ job[p].staged = Paths(Own(p), W \ D)

Phase(p, W, D) ==
    /\ pc[p] \in {"stage", "resolved", "manifest", "current"} => W = {}
    /\ pc[p] \in {"resolved", "manifest", "current"} => job[p].kind \in {"config", "refresh"}
    /\ pc[p] = "commit" => Complete(p, W)
    /\ pc[p] = "append" => Complete(p, D)
    /\ pc[p] = "rollback" => D # {}

Result(p, D) ==
    \/ pc[p] # "rollback" /\ job[p].outcome = "none" /\ FilesAre(p, D)
    \/ pc[p] = "rollback" /\ job[p].outcome = "failed" /\ FilesAre(p, D)
    \/ pc[p] = "rollback" /\ job[p].outcome = "unclear" /\ Unclear(p, D)

MidOK(p) ==
    /\ Loaded(p)
    /\ \E W, D \in SUBSET Both : Plan(p, W) /\ Order(p, W, D) /\ Phase(p, W, D) /\ Result(p, D)

ProcOK(p) ==
    /\ Fresher(p) /\ NotYet(p) /\ NothingLeft(p)
    /\ pc[p] \in Midway => MidOK(p)
    /\ pc[p] = "publish" => exists
    /\ pc[p] = "status" => Has("events")

Data == ~removing => FilesOK /\ \A p \in Procs : ProcOK(p)

-----------------------------------------------------------------------------
(* Facts about logs and follow-ups.                                        *)

LEMMA Present ==
    ASSUME Distinct
    PROVE  /\ \A x \in SUBSET FileT : x # Absent
           /\ \A x \in Seq(EntryT) : x # Absent
           /\ \A x \in EventsT : x # Absent
           /\ \A x \in Nat : x # Absent
  <1>1. /\ Absent \notin SUBSET FileT /\ Absent \notin Seq(EntryT) /\ Absent \notin EventsT
        /\ Absent \notin Nat
    BY Zenon DEF Distinct
  <1> QED
    BY ONLY <1>1

LEMMA UsedFacts ==
    ASSUME NEW F, NEW n
    PROVE  n \in UsedIn(F) <=> \E x : x \in Range(F) /\ x.kind = "followup" /\ n = x.content
  BY DEF UsedIn

LEMMA KeptGrows ==
    ASSUME NEW L, NEW A, NEW F, NEW A2, NEW F2, Kept(L, A, F),
           A \subseteq A2, Range(F) \subseteq Range(F2)
    PROVE  Kept(L, A2, F2)
  BY DEF Kept

LEMMA AddedFacts ==
    ASSUME NEW p \in Procs, Loaded(p), RecordOK(job[p], pc[p])
    PROVE  /\ Added(p) \in Seq(EntryT)
           /\ Range(Added(p)) = Range(Before(p)["followups"]) \union {Entry(job[p])}
           /\ Entry(job[p]).kind = job[p].kind /\ Entry(job[p]).content = job[p].content
           /\ \A n \in UsedIn(Added(p)) :
                 n \in UsedIn(Before(p)["followups"])
                 \/ (job[p].kind = "followup" /\ n = job[p].content)
  <1>1. Before(p)["followups"] \in Seq(EntryT)
    BY DEF Loaded
  <1>2. /\ Entry(job[p]) \in EntryT
        /\ Entry(job[p]).kind = job[p].kind /\ Entry(job[p]).content = job[p].content
    BY DEF RecordOK, Entry, EntryT
  <1>3. Added(p) \in Seq(EntryT)
    BY <1>1, <1>2 DEF Added
  <1>4. Range(Added(p)) = Range(Before(p)["followups"]) \union {Entry(job[p])}
    BY <1>1, RangeAppend DEF Added
  <1>5. \A n \in UsedIn(Added(p)) :
           n \in UsedIn(Before(p)["followups"])
           \/ (job[p].kind = "followup" /\ n = job[p].content)
    <2> TAKE n \in UsedIn(Added(p))
    <2>1. PICK x : x \in Range(Added(p)) /\ x.kind = "followup" /\ n = x.content
      BY UsedFacts
    <2>2. CASE x = Entry(job[p])
      BY <1>2, <2>1, <2>2
    <2>3. CASE x \in Range(Before(p)["followups"])
      BY <2>1, <2>3, UsedFacts
    <2> QED
      BY <1>4, <2>1, <2>2, <2>3
  <1> QED
    BY <1>2, <1>3, <1>4, <1>5

LEMMA AttemptNext ==
    ASSUME InOrder(Lines)
    PROVE  /\ ActiveAttempt \notin ReportsIn(Lines)
           /\ \E n \in Nat : ReportsIn(Lines) \union {ActiveAttempt} = 1..n
  <1>1. PICK n \in Nat : ReportsIn(Lines) = 1..n
    BY DEF InOrder
  <1>2. Cardinality(1..n) = n
    BY <1>1, FS_Interval
  <1>3. Reported = 1..n
    BY <1>1 DEF Reported, ReportsIn
  <1>4. ActiveAttempt = n + 1
    BY <1>2, <1>3 DEF ActiveAttempt
  <1>5. (1..n) \union {n + 1} = 1..(n + 1) /\ n + 1 \in Nat /\ n + 1 \notin 1..n
    OBVIOUS
  <1> QED
    BY <1>1, <1>4, <1>5

\* The entry of an operation is not in the file it loaded.
LEMMA EntryIsNew ==
    ASSUME NEW p \in Procs, Loaded(p), RecordOK(job[p], pc[p]), InOrder(Lines),
           job[p].kind \in {"report", "followup"}, Sound(Lines, Before(p)["followups"])
    PROVE  Entry(job[p]) \notin Range(Before(p)["followups"])
  <1>1. Entry(job[p]).kind = job[p].kind /\ Entry(job[p]).content = job[p].content
    BY AddedFacts
  <1>2. CASE job[p].kind = "report"
    BY <1>1, <1>2, AttemptNext DEF Loaded, Sound
  <1>3. CASE job[p].kind = "followup"
    BY <1>1, <1>3 DEF Loaded, UsedIn
  <1> QED
    BY <1>2, <1>3

\* What is left of an operation is sound, but for a report's entry without its
\* report.
LEMMA SoundAfter ==
    ASSUME NEW p \in Procs, Loaded(p), RecordOK(job[p], pc[p]), InOrder(Lines),
           Sound(Lines, Before(p)["followups"]),
           NEW L, ReportsIn(Lines) \subseteq ReportsIn(L),
           NEW F,
           \/ F = Before(p)["followups"]
           \/ F = Added(p) /\ job[p].kind = "followup"
           \/ F = Added(p) /\ job[p].kind = "report" /\ job[p].content \in ReportsIn(L)
    PROVE  Sound(L, F)
  <1>1. CASE F = Before(p)["followups"]
    BY <1>1 DEF Sound
  <1>2. CASE F = Added(p) /\ job[p].kind \in {"followup", "report"}
    <2>1. Entry(job[p]) \notin Range(Before(p)["followups"])
      BY <1>2, EntryIsNew
    <2>2. IsInjective(F)
      BY <1>2, <2>1, InjectiveAppend DEF Loaded, Sound, Added
    <2>3. ASSUME NEW x \in Range(F), x.kind = "report" PROVE x.content \in ReportsIn(L)
      <3>1. x \in Range(Before(p)["followups"]) \/ x = Entry(job[p])
        BY <1>2, AddedFacts
      <3>2. Entry(job[p]).kind = job[p].kind /\ Entry(job[p]).content = job[p].content
        BY AddedFacts
      <3>3. CASE x = Entry(job[p])
        BY <2>1, <2>3, <3>2, <3>3
      <3>4. CASE x \in Range(Before(p)["followups"])
        BY <2>3, <3>4 DEF Sound
      <3> QED
        BY <3>1, <3>3, <3>4
    <2> QED
      BY <2>2, <2>3 DEF Sound
  <1> QED
    BY <1>1, <1>2

\* A line more.
LEMMA ReportsAppend ==
    ASSUME NEW L \in Seq(EventT), NEW e
    PROVE  /\ ReportsIn(L) \subseteq ReportsIn(Append(L, e))
           /\ ReportsIn(Append(L, e)) =
                 ReportsIn(L) \union (IF e.kind = "report" THEN {e.content} ELSE {})
  <1>1. Range(Append(L, e)) = Range(L) \union {e}
    BY RangeAppend
  <1> QED
    BY <1>1 DEF ReportsIn

LEMMA OnceAppend ==
    ASSUME NEW L \in Seq(EventT), OncePer(L), NEW e \in EventT,
           e.kind = "report" => e.content \notin ReportsIn(L)
    PROVE  OncePer(Append(L, e))
  <1>1. /\ DOMAIN L = 1..Len(L) /\ DOMAIN Append(L, e) = 1..Len(L) + 1 /\ Len(L) \in Nat
        /\ \A i \in 1..Len(L) : Append(L, e)[i] = L[i]
        /\ Append(L, e)[Len(L) + 1] = e
    OBVIOUS
  <1>2. \A i \in 1..Len(L) : L[i].kind = "report" => L[i].content \in ReportsIn(L)
    BY <1>1 DEF ReportsIn, Range
  <1>3. ASSUME NEW i \in 1..Len(L) + 1, NEW j \in 1..Len(L) + 1,
               Append(L, e)[i].kind = "report", Append(L, e)[j].kind = "report",
               Append(L, e)[i].content = Append(L, e)[j].content
        PROVE  i = j
    <2>1. CASE i \in 1..Len(L) /\ j \in 1..Len(L)
      <3>1. Append(L, e)[i] = L[i] /\ Append(L, e)[j] = L[j]
        BY <1>1, <2>1
      <3> QED
        BY <1>1, <1>3, <2>1, <3>1 DEF OncePer
    <2>2. CASE i = Len(L) + 1 /\ j \in 1..Len(L)
      <3>1. Append(L, e)[i] = e /\ Append(L, e)[j] = L[j]
        BY <1>1, <2>2
      <3> QED
        BY <1>2, <1>3, <2>2, <3>1
    <2>3. CASE j = Len(L) + 1 /\ i \in 1..Len(L)
      <3>1. Append(L, e)[j] = e /\ Append(L, e)[i] = L[i]
        BY <1>1, <2>3
      <3> QED
        BY <1>2, <1>3, <2>3, <3>1
    <2>4. CASE i = Len(L) + 1 /\ j = Len(L) + 1
      BY <2>4
    <2> QED
      BY <1>1, <2>1, <2>2, <2>3, <2>4
  <1> QED
    BY <1>1, <1>3 DEF OncePer

\* The log after an event of the active attempt, or of none.
LEMMA LogAppend ==
    ASSUME Lines \in Seq(EventT), OncePer(Lines), InOrder(Lines), NEW e \in EventT,
           e.kind = "report" => e.content = ActiveAttempt
    PROVE  OncePer(Append(Lines, e)) /\ InOrder(Append(Lines, e))
  <1>1. ReportsIn(Append(Lines, e)) =
           ReportsIn(Lines) \union (IF e.kind = "report" THEN {e.content} ELSE {})
    BY ReportsAppend
  <1>2. OncePer(Append(Lines, e))
    BY OnceAppend, AttemptNext
  <1>3. CASE e.kind = "report"
    BY <1>1, <1>2, <1>3, AttemptNext DEF InOrder
  <1>4. CASE e.kind # "report"
    BY <1>1, <1>2, <1>4 DEF InOrder
  <1> QED
    BY <1>3, <1>4

-----------------------------------------------------------------------------
(* What a step leaves alone.                                               *)

Monotone ==
    /\ ops \in Nat /\ ops' \in Nat /\ ops <= ops'
    /\ unanswered => unanswered'
    /\ exists => exists'

LEMMA KeepsOwn ==
    ASSUME NEW p \in Procs, Same(p), disk'["events"] = disk["events"]
    PROVE  /\ Own(p)' = Own(p) /\ Before(p)' = Before(p) /\ Added(p)' = Added(p)
           /\ Lines' = Lines /\ ActiveAttempt' = ActiveAttempt /\ Has("events")' = Has("events")
  <1>1. /\ Lines' = Lines /\ Before(p)' = Before(p) /\ Has("events")' = Has("events")
        /\ Entry(job[p])' = Entry(job[p])
    BY DEF Lines, Before, Has, Same, Entry
  <1>2. ActiveAttempt' = ActiveAttempt
    BY <1>1 DEF ActiveAttempt, Reported
  <1>3. PathSeq(job[p].kind)' = PathSeq(job[p].kind)
    BY <1>1 DEF PathSeq, Sequence, Same
  <1>4. Own(p)' = Own(p)
    BY <1>3 DEF Own, File, Same
  <1>5. Added(p)' = Added(p)
    BY <1>1 DEF Added
  <1> QED
    BY <1>1, <1>2, <1>4, <1>5

LEMMA LoadedStays ==
    ASSUME NEW p \in Procs, Same(p), disk'["events"] = disk["events"],
           disk'["status"] = disk["status"], Monotone, Loaded(p), DiskOK
    PROVE  Loaded(p)'
  <1> DEFINE L == Lines
             F == Before(p)["followups"]
             A == Before(p)["artifacts"]
  <1>1. /\ Before(p)' = Before(p) /\ Lines' = L /\ ActiveAttempt' = ActiveAttempt
        /\ Has("events")' = Has("events")
    BY KeepsOwn
  <1>2. Has("status")' = Has("status")
    BY DEF Has
  <1>3. /\ Has("events") /\ Has("status") /\ ~disk["events"].torn
        /\ job[p].before = <<Before(p)>>
        /\ Before(p)["events"] = disk["events"] /\ Before(p)["status"] = disk["status"]
        /\ A \in SUBSET FileT /\ F \in Seq(EntryT)
        /\ job[p].kind = "report" => job[p].content = ActiveAttempt
        /\ job[p].kind = "followup" => job[p].content \notin UsedIn(F)
    BY DEF Loaded
  <1>4. Kept(L, A, F) /\ Quiet(L, F) /\ \A n \in UsedIn(F) : n <= ops
    BY DEF Loaded
  <1>5. Lines'  = L /\ Before(p)'["followups"] = F /\ Before(p)'["artifacts"] = A
    BY <1>1
  <1>6. Kept(Lines', Before(p)'["artifacts"], Before(p)'["followups"])
    BY <1>4, <1>5
  <1>7. (unanswered' = FALSE) => Sound(L, F)
    BY <1>4 DEF Quiet, Monotone
  <1>8. Quiet(Lines, Before(p)["followups"])'
    BY <1>5, <1>7 DEF Quiet, Sound, ReportsIn, IsInjective
  <1>9. \A n \in UsedIn(F) : n <= ops'
    <2> TAKE n \in UsedIn(F)
    <2>1. n <= ops
      BY <1>4
    <2>2. n \in Nat
      <3>1. PICK x : x \in Range(F) /\ n = x.content
        BY UsedFacts
      <3>2. x \in EntryT
        BY <1>3, <3>1 DEF Range
      <3> QED
        BY <3>1, <3>2 DEF EntryT
    <2> QED
      BY <2>1, <2>2 DEF Monotone
  <1>10. /\ job'[p].kind = job[p].kind /\ job'[p].content = job[p].content
         /\ job'[p].before = job[p].before
    BY DEF Same
  <1> HIDE DEF L, F, A
  <1>11. /\ Has("events")' /\ Has("status")' /\ ~disk'["events"].torn
         /\ job'[p].before = <<Before(p)'>>
         /\ Before(p)'["events"] = disk'["events"] /\ Before(p)'["status"] = disk'["status"]
         /\ Before(p)'["artifacts"] \in SUBSET FileT /\ Before(p)'["followups"] \in Seq(EntryT)
    BY <1>1, <1>2, <1>3, <1>5, <1>10
  <1>12. /\ job'[p].kind = "report" => job'[p].content = ActiveAttempt'
         /\ job'[p].kind = "followup" => job'[p].content \notin UsedIn(Before(p)'["followups"])
    BY <1>1, <1>3, <1>5, <1>10
  <1>13. \A n \in UsedIn(Before(p)'["followups"]) : n <= ops'
    BY <1>5, <1>9
  <1> QED
    BY <1>6, <1>8, <1>11, <1>12, <1>13 DEF Loaded, Kept, Entry, UsedIn

LEMMA PlanStays ==
    ASSUME NEW p \in Procs, Same(p), disk'["events"] = disk["events"], job'[p].base = job[p].base,
           NEW W, Plan(p, W)
    PROVE  Plan(p, W)'
  BY KeepsOwn DEF Plan, Same

LEMMA CompleteStays ==
    ASSUME NEW p \in Procs, Same(p), disk'["events"] = disk["events"], NEW W, Complete(p, W)
    PROVE  Complete(p, W)'
  BY KeepsOwn DEF Complete, Same

LEMMA FilesStay ==
    ASSUME NEW p \in Procs, Same(p), disk'["events"] = disk["events"],
           disk'["artifacts"] = disk["artifacts"], disk'["followups"] = disk["followups"],
           NEW D, FilesAre(p, D)
    PROVE  FilesAre(p, D)'
  BY KeepsOwn DEF FilesAre

\* A step of somebody else that leaves the disk alone.
LEMMA MidStays ==
    ASSUME NEW p \in Procs, UNCHANGED disk, job'[p] = job[p], pc'[p] = pc[p], Monotone, DiskOK,
           MidOK(p)
    PROVE  MidOK(p)'
  <1>1. Same(p)
    BY DEF Same
  <1>2. Loaded(p)'
    BY <1>1, LoadedStays DEF MidOK
  <1>3. PICK W \in SUBSET Both, D \in SUBSET Both :
           Plan(p, W) /\ Order(p, W, D) /\ Phase(p, W, D) /\ Result(p, D)
    BY DEF MidOK
  <1>4. Plan(p, W)'
    BY <1>1, <1>3, PlanStays
  <1>5. Order(p, W, D)'
    BY <1>1, <1>3, KeepsOwn DEF Order, Paths
  <1>6. Phase(p, W, D)'
    BY <1>1, <1>3, CompleteStays DEF Phase
  <1>7. /\ FilesAre(p, D) => FilesAre(p, D)'
        /\ FilesAre(p, Both) => FilesAre(p, Both)'
    BY <1>1, FilesStay
  <1>8. Unclear(p, D) => Unclear(p, D)'
    BY <1>7 DEF Unclear, Monotone, Both
  <1>9. Result(p, D)'
    BY <1>3, <1>7, <1>8 DEF Result
  <1> QED
    BY <1>2, <1>4, <1>5, <1>6, <1>9 DEF MidOK

\* What p does is no business of anybody else's.
Minds(p) ==
    /\ OnlyBy(p) /\ Monotone
    /\ UNCHANGED disk \/ pc[p] \in RunHeld
    /\ job'[p].kind = "followup" =>
          \/ job[p].kind = "followup" /\ job'[p].content = job[p].content
          \/ job'[p].content = ops + 1
    /\ Has("followups")' => \A n \in UsedIn(disk'["followups"]) :
          \/ Has("followups") /\ n \in UsedIn(disk["followups"])
          \/ job[p].kind = "followup" /\ n = job[p].content

LEMMA OthersKeep ==
    ASSUME IInv, DiskOK, ~removing, NEW p \in Procs, NEW q \in Procs \ {p}, Minds(p),
           ProcOK(q)
    PROVE  ProcOK(q)'
  <1>1. pc'[q] = pc[q] /\ job'[q] = job[q]
    BY DEF Minds, OnlyBy
  <1>2. Monotone
    BY DEF Minds
  <1>3. Fresher(q)'
    <2> SUFFICES ASSUME job[q].kind = "followup" PROVE Fresher(q)'
      BY <1>1 DEF Fresher
    <2>1. /\ pc[q] \notin {"idle", "cleanup"} /\ job[q].content \in 1..ops
          /\ \A r \in Procs \ {q} : job[r].kind = "followup" => job[r].content # job[q].content
          /\ pc[q] \notin Moving \union {"status", "unlock"} /\ Has("followups") =>
                job[q].content \notin UsedIn(disk["followups"])
      BY DEF ProcOK, Fresher
    <2>2. job[q].content \in 1..ops'
      BY <1>2, <2>1 DEF Monotone
    <2>3. ASSUME NEW r \in Procs \ {q}, job'[r].kind = "followup" PROVE job'[r].content # job[q].content
      <3>1. CASE r = p
        <4>1. job[q].content # ops + 1
          BY <1>2, <2>1 DEF Monotone
        <4> QED
          BY <2>1, <2>3, <3>1, <4>1 DEF Minds
      <3>2. CASE r # p
        BY <2>1, <2>3, <3>2 DEF Minds, OnlyBy
      <3> QED
        BY <3>1, <3>2
    <2>4. ASSUME pc[q] \notin Moving \union {"status", "unlock"}, Has("followups")',
                 job[q].content \in UsedIn(disk'["followups"])
          PROVE  FALSE
      <3>1. CASE Has("followups") /\ job[q].content \in UsedIn(disk["followups"])
        BY <2>1, <2>4, <3>1
      <3>2. CASE job[p].kind = "followup" /\ job[q].content = job[p].content
        BY <2>1, <3>2
      <3> QED
        BY <2>4, <3>1, <3>2 DEF Minds
    <2>5. UsedIn(disk["followups"])' = UsedIn(disk'["followups"])
      BY DEF UsedIn
    <2> QED
      BY <1>1, <2>1, <2>2, <2>3, <2>4, <2>5 DEF Fresher
  <1>4. NotYet(q)'
    BY <1>1 DEF ProcOK, NotYet
  <1>5. CASE pc[q] \notin RunHeld
    <2>1. pc[q] \notin Midway /\ pc[q] \notin {"unlock", "publish", "status"}
      BY <1>5 DEF RunHeld, Midway, Moving
    <2>2. NothingLeft(q)'
      BY <1>1, <2>1 DEF NothingLeft
    <2> QED
      BY <1>1, <1>3, <1>4, <2>1, <2>2 DEF ProcOK
  <1>6. CASE pc[q] \in RunHeld
    <2>1. pc[p] \notin RunHeld
      BY <1>6 DEF IInv, LocksHeld
    <2>2. UNCHANGED disk
      BY <2>1 DEF Minds
    <2>3. NothingLeft(q)'
      BY <1>1, <2>2 DEF ProcOK, NothingLeft
    <2>4. pc'[q] \in Midway => MidOK(q)'
      BY <1>1, <1>2, <2>2, MidStays DEF ProcOK
    <2>5. (pc'[q] = "publish" => exists') /\ (pc'[q] = "status" => Has("events")')
      BY <1>1, <1>2, <2>2 DEF ProcOK, Monotone, Has
    <2> QED
      BY <1>3, <1>4, <2>3, <2>4, <2>5 DEF ProcOK
  <1> QED
    BY <1>5, <1>6

\* So a step is about its own process and the files.
LEMMA Assemble ==
    ASSUME IInv, DiskOK, Data, ~removing, NEW p \in Procs, Minds(p), FilesOK', ProcOK(p)'
    PROVE  Data'
  <1>1. \A q \in Procs \ {p} : ProcOK(q)'
    BY OthersKeep DEF Data
  <1> QED
    BY <1>1 DEF Data

LEMMA StepMonotone ==
    ASSUME NEW p \in Procs, Step(p) \/ FaultyStep(p), ops \in Nat, ~removing'
    PROVE  Monotone /\ ~removing /\ ops' = ops
  <1>1. SUFFICES /\ ops' = ops /\ ~removing
                 /\ unanswered => unanswered'
                 /\ exists => exists'
    BY DEF Monotone
  <1>2. CASE LockStep(p)
    BY <1>2 DEF LockStep, LockRuns, Validate, LockRun, Unlock, tree, bounds
  <1>3. CASE Reserve(p)
    BY <1>3, Zenon DEF Reserve, bounds
  <1>4. CASE Publish(p)
    BY <1>4, Zenon DEF Publish, bounds
  <1>5. CASE Unpublish(p) \/ RemoveLock(p) \/ RemoveDir(p)
    BY <1>5 DEF Unpublish, RemoveLock, RemoveDir
  <1>6. CASE \E part \in Parts : RemovePart(p, part)
    BY <1>6 DEF RemovePart
  <1>7. CASE Load(p) \/ Stage(p) \/ Commit(p) \/ Rollback(p) \/ AppendEvent(p)
    <2>1. UNCHANGED <<exists, bounds>>
      BY <1>7 DEF Load, Stage, Commit, Rollback, AppendEvent, tree
    <2> QED
      BY <2>1 DEF bounds
  <1>8. CASE WriteResolved(p) \/ WriteManifest(p) \/ WriteCurrent(p)
    <2>1. UNCHANGED <<exists, bounds>>
      BY <1>8 DEF WriteResolved, WriteManifest, WriteCurrent
    <2> QED
      BY <2>1 DEF bounds
  <1>9. CASE WriteStatus(p)
    BY <1>9, Zenon DEF WriteStatus, bounds
  <1>10. CASE GiveUp(p) \/ PublishFails(p) \/ StatusFails(p) \/ CallFails(p)
    <2>1. UNCHANGED <<exists, ops, removing, unanswered>>
      BY <1>10 DEF GiveUp, PublishFails, StatusFails, CallFails, Steady, tree
    <2> QED
      BY <2>1
  <1>11. CASE RemovalFails(p)
    BY <1>11, Zenon DEF RemovalFails
  <1>12. CASE RollbackFails(p) \/ AppendUnclear(p) \/ Crash(p)
    <2>1. UNCHANGED <<exists, ops, removing>> /\ LeavesUnanswered(p)
      BY <1>12 DEF RollbackFails, AppendUnclear, Crash, Steady, tree
    <2> QED
      BY <2>1, Zenon DEF LeavesUnanswered
  <1> QED
    BY <1>2, <1>3, <1>4, <1>5, <1>6, <1>7, <1>8, <1>9, <1>10, <1>11, <1>12
       DEF Step, StartStep, FileStep, FaultyStep

LEMMA BeginMonotone ==
    ASSUME NEW p \in Procs, NEW kind \in Commands \union {"start"},
           Begin(p, kind) \/ ReportAgain(p), ops \in Nat, ~removing'
    PROVE  Monotone /\ ~removing /\ ops' = ops + 1
  BY DEF Begin, ReportAgain, tree, Monotone

\* A step that changes nothing but, perhaps, the configuration, the end of the
\* log, and the status where there is a log; and that leaves no operation
\* halfway, but one whose entry is sound.
LEMMA LogKeeps ==
    ASSUME NEW p \in Procs, OnlyBy(p), Monotone, DiskOK, FilesOK,
           disk'["artifacts"] = disk["artifacts"], disk'["followups"] = disk["followups"],
           Has("events")' <=> Has("events"), disk'["events"].lines = disk["events"].lines,
           Has("events") \/ disk'["status"] = disk["status"],
           \/ pc[p] \notin Moving \/ pc'[p] \in Moving
           \/ Has("events") => (~unanswered' => Sound(Lines, disk["followups"]))
    PROVE  FilesOK'
  <1>1. /\ disk'["artifacts"] = disk["artifacts"] /\ disk'["followups"] = disk["followups"]
    OBVIOUS
  <1>2. /\ Has("artifacts")' = Has("artifacts") /\ Has("followups")' = Has("followups")
        /\ disk'["status"] = disk["status"] => Has("status")' = Has("status")
        /\ Lines' = Lines
    BY <1>1 DEF Has, Lines
  <1>3. CASE ~Has("events")
    BY <1>1, <1>2, <1>3 DEF FilesOK, NoLogOK
  <1>4. CASE Has("events")
    <2> DEFINE L == Lines
               A == disk["artifacts"]
               F == disk["followups"]
    <2>1. /\ Has("artifacts") /\ Has("followups") /\ exists
          /\ Kept(L, A, F) /\ OncePer(L) /\ InOrder(L)
          /\ \A n \in UsedIn(F) : n <= ops
          /\ (\A q \in Procs : pc[q] \notin Moving) => Quiet(L, F)
      BY <1>4 DEF FilesOK, LogOK
    <2>2. F \in Seq(EntryT)
      BY <2>1, PartsAre DEF DiskOK, PartOK
    <2>3. Lines' = L /\ disk'["artifacts"] = A /\ disk'["followups"] = F
      BY <1>1, <1>2
    <2> HIDE DEF L, A, F
    <2>4. Kept(Lines, disk["artifacts"], disk["followups"])'
      BY <2>1, <2>3 DEF Kept, Entry
    <2>5. OncePer(Lines)' /\ InOrder(Lines)'
      BY <2>1, <2>3 DEF OncePer, InOrder, ReportsIn
    <2>6. ASSUME NEW n \in UsedIn(F) PROVE n <= ops'
      <3>1. PICK x : x \in Range(F) /\ n = x.content
        BY UsedFacts
      <3>2. x \in EntryT
        BY <2>2, <3>1 DEF Range
      <3>3. n \in Nat /\ n <= ops
        BY <2>1, <3>1, <3>2 DEF EntryT
      <3> QED
        BY <3>3 DEF Monotone
    <2>7. (\A n \in UsedIn(disk["followups"]) : n <= ops)'
      BY <2>3, <2>6 DEF UsedIn
    <2>8. ASSUME \A q \in Procs : pc'[q] \notin Moving, ~unanswered'
          PROVE  Sound(L, F)
      <3>1. CASE \A q \in Procs : pc[q] \notin Moving
        BY <2>1, <2>8, <3>1 DEF Quiet, Monotone
      <3>2. CASE \E q \in Procs : pc[q] \in Moving
        <4>1. pc[p] \in Moving /\ pc'[p] \notin Moving
          BY <2>8, <3>2 DEF OnlyBy
        <4> QED
          BY <1>4, <2>8, <4>1 DEF L, F
      <3> QED
        BY <3>1, <3>2
    <2>9. (\A q \in Procs : pc'[q] \notin Moving) => Quiet(Lines, disk["followups"])'
      BY <2>3, <2>8 DEF Quiet, Sound, ReportsIn, IsInjective
    <2> QED
      BY <1>2, <1>4, <2>1, <2>4, <2>5, <2>7, <2>9 DEF FilesOK, LogOK, Monotone
  <1> QED
    BY <1>3, <1>4

\* A command's own follow-up.
LEMMA FresherStays ==
    ASSUME NEW p \in Procs, Fresher(p), OnlyBy(p), Monotone,
           job'[p].kind = job[p].kind, job'[p].content = job[p].content,
           pc'[p] \notin {"idle", "cleanup"},
           \/ pc'[p] \in Moving \union {"status", "unlock"}
           \/ pc[p] \notin Moving \union {"status", "unlock"} /\ disk'["followups"] = disk["followups"]
    PROVE  Fresher(p)'
  <1> SUFFICES ASSUME job'[p].kind = "followup" PROVE Fresher(p)'
    BY DEF Fresher
  <1>1. job[p].content \in 1..ops'
    BY DEF Fresher, Monotone
  <1>2. \A q \in Procs \ {p} : job'[q].kind = "followup" => job'[q].content # job'[p].content
    BY DEF Fresher, OnlyBy
  <1>3. pc'[p] \notin Moving \union {"status", "unlock"} /\ Has("followups")' =>
           job'[p].content \notin UsedIn(disk'["followups"])
    BY DEF Fresher, Has
  <1>4. UsedIn(disk["followups"])' = UsedIn(disk'["followups"])
    BY DEF UsedIn
  <1> QED
    BY <1>1, <1>2, <1>3, <1>4 DEF Fresher

-----------------------------------------------------------------------------
(* Steps outside an operation on the published run.                        *)

\* What a step starts from, and what it is, when nothing is being removed.
Going(p) ==
    /\ IInv /\ Shape /\ TypedInv /\ Typed /\ DiskOK /\ RecordOK(job[p], pc[p])
    /\ ops \in Nat /\ ~removing /\ Data /\ FilesOK /\ ProcOK(p)
    /\ OnlyBy(p) /\ Monotone

LEMMA Goes ==
    ASSUME IInv, TypedInv, ops \in Nat, Data, NEW p \in Procs, ~removing',
           \/ \E kind \in Commands \union {"start"} : Begin(p, kind)
           \/ ReportAgain(p) \/ Step(p) \/ FaultyStep(p)
    PROVE  Going(p)
  <1>1. Shape /\ Typed /\ DiskOK /\ RecordOK(job[p], pc[p])
    BY DEF IInv, TypedInv, Typed, JobsOK
  <1>2. CASE \E kind \in Commands \union {"start"} : Begin(p, kind) \/ ReportAgain(p)
    <2>1. PICK kind \in Commands \union {"start"} : Begin(p, kind) \/ ReportAgain(p)
      BY <1>2
    <2>2. OnlyBy(p) /\ Monotone /\ ~removing
      BY <1>1, <2>1, BeginOnly, BeginMonotone
    <2> QED
      BY <1>1, <2>2 DEF Going, Data
  <1>3. CASE Step(p) \/ FaultyStep(p)
    <2>1. OnlyBy(p) /\ Monotone /\ ~removing
      BY <1>1, <1>3, StepOnly, StepMonotone
    <2> QED
      BY <1>1, <2>1 DEF Going, Data
  <1> QED
    BY <1>2, <1>3

\* Nothing but the process, and not its follow-up, changes.
LEMMA KeptData ==
    ASSUME NEW p \in Procs, Going(p), ProcOK(p)',
           \/ UNCHANGED disk
           \/ pc[p] \in RunHeld /\ \A part \in Parts \ {"config"} : disk'[part] = disk[part],
           job'[p].kind = "followup" => job[p].kind = "followup" /\ job'[p].content = job[p].content,
           \/ pc[p] \notin Moving \/ pc'[p] \in Moving
           \/ Has("events") => (~unanswered' => Sound(Lines, disk["followups"]))
    PROVE  Data'
  <1>1. /\ disk'["events"] = disk["events"] /\ disk'["artifacts"] = disk["artifacts"]
        /\ disk'["followups"] = disk["followups"] /\ disk'["status"] = disk["status"]
    BY PartsAre
  <1>2. Has("events")' = Has("events") /\ Has("followups")' = Has("followups")
    BY <1>1 DEF Has
  <1>3. Minds(p)
    BY <1>1, <1>2 DEF Going, Minds
  <1>4. FilesOK'
    BY <1>1, <1>2, LogKeeps DEF Going
  <1> QED
    BY <1>3, <1>4, Assemble DEF Going

\* A process that is at no step of an operation, and that has no follow-up.
LEMMA RestOK ==
    ASSUME NEW p \in Procs, pc'[p] \in {"idle", "cleanup"}, job'[p].kind \in {"none", "report"}
    PROVE  ProcOK(p)'
  <1>1. Fresher(p)' /\ NotYet(p)' /\ NothingLeft(p)'
    BY DEF Fresher, NotYet, Outside, NothingLeft
  <1>2. pc'[p] \notin Midway /\ pc'[p] \notin {"publish", "status"}
    BY DEF Midway, Moving
  <1> QED
    BY <1>1, <1>2 DEF ProcOK

LEMMA TurningData ==
    ASSUME NEW p \in Procs, Going(p), Turning(p)
    PROVE  Data'
  <1>1. /\ UNCHANGED disk
        /\ pc[p] \in {"runs", "validate", "run", "reserve", "publish"}
        /\ \/ /\ UNCHANGED job
              /\ pc'[p] \in {"reserve", "validate", "run", "load", "publish", "unpublish"}
              /\ pc'[p] = "publish" => exists'
           \/ pc'[p] \in {"idle", "cleanup"} /\ job'[p].kind \in {"none", "report"}
    BY TurningEffect DEF Going
  <1>2. pc[p] \notin Moving
    BY <1>1 DEF Moving
  <1>3. CASE /\ UNCHANGED job
             /\ pc'[p] \in {"reserve", "validate", "run", "load", "publish", "unpublish"}
             /\ pc'[p] = "publish" => exists'
    <2>1. Fresher(p)'
      BY <1>1, <1>2, <1>3, FresherStays DEF Going, ProcOK
    <2>2. NotYet(p)' /\ NothingLeft(p)'
      BY <1>1, <1>3 DEF Going, ProcOK, NotYet, NothingLeft, Outside
    <2>3. ProcOK(p)'
      BY <1>3, <2>1, <2>2 DEF ProcOK, Midway, Moving
    <2> QED
      BY <1>1, <1>2, <1>3, <2>3, KeptData
  <1>4. CASE pc'[p] \in {"idle", "cleanup"} /\ job'[p].kind \in {"none", "report"}
    <2>1. ProcOK(p)'
      BY <1>4, RestOK
    <2> QED
      BY <1>1, <1>2, <1>4, <2>1, KeptData
  <1> QED
    BY <1>1, <1>3, <1>4

LEMMA BeginData ==
    ASSUME NEW p \in Procs, Going(p), NEW kind \in Commands \union {"start"}, Begin(p, kind)
    PROVE  Data'
  <1>1. /\ pc[p] = "idle" /\ pc'[p] = "runs" /\ UNCHANGED disk /\ ops' = ops + 1
        /\ job'[p].kind = "followup" => job'[p].content = ops + 1
        /\ job'[p].before = <<>> /\ job'[p].moved = <<>> /\ job'[p].staged = <<>>
        /\ job'[p].outcome = "none"
    BY BeginEffect DEF Going
  <1>2. pc[p] \notin Moving /\ pc'[p] \notin Midway
    BY <1>1 DEF Moving, Midway
  <1>3. Has("followups")' = Has("followups") /\ Has("events")' = Has("events")
    BY <1>1 DEF Has
  <1>4. Minds(p)
    BY <1>1, <1>3 DEF Going, Minds
  <1>5. FilesOK'
    BY <1>1, <1>2, <1>3, LogKeeps DEF Going
  <1>6. Fresher(p)'
    <2> SUFFICES ASSUME job'[p].kind = "followup" PROVE Fresher(p)'
      BY DEF Fresher
    <2>1. job'[p].content = ops + 1 /\ ops + 1 \in 1..ops'
      BY <1>1 DEF Going
    <2>2. ASSUME NEW q \in Procs \ {p}, job'[q].kind = "followup" PROVE job'[q].content # ops + 1
      <3>1. job[q].content \in 1..ops
        BY <2>2 DEF Going, Data, ProcOK, Fresher, OnlyBy
      <3> QED
        BY <3>1 DEF Going, OnlyBy
    <2>3. ASSUME Has("followups"), ops + 1 \in UsedIn(disk["followups"]) PROVE FALSE
      <3>1. CASE Has("events")
        <4>1. ops + 1 <= ops
          BY <2>3, <3>1 DEF Going, FilesOK, LogOK
        <4> QED
          BY <4>1 DEF Going
      <3>2. CASE ~Has("events")
        <4>1. disk["followups"] = <<>>
          BY <2>3, <3>2 DEF Going, FilesOK, NoLogOK
        <4>2. Range(<<>>) = {}
          BY DEF Range
        <4>3. \E x : x \in Range(disk["followups"])
          BY <2>3, UsedFacts
        <4> QED
          BY <4>1, <4>2, <4>3
      <3> QED
        BY <3>1, <3>2
    <2>4. UsedIn(disk["followups"])' = UsedIn(disk["followups"])
      BY <1>1 DEF UsedIn
    <2> QED
      BY <1>1, <1>3, <2>1, <2>2, <2>3, <2>4 DEF Fresher
  <1>7. NotYet(p)' /\ NothingLeft(p)'
    BY <1>1 DEF NotYet, NothingLeft
  <1>8. ProcOK(p)'
    BY <1>1, <1>2, <1>6, <1>7 DEF ProcOK
  <1> QED
    BY <1>4, <1>5, <1>8, Assemble DEF Going

LEMMA AgainData ==
    ASSUME NEW p \in Procs, Going(p), ReportAgain(p)
    PROVE  Data'
  <1>1. /\ pc[p] = "idle" /\ pc'[p] = "runs" /\ UNCHANGED disk
        /\ job'[p].kind = "report"
        /\ job'[p].before = <<>> /\ job'[p].moved = <<>> /\ job'[p].staged = <<>>
        /\ job'[p].outcome = "none"
    BY AgainEffect DEF Going
  <1>2. pc[p] \notin Moving /\ pc'[p] \notin Midway
    BY <1>1 DEF Moving, Midway
  <1>3. Fresher(p)' /\ NotYet(p)' /\ NothingLeft(p)'
    BY <1>1 DEF Fresher, NotYet, NothingLeft
  <1>4. ProcOK(p)'
    BY <1>1, <1>2, <1>3 DEF ProcOK
  <1> QED
    BY <1>1, <1>2, <1>4, KeptData

LEMMA PublishEndData ==
    ASSUME NEW p \in Procs, Going(p), Publish(p), ~UNCHANGED pc
    PROVE  Data'
  <1>1. /\ pc[p] = "publish" /\ UNCHANGED disk /\ pc'[p] = "runs"
        /\ job'[p].kind \in Range(StartSteps) /\ job'[p].before = job[p].before
        /\ job'[p].moved = job[p].moved /\ job'[p].staged = job[p].staged
        /\ job'[p].outcome = job[p].outcome
    BY PublishEnd DEF Going
  <1>2. pc[p] \notin Moving /\ pc'[p] \notin Midway /\ job'[p].kind # "followup"
    BY <1>1, StartStepsKinds DEF Moving, Midway, StartKinds
  <1>3. Fresher(p)' /\ NotYet(p)' /\ NothingLeft(p)'
    BY <1>1, <1>2 DEF Going, ProcOK, Fresher, NotYet, NothingLeft, Outside
  <1>4. ProcOK(p)'
    BY <1>1, <1>2, <1>3 DEF ProcOK
  <1> QED
    BY <1>1, <1>2, <1>4, KeptData

LEMMA UnlockData ==
    ASSUME NEW p \in Procs, Going(p), Unlock(p)
    PROVE  Data'
  <1>1. /\ pc[p] = "unlock" /\ UNCHANGED disk
        /\ \/ pc'[p] \in {"idle", "cleanup"} /\ job'[p].kind \in {"none", "report"}
           \/ /\ pc'[p] = "runs" /\ job'[p].kind \in Range(StartSteps)
              /\ job'[p].before = <<>> /\ job'[p].moved = <<>> /\ job'[p].staged = <<>>
              /\ job'[p].outcome = "none"
    BY UnlockTyped DEF Going
  <1>2. pc[p] \notin Moving /\ job'[p].kind # "followup"
    BY <1>1, StartStepsKinds DEF Moving, StartKinds
  <1>3. CASE pc'[p] \in {"idle", "cleanup"} /\ job'[p].kind \in {"none", "report"}
    BY <1>1, <1>2, <1>3, RestOK, KeptData
  <1>4. CASE pc'[p] = "runs"
    <2>1. Fresher(p)' /\ NotYet(p)' /\ NothingLeft(p)'
      BY <1>1, <1>2, <1>4 DEF Fresher, NotYet, NothingLeft
    <2>2. ProcOK(p)'
      BY <1>4, <2>1 DEF ProcOK, Midway, Moving
    <2> QED
      BY <1>1, <1>2, <2>2, KeptData
  <1> QED
    BY <1>1, <1>3, <1>4

-----------------------------------------------------------------------------
(* Steps of an operation that leave the files alone.                       *)

\* Nobody else is inside the run.
LEMMA AloneInside ==
    ASSUME NEW p \in Procs, Going(p), pc[p] \in RunHeld
    PROVE  \A q \in Procs \ {p} : pc[q] \notin RunHeld
  BY DEF Going, IInv, LocksHeld

\* A step from inside an operation: the sound part of what is on the disk.
LEMMA MidFacts ==
    ASSUME NEW p \in Procs, Going(p), pc[p] \in Midway
    PROVE  /\ Loaded(p) /\ Has("events") /\ LogOK /\ Own(p) \in FileT
           /\ Own(p) # Followups \/ job[p].kind \notin Exclusive \union {"report"}
           /\ \E W, D \in SUBSET Both :
                 Plan(p, W) /\ Order(p, W, D) /\ Phase(p, W, D) /\ Result(p, D)
  <1>1. Loaded(p) /\ Has("events")
        /\ \E W, D \in SUBSET Both :
              Plan(p, W) /\ Order(p, W, D) /\ Phase(p, W, D) /\ Result(p, D)
    BY DEF Going, ProcOK, MidOK, Loaded
  <1>2. LogOK /\ Own(p) \in FileT
    BY <1>1, OwnTyped DEF Going, FilesOK
  <1>3. job[p].kind \in Exclusive \union {"report"} => Own(p) # Followups
    BY DEF Own, Followups, File, Exclusive, Singletons
  <1> QED
    BY <1>1, <1>2, <1>3

LEMMA NotesNow ==
    ASSUME NEW p, NEW W \in SUBSET Both, NEW D \in SUBSET Both, Plan(p, W), Order(p, W, D),
           Result(p, D)
    PROVE  \/ disk["followups"] = Before(p)["followups"]
           \/ disk["followups"] = Added(p) /\ job[p].kind \in {"report", "followup"}
  BY DEF Result, Unclear, FilesAre, Plan, Order, Both

\* What an operation leaves when it ends here.
LEMMA LeavesSound ==
    ASSUME NEW p \in Procs, Going(p), pc[p] \in Midway, ~unanswered',
           job[p].kind # "report" \/ disk["followups"] = Before(p)["followups"]
    PROVE  Sound(Lines, disk["followups"])
  <1>1. PICK W \in SUBSET Both, D \in SUBSET Both :
           Plan(p, W) /\ Order(p, W, D) /\ Phase(p, W, D) /\ Result(p, D)
    BY MidFacts
  <1>2. \/ disk["followups"] = Before(p)["followups"]
        \/ disk["followups"] = Added(p) /\ job[p].kind = "followup"
    BY <1>1, NotesNow
  <1>3. Loaded(p) /\ InOrder(Lines) /\ RecordOK(job[p], pc[p])
    BY MidFacts DEF LogOK, Going
  <1>4. Sound(Lines, Before(p)["followups"])
    BY <1>3 DEF Loaded, Quiet, Going, Monotone
  <1> QED
    BY <1>2, <1>3, <1>4, SoundAfter

LEMMA OrderFacts ==
    ASSUME NEW p, NEW W \in SUBSET Both, NEW D \in SUBSET Both, Order(p, W, D)
    PROVE  (job[p].moved = <<>> <=> D = {}) /\ (job[p].staged = <<>> <=> W = D)
  <1>1. W \ D \in SUBSET Both
    OBVIOUS
  <1>2. \A o : (Paths(o, D) = <<>> <=> D = {}) /\ (Paths(o, W \ D) = <<>> <=> W \ D = {})
    BY <1>1, PathsFacts
  <1>3. D \subseteq W /\ job[p].moved = Paths(Own(p), D) /\ job[p].staged = Paths(Own(p), W \ D)
    BY DEF Order
  <1> QED
    BY <1>2, <1>3

LEMMA PlanSubset ==
    ASSUME NEW p, NEW W, NEW D \in SUBSET W, Plan(p, W)
    PROVE  Plan(p, D)
  BY DEF Plan

LEMMA LoadData ==
    ASSUME NEW p \in Procs, Going(p), Load(p), ~Fail(p)
    PROVE  Data'
  <1>1. /\ Loads /\ Accepted(p) /\ UNCHANGED disk
        /\ job'[p].kind = job[p].kind /\ job'[p].content = job[p].content
        /\ job'[p].before = <<disk>>
        /\ job'[p].staged = job[p].staged /\ job'[p].moved = job[p].moved
        /\ job'[p].outcome = IF job[p].kind = "load" THEN "ok" ELSE "none"
        /\ pc'[p] = CASE job[p].kind = "load" -> "unlock"
                      [] job[p].kind = "event" -> "append"
                      [] job[p].kind \in {"config", "refresh"} -> "resolved"
                      [] OTHER -> "stage"
    BY LoadEffect DEF Going
  <1>2. /\ pc[p] = "load" /\ pc[p] \notin Moving
        /\ pc'[p] \in {"unlock", "append", "resolved", "stage"}
    BY <1>1 DEF Load, Moving
  <1>3. job[p].moved = <<>> /\ job[p].staged = <<>>
    BY <1>2 DEF Going, ProcOK, NotYet, Outside
  <1>4. Fresher(p)'
    BY <1>1, <1>2, FresherStays DEF Going, ProcOK
  <1>5. NotYet(p)'
    BY <1>2 DEF NotYet, Outside
  <1>6. NothingLeft(p)'
    BY <1>1, <1>2 DEF NothingLeft
  <1>7. pc'[p] \notin {"publish", "status"}
    BY <1>2
  <1>8. ASSUME pc'[p] \in Midway PROVE MidOK(p)'
    <2>1. pc'[p] \in {"append", "resolved", "stage"} /\ job[p].kind # "load"
          /\ job'[p].outcome = "none"
      BY <1>1, <1>2, <1>8 DEF Midway, Moving
    <2>2. /\ pc'[p] = "append" => job[p].kind = "event"
          /\ pc'[p] = "resolved" => job[p].kind \in {"config", "refresh"}
      BY <1>1, <2>1
    <2>3. /\ Has("events") /\ Has("status") /\ ~disk["events"].torn
      BY <1>1, PartsAre DEF Loads
    <2>4. LogOK
      BY <2>3 DEF Going, FilesOK
    <2>5. \A q \in Procs : pc[q] \notin Moving
      <3>1. pc[p] \in RunHeld /\ Moving \subseteq RunHeld
        BY <1>2 DEF RunHeld, Moving
      <3> QED
        BY <1>2, <3>1, AloneInside
    <2>6. Quiet(Lines, disk["followups"])
      BY <2>4, <2>5 DEF LogOK
    <2>7. disk["artifacts"] \in SUBSET FileT /\ disk["followups"] \in Seq(EntryT)
      BY <2>4, PartsAre DEF LogOK, Going, DiskOK, PartOK
    <2>8. job[p].kind = "report" => job[p].content = ActiveAttempt
      BY <1>1 DEF Accepted
    <2>9. job[p].kind = "followup" => job[p].content \notin UsedIn(disk["followups"])
      BY <1>2, <2>4 DEF Going, ProcOK, Fresher, LogOK, Moving
    <2> DEFINE d == disk
    <2>10. Before(p)' = d /\ disk' = d /\ job'[p].before = <<d>>
      BY <1>1 DEF Before
    <2>11. /\ Has("events")' = Has("events") /\ Has("status")' = Has("status")
           /\ Lines' = Lines /\ ActiveAttempt' = ActiveAttempt
      <3>1. Lines' = Lines
        BY <1>1 DEF Lines
      <3> QED
        BY <1>1, <3>1 DEF Has, ActiveAttempt, Reported
    <2>12. /\ Kept(Lines, disk["artifacts"], disk["followups"])
           /\ \A n \in UsedIn(disk["followups"]) : n <= ops
      BY <2>4 DEF LogOK
    <2>13. (Kept(Lines, disk["artifacts"], disk["followups"])
              /\ Quiet(Lines, disk["followups"])
              /\ \A n \in UsedIn(disk["followups"]) : n <= ops)'
      <3>1. UNCHANGED <<ops, unanswered>>
        BY DEF Load, bounds
      <3> QED
        BY <1>1, <2>6, <2>11, <2>12, <3>1
           DEF Kept, Quiet, Sound, ReportsIn, IsInjective, UsedIn, Entry
    <2>14. Loaded(p)'
      <3>1. /\ Has("events")' /\ Has("status")' /\ ~disk'["events"].torn
            /\ job'[p].before = <<Before(p)'>>
            /\ Before(p)'["events"] = disk'["events"] /\ Before(p)'["status"] = disk'["status"]
            /\ Before(p)'["artifacts"] \in SUBSET FileT /\ Before(p)'["followups"] \in Seq(EntryT)
        BY <2>3, <2>7, <2>10, <2>11
      <3>2. (Kept(Lines, Before(p)["artifacts"], Before(p)["followups"])
              /\ Quiet(Lines, Before(p)["followups"])
              /\ \A n \in UsedIn(Before(p)["followups"]) : n <= ops)'
        <4>1. Before(p)'["artifacts"] = disk'["artifacts"]
              /\ Before(p)'["followups"] = disk'["followups"]
          BY <2>10
        <4> QED
          BY <2>13, <4>1 DEF Kept, Quiet, Sound, ReportsIn, IsInjective, UsedIn, Entry
      <3>3. /\ job'[p].kind = "report" => job'[p].content = ActiveAttempt'
            /\ (job[p].kind = "followup" => job[p].content \notin UsedIn(Before(p)["followups"]))'
        BY <1>1, <2>8, <2>9, <2>10, <2>11 DEF UsedIn
      <3> QED
        BY <3>1, <3>2, <3>3 DEF Loaded
    <2>15. Plan(p, {})' /\ Order(p, {}, {})'
      BY <1>1, <1>3 DEF Plan, Order, Paths
    <2>16. Phase(p, {}, {})'
      BY <1>1, <2>1, <2>2 DEF Phase, Complete, Exclusive, Singletons
    <2>17. Result(p, {})'
      BY <2>1, <2>10 DEF Result, FilesAre
    <2> QED
      BY <2>14, <2>15, <2>16, <2>17 DEF MidOK, Both
  <1>9. ProcOK(p)'
    BY <1>4, <1>5, <1>6, <1>7, <1>8 DEF ProcOK
  <1> QED
    BY <1>1, <1>2, <1>9, KeptData

LEMMA FailingData ==
    ASSUME NEW p \in Procs, Going(p), Failing(p)
    PROVE  Data'
  <1>1. /\ UNCHANGED <<disk, unanswered>>
        /\ pc[p] \in RunHeld \ {"publish", "unpublish", "rollback", "unlock", "status"}
        /\ pc'[p] = IF job[p].moved # <<>> THEN "rollback" ELSE "unlock"
        /\ Same(p) /\ job'[p].moved = job[p].moved /\ job'[p].staged = <<>>
        /\ job'[p].base = job[p].base /\ job'[p].outcome = "failed"
    BY FailingEffect DEF Going
  <1>2. pc[p] = "load" \/ pc[p] \in Midway
    BY <1>1 DEF RunHeld, Midway, Moving
  <1>3. pc'[p] \in {"rollback", "unlock"} /\ pc[p] # "rollback"
    BY <1>1
  <1>4. Fresher(p)' /\ NotYet(p)'
    BY <1>1, <1>3, FresherStays DEF Going, ProcOK, Same, NotYet, Outside, Moving
  <1>5. CASE pc[p] = "load"
    <2>1. job[p].moved = <<>> /\ job[p].before = <<>>
      BY <1>5 DEF Going, ProcOK, NotYet, Outside
    <2>2. pc'[p] = "unlock" /\ job'[p].before = <<>>
      BY <1>1, <2>1 DEF Same
    <2>3. NothingLeft(p)'
      BY <2>2 DEF NothingLeft
    <2>4. ProcOK(p)'
      BY <1>4, <2>2, <2>3 DEF ProcOK, Midway, Moving
    <2>5. pc[p] \notin Moving
      BY <1>5 DEF Moving
    <2> QED
      BY <1>1, <2>4, <2>5, KeptData DEF Same
  <1>6. CASE pc[p] \in Midway
    <2>1. PICK W \in SUBSET Both, D \in SUBSET Both :
             Plan(p, W) /\ Order(p, W, D) /\ Phase(p, W, D) /\ Result(p, D)
      BY <1>6, MidFacts
    <2>2. FilesAre(p, D) /\ Loaded(p)
      BY <1>3, <1>6, <2>1, MidFacts DEF Result
    <2>3. job[p].moved = <<>> <=> D = {}
      BY <2>1, OrderFacts
    <2>4. CASE D = {}
      <3>1. pc'[p] = "unlock"
        BY <1>1, <2>3, <2>4
      <3>2. disk["artifacts"] = Before(p)["artifacts"] /\ disk["followups"] = Before(p)["followups"]
        BY <2>2, <2>4 DEF FilesAre
      <3>3. disk["events"] = Before(p)["events"] /\ disk["status"] = Before(p)["status"]
        BY <2>2 DEF Loaded
      <3>4. NothingLeft(p)'
        <4>1. job'[p].before[1] = Before(p)
          BY <1>1 DEF Same, Before
        <4> QED
          BY <1>1, <3>2, <3>3, <4>1, PartsAre DEF NothingLeft
      <3>5. ProcOK(p)'
        BY <1>4, <3>1, <3>4 DEF ProcOK, Midway, Moving
      <3>6. ~unanswered' => Sound(Lines, disk["followups"])
        BY <1>6, <3>2, LeavesSound
      <3> QED
        BY <1>1, <3>5, <3>6, KeptData DEF Same
    <2>5. CASE D # {}
      <3>1. pc'[p] = "rollback"
        BY <1>1, <2>3, <2>5
      <3>2. Loaded(p)'
        BY <1>1, <2>2, LoadedStays DEF Going
      <3>3. Plan(p, D)'
        <4>1. Plan(p, D)
          BY <2>1, PlanSubset DEF Order
        <4> QED
          BY <1>1, <4>1, PlanStays
      <3>4. Own(p)' = Own(p)
        BY <1>1, KeepsOwn
      <3>5. Order(p, D, D)'
        <4>1. D \ D = {} /\ Paths(Own(p), {}) = <<>>
          BY DEF Paths
        <4>2. job'[p].moved = Paths(Own(p), D)
          BY <1>1, <2>1 DEF Order
        <4> QED
          BY <1>1, <3>4, <4>1, <4>2 DEF Order, Paths
      <3>6. Phase(p, D, D)'
        BY <2>5, <3>1 DEF Phase
      <3>7. FilesAre(p, D)'
        BY <1>1, <2>2, FilesStay
      <3>8. Result(p, D)'
        BY <1>1, <3>1, <3>7 DEF Result
      <3>9. MidOK(p)'
        BY <3>2, <3>3, <3>5, <3>6, <3>8 DEF MidOK
      <3>10. NothingLeft(p)' /\ pc'[p] \in Moving
        BY <3>1 DEF NothingLeft, Moving
      <3>11. ProcOK(p)'
        BY <1>4, <3>1, <3>9, <3>10 DEF ProcOK
      <3> QED
        BY <1>1, <3>10, <3>11, KeptData DEF Same
    <2> QED
      BY <2>4, <2>5
  <1> QED
    BY <1>2, <1>5, <1>6

LEMMA ConfigData ==
    ASSUME NEW p \in Procs, Going(p), ~Fail(p),
           WriteResolved(p) \/ WriteManifest(p) \/ WriteCurrent(p)
    PROVE  Data'
  <1>1. /\ \A part \in Parts \ {"config"} : disk'[part] = disk[part]
        /\ pc[p] \in {"resolved", "manifest", "current"}
        /\ \/ UNCHANGED job /\ pc'[p] \in {"manifest", "current"}
           \/ UNCHANGED job /\ pc'[p] = "append" /\ job[p].kind = "refresh"
           \/ /\ Same(p) /\ job'[p].moved = job[p].moved /\ job'[p].staged = job[p].staged
              /\ pc'[p] = "unlock" /\ job'[p].outcome = "ok"
    BY ConfigEffect DEF Going
  <1>2. /\ disk'["events"] = disk["events"] /\ disk'["artifacts"] = disk["artifacts"]
        /\ disk'["followups"] = disk["followups"] /\ disk'["status"] = disk["status"]
    BY <1>1, PartsAre
  <1>3. /\ Same(p) /\ pc[p] \in Midway /\ pc[p] \notin Moving /\ pc[p] \in RunHeld
        /\ pc'[p] \in {"manifest", "current", "append", "unlock"}
    BY <1>1 DEF Same, Midway, Moving, RunHeld
  <1>4. PICK W \in SUBSET Both, D \in SUBSET Both :
           Plan(p, W) /\ Order(p, W, D) /\ Phase(p, W, D) /\ Result(p, D)
    BY <1>3, MidFacts
  <1>5. W = {} /\ D = {} /\ job[p].kind \in {"config", "refresh"}
    BY <1>1, <1>4 DEF Phase, Order
  <1>6. job[p].kind # "followup" /\ job'[p].kind = job[p].kind
    BY <1>3, <1>5 DEF Same
  <1>7. Fresher(p)' /\ NotYet(p)'
    BY <1>3, <1>6 DEF Fresher, NotYet, Outside
  <1>8. CASE pc'[p] = "unlock"
    <2>1. NothingLeft(p)'
      BY <1>1, <1>8 DEF NothingLeft
    <2>2. ProcOK(p)'
      BY <1>7, <1>8, <2>1 DEF ProcOK, Midway, Moving
    <2> QED
      BY <1>1, <1>3, <1>6, <2>2, KeptData
  <1>9. CASE pc'[p] # "unlock"
    <2>1. /\ UNCHANGED job /\ pc'[p] \in {"manifest", "current", "append"}
          /\ pc'[p] = "append" => job[p].kind = "refresh"
      BY <1>1, <1>9
    <2>2. Loaded(p) /\ Loaded(p)'
      BY <1>2, <1>3, MidFacts, LoadedStays DEF Going
    <2>3. Own(p)' = Own(p)
      BY <1>2, <1>3, KeepsOwn
    <2>4. Plan(p, {})' /\ Order(p, {}, {})'
      BY <1>4, <1>5, <2>1, <2>3 DEF Plan, Order, Paths
    <2>5. Phase(p, {}, {})'
      BY <1>5, <2>1 DEF Phase, Complete, Exclusive, Singletons
    <2>6. Result(p, {})'
      <3>1. FilesAre(p, {}) /\ job[p].outcome = "none"
        BY <1>1, <1>4, <1>5 DEF Result
      <3>2. FilesAre(p, {})'
        BY <1>2, <1>3, <3>1, FilesStay
      <3> QED
        BY <2>1, <3>1, <3>2 DEF Result
    <2>7. MidOK(p)' /\ NothingLeft(p)'
      BY <1>9, <2>2, <2>4, <2>5, <2>6 DEF MidOK, Both, NothingLeft
    <2>8. ProcOK(p)'
      BY <1>7, <2>1, <2>7 DEF ProcOK
    <2> QED
      BY <1>1, <1>3, <1>6, <2>8, KeptData
  <1> QED
    BY <1>8, <1>9

LEMMA CommitDoneData ==
    ASSUME NEW p \in Procs, Going(p), Commit(p), job[p].staged = <<>>
    PROVE  Data'
  <1>1. UNCHANGED <<disk, job>> /\ pc[p] = "commit" /\ pc'[p] = "append"
    BY CommitDone DEF Going
  <1>2. Same(p) /\ pc[p] \in Midway /\ pc'[p] \in Moving
    BY <1>1 DEF Same, Midway, Moving
  <1>3. PICK W \in SUBSET Both, D \in SUBSET Both :
           Plan(p, W) /\ Order(p, W, D) /\ Phase(p, W, D) /\ Result(p, D)
    BY <1>2, MidFacts
  <1>5. W = D
    BY <1>3, OrderFacts
  <1>6. Complete(p, D) /\ FilesAre(p, D) /\ job[p].outcome = "none"
    BY <1>1, <1>3, <1>5 DEF Phase, Result
  <1>7. Loaded(p)'
    BY <1>1, <1>2, MidFacts, LoadedStays DEF Going
  <1>8. Plan(p, D)' /\ Order(p, D, D)'
    BY <1>1, <1>2, <1>3, <1>5, PlanStays, KeepsOwn DEF Order, Paths
  <1>9. Complete(p, D)' /\ FilesAre(p, D)'
    BY <1>1, <1>2, <1>6, CompleteStays, FilesStay
  <1>10. Phase(p, D, D)' /\ Result(p, D)'
    BY <1>1, <1>6, <1>9 DEF Phase, Result
  <1>11. MidOK(p)' /\ NothingLeft(p)' /\ NotYet(p)'
    BY <1>1, <1>7, <1>8, <1>10 DEF MidOK, NothingLeft, NotYet, Outside
  <1>12. Fresher(p)'
    BY <1>1, <1>2, FresherStays DEF Going, ProcOK
  <1>13. ProcOK(p)'
    BY <1>1, <1>11, <1>12 DEF ProcOK
  <1> QED
    BY <1>1, <1>2, <1>13, KeptData

LEMMA StatusData ==
    ASSUME NEW p \in Procs, Going(p), WriteStatus(p) \/ StatusFails(p)
    PROVE  Data'
  <1>1. /\ pc[p] = "status" /\ pc'[p] = "unlock" /\ Same(p)
        /\ job'[p].outcome \in {"ok", "unclear"}
        /\ \A part \in Parts \ {"status"} : disk'[part] = disk[part]
    BY StatusEffect DEF Going
  <1>2. /\ disk'["events"] = disk["events"] /\ disk'["artifacts"] = disk["artifacts"]
        /\ disk'["followups"] = disk["followups"]
    BY <1>1, PartsAre
  <1>3. Has("events")' = Has("events") /\ Has("followups")' = Has("followups")
    BY <1>2 DEF Has
  <1>4. Has("events")
    BY <1>1 DEF Going, ProcOK
  <1>5. pc[p] \notin Moving /\ pc[p] \in RunHeld
    BY <1>1 DEF Moving, RunHeld
  <1>6. FilesOK'
    BY <1>2, <1>3, <1>4, <1>5, LogKeeps DEF Going
  <1>7. Minds(p)
    BY <1>1, <1>2, <1>3, <1>5 DEF Going, Minds, Same
  <1>8. Fresher(p)'
    BY <1>1, FresherStays DEF Going, ProcOK, Same
  <1>9. NotYet(p)' /\ NothingLeft(p)'
    BY <1>1 DEF NotYet, Outside, NothingLeft
  <1>10. ProcOK(p)'
    BY <1>1, <1>8, <1>9 DEF ProcOK, Midway, Moving
  <1> QED
    BY <1>6, <1>7, <1>10, Assemble DEF Going

LEMMA CrashData ==
    ASSUME Distinct, NEW p \in Procs, Going(p), Crash(p)
    PROVE  Data'
  <1>1. /\ pc'[p] = "idle" /\ job'[p].kind \in {"none", "report"} /\ LeavesUnanswered(p)
        /\ \/ UNCHANGED disk
           \/ /\ pc[p] = "append" /\ Has("events")
              /\ \A part \in Parts \ {"events"} : disk'[part] = disk[part]
              /\ disk'["events"] \in EventsT /\ disk'["events"].lines = Lines
    BY CrashEffect DEF Going
  <1>2. /\ disk'["artifacts"] = disk["artifacts"] /\ disk'["followups"] = disk["followups"]
        /\ disk'["status"] = disk["status"] /\ disk'["events"].lines = disk["events"].lines
    BY <1>1, PartsAre DEF Lines
  <1>3. Has("events")' <=> Has("events")
    <2>1. disk'["events"] \in EventsT => disk'["events"] # Absent
      BY Present
    <2> QED
      BY <1>1, <2>1 DEF Has
  <1>4. Has("followups")' = Has("followups")
    BY <1>2 DEF Has
  <1>5. ASSUME pc[p] \in Moving, ~unanswered'
        PROVE  Sound(Lines, disk["followups"])
    <2>1. pc[p] \in Midway /\ job[p].kind # "report"
      BY <1>1, <1>5, Zenon DEF Midway, LeavesUnanswered
    <2> QED
      BY <1>5, <2>1, LeavesSound
  <1>6. FilesOK'
    BY <1>2, <1>3, <1>5, LogKeeps DEF Going
  <1>7. Minds(p)
    <2>1. UNCHANGED disk \/ pc[p] \in RunHeld
      BY <1>1 DEF RunHeld
    <2> QED
      BY <1>1, <1>2, <1>4, <2>1 DEF Going, Minds
  <1>8. ProcOK(p)'
    BY <1>1, RestOK
  <1> QED
    BY <1>6, <1>7, <1>8, Assemble DEF Going

-----------------------------------------------------------------------------
(* Steps that move files.                                                  *)

\* The files of the run, when they are what an operation found and what it has
\* done.
LEMMA LogFrom ==
    ASSUME Distinct, NEW p \in Procs, Going(p), pc[p] \in Midway, Same(p),
           disk'["events"] = disk["events"], disk'["status"] = disk["status"],
           NEW D \in SUBSET Both, FilesAre(p, D)',
           "notes" \in D => job[p].kind \in {"report", "followup"},
           pc'[p] \in Moving \/ (~unanswered' => Sound(Lines, disk'["followups"]))
    PROVE  FilesOK' /\ Minds(p)
  <1> DEFINE L == Lines
             A == disk'["artifacts"]
             F == disk'["followups"]
             A0 == Before(p)["artifacts"]
             F0 == Before(p)["followups"]
             G == disk["followups"]
             x == Entry(job[p])
  <1>1. /\ Loaded(p) /\ LogOK /\ Own(p) \in FileT /\ RecordOK(job[p], pc[p])
        /\ ops \in Nat /\ Monotone /\ OnlyBy(p)
    BY MidFacts DEF Going
  <1>2. /\ Own(p)' = Own(p) /\ Before(p)' = Before(p) /\ Added(p)' = Added(p)
        /\ Lines' = L /\ Has("events")' = Has("events")
    BY KeepsOwn
  <1>3. /\ A = A0 \union (IF "file" \in D THEN {Own(p)} ELSE {})
        /\ F = IF "notes" \in D THEN Added(p) ELSE F0
    BY <1>2 DEF FilesAre
  <1>4. /\ A0 \in SUBSET FileT /\ F0 \in Seq(EntryT) /\ Kept(L, A0, F0)
        /\ \A n \in UsedIn(F0) : n <= ops
    BY <1>1 DEF Loaded
  <1>5. /\ Added(p) \in Seq(EntryT) /\ Range(Added(p)) = Range(F0) \union {x}
        /\ \A n \in UsedIn(Added(p)) :
              n \in UsedIn(F0) \/ (job[p].kind = "followup" /\ n = job[p].content)
    BY <1>1, AddedFacts
  <1>6. A \in SUBSET FileT /\ F \in Seq(EntryT) /\ A0 \subseteq A /\ Range(F0) \subseteq Range(F)
    BY <1>1, <1>3, <1>4, <1>5
  <1>7. Has("artifacts")' /\ Has("followups")'
    BY <1>6, Present DEF Has
  <1>8. Kept(L, A, F)
    BY <1>4, <1>6, KeptGrows
  <1>9. \A n \in UsedIn(F) : n \in UsedIn(F0) \/ (job[p].kind = "followup" /\ n = job[p].content)
    BY <1>3, <1>5
  <1>10. \A n \in UsedIn(F0) : n \in UsedIn(G)
    <2>1. PICK V \in SUBSET Both, E \in SUBSET Both :
             Plan(p, V) /\ Order(p, V, E) /\ Phase(p, V, E) /\ Result(p, E)
      BY MidFacts
    <2>2. G = F0 \/ G = Added(p)
      BY <2>1, NotesNow
    <2>3. Range(F0) \subseteq Range(G)
      BY <1>5, <2>2
    <2> TAKE n \in UsedIn(F0)
    <2> QED
      BY <2>3, UsedFacts
  <1>11. job[p].kind = "followup" => job[p].content \in 1..ops
    BY DEF Going, ProcOK, Fresher
  <1>12. ASSUME NEW n \in UsedIn(F) PROVE n <= ops'
    <2>1. n \in Nat
      <3>1. PICK y : y \in Range(F) /\ n = y.content
        BY UsedFacts
      <3>2. y \in EntryT
        BY <1>6, <3>1 DEF Range
      <3> QED
        BY <3>1, <3>2 DEF EntryT
    <2>2. n <= ops
      BY <1>1, <1>4, <1>9, <1>11
    <2> QED
      BY <1>1, <2>1, <2>2 DEF Monotone
  <1>13. Has("events") /\ Has("followups") /\ exists /\ OncePer(L) /\ InOrder(L)
    BY <1>1, MidFacts DEF LogOK
  <1>14. pc'[p] \notin Moving => (~unanswered' => Sound(L, F))
    OBVIOUS
  <1>15. disk'["artifacts"] = A /\ disk'["followups"] = F /\ disk["followups"] = G
    OBVIOUS
  <1>16. pc[p] \in RunHeld
    BY DEF Midway, Moving, RunHeld
  <1> HIDE DEF L, A, F, A0, F0, G, x
  <1>17. Kept(Lines, disk["artifacts"], disk["followups"])'
    BY <1>2, <1>8, <1>15 DEF Kept, Entry
  <1>18. (OncePer(Lines) /\ InOrder(Lines))'
    BY <1>2, <1>13 DEF OncePer, InOrder, ReportsIn
  <1>19. (\A n \in UsedIn(disk["followups"]) : n <= ops)'
    BY <1>12, <1>15 DEF UsedIn
  <1>20. (\A q \in Procs : pc'[q] \notin Moving) => Quiet(Lines, disk["followups"])'
    BY <1>2, <1>14, <1>15 DEF Quiet, Sound, ReportsIn, IsInjective
  <1>21. FilesOK'
    BY <1>1, <1>2, <1>7, <1>13, <1>17, <1>18, <1>19, <1>20 DEF FilesOK, LogOK, Monotone
  <1>22. Minds(p)
    BY <1>1, <1>9, <1>10, <1>13, <1>15, <1>16 DEF Minds, Same
  <1> QED
    BY <1>21, <1>22

LEMMA RollbackFailsData ==
    ASSUME NEW p \in Procs, Going(p), RollbackFails(p)
    PROVE  Data'
  <1>1. /\ UNCHANGED disk /\ LeavesUnanswered(p)
        /\ pc'[p] = IF Len(job[p].moved) = 1 THEN "unlock" ELSE "rollback"
        /\ Same(p) /\ job'[p].moved = Front(job[p].moved)
        /\ job'[p].staged = job[p].staged /\ job'[p].base = job[p].base
        /\ job'[p].outcome = "unclear"
    BY RollbackFailsEffect DEF Going
  <1>2. pc[p] = "rollback" /\ pc[p] \in Midway /\ pc[p] \in Moving
    BY DEF RollbackFails, Midway, Moving
  <1>3. pc'[p] \in {"unlock", "rollback"}
    BY <1>1
  <1>4. Fresher(p)' /\ NotYet(p)' /\ NothingLeft(p)'
    BY <1>1, <1>3, FresherStays DEF Going, ProcOK, Same, NotYet, Outside, Moving, NothingLeft
  <1>5. PICK W \in SUBSET Both, D \in SUBSET Both :
           Plan(p, W) /\ Order(p, W, D) /\ Phase(p, W, D) /\ Result(p, D)
    BY <1>2, MidFacts
  <1>6. D # {} /\ D \subseteq W
    BY <1>2, <1>5 DEF Phase, Order
  <1>7. Len(job[p].moved) = 1 <=> D # Both
    <2>1. Len(Paths(Own(p), D)) = 1 <=> D # Both
      BY <1>6, PathsFacts
    <2> QED
      BY <1>5, <2>1 DEF Order
  <1>8. CASE D # Both
    <2>1. pc'[p] = "unlock"
      BY <1>1, <1>7, <1>8
    <2>2. ProcOK(p)'
      BY <1>4, <2>1 DEF ProcOK, Midway, Moving
    <2>3. ~unanswered' => job[p].kind # "report"
      BY <1>1, Zenon DEF LeavesUnanswered
    <2>4. ~unanswered' => Sound(Lines, disk["followups"])
      BY <1>2, <2>3, LeavesSound
    <2> QED
      BY <1>1, <2>2, <2>4, KeptData DEF Same
  <1>9. CASE D = Both
    <2>1. pc'[p] = "rollback" /\ W = Both
      BY <1>1, <1>6, <1>7, <1>9
    <2>2. job[p].kind = "report"
      BY <1>5, <2>1 DEF Plan, Both, Exclusive, Singletons
    <2>3. FilesAre(p, Both)
      BY <1>2, <1>5, <1>9 DEF Result, Unclear, Both
    <2>4. FilesAre(p, Both)' /\ unanswered'
      <3>1. unanswered'
        BY <1>1, <2>2, Zenon DEF LeavesUnanswered
      <3> QED
        BY <1>1, <2>3, <3>1, FilesStay
    <2>5. Loaded(p)'
      BY <1>1, <1>2, MidFacts, LoadedStays DEF Going
    <2>6. Plan(p, {"file"})'
      <3>1. Plan(p, {"file"})
        BY <1>5, <2>1, PlanSubset DEF Both
      <3> QED
        BY <1>1, <3>1, PlanStays
    <2>7. Order(p, {"file"}, {"file"})'
      <3>1. Own(p)' = Own(p)
        BY <1>1, KeepsOwn
      <3>2. Both \ Both = {} /\ Both \ {"notes"} = {"file"} /\ {"file"} \ {"file"} = {}
        BY DEF Both
      <3>3. job[p].moved = Paths(Own(p), Both) /\ job[p].staged = Paths(Own(p), {})
        BY <1>5, <1>9, <2>1, <3>2 DEF Order
      <3>4. Front(Paths(Own(p), Both)) = Paths(Own(p), {"file"})
        BY <3>2, PathsFacts DEF Both
      <3>5. job'[p].moved = Paths(Own(p), {"file"}) /\ job'[p].staged = Paths(Own(p), {})
        BY <1>1, <3>3, <3>4
      <3>6. job'[p].moved = <<Own(p)'>> /\ job'[p].staged = <<>>
        BY <3>1, <3>5 DEF Paths
      <3> QED
        BY <3>2, <3>6 DEF Order, Paths
    <2>8. Phase(p, {"file"}, {"file"})'
      BY <2>1 DEF Phase
    <2>9. Result(p, {"file"})'
      BY <1>1, <2>1, <2>2, <2>4 DEF Result, Unclear, Same
    <2>10. MidOK(p)'
      BY <2>5, <2>6, <2>7, <2>8, <2>9 DEF MidOK, Both
    <2>11. ProcOK(p)' /\ pc'[p] \in Moving
      BY <1>4, <2>1, <2>10 DEF ProcOK, Moving
    <2> QED
      BY <1>1, <2>11, KeptData DEF Same
  <1> QED
    BY <1>8, <1>9

\* What is taken back was not there before.
LEMMA RollbackData ==
    ASSUME Distinct, NEW p \in Procs, Going(p), Rollback(p)
    PROVE  Data'
  <1> DEFINE f == Last(job[p].moved)
  <1>1. /\ pc'[p] = IF Len(job[p].moved) = 1 THEN "unlock" ELSE "rollback"
        /\ Same(p) /\ job'[p].moved = Front(job[p].moved)
        /\ job'[p].staged = job[p].staged /\ job'[p].base = job[p].base
        /\ job'[p].outcome = job[p].outcome /\ DiskOK'
        /\ \/ ~exists /\ UNCHANGED disk
           \/ exists /\ f = Followups /\ Put("followups", job[p].base)
           \/ exists /\ f # Followups /\ Has("artifacts") /\ Put("artifacts", disk["artifacts"] \ {f})
           \/ ~Has("artifacts") /\ UNCHANGED disk
    BY RollbackEffect DEF Going
  <1>2. pc[p] = "rollback" /\ pc[p] \in Midway /\ pc[p] \in Moving /\ UNCHANGED unanswered
    BY DEF Rollback, Midway, Moving, bounds
  <1>3. pc'[p] \in {"unlock", "rollback"}
    BY <1>1
  <1>4. Fresher(p)' /\ NotYet(p)'
    BY <1>1, <1>3, FresherStays DEF Going, ProcOK, Same, NotYet, Outside, Moving
  <1>5. PICK W \in SUBSET Both, D \in SUBSET Both :
           Plan(p, W) /\ Order(p, W, D) /\ Phase(p, W, D) /\ Result(p, D)
    BY <1>2, MidFacts
  <1>6. D # {} /\ D \subseteq W /\ job[p].moved = Paths(Own(p), D)
    BY <1>2, <1>5 DEF Phase, Order
  <1>7. Len(job[p].moved) = 1 <=> D # Both
    <2>1. Len(Paths(Own(p), D)) = 1 <=> D # Both
      BY <1>6, PathsFacts
    <2> QED
      BY <1>6, <2>1
  <1>8. Loaded(p) /\ Own(p) \in FileT /\ exists /\ Has("artifacts") /\ InOrder(Lines)
        /\ (Own(p) # Followups \/ job[p].kind \notin Exclusive \union {"report"})
        /\ RecordOK(job[p], pc[p])
    BY <1>2, MidFacts DEF LogOK, Going
  <1>9. CASE "notes" \in D
    <2>1. f = Followups /\ Put("followups", Before(p)["followups"])
      <3>1. f = Followups
        <4>1. Last(Paths(Own(p), D)) = Followups
          BY <1>9, PathsFacts
        <4> QED
          BY <1>6, <4>1
      <3>2. job[p].base = Before(p)["followups"]
        BY <1>5, <1>6, <1>9 DEF Plan
      <3> QED
        BY <1>1, <1>8, <3>1, <3>2
    <2>2. /\ disk'["followups"] = Before(p)["followups"]
          /\ \A part \in Parts \ {"followups"} : disk'[part] = disk[part]
      BY <2>1, Puts, PartsAre DEF Going
    <2>3. /\ disk'["events"] = disk["events"] /\ disk'["status"] = disk["status"]
          /\ disk'["artifacts"] = disk["artifacts"]
      BY <2>2, PartsAre
    <2>4. FilesAre(p, D) /\ job[p].outcome = "failed"
      BY <1>2, <1>5, <1>9 DEF Result, Unclear
    <2>5. FilesAre(p, D \ {"notes"})'
      <3>1. Own(p)' = Own(p) /\ Before(p)' = Before(p)
        BY <1>1, <2>3, KeepsOwn
      <3> QED
        BY <2>2, <2>3, <2>4, <3>1 DEF FilesAre
    <2>6. D \ {"notes"} \in SUBSET Both /\ "notes" \notin D \ {"notes"}
      OBVIOUS
    <2>7. ~unanswered' => Sound(Lines, disk'["followups"])
      BY <1>2, <1>8, <2>2 DEF Loaded, Quiet
    <2>8. FilesOK' /\ Minds(p)
      BY <1>1, <1>2, <2>3, <2>5, <2>6, <2>7, LogFrom
    <2>9. CASE D = Both
      <3>1. pc'[p] = "rollback" /\ W = Both /\ D \ {"notes"} = {"file"}
        BY <1>1, <1>6, <1>7, <2>9 DEF Both
      <3>2. Loaded(p)'
        BY <1>1, <1>8, <2>3, LoadedStays DEF Going
      <3>3. Plan(p, {"file"})'
        <4>1. Plan(p, {"file"})
          BY <1>5, <3>1, PlanSubset DEF Both
        <4> QED
          BY <1>1, <2>3, <4>1, PlanStays
      <3>4. Order(p, {"file"}, {"file"})'
        <4>1. Own(p)' = Own(p)
          BY <1>1, <2>3, KeepsOwn
        <4>2. Both \ Both = {} /\ Both \ {"notes"} = {"file"} /\ {"file"} \ {"file"} = {}
          BY DEF Both
        <4>3. job[p].staged = Paths(Own(p), {})
          BY <1>5, <2>9, <3>1, <4>2 DEF Order
        <4>4. Front(Paths(Own(p), Both)) = Paths(Own(p), {"file"})
          BY <4>2, PathsFacts DEF Both
        <4>5. job'[p].moved = Paths(Own(p), {"file"}) /\ job'[p].staged = Paths(Own(p), {})
          BY <1>1, <1>6, <2>9, <4>3, <4>4
        <4>6. job'[p].moved = <<Own(p)'>> /\ job'[p].staged = <<>>
          BY <4>1, <4>5 DEF Paths
        <4> QED
          BY <4>2, <4>6 DEF Order, Paths
      <3>5. Phase(p, {"file"}, {"file"})'
        BY <3>1 DEF Phase
      <3>6. Result(p, {"file"})'
        BY <1>1, <2>4, <2>5, <3>1 DEF Result
      <3>7. MidOK(p)'
        BY <3>2, <3>3, <3>4, <3>5, <3>6 DEF MidOK, Both
      <3>8. ProcOK(p)'
        BY <1>4, <3>1, <3>7 DEF ProcOK, NothingLeft
      <3> QED
        BY <2>8, <3>8, Assemble DEF Going
    <2>10. CASE D # Both
      <3>1. pc'[p] = "unlock" /\ "file" \notin D
        BY <1>1, <1>7, <1>9, <2>10 DEF Both
      <3>2. disk["artifacts"] = Before(p)["artifacts"]
        BY <2>4, <3>1 DEF FilesAre
      <3>3. NothingLeft(p)'
        <4>1. job'[p].before[1] = Before(p)
          BY <1>1 DEF Same, Before
        <4>2. disk["events"] = Before(p)["events"] /\ disk["status"] = Before(p)["status"]
          BY <1>8 DEF Loaded
        <4> QED
          BY <2>2, <2>3, <3>2, <4>1, <4>2, PartsAre DEF NothingLeft
      <3>4. ProcOK(p)'
        BY <1>4, <3>1, <3>3 DEF ProcOK, Midway, Moving
      <3> QED
        BY <2>8, <3>4, Assemble DEF Going
    <2> QED
      BY <2>9, <2>10
  <1>10. CASE "notes" \notin D
    <2>1. D = {"file"} /\ D # Both
      BY <1>6, <1>10 DEF Both
    <2>2. pc'[p] = "unlock"
      BY <1>1, <1>7, <2>1
    <2>3. Own(p) \notin Before(p)["artifacts"] /\ job[p].kind \in Exclusive \union {"report"}
      BY <1>5, <1>6, <2>1 DEF Plan
    <2>4. f = Own(p) /\ f # Followups /\ Put("artifacts", disk["artifacts"] \ {f})
      <3>1. f = Own(p)
        BY <1>6, <2>1, PathsFacts
      <3>2. f # Followups
        BY <1>8, <2>3, <3>1
      <3> QED
        BY <1>1, <1>8, <3>1, <3>2
    <2>5. /\ disk'["artifacts"] = disk["artifacts"] \ {Own(p)}
          /\ \A part \in Parts \ {"artifacts"} : disk'[part] = disk[part]
      BY <2>4, Puts, PartsAre DEF Going
    <2>6. /\ disk'["events"] = disk["events"] /\ disk'["status"] = disk["status"]
          /\ disk'["followups"] = disk["followups"]
      BY <2>5, PartsAre
    <2>7. Own(p)' = Own(p) /\ Before(p)' = Before(p) /\ Added(p)' = Added(p)
      BY <1>1, <2>6, KeepsOwn
    <2>8. CASE FilesAre(p, {"file"}) /\ (job[p].kind = "report" => job[p].outcome = "failed" \/ unanswered)
      <3>1. /\ disk'["artifacts"] = Before(p)["artifacts"]
            /\ disk'["followups"] = Before(p)["followups"]
        BY <2>3, <2>5, <2>6, <2>8 DEF FilesAre
      <3>2. FilesAre(p, {})'
        BY <2>7, <3>1 DEF FilesAre
      <3>3. ~unanswered' => Sound(Lines, disk'["followups"])
        BY <1>2, <1>8, <3>1 DEF Loaded, Quiet
      <3>4. FilesOK' /\ Minds(p)
        BY <1>1, <1>2, <2>6, <3>2, <3>3, LogFrom
      <3>5. NothingLeft(p)'
        <4>1. job'[p].before[1] = Before(p)
          BY <1>1 DEF Same, Before
        <4>2. disk["events"] = Before(p)["events"] /\ disk["status"] = Before(p)["status"]
          BY <1>8 DEF Loaded
        <4> QED
          BY <2>6, <3>1, <4>1, <4>2, PartsAre DEF NothingLeft
      <3>6. ProcOK(p)'
        BY <1>4, <2>2, <3>5 DEF ProcOK, Midway, Moving
      <3> QED
        BY <3>4, <3>6, Assemble DEF Going
    <2>9. CASE job[p].outcome = "unclear" /\ job[p].kind = "report" /\ unanswered /\ FilesAre(p, Both)
      <3>1. /\ disk'["artifacts"] = Before(p)["artifacts"]
            /\ disk'["followups"] = Added(p)
        BY <2>3, <2>5, <2>6, <2>9 DEF FilesAre, Both
      <3>2. FilesAre(p, {"notes"})'
        BY <2>7, <3>1 DEF FilesAre
      <3>3. unanswered'
        BY <1>2, <2>9
      <3>4. FilesOK' /\ Minds(p)
        BY <1>1, <1>2, <2>6, <2>9, <3>2, <3>3, LogFrom DEF Both
      <3>5. ProcOK(p)'
        BY <1>1, <1>4, <2>2, <2>9 DEF ProcOK, Midway, Moving, NothingLeft
      <3> QED
        BY <3>4, <3>5, Assemble DEF Going
    <2>10. \/ FilesAre(p, {"file"}) /\ job[p].outcome = "failed"
           \/ job[p].outcome = "unclear" /\ Unclear(p, {"file"})
      BY <1>2, <1>5, <2>1 DEF Result
    <2> QED
      BY <2>8, <2>9, <2>10 DEF Unclear
  <1> QED
    BY <1>9, <1>10

\* The artifact goes first, and then the follow-ups.
LEMMA CommitData ==
    ASSUME Distinct, NEW p \in Procs, Going(p), Commit(p), ~Fail(p), job[p].staged # <<>>
    PROVE  Data'
  <1> DEFINE f == Head(job[p].staged)
  <1>1. /\ Renamed(p, f) /\ UNCHANGED pc /\ Same(p)
        /\ job'[p].staged = Tail(job[p].staged)
        /\ job'[p].moved = Append(job[p].moved, f)
        /\ job'[p].base = job[p].base /\ job'[p].outcome = job[p].outcome
    BY CommitEffect DEF Going
  <1>2. pc[p] = "commit" /\ pc'[p] = "commit" /\ pc[p] \in Midway /\ pc'[p] \in Moving
    <2>1. pc[p] = "commit"
      BY DEF Commit
    <2> QED
      BY <1>1, <2>1 DEF Midway, Moving
  <1>3. Fresher(p)' /\ NotYet(p)' /\ NothingLeft(p)'
    BY <1>1, <1>2, FresherStays DEF Going, ProcOK, Same, NotYet, Outside, NothingLeft
  <1>4. PICK W \in SUBSET Both, D \in SUBSET Both :
           Plan(p, W) /\ Order(p, W, D) /\ Phase(p, W, D) /\ Result(p, D)
    BY <1>2, MidFacts
  <1>5. /\ W # D /\ D \subseteq W /\ ("notes" \in D /\ "file" \in W => "file" \in D)
        /\ job[p].moved = Paths(Own(p), D) /\ job[p].staged = Paths(Own(p), W \ D)
    BY <1>4, OrderFacts DEF Order
  <1>6. Complete(p, W) /\ FilesAre(p, D) /\ job[p].outcome = "none"
    BY <1>2, <1>4 DEF Phase, Result
  <1>7. Loaded(p) /\ (Own(p) # Followups \/ job[p].kind \notin Exclusive \union {"report"})
    BY <1>2, MidFacts
  \* Whatever is renamed, these follow.
  <1>8. ASSUME NEW E \in SUBSET Both, E \subseteq W, "notes" \in E /\ "file" \in W => "file" \in E,
               disk'["events"] = disk["events"], disk'["status"] = disk["status"],
               job'[p].moved = Paths(Own(p), E), job'[p].staged = Paths(Own(p), W \ E),
               FilesAre(p, E)'
        PROVE  Data'
    <2>1. "notes" \in E => job[p].kind \in {"report", "followup"}
      BY <1>4, <1>8 DEF Plan
    <2>2. FilesOK' /\ Minds(p)
      BY <1>1, <1>2, <1>8, <2>1, LogFrom
    <2>3. Loaded(p)'
      BY <1>1, <1>7, <1>8, LoadedStays DEF Going
    <2>4. Plan(p, W)'
      BY <1>1, <1>4, <1>8, PlanStays
    <2>5. Order(p, W, E)'
      <3>1. Own(p)' = Own(p)
        BY <1>1, <1>8, KeepsOwn
      <3>2. job'[p].moved = Paths(Own(p)', E) /\ job'[p].staged = Paths(Own(p)', W \ E)
        BY <1>8, <3>1
      <3> HIDE DEF f
      <3> QED
        BY <1>8, <3>2 DEF Order, Paths
    <2>6. Phase(p, W, E)'
      <3>1. Complete(p, W)'
        BY <1>1, <1>6, <1>8, CompleteStays
      <3> QED
        BY <1>2, <3>1 DEF Phase
    <2>7. Result(p, E)'
      BY <1>1, <1>2, <1>6, <1>8 DEF Result
    <2>8. MidOK(p)'
      BY <2>3, <2>4, <2>5, <2>6, <2>7 DEF MidOK
    <2>9. ProcOK(p)'
      BY <1>2, <1>3, <2>8 DEF ProcOK
    <2> QED
      BY <2>2, <2>9, Assemble DEF Going
  <1>9. CASE "file" \in W \ D
    <2>1. D = {}
      BY <1>5, <1>9 DEF Both
    <2>2. /\ Head(Paths(Own(p), W \ D)) = Own(p)
          /\ Tail(Paths(Own(p), W \ D)) = Paths(Own(p), (W \ D) \ {"file"})
          /\ Append(Paths(Own(p), D), Own(p)) = Paths(Own(p), {"file"})
      <3>1. W \ D \in SUBSET Both
        OBVIOUS
      <3> QED
        BY <1>9, <2>1, <3>1, PathsFacts
    <2>3. (W \ D) \ {"file"} = W \ {"file"}
      BY <2>1
    <2>4. /\ f = Own(p) /\ job'[p].staged = Paths(Own(p), W \ {"file"})
          /\ job'[p].moved = Paths(Own(p), {"file"})
      BY <1>1, <1>5, <2>2, <2>3
    <2>5. f # Followups
      BY <1>4, <1>7, <1>9, <2>4 DEF Plan
    <2>6. Put("artifacts", disk["artifacts"] \union {Own(p)})
      BY <1>1, <2>4, <2>5 DEF Renamed
    <2>7. /\ disk'["artifacts"] = disk["artifacts"] \union {Own(p)}
          /\ disk'["followups"] = disk["followups"]
          /\ disk'["events"] = disk["events"] /\ disk'["status"] = disk["status"]
      BY <2>6, Puts, PartsAre DEF Going
    <2>8. FilesAre(p, {"file"})'
      <3>1. Own(p)' = Own(p) /\ Before(p)' = Before(p)
        BY <1>1, <2>7, KeepsOwn
      <3> QED
        BY <1>6, <2>1, <2>7, <3>1 DEF FilesAre
    <2> QED
      BY <1>8, <1>9, <2>4, <2>7, <2>8 DEF Both
  <1>10. CASE "file" \notin W \ D
    <2>1. W \ D = {"notes"} /\ "notes" \notin D
      BY <1>5, <1>10 DEF Both
    <2>2. /\ Head(Paths(Own(p), W \ D)) = Followups /\ Tail(Paths(Own(p), W \ D)) = <<>>
          /\ Append(Paths(Own(p), D), Followups) = Paths(Own(p), D \union {"notes"})
      <3>1. W \ D \in SUBSET Both
        OBVIOUS
      <3> QED
        BY <2>1, <3>1, PathsFacts
    <2>3. W \ (D \union {"notes"}) = {} /\ Paths(Own(p), {}) = <<>>
      BY <2>1 DEF Paths
    <2>4. /\ f = Followups /\ job'[p].staged = Paths(Own(p), W \ (D \union {"notes"}))
          /\ job'[p].moved = Paths(Own(p), D \union {"notes"})
      BY <1>1, <1>5, <2>2, <2>3
    <2>5. job[p].base = Before(p)["followups"]
      BY <1>4, <2>1 DEF Plan
    <2>6. Put("followups", Added(p))
      BY <1>1, <2>4, <2>5 DEF Renamed, Added
    <2>7. /\ disk'["followups"] = Added(p) /\ disk'["artifacts"] = disk["artifacts"]
          /\ disk'["events"] = disk["events"] /\ disk'["status"] = disk["status"]
      BY <2>6, Puts, PartsAre DEF Going
    <2>8. FilesAre(p, D \union {"notes"})'
      <3>1. Own(p)' = Own(p) /\ Before(p)' = Before(p) /\ Added(p)' = Added(p)
        BY <1>1, <2>7, KeepsOwn
      <3> QED
        BY <1>6, <2>7, <3>1 DEF FilesAre
    <2>9. D \union {"notes"} \in SUBSET Both /\ D \union {"notes"} \subseteq W
          /\ ("file" \in W => "file" \in D \union {"notes"})
      BY <1>5, <2>1, <1>10 DEF Both
    <2> QED
      BY <1>8, <2>4, <2>7, <2>8, <2>9
  <1> QED
    BY <1>9, <1>10

\* What an operation will write is not there yet.
LEMMA StageData ==
    ASSUME Distinct, NEW p \in Procs, Going(p), Stage(p), ~Fail(p)
    PROVE  Data'
  <1>1. pc[p] = "stage" /\ pc[p] \in Midway /\ pc[p] \notin Moving /\ pc[p] \in RunHeld
        /\ UNCHANGED unanswered
    BY DEF Stage, Midway, Moving, RunHeld, bounds
  <1>2. job[p].kind \in Exclusive \union {"followup", "report"}
    BY <1>1 DEF Going, TypedInv, StagersOnly, Stager
  <1>3. /\ ~Refused(p) /\ Has("events") /\ pc'[p] = "commit" /\ Same(p)
        /\ job'[p].staged = StagedBy(p) /\ job'[p].moved = job[p].moved
        /\ job'[p].base = IF Has("followups") THEN disk["followups"] ELSE <<>>
        /\ job'[p].outcome = job[p].outcome
        /\ Put("artifacts", IF Has("artifacts") THEN disk["artifacts"] ELSE {})
    BY <1>2, StageEffect DEF Going
  <1>4. Loaded(p) /\ Has("artifacts") /\ Has("followups") /\ Own(p) \in FileT
    BY <1>1, MidFacts DEF LogOK
  <1>5. /\ disk'["artifacts"] = disk["artifacts"]
        /\ \A part \in Parts \ {"artifacts"} : disk'[part] = disk[part]
    BY <1>3, <1>4, Puts, PartsAre DEF Going
  <1>6. /\ disk'["events"] = disk["events"] /\ disk'["status"] = disk["status"]
        /\ disk'["followups"] = disk["followups"]
        /\ \A part \in Parts \ {"config"} : disk'[part] = disk[part]
    BY <1>5, PartsAre
  <1>7. PICK V \in SUBSET Both, D \in SUBSET Both :
           Plan(p, V) /\ Order(p, V, D) /\ Phase(p, V, D) /\ Result(p, D)
    BY <1>1, MidFacts
  <1>8. D = {} /\ FilesAre(p, {}) /\ job[p].outcome = "none" /\ job[p].moved = <<>>
    BY <1>1, <1>7, OrderFacts DEF Phase, Order, Result
  <1>9. disk["artifacts"] = Before(p)["artifacts"] /\ disk["followups"] = Before(p)["followups"]
    BY <1>8 DEF FilesAre
  <1>10. /\ Own(p).kind = job[p].kind /\ Own(p).seq = PathSeq(job[p].kind)
         /\ Own(p) \in OnDisk(job[p].kind) <=> Own(p) \in Before(p)["artifacts"]
    BY <1>4, <1>9 DEF Own, File, OnDisk
  <1>11. "report" \notin Exclusive /\ "followup" \notin Exclusive
    BY DEF Exclusive, Singletons
  <1>12. PICK W \in SUBSET Both :
            /\ StagedBy(p) = Paths(Own(p), W)
            /\ "file" \in W => Own(p) \notin Before(p)["artifacts"]
                                 /\ job[p].kind \in Exclusive \union {"report"}
            /\ "notes" \in W => job[p].kind \in {"report", "followup"}
            /\ Complete(p, W)
    <2>1. CASE job[p].kind \in Exclusive
      <3>1. Own(p) \notin Before(p)["artifacts"]
        BY <1>3, <1>10, <1>11, <2>1 DEF Refused
      <3>2. StagedBy(p) = Paths(Own(p), {"file"}) /\ Complete(p, {"file"})
        BY <1>11, <2>1 DEF StagedBy, Paths, Complete
      <3>3. {"file"} \in SUBSET Both /\ "notes" \notin {"file"}
        BY DEF Both
      <3> QED
        BY <2>1, <3>1, <3>2, <3>3
    <2>2. CASE job[p].kind = "followup"
      BY <1>11, <2>2 DEF StagedBy, Paths, Complete, Both
    <2>3. CASE job[p].kind = "report" /\ Own(p) \in OnDisk("report")
      <3>1. StagedBy(p) = Paths(Own(p), {"notes"})
        BY <1>11, <2>3 DEF StagedBy, Paths
      <3>2. Complete(p, {"notes"})
        BY <1>10, <1>11, <2>3 DEF Complete
      <3>3. {"notes"} \in SUBSET Both /\ "file" \notin {"notes"}
        BY DEF Both
      <3> QED
        BY <2>3, <3>1, <3>2, <3>3
    <2>4. CASE job[p].kind = "report" /\ Own(p) \notin OnDisk("report")
      BY <1>10, <1>11, <2>4 DEF StagedBy, Paths, Complete, Both
    <2> QED
      BY <1>2, <2>1, <2>2, <2>3, <2>4
  <1>13. Loaded(p)'
    BY <1>3, <1>4, <1>6, LoadedStays DEF Going
  <1>14. Own(p)' = Own(p) /\ Before(p)' = Before(p)
    BY <1>3, <1>6, KeepsOwn
  <1>15. Plan(p, W)'
    <2>1. job'[p].base = Before(p)["followups"] /\ job'[p].kind = job[p].kind
      BY <1>3, <1>4, <1>9 DEF Same
    <2> QED
      BY <1>12, <1>14, <2>1 DEF Plan
  <1>16. Order(p, W, {})'
    <2>1. W \ {} = W /\ Paths(Own(p), {}) = <<>>
      BY DEF Paths
    <2>2. job'[p].moved = Paths(Own(p)', {}) /\ job'[p].staged = Paths(Own(p)', W \ {})
      BY <1>3, <1>8, <1>12, <1>14, <2>1
    <2> QED
      BY <2>2 DEF Order, Paths
  <1>17. Phase(p, W, {})'
    <2>1. Complete(p, W)'
      BY <1>3, <1>6, <1>12, CompleteStays
    <2> QED
      BY <1>3, <2>1 DEF Phase
  <1>18. Result(p, {})'
    <2>1. FilesAre(p, {})'
      BY <1>3, <1>5, <1>6, <1>8, FilesStay
    <2> QED
      BY <1>3, <1>8, <2>1 DEF Result
  <1>19. MidOK(p)'
    BY <1>13, <1>15, <1>16, <1>17, <1>18 DEF MidOK, Both
  <1>20. Fresher(p)' /\ NotYet(p)' /\ NothingLeft(p)'
    BY <1>3, <1>1, FresherStays DEF Going, ProcOK, Same, NotYet, Outside, NothingLeft, Moving
  <1>21. ProcOK(p)'
    BY <1>3, <1>19, <1>20 DEF ProcOK
  <1> QED
    BY <1>1, <1>3, <1>6, <1>21, KeptData DEF Same

-----------------------------------------------------------------------------
(* Steps that add to the log.                                              *)

\* What the new line names is there.
LEMMA LoggedKept ==
    ASSUME NEW p \in Procs, Going(p), pc[p] = "append",
           NEW D \in SUBSET Both, Complete(p, D), FilesAre(p, D)
    PROVE  Kept(Append(Lines, Logged(p)), disk["artifacts"], disk["followups"])
  <1> DEFINE A == disk["artifacts"]
             F == disk["followups"]
             e == Logged(p)
  <1>1. pc[p] \in Midway
    BY DEF Midway, Moving
  <1>2. Loaded(p) /\ LogOK /\ RecordOK(job[p], pc[p]) /\ Own(p) \in FileT
    BY <1>1, MidFacts DEF Going
  <1>3. Kept(Lines, A, F)
    BY <1>2 DEF LogOK
  <1>4. Range(Append(Lines, e)) = Range(Lines) \union {e}
    <2>1. Lines \in Seq(EventT)
      BY <1>1, MidFacts, LogTyped DEF Going
    <2> QED
      BY <2>1, RangeAppend
  <1>5. Range(Added(p)) = Range(Before(p)["followups"]) \union {Entry(job[p])}
    BY <1>2, AddedFacts
  <1>6. e.refs = Refs(p) /\ Entry(e) = Entry(job[p])
    BY DEF Logged, NewEvent, Entry
  <1>7. "report" \notin Exclusive /\ "followup" \notin Exclusive
    BY DEF Exclusive, Singletons
  <1>8. job[p].kind \in Exclusive \union {"report"} => Own(p) \in A
    BY <1>7 DEF Complete, FilesAre
  <1>9. job[p].kind \in {"report", "followup"} => Entry(job[p]) \in Range(F)
    BY <1>5, <1>7 DEF Complete, FilesAre
  <1>10. /\ Own(p) \in Refs(p) /\ Own(p) # Followups => job[p].kind \in Exclusive \union {"report"}
         /\ Refs(p) \subseteq {Own(p), Followups}
         /\ Followups \in Refs(p) => job[p].kind \in {"report", "followup"}
    <2>1. job[p].kind \in Exclusive => Own(p) # Followups
      BY <1>1, MidFacts
    <2> QED
      BY <1>7, <2>1 DEF Refs
  <1>11. e.refs \ {Followups} \subseteq A /\ (Followups \in e.refs => Entry(e) \in Range(F))
    BY <1>6, <1>8, <1>9, <1>10
  <1> HIDE DEF A, F, e
  <1>12. Kept(Append(Lines, e), A, F)
    BY <1>3, <1>4, <1>11 DEF Kept
  <1> QED
    BY <1>12 DEF A, F, e

LEMMA LongerLog ==
    ASSUME Distinct, NEW p \in Procs, Going(p), pc[p] = "append", pc'[p] \notin Moving,
           \A part \in Parts \ {"events"} : disk'[part] = disk[part],
           disk'["events"] \in EventsT, Logged(p) \in EventT,
           disk'["events"].lines = Append(Lines, Logged(p)),
           job'[p].kind = job[p].kind, job'[p].content = job[p].content
    PROVE  FilesOK' /\ Minds(p)
  <1> DEFINE A == disk["artifacts"]
             F == disk["followups"]
             L == Append(Lines, Logged(p))
  <1>1. pc[p] \in Midway /\ pc[p] \in RunHeld
    BY DEF Midway, Moving, RunHeld
  <1>2. PICK W \in SUBSET Both, D \in SUBSET Both :
           Plan(p, W) /\ Order(p, W, D) /\ Phase(p, W, D) /\ Result(p, D)
    BY <1>1, MidFacts
  <1>3. Complete(p, D) /\ FilesAre(p, D)
    BY <1>2 DEF Phase, Result
  <1>4. /\ Loaded(p) /\ LogOK /\ RecordOK(job[p], pc[p]) /\ Has("events")
        /\ Monotone /\ OnlyBy(p) /\ DiskOK
    BY <1>1, MidFacts DEF Going
  <1>5. disk'["artifacts"] = A /\ disk'["followups"] = F
    BY PartsAre
  <1>6. Lines \in Seq(EventT)
    BY <1>4, LogTyped
  <1>7. /\ Has("artifacts")' /\ Has("followups")' /\ Has("events")'
        /\ Has("followups")
    <2>1. disk'["events"] # Absent
      BY Present
    <2> QED
      BY <1>4, <1>5, <2>1 DEF Has, LogOK
  <1>8. Kept(L, A, F)
    BY <1>3, LoggedKept
  <1>9. Logged(p).kind = job[p].kind /\ Logged(p).content = job[p].content
    BY DEF Logged, NewEvent
  <1>10. OncePer(L) /\ InOrder(L)
    BY <1>4, <1>6, <1>9, LogAppend DEF LogOK, Loaded
  <1>11. ASSUME ~unanswered' PROVE Sound(L, F)
    <2>1. Sound(Lines, Before(p)["followups"])
      BY <1>4, <1>11 DEF Loaded, Quiet, Monotone
    <2>2. /\ ReportsIn(Lines) \subseteq ReportsIn(L)
          /\ job[p].kind = "report" => job[p].content \in ReportsIn(L)
      BY <1>6, <1>9, ReportsAppend
    <2>3. \/ F = Before(p)["followups"]
          \/ F = Added(p) /\ job[p].kind \in {"report", "followup"}
      BY <1>2, NotesNow
    <2>4. InOrder(Lines)
      BY <1>4 DEF LogOK
    <2> HIDE DEF L, F
    <2> QED
      BY <1>4, <2>1, <2>2, <2>3, <2>4, SoundAfter
  <1>12. ASSUME NEW n \in UsedIn(F) PROVE n <= ops'
    <2>1. F \in Seq(EntryT)
      BY <1>4, <1>7, PartsAre DEF DiskOK, PartOK
    <2>2. PICK y : y \in Range(F) /\ n = y.content
      BY UsedFacts
    <2>3. y \in EntryT
      BY <2>1, <2>2 DEF Range
    <2>4. n \in Nat
      BY <2>2, <2>3 DEF EntryT
    <2>5. n <= ops
      BY <1>4 DEF LogOK
    <2> QED
      BY <1>4, <2>4, <2>5 DEF Monotone
  <1>13. Lines' = L
    BY DEF Lines
  <1>14. exists'
    BY <1>4 DEF LogOK, Monotone
  <1> HIDE DEF L, A, F
  <1>15. Kept(Lines, disk["artifacts"], disk["followups"])'
    BY <1>5, <1>8, <1>13 DEF Kept, Entry
  <1>16. (OncePer(Lines) /\ InOrder(Lines))'
    BY <1>10, <1>13 DEF OncePer, InOrder, ReportsIn
  <1>17. (\A n \in UsedIn(disk["followups"]) : n <= ops)'
    BY <1>5, <1>12 DEF UsedIn
  <1>18. Quiet(Lines, disk["followups"])'
    BY <1>5, <1>11, <1>13 DEF Quiet, Sound, ReportsIn, IsInjective
  <1>19. FilesOK'
    BY <1>7, <1>14, <1>15, <1>16, <1>17, <1>18 DEF FilesOK, LogOK
  <1>20. Minds(p)
    BY <1>1, <1>4, <1>5, <1>7 DEF Minds, F
  <1> QED
    BY <1>19, <1>20

LEMMA AppendData ==
    ASSUME Distinct, NEW p \in Procs, Going(p), AppendEvent(p), ~Fail(p)
    PROVE  Data'
  <1>1. /\ pc[p] = "append" /\ pc'[p] = "status" /\ UNCHANGED job
        /\ \A part \in Parts \ {"events"} : disk'[part] = disk[part]
        /\ disk'["events"].lines = Append(Lines, Logged(p)) /\ Logged(p) \in EventT
        /\ disk'["events"] \in EventsT
    BY AppendEffect DEF Going
  <1>2. FilesOK' /\ Minds(p)
    BY <1>1, LongerLog DEF Moving
  <1>3. Fresher(p)' /\ NotYet(p)' /\ NothingLeft(p)'
    BY <1>1, FresherStays DEF Going, ProcOK, NotYet, Outside, NothingLeft
  <1>4. Has("events")'
    BY <1>1, Present DEF Has
  <1>5. ProcOK(p)'
    BY <1>1, <1>3, <1>4 DEF ProcOK, Midway, Moving
  <1> QED
    BY <1>2, <1>5, Assemble DEF Going

LEMMA AppendUnclearData ==
    ASSUME Distinct, NEW p \in Procs, Going(p), AppendUnclear(p)
    PROVE  Data'
  <1>1. /\ Has("events") /\ pc[p] = "append" /\ pc'[p] = "unlock" /\ Same(p)
        /\ job'[p].outcome = "unclear" /\ LeavesUnanswered(p)
        /\ \A part \in Parts \ {"events"} : disk'[part] = disk[part]
        /\ \/ disk'["events"].lines = Lines
           \/ disk'["events"].lines = Append(Lines, Logged(p)) /\ Logged(p) \in EventT
        /\ disk'["events"] \in EventsT
    BY AppendUnclearEffect DEF Going
  <1>2. ProcOK(p)'
    <2>1. Fresher(p)' /\ NotYet(p)' /\ NothingLeft(p)'
      BY <1>1, FresherStays DEF Going, ProcOK, NotYet, Outside, NothingLeft, Same
    <2> QED
      BY <1>1, <2>1 DEF ProcOK, Midway, Moving
  <1>3. CASE disk'["events"].lines = Lines
    <2>1. /\ disk'["artifacts"] = disk["artifacts"] /\ disk'["followups"] = disk["followups"]
          /\ disk'["status"] = disk["status"] /\ disk'["events"].lines = disk["events"].lines
      BY <1>1, <1>3, PartsAre DEF Lines
    <2>2. Has("events")' /\ Has("followups")' = Has("followups")
      BY <1>1, <2>1, Present DEF Has
    <2>3. pc[p] \in Midway /\ pc[p] \in RunHeld
      BY <1>1 DEF Midway, Moving, RunHeld
    <2>4. ~unanswered' => Sound(Lines, disk["followups"])
      <3>1. ~unanswered' => job[p].kind # "report"
        BY <1>1, Zenon DEF LeavesUnanswered
      <3> QED
        BY <2>3, <3>1, LeavesSound
    <2>5. FilesOK'
      BY <1>1, <2>1, <2>2, <2>4, LogKeeps DEF Going
    <2>6. Minds(p)
      BY <1>1, <2>1, <2>2, <2>3 DEF Going, Minds, Same
    <2> QED
      BY <1>2, <2>5, <2>6, Assemble DEF Going
  <1>4. CASE disk'["events"].lines = Append(Lines, Logged(p)) /\ Logged(p) \in EventT
    <2>1. FilesOK' /\ Minds(p)
      BY <1>1, <1>4, LongerLog DEF Moving, Same
    <2> QED
      BY <1>2, <2>1, Assemble DEF Going
  <1> QED
    BY <1>1, <1>3, <1>4

-----------------------------------------------------------------------------
(* The publication of a run, part by part.                                 *)

LEMMA NothingUsed == UsedIn(<<>>) = {} /\ Range(<<>>) = {}
  <1>1. Range(<<>>) = {}
    BY DEF Range
  <1> QED
    BY <1>1 DEF UsedIn

\* The first line of a log.
LEMMA FirstLine ==
    LET L == <<NewEvent("start", 0, {})>>
    IN  /\ \A A, F : Kept(L, A, F)
        /\ OncePer(L) /\ InOrder(L) /\ Sound(L, <<>>)
  <1> DEFINE e == NewEvent("start", 0, {})
             L == <<e>>
  <1>1. e.kind = "start" /\ e.refs = {}
    BY DEF NewEvent
  <1> HIDE DEF e
  <1>2. DOMAIN L = {1} /\ L[1] = e
    OBVIOUS
  <1> HIDE DEF L
  <1>3. Range(L) = {e}
    BY <1>2 DEF Range
  <1>4. \A A, F : Kept(L, A, F)
    BY <1>1, <1>3 DEF Kept
  <1>5. OncePer(L)
    BY <1>2 DEF OncePer
  <1>6. ReportsIn(L) = {}
    BY <1>1, <1>3 DEF ReportsIn
  <1>7. InOrder(L)
    <2>1. 1..0 = {} /\ 0 \in Nat
      OBVIOUS
    <2> QED
      BY <1>6, <2>1 DEF InOrder
  <1>8. Sound(L, <<>>)
    <2>1. IsInjective(<<>>)
      BY DEF IsInjective
    <2> QED
      BY <2>1, NothingUsed DEF Sound
  <1> QED
    BY <1>4, <1>5, <1>7, <1>8 DEF L, e

\* Once the log is there, everything it may name has its place.
LEMMA PublishPartData ==
    ASSUME Distinct, NEW p \in Procs, Going(p), Publish(p), UNCHANGED pc
    PROVE  Data'
  <1>1. pc[p] = "publish" /\ UNCHANGED <<job, exists>> /\ DiskOK'
    BY PublishPart DEF Going
  <1>2. PICK i \in 1..5 :
           /\ ~Has(Layout[i]) /\ \A k \in 1..(i - 1) : Has(Layout[k])
           /\ Put(Layout[i], Fresh(Layout[i]))
    BY PublishPart DEF Going
  <1>3. /\ Layout[1] = "artifacts" /\ Layout[2] = "config" /\ Layout[3] = "followups"
        /\ Layout[4] = "events" /\ Layout[5] = "status"
    BY DEF Layout
  <1>4. pc[p] \notin Moving /\ pc[p] \in RunHeld /\ UNCHANGED <<ops, unanswered>>
        /\ exists /\ pc'[p] = "publish"
    BY <1>1 DEF Publish, Moving, RunHeld, bounds, Going, ProcOK
  <1>5. DiskOK /\ FilesOK /\ Monotone /\ OnlyBy(p) /\ ProcOK(p)
    BY DEF Going
  <1>6. Has("events") => Has("artifacts") /\ Has("followups")
    BY <1>5 DEF FilesOK, LogOK
  <1>7. NotYet(p)' /\ NothingLeft(p)' /\ pc'[p] \notin Midway
    BY <1>1, <1>4, <1>5 DEF ProcOK, NotYet, Outside, NothingLeft, Midway, Moving
  <1>8. ASSUME disk'["followups"] = disk["followups"]
        PROVE  Minds(p) /\ ProcOK(p)'
    <2>1. Fresher(p)'
      BY <1>1, <1>4, <1>5, <1>8, FresherStays DEF ProcOK, Moving
    <2>2. ProcOK(p)'
      BY <1>1, <1>4, <1>7, <2>1 DEF ProcOK
    <2>3. Has("followups")' = Has("followups")
      BY <1>8 DEF Has
    <2>4. Minds(p)
      BY <1>1, <1>4, <1>5, <1>8, <2>3 DEF Minds
    <2> QED
      BY <2>2, <2>4
  <1>9. CASE i = 1
    <2>1. ~Has("artifacts") /\ Put("artifacts", {})
      BY <1>2, <1>3, <1>9 DEF Fresh
    <2>2. /\ disk'["artifacts"] = {} /\ disk'["followups"] = disk["followups"]
          /\ disk'["events"] = disk["events"] /\ disk'["status"] = disk["status"]
      BY <1>5, <2>1, Puts, PartsAre
    <2>3. ~Has("events") /\ NoLogOK
      BY <1>5, <1>6, <2>1 DEF FilesOK
    <2>4. FilesOK'
      BY <2>2, <2>3 DEF FilesOK, NoLogOK, Has
    <2> QED
      BY <1>8, <2>2, <2>4, Assemble DEF Going
  <1>10. CASE i = 2
    <2>1. \A part \in Parts \ {"config"} : disk'[part] = disk[part]
      BY <1>2, <1>3, <1>5, <1>10, Puts, PartsAre
    <2>2. disk'["followups"] = disk["followups"]
      BY <2>1, PartsAre
    <2> QED
      BY <1>1, <1>4, <1>8, <2>1, <2>2, KeptData
  <1>11. CASE i = 3
    <2>1. ~Has("followups") /\ Put("followups", <<>>)
      BY <1>2, <1>3, <1>11 DEF Fresh
    <2>2. /\ disk'["artifacts"] = disk["artifacts"] /\ disk'["followups"] = <<>>
          /\ disk'["events"] = disk["events"] /\ disk'["status"] = disk["status"]
      BY <1>5, <2>1, Puts, PartsAre
    <2>3. ~Has("events") /\ NoLogOK
      BY <1>5, <1>6, <2>1 DEF FilesOK
    <2>4. FilesOK'
      BY <2>2, <2>3 DEF FilesOK, NoLogOK, Has
    <2>5. UsedIn(disk'["followups"]) = {}
      BY <2>2, NothingUsed
    <2>6. Minds(p)
      BY <1>1, <1>4, <1>5, <2>5 DEF Minds
    <2>7. Fresher(p)'
      <3>1. UsedIn(disk["followups"])' = {}
        BY <2>5 DEF UsedIn
      <3> QED
        BY <1>1, <1>4, <1>5, <3>1 DEF ProcOK, Fresher, OnlyBy
    <2>8. ProcOK(p)'
      BY <1>1, <1>4, <1>7, <2>7 DEF ProcOK
    <2> QED
      BY <2>4, <2>6, <2>8, Assemble DEF Going
  <1>12. CASE i = 4
    <2> DEFINE e == NewEvent("start", 0, {})
    <2>1. /\ Has("artifacts") /\ Has("followups") /\ ~Has("events")
          /\ Put("events", [lines |-> <<e>>, torn |-> FALSE])
      BY <1>2, <1>3, <1>12 DEF Fresh
    <2>2. /\ disk'["artifacts"] = disk["artifacts"] /\ disk'["followups"] = disk["followups"]
          /\ disk'["events"].lines = <<e>> /\ disk'["events"] = [lines |-> <<e>>, torn |-> FALSE]
      BY <1>5, <2>1, Puts, PartsAre
    <2>3. disk["artifacts"] = {} /\ disk["followups"] = <<>>
      BY <1>5, <2>1 DEF FilesOK, NoLogOK
    <2>4. Has("events")' /\ Has("artifacts")' /\ Has("followups")'
      <3>1. Fresh("events") \in EventsT /\ Fresh("events") = disk'["events"]
        BY <2>2, FreshOK, PartsAre DEF PartOK, Fresh
      <3>2. disk'["events"] # Absent
        BY <3>1, Present
      <3> QED
        BY <2>1, <2>2, <3>2 DEF Has
    <2>5. Lines' = <<e>>
      BY <2>2 DEF Lines
    <2>6. /\ Kept(<<e>>, {}, <<>>) /\ OncePer(<<e>>) /\ InOrder(<<e>>) /\ Sound(<<e>>, <<>>)
      BY FirstLine
    <2>7. (\A n \in UsedIn(disk["followups"]) : n <= ops)'
      <3>1. UsedIn(disk["followups"])' = UsedIn(<<>>)
        BY <2>2, <2>3 DEF UsedIn
      <3> QED
        BY <3>1, NothingUsed
    <2> HIDE DEF e
    <2>8. Kept(Lines, disk["artifacts"], disk["followups"])'
      BY <2>2, <2>3, <2>5, <2>6 DEF Kept, Entry
    <2>9. (OncePer(Lines) /\ InOrder(Lines))'
      BY <2>5, <2>6 DEF OncePer, InOrder, ReportsIn
    <2>10. Quiet(Lines, disk["followups"])'
      BY <2>2, <2>3, <2>5, <2>6 DEF Quiet, Sound, ReportsIn, IsInjective
    <2>11. FilesOK'
      BY <1>1, <1>4, <2>4, <2>7, <2>8, <2>9, <2>10 DEF FilesOK, LogOK
    <2> QED
      BY <1>8, <2>2, <2>11, Assemble DEF Going
  <1>13. CASE i = 5
    <2>1. Has("events")
      BY <1>2, <1>3, <1>13
    <2>2. /\ disk'["artifacts"] = disk["artifacts"] /\ disk'["followups"] = disk["followups"]
          /\ disk'["events"] = disk["events"]
      BY <1>2, <1>3, <1>5, <1>13, Puts, PartsAre
    <2>3. Has("events")' = Has("events")
      BY <2>2 DEF Has
    <2>4. FilesOK'
      BY <1>4, <1>5, <2>1, <2>2, <2>3, LogKeeps
    <2> QED
      BY <1>8, <2>2, <2>4, Assemble DEF Going
  <1> QED
    BY <1>9, <1>10, <1>11, <1>12, <1>13

-----------------------------------------------------------------------------
(* Every step.                                                             *)

LEMMA StutterData ==
    ASSUME IInv, TypedInv, ops \in Nat, Data, UNCHANGED vars
    PROVE  Data'
  <1>1. UNCHANGED <<exists, disk, pc, job, ops, removing, unanswered>>
    BY DEF vars, tree, bounds
  <1> SUFFICES ASSUME ~removing PROVE Data'
    BY <1>1 DEF Data
  <1>2. Monotone /\ DiskOK /\ Starter \in Procs /\ FilesOK /\ \A q \in Procs : OnlyBy(q) /\ ProcOK(q)
    BY <1>1, ProcsAssumption DEF Monotone, TypedInv, Typed, OnlyBy, Data
  <1>3. Has("events")' = Has("events")
    BY <1>1 DEF Has
  <1>4. pc[Starter] \notin Moving \/ pc'[Starter] \in Moving
    BY <1>1
  <1>5. FilesOK'
    BY <1>1, <1>2, <1>3, <1>4, LogKeeps
  <1>6. ASSUME NEW q \in Procs PROVE ProcOK(q)'
    <2>1. Fresher(q) /\ NotYet(q) /\ NothingLeft(q) /\ (pc[q] \in Midway => MidOK(q))
      BY <1>2 DEF ProcOK
    <2>2. Fresher(q)'
      BY <1>1, <2>1 DEF Fresher, Has, UsedIn
    <2>3. NotYet(q)' /\ NothingLeft(q)'
      BY <1>1, <2>1 DEF NotYet, NothingLeft
    <2>4. pc'[q] \in Midway => MidOK(q)'
      BY <1>1, <1>2, <2>1, MidStays
    <2> QED
      BY <1>1, <1>2, <2>2, <2>3, <2>4 DEF ProcOK, Has
  <1> QED
    BY <1>5, <1>6 DEF Data

LEMMA NextData ==
    ASSUME Distinct, IInv, TypedInv, ops \in Nat, Data, [Next]_vars
    PROVE  Data'
  <1>1. CASE UNCHANGED vars
    BY <1>1, StutterData
  <1>2. CASE Next
    <2> SUFFICES ASSUME ~removing' PROVE Data'
      BY DEF Data
    <2>1. PICK p \in Procs :
             \/ \E kind \in Commands \union {"start"} : Begin(p, kind)
             \/ ReportAgain(p) \/ Step(p) \/ FaultyStep(p)
      BY <1>2 DEF Next
    <2>2. Going(p)
      BY <2>1, Goes
    <2>3. CASE \E kind \in Commands \union {"start"} : Begin(p, kind)
      BY <2>2, <2>3, BeginData
    <2>4. CASE ReportAgain(p)
      BY <2>2, <2>4, AgainData
    <2>5. CASE Step(p) \/ FaultyStep(p)
      <3>1. CASE Turning(p)
        BY <2>2, <3>1, TurningData
      <3>2. CASE Publish(p)
        BY <2>2, <3>2, PublishPartData, PublishEndData
      <3>3. CASE Unlock(p)
        BY <2>2, <3>3, UnlockData
      <3>4. CASE Removing(p)
        BY <3>4, RemovingEffect DEF TypedInv
      <3>5. CASE Crash(p)
        BY <2>2, <3>5, CrashData
      <3>6. CASE Failing(p)
        BY <2>2, <3>6, FailingData
      <3>7. CASE Load(p) /\ ~Fail(p)
        BY <2>2, <3>7, LoadData
      <3>8. CASE Stage(p) /\ ~Fail(p)
        BY <2>2, <3>8, StageData
      <3>9. CASE Commit(p) /\ ~Fail(p)
        BY <2>2, <3>9, CommitData, CommitDoneData
      <3>10. CASE AppendEvent(p) /\ ~Fail(p)
        BY <2>2, <3>10, AppendData
      <3>11. CASE (WriteResolved(p) \/ WriteManifest(p) \/ WriteCurrent(p)) /\ ~Fail(p)
        BY <2>2, <3>11, ConfigData
      <3>12. CASE Rollback(p)
        BY <2>2, <3>12, RollbackData
      <3>13. CASE RollbackFails(p)
        BY <2>2, <3>13, RollbackFailsData
      <3>14. CASE AppendUnclear(p)
        BY <2>2, <3>14, AppendUnclearData
      <3>15. CASE WriteStatus(p) \/ StatusFails(p)
        BY <2>2, <3>15, StatusData
      <3> QED
        BY <2>5, <3>1, <3>2, <3>3, <3>4, <3>5, <3>6, <3>7, <3>8, <3>9, <3>10, <3>11, <3>12,
           <3>13, <3>14, <3>15, Steps
    <2> QED
      BY <2>1, <2>3, <2>4, <2>5
  <1> QED
    BY <1>1, <1>2

LEMMA InitData == Init => Data
  <1> SUFFICES ASSUME Init PROVE Data
    OBVIOUS
  <1>1. /\ disk = [part \in Parts |-> Absent]
        /\ \A p \in Procs : pc[p] = "idle" /\ job[p] = NoJob
    BY DEF Init
  <1>2. NoJob.kind = "none"
    BY DEF NoJob
  <1>3. ~Has("events") /\ ~Has("artifacts") /\ ~Has("followups") /\ ~Has("status")
    BY <1>1, PartsAre DEF Has
  <1>4. FilesOK
    BY <1>3 DEF FilesOK, NoLogOK
  <1>5. \A p \in Procs : ProcOK(p)
    BY <1>1, <1>2 DEF ProcOK, Fresher, NotYet, Outside, NothingLeft, Midway, Moving
  <1> QED
    BY <1>4, <1>5 DEF Data

LEMMA DataAlways == ASSUME Distinct PROVE Spec => [](IInv /\ TypedInv /\ Data)
  <1>1. Bounded => ops \in Nat
    BY BoundsAssumption DEF Bounded
  <1>2. IInv /\ TypedInv /\ ops \in Nat /\ Data /\ [Next]_vars => Data'
    BY NextData
  <1> QED
    BY <1>1, <1>2, InitData, BoundedAlways, TypedAlways, RunFilesInvariant, PTL DEF Spec

-----------------------------------------------------------------------------
(* What the files promise.                                                 *)

\* A published run that no failed start removes loads at every moment, between
\* the steps of an operation and inside them, whichever call failed and whoever
\* died, unless an append was cut short: whatever the log names is there
\* (load in create_load.go, validateArtifacts in artifacts.go).
THEOREM PublishedRunsLoad == ASSUME Distinct PROVE Spec => []PublishedLoads
  <1>1. IInv /\ TypedInv /\ Data => PublishedLoads
    <2> SUFFICES ASSUME Data, Published, ~disk["events"].torn PROVE Loads
      BY DEF PublishedLoads
    <2>1. LogOK
      BY PartsAre DEF Published, Data, FilesOK
    <2>2. ASSUME NEW f \in Named PROVE RefersTo(f)
      <3>1. PICK e \in Range(Lines) : f \in e.refs
        BY DEF Named
      <3>2. f = Followups \/ f \in disk["artifacts"]
        BY <2>1, <3>1 DEF LogOK, Kept
      <3>3. Followups.kind = "followups"
        BY DEF Followups, File
      <3> QED
        BY <2>1, <3>2, <3>3 DEF RefersTo, LogOK
    <2> QED
      BY <2>1, <2>2 DEF Loads, Published, LogOK
  <1> QED
    BY <1>1, DataAlways, PTL

\* No operation overwrites what an event names: the artifact is the one its
\* operation wrote, and every entry of followups.md an event stands for is there,
\* although two commands may have read the file before either wrote it, and a
\* failed one puts back what it read (commitArtifactAndEvent in artifacts.go,
\* commitStagedArtifacts and stageFollowupArtifactForEvent in reports.go).
THEOREM NamedFilesKept == ASSUME Distinct PROVE Spec => []NothingOverwritten
  <1>1. IInv /\ TypedInv /\ Data => NothingOverwritten
    <2> SUFFICES ASSUME Data, Published, NEW i \in DOMAIN Lines
                 PROVE  /\ \A f \in Lines[i].refs \ {Followups} : f \in disk["artifacts"]
                        /\ Followups \in Lines[i].refs => Entry(Lines[i]) \in Range(disk["followups"])
      BY DEF NothingOverwritten
    <2>1. LogOK
      BY PartsAre DEF Published, Data, FilesOK
    <2>2. Lines[i] \in Range(Lines)
      BY DEF Range
    <2> QED
      BY <2>1, <2>2 DEF LogOK, Kept
  <1> QED
    BY <1>1, DataAlways, PTL

\* An operation that reports a definite failure has left the log, the artifacts,
\* the follow-ups and the status as it loaded them (rollbackStagedArtifacts
\* in artifacts.go).  What a failed refresh leaves under config/ is left out.
THEOREM FailuresLeaveNothing == ASSUME Distinct PROVE Spec => []FailureLeavesNothing
  <1>1. IInv /\ TypedInv /\ Data => FailureLeavesNothing
    BY DEF Data, ProcOK, NothingLeft, FailureLeavesNothing
  <1> QED
    BY <1>1, DataAlways, PTL

\* A report ends its attempt once, however often its worker sends it, and an
\* entry of followups.md is there once, halfway through an operation too, unless a
\* report died or ended unclear and was sent again (validateReportTarget and
\* stageReportFollowupsForEvent in reports.go).
THEOREM ReportsEndOnce == ASSUME Distinct PROVE Spec => []ReportedOnce
  <1>1. IInv /\ TypedInv /\ Data => ReportedOnce
    <2> SUFFICES ASSUME TypedInv, Data, Published PROVE ReportedOnce
      BY DEF ReportedOnce
    <2> DEFINE F == disk["followups"]
    <2>1. LogOK /\ ~removing
      BY PartsAre DEF Published, Data, FilesOK
    <2>2. ASSUME ~unanswered PROVE IsInjective(F)
      <3>1. CASE \A p \in Procs : pc[p] \notin Moving
        BY <2>1, <2>2, <3>1 DEF LogOK, Quiet, Sound
      <3>2. ASSUME NEW p \in Procs, pc[p] \in Moving PROVE IsInjective(F)
        <4>1. Loaded(p) /\ RecordOK(job[p], pc[p]) /\ InOrder(Lines) /\ MidOK(p)
          BY <2>1, <3>2 DEF Data, ProcOK, Midway, MidOK, LogOK, TypedInv, Typed, JobsOK
        <4>2. PICK W \in SUBSET Both, D \in SUBSET Both :
                 Plan(p, W) /\ Order(p, W, D) /\ Phase(p, W, D) /\ Result(p, D)
          BY <4>1 DEF MidOK
        <4>3. Sound(Lines, Before(p)["followups"]) /\ Before(p)["followups"] \in Seq(EntryT)
          BY <2>2, <4>1 DEF Loaded, Quiet
        <4>4. CASE F = Before(p)["followups"]
          BY <4>3, <4>4 DEF Sound
        <4>5. CASE F = Added(p) /\ job[p].kind \in {"report", "followup"}
          <5>1. Entry(job[p]) \notin Range(Before(p)["followups"])
            BY <4>1, <4>3, <4>5, EntryIsNew
          <5> QED
            BY <4>3, <4>5, <5>1, InjectiveAppend DEF Added, Sound
        <4> QED
          BY <4>2, <4>4, <4>5, NotesNow
      <3> QED
        BY <3>1, <3>2
    <2> QED
      BY <2>1, <2>2 DEF ReportedOnce, LogOK, OncePer
  <1> QED
    BY <1>1, DataAlways, PTL

=============================================================================
