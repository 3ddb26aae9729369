------------------------- MODULE JobPipeline_proofs -------------------------
(***************************************************************************)
(* Proofs about JobPipeline, for any number of assets, workers, encodes    *)
(* and attempts, and with nothing bounded.                                 *)
(***************************************************************************)
EXTENDS JobPipelineInv, TLAPS

-----------------------------------------------------------------------------
\* The statements of JobStore stay within the table.

\* Every statement of JobStore yields a row.
LEMMA RowTypes ==
    /\ NoRow \in Row
    /\ \A p \in Payloads : Enqueued(p) \in Row
    /\ \A r \in Row :
          /\ Claimed(r) \in Row /\ MarkedFailed(r) \in Row
          /\ Rescheduled(r) \in Row /\ Requeued(r) \in Row /\ MarkedFreed(r) \in Row
          /\ \A reason \in SkipReason : MarkedSkipped(r, reason) \in Row
<1>1. NoRow \in Row
  BY StoreAssumption DEF StoreAssumption, NoRow, Row, JobState, SkipReason
<1>2. \A p \in Payloads : Enqueued(p) \in Row
  BY <1>1, StoreAssumption DEF StoreAssumption, Enqueued, NoRow, Row, JobState
<1>3. ASSUME NEW r \in Row
      PROVE  /\ Claimed(r) \in Row /\ MarkedFailed(r) \in Row
             /\ Rescheduled(r) \in Row /\ Requeued(r) \in Row /\ MarkedFreed(r) \in Row
             /\ \A reason \in SkipReason : MarkedSkipped(r, reason) \in Row
  <2>1. Claimed(r) \in Row
    <3> DEFINE n == IF r.attempts < MaxAttempts THEN r.attempts + 1 ELSE r.attempts
    <3>1. r.attempts \in 0..MaxAttempts
      BY DEF Row
    <3>2. n \in 0..MaxAttempts
      BY <3>1, StoreAssumption DEF StoreAssumption
    <3>3. Claimed(r) = [r EXCEPT !.state = "running", !.attempts = n]
      BY DEF Claimed
    <3> HIDE DEF n
    <3> QED
      BY <3>2, <3>3 DEF Row, JobState
  <2>2. MarkedFailed(r) \in Row /\ Rescheduled(r) \in Row /\ MarkedFreed(r) \in Row
    BY DEF MarkedFailed, Rescheduled, MarkedFreed, Row, JobState
  <2>3. Requeued(r) \in Row
    <3>1. 0 \in 0..MaxAttempts /\ "queued" \in JobState /\ "none" \in SkipReason
      BY StoreAssumption DEF StoreAssumption, JobState, SkipReason
    <3> QED
      BY <3>1 DEF Requeued, Row
  <2>4. \A reason \in SkipReason : MarkedSkipped(r, reason) \in Row
    BY DEF MarkedSkipped, Row, JobState
  <2> QED
    BY <2>1, <2>2, <2>3, <2>4
<1> QED
  BY <1>1, <1>2, <1>3

\* A row written into the table leaves a table.
LEMMA SetRowType ==
    ASSUME row \in [Asset -> Row], NEW a \in Asset, NEW r \in Row, SetRow(a, r)
    PROVE  row' \in [Asset -> Row]
BY DEF SetRow

-----------------------------------------------------------------------------
\* Moves of a task.

TaskOK == task \in [Task -> Local] /\ HasJob

Working == PC \ {"idle", "next"}

\* An update of one task, to a local state that has a job iff it is at work.
LEMMA TaskSet ==
    ASSUME TaskOK, NEW t \in Task, NEW l \in Local,
           l.pc \in {"idle", "next"} <=> l.job = None,
           task' = [task EXCEPT ![t] = l]
    PROVE  TaskOK'
BY DEF TaskOK, HasJob, Job

\* A task at work has a job.
LEMMA WorkingJob ==
    ASSUME TaskOK, NEW t \in Task, task[t].pc \in Working
    PROVE  Job(t) \in Asset /\ Job(t) # None /\ task[t] \in Local
BY DEF TaskOK, HasJob, Job, Local, Working

\* Goto between two steps of a job.
LEMMA GotoOK ==
    ASSUME TaskOK, NEW t \in Task, task[t].pc \in Working,
           NEW pc \in Working, Goto(t, pc)
    PROVE  TaskOK'
<1> DEFINE l == [task[t] EXCEPT !.pc = pc]
<1>1. l \in Local /\ l.pc = pc /\ l.job = Job(t)
  BY WorkingJob DEF Local, Working, Job
<1>2. task' = [task EXCEPT ![t] = l]
  BY DEF Goto
<1> HIDE DEF l
<1> QED
  BY <1>1, <1>2, WorkingJob, TaskSet DEF Working

\* SkipFor, likewise.
LEMMA SkipForOK ==
    ASSUME TaskOK, NEW t \in Task, task[t].pc \in Working,
           NEW reason \in SkipReason, SkipFor(t, reason)
    PROVE  TaskOK'
<1> DEFINE l == [task[t] EXCEPT !.pc = "skip", !.why = reason]
<1>0. "skip" \in Working
  BY DEF Working, PC, WorkerPC
<1>1. l \in Local /\ l.pc = "skip" /\ l.job = Job(t)
  BY WorkingJob, <1>0 DEF Local, Working, Job
<1>2. task' = [task EXCEPT ![t] = l]
  BY DEF SkipFor
<1> HIDE DEF l
<1> QED
  BY <1>0, <1>1, <1>2, WorkingJob, TaskSet DEF Working

\* Idle is a local state.
LEMMA IdleType ==
    /\ Idle \in Local
    /\ [Idle EXCEPT !.pc = "next"] \in Local
BY StoreAssumption DEF StoreAssumption, Idle, Local, PC, SkipReason

\* The end of a run.
LEMMA ReturnOK ==
    ASSUME TaskOK, NEW t \in Task, Return(t)
    PROVE  TaskOK'
<1>1. CASE t = Sweeper
  <2> DEFINE l == [Idle EXCEPT !.pc = "next"]
  <2>1. l \in Local /\ l.pc = "next" /\ l.job = None
    BY IdleType DEF Idle
  <2>2. task' = [task EXCEPT ![t] = l]
    BY <1>1 DEF Return
  <2> HIDE DEF l
  <2> QED
    BY <2>1, <2>2, TaskSet
<1>2. CASE t # Sweeper
  <2>1. Idle \in Local /\ Idle.pc = "idle" /\ Idle.job = None
    BY IdleType DEF Idle
  <2>2. task' = [task EXCEPT ![t] = Idle]
    <3>1. [Idle EXCEPT !.pc = "idle"] = Idle
      BY DEF Idle
    <3> QED
      BY <1>2, <3>1 DEF Return
  <2> QED
    BY <2>1, <2>2, TaskSet
<1> QED
  BY <1>1, <1>2

-----------------------------------------------------------------------------
\* Type correctness.

TypeInv == TypeOK /\ HasJob

\* The part of TypeInv about tasks.
LEMMA TypeInvTask == TypeInv => TaskOK
BY DEF TypeInv, TypeOK, TaskOK

\* A step of a task that writes the table only.
LEMMA RowStep ==
    ASSUME TypeInv, TaskOK', row' \in [Asset -> Row],
           UNCHANGED <<paused, config, todo, serverVars, histVars, used>>
    PROVE  TypeInv'
BY DEF TypeInv, TypeOK, TaskOK, serverVars, histVars

\* ... and writes neither the table nor the server.
LEMMA CallStep ==
    ASSUME TypeInv, TaskOK',
           UNCHANGED <<dbVars, config, todo, serverVars, histVars, used>>
    PROVE  TypeInv'
BY DEF TypeInv, TypeOK, TaskOK, dbVars, serverVars, histVars

\* ... and writes to a replacement only.
LEMMA ReplacementStep ==
    ASSUME TypeInv, TaskOK', srv' \in [NewAsset -> Replacement],
           UNCHANGED <<dbVars, config, todo, orig, srcMark, histVars, used>>
    PROVE  TypeInv'
BY DEF TypeInv, TypeOK, TaskOK, dbVars, histVars

\* What the single statements of the pipeline make of a row.
LEMMA RowEdits ==
    ASSUME NEW r \in Row
    PROVE  /\ [r EXCEPT !.due = TRUE] \in Row
           /\ [r EXCEPT !.ledger = TRUE] \in Row
           /\ [r EXCEPT !.state = "linked"] \in Row
           /\ [r EXCEPT !.state = "done"] \in Row
           /\ [r EXCEPT !.state = "pending_delete"] \in Row
           /\ [r EXCEPT !.state = "done", !.del = "null"] \in Row
           /\ [r EXCEPT !.state = "pending_delete", !.del = "ahead"] \in Row
           /\ [r EXCEPT !.del = "ahead"] \in Row
           /\ [r EXCEPT !.del = "due"] \in Row
           /\ \A n \in NewAsset \cup {None}, s \in Bytes \cup {None} :
                 /\ [r EXCEPT !.new = n, !.newSum = s] \in Row
                 /\ [r EXCEPT !.state = "uploaded", !.new = n, !.newSum = s] \in Row
BY DEF Row, JobState

\* Steps 1 and 2.
LEMMA TypeGuards ==
    ASSUME TypeInv, NEW w \in Worker, Claim(w) \/ Guards(w) \/ EndRun(w)
    PROVE  TypeInv'
<1> w \in Task
  BY DEF Task
<1> TaskOK /\ row \in [Asset -> Row]
  BY TypeInvTask DEF TypeInv, TypeOK
<1>1. CASE Claim(w)
  <2>1. Job(w) \in Asset /\ row[Job(w)] \in Row
    BY <1>1, WorkingJob DEF Claim, At, Working, PC, WorkerPC
  <2>2. row' \in [Asset -> Row]
    BY <1>1, <2>1, RowTypes, SetRowType DEF Claim
  <2>3. TaskOK'
    BY <1>1, GotoOK DEF Claim, At, Working, PC, WorkerPC
  <2> QED
    BY <1>1, <2>2, <2>3, RowStep DEF Claim
<1>2. CASE Load(w)
  <2>1. Job(w) \in Asset /\ row[Job(w)] \in Row /\ task[w] \in Local
    BY <1>2, WorkingJob DEF Load, At, Working, PC, WorkerPC
  <2> DEFINE r == row[Job(w)]
             next == Parsed(r)
             why == IF next = "skip" THEN "policy" ELSE "none"
             l == [task[w] EXCEPT !.pc = next, !.new = r.new,
                                  !.tries = r.attempts, !.why = why]
  <2>2. next \in {"marker", "skip", "reject"}
    BY <2>1 DEF Row, Parsed
  <2>3. next \in Working /\ why \in SkipReason
    BY <2>2 DEF Working, PC, WorkerPC, SkipReason
  <2>4. l \in Local /\ l.pc = next /\ l.job = Job(w)
    BY <2>1, <2>3 DEF Local, Row, Working, Job
  <2>5. task' = [task EXCEPT ![w] = l]
    BY <1>2 DEF Load
  <2>6. Job(w) # None
    BY <2>1, StoreAssumption DEF StoreAssumption
  <2>7. TaskOK'
    BY <2>3, <2>4, <2>5, <2>6, TaskSet DEF Working
  <2> QED
    BY <1>2, <2>7, CallStep DEF Load
<1>3. CASE Reject(w)
  <2>1. Job(w) \in Asset /\ row[Job(w)] \in Row
    BY <1>3, WorkingJob DEF Reject, At, Working, PC, WorkerPC
  <2>2. row' \in [Asset -> Row]
    BY <1>3, <2>1, RowTypes, SetRowType DEF Reject
  <2> QED
    BY <1>3, <2>2, ReturnOK, RowStep DEF Reject
<1>4. CASE ReadMarker(w)
  <2>1. TaskOK'
    BY <1>4, GotoOK, SkipForOK DEF ReadMarker, At, Working, PC, WorkerPC, SkipReason
  <2> QED
    BY <1>4, <2>1, CallStep DEF ReadMarker
<1>5. CASE GetDetail(w)
  <2>1. TaskOK'
    BY <1>5, GotoOK, SkipForOK DEF GetDetail, At, Working, PC, WorkerPC, SkipReason
  <2> QED
    BY <1>5, <2>1, CallStep DEF GetDetail
<1>6. CASE WriteLedger(w)
  <2>1. Job(w) \in Asset /\ row[Job(w)] \in Row
    BY <1>6, WorkingJob DEF WriteLedger, At, Working, PC, WorkerPC
  <2>2. row' \in [Asset -> Row]
    BY <1>6, <2>1, RowEdits, SetRowType DEF WriteLedger
  <2>3. TaskOK'
    BY <1>6, GotoOK DEF WriteLedger, At, Working, PC, WorkerPC
  <2> QED
    BY <1>6, <2>2, <2>3, RowStep DEF WriteLedger
<1>7. CASE CheckReUpload(w)
  <2>1. TaskOK'
    BY <1>7, GotoOK, SkipForOK DEF CheckReUpload, At, Working, PC, WorkerPC, SkipReason
  <2> QED
    BY <1>7, <2>1, CallStep DEF CheckReUpload
<1>8. CASE CallFails(w)
  <2>1. TaskOK'
    BY <1>8, GotoOK DEF CallFails, MayFail, Working, PC, WorkerPC
  <2> QED
    BY <1>8, <2>1, CallStep DEF CallFails
<1>9. CASE Skip(w)
  <2>1. Job(w) \in Asset /\ row[Job(w)] \in Row /\ task[w].why \in SkipReason
    BY <1>9, WorkingJob DEF Skip, At, Working, PC, WorkerPC, Local
  <2>2. row' \in [Asset -> Row]
    BY <1>9, <2>1, RowTypes, SetRowType DEF Skip
  <2> QED
    BY <1>9, <2>2, ReturnOK, RowStep DEF Skip
<1>10. CASE HandleFailure(w)
  <2>1. Job(w) \in Asset /\ row[Job(w)] \in Row
    BY <1>10, WorkingJob DEF HandleFailure, At, Working, PC, WorkerPC
  <2>2. row' \in [Asset -> Row]
    BY <1>10, <2>1, RowTypes, SetRowType DEF HandleFailure
  <2> QED
    BY <1>10, <2>2, ReturnOK, RowStep DEF HandleFailure
<1> QED
  BY <1>1, <1>2, <1>3, <1>4, <1>5, <1>6, <1>7, <1>8, <1>9, <1>10 DEF Guards, EndRun

\* ... and writes the marker of the source only.
LEMMA SourceMarkStep ==
    ASSUME TypeInv, TaskOK', srcMark' \in [Asset -> {"none", "no_gain", "replaced"}],
           UNCHANGED <<dbVars, config, todo, orig, srv, histVars, used>>
    PROVE  TypeInv'
BY DEF TypeInv, TypeOK, TaskOK, dbVars, histVars

\* Steps 3 to 6.
LEMMA TypeReplace ==
    ASSUME TypeInv, NEW w \in Worker, Replace(w)
    PROVE  TypeInv'
<1> w \in Task
  BY DEF Task
<1> TaskOK /\ row \in [Asset -> Row] /\ srv \in [NewAsset -> Replacement]
  BY TypeInvTask DEF TypeInv, TypeOK
<1>1. CASE Download(w)
  <2>1. TaskOK'
    BY <1>1, GotoOK, SkipForOK DEF Download, At, Working, PC, WorkerPC, SkipReason
  <2> QED
    BY <1>1, <2>1, CallStep DEF Download
<1>2. CASE Encode(w)
  <2>1. task[w] \in Local /\ Job(w) # None
    BY <1>2, WorkingJob DEF Encode, At, Working, PC, WorkerPC
  <2>2. CASE Goto(w, "mark_no_gain")
    <3>1. TaskOK'
      BY <1>2, <2>2, GotoOK DEF Encode, At, Working, PC, WorkerPC
    <3> QED
      BY <1>2, <3>1, CallStep DEF Encode
  <2>3. CASE ~Goto(w, "mark_no_gain")
    <3> DEFINE pc == IF task[w].new = None THEN "upload" ELSE "copy"
               l(b) == [task[w] EXCEPT !.pc = pc, !.sum = b]
    <3>1. PICK b \in Bytes : task' = [task EXCEPT ![w] = l(b)]
      BY <1>2, <2>3 DEF Encode
    <3>2. pc \in Working
      BY DEF Working, PC, WorkerPC
    <3>3. l(b) \in Local /\ l(b).pc = pc /\ l(b).job = Job(w)
      BY <2>1, <3>2 DEF Local, Working, Job
    <3>4. TaskOK'
      BY <2>1, <3>1, <3>2, <3>3, TaskSet DEF Working
    <3> QED
      BY <1>2, <3>4, CallStep DEF Encode
  <2> QED
    BY <2>2, <2>3
<1>3. CASE MarkNoGain(w)
  <2>1. TaskOK'
    BY <1>3, SkipForOK DEF MarkNoGain, At, Working, PC, WorkerPC, SkipReason
  <2>2. srcMark' \in [Asset -> {"none", "no_gain", "replaced"}]
    BY <1>3 DEF MarkNoGain, TypeInv, TypeOK
  <2> QED
    BY <1>3, <2>1, <2>2, SourceMarkStep DEF MarkNoGain
<1>4. CASE UploadDuplicate(w)
  <2>1. task[w] \in Local /\ Job(w) # None
    BY <1>4, WorkingJob DEF UploadDuplicate, At, Working, PC, WorkerPC
  <2> DEFINE l(n) == [task[w] EXCEPT !.pc = "read_duplicate", !.new = n]
  <2>2. PICK n \in NewAsset : task' = [task EXCEPT ![w] = l(n)]
    BY <1>4 DEF UploadDuplicate
  <2>3. l(n) \in Local /\ l(n).pc = "read_duplicate" /\ l(n).job = Job(w)
    BY <2>1 DEF Local, PC, WorkerPC, Job
  <2>4. TaskOK'
    BY <2>1, <2>2, <2>3, TaskSet
  <2> QED
    BY <1>4, <2>4, CallStep DEF UploadDuplicate
<1>5. CASE Upload(w)
  <2>1. task[w] \in Local /\ Job(w) # None /\ Job(w) \in Asset
    BY <1>5, WorkingJob DEF Upload, At, Working, PC, WorkerPC
  <2> DEFINE l(n, pc) == [task[w] EXCEPT !.pc = pc, !.new = n]
             up(s) == [NoReplacement EXCEPT !.st = "live", !.sum = s, !.from = Job(w)]
  <2>0. PICK n \in NewAsset,
             s \in {b \in Bytes : b = task[w].sum \/ EncodedFrom[b] = None} :
           /\ srv[n].st = "absent"
           /\ srv' = [srv EXCEPT ![n] = up(s)]
           /\ \/ task' = [task EXCEPT ![w].pc = "record", ![w].new = n]
              \/ /\ s = task[w].sum
                 /\ task' = [task EXCEPT ![w].pc = "read_duplicate", ![w].new = n]
              \/ Goto(w, "fail")
    BY <1>5, Zenon DEF Upload
  <2>2. /\ s \in Bytes
        /\ srv' = [srv EXCEPT ![n] = up(s)]
        /\ \/ task' = [task EXCEPT ![w] = l(n, "record")]
           \/ task' = [task EXCEPT ![w] = l(n, "read_duplicate")]
           \/ Goto(w, "fail")
    BY <2>0
  <2>3. \A pc \in {"record", "read_duplicate"} :
           l(n, pc) \in Local /\ l(n, pc).pc = pc /\ l(n, pc).job = Job(w)
    BY <2>1 DEF Local, PC, WorkerPC, Job
  <2>4. TaskOK'
    <3>1. CASE Goto(w, "fail")
      BY <1>5, <3>1, GotoOK DEF Upload, At, Working, PC, WorkerPC
    <3>2. ASSUME NEW pc \in {"record", "read_duplicate"},
                 task' = [task EXCEPT ![w] = l(n, pc)]
          PROVE  TaskOK'
      BY <2>1, <2>3, <3>2, TaskSet
    <3> QED
      BY <2>2, <3>1, <3>2
  <2>5. up(s) \in Replacement
    BY <2>1 DEF NoReplacement, Replacement, Presence
  <2>6. srv' \in [NewAsset -> Replacement]
    BY <2>2, <2>5
  <2> QED
    BY <1>5, <2>4, <2>6, ReplacementStep DEF Upload
<1>6. CASE ReadDuplicate(w)
  <2>1. task[w] \in Local /\ Job(w) # None
    BY <1>6, WorkingJob DEF ReadDuplicate, At, Working, PC, WorkerPC
  <2> DEFINE l(s) == [task[w] EXCEPT !.pc = "record_duplicate", !.sum = s]
  <2>2. PICK s \in Bytes \cup {None} : task' = [task EXCEPT ![w] = l(s)]
    BY <1>6 DEF ReadDuplicate
  <2>3. l(s) \in Local /\ l(s).pc = "record_duplicate" /\ l(s).job = Job(w)
    BY <2>1 DEF Local, PC, WorkerPC, Job
  <2>4. TaskOK'
    BY <2>1, <2>2, <2>3, TaskSet
  <2> QED
    BY <1>6, <2>4, CallStep DEF ReadDuplicate
<1>7. CASE RecordDuplicate(w)
  <2>1. Job(w) \in Asset /\ row[Job(w)] \in Row /\ task[w] \in Local
    BY <1>7, WorkingJob DEF RecordDuplicate, At, Working, PC, WorkerPC
  <2>2. row' \in [Asset -> Row]
    BY <1>7, <2>1, RowEdits, SetRowType DEF RecordDuplicate, Local
  <2>3. TaskOK'
    BY <1>7, GotoOK, SkipForOK, ReturnOK DEF RecordDuplicate, At, Working, PC, WorkerPC, SkipReason
  <2> QED
    BY <1>7, <2>2, <2>3, RowStep DEF RecordDuplicate
<1>8. CASE Record(w)
  <2>1. Job(w) \in Asset /\ row[Job(w)] \in Row /\ task[w] \in Local
    BY <1>8, WorkingJob DEF Record, At, Working, PC, WorkerPC
  <2>2. row' \in [Asset -> Row]
    BY <1>8, <2>1, RowEdits, SetRowType DEF Record, Local
  <2>3. TaskOK'
    BY <1>8, GotoOK, SkipForOK, ReturnOK DEF Record, At, Working, PC, WorkerPC, SkipReason
  <2> QED
    BY <1>8, <2>2, <2>3, RowStep DEF Record
<1> QED
  BY <1>1, <1>2, <1>3, <1>4, <1>5, <1>6, <1>7, <1>8 DEF Replace

\* Steps 7 to 10, up to the deletion.
LEMMA TypeCarryOver ==
    ASSUME TypeInv, NEW w \in Worker, CarryOver(w)
    PROVE  TypeInv'
<1> w \in Task
  BY DEF Task
<1> TaskOK /\ row \in [Asset -> Row] /\ srv \in [NewAsset -> Replacement]
  BY TypeInvTask DEF TypeInv, TypeOK
<1>1. CASE CopyLinks(w)
  <2>1. TaskOK'
    BY <1>1, GotoOK DEF CopyLinks, At, Working, PC, WorkerPC
  <2>2. srv' \in [NewAsset -> Replacement]
    BY <1>1 DEF CopyLinks, Replacement
  <2> QED
    BY <1>1, <2>1, <2>2, ReplacementStep DEF CopyLinks
<1>2. CASE ApplyFields(w)
  <2>1. TaskOK'
    BY <1>2, GotoOK DEF ApplyFields, At, Working, PC, WorkerPC
  <2>2. srv' \in [NewAsset -> Replacement]
    BY <1>2 DEF ApplyFields, Replacement
  <2> QED
    BY <1>2, <2>1, <2>2, ReplacementStep DEF ApplyFields
<1>3. CASE Link(w)
  <2>1. Job(w) \in Asset /\ row[Job(w)] \in Row /\ task[w] \in Local
    BY <1>3, WorkingJob DEF Link, At, Working, PC, WorkerPC
  <2>2. row' \in [Asset -> Row]
    BY <1>3, <2>1, RowEdits, SetRowType DEF Link, Local
  <2>3. TaskOK'
    BY <1>3, GotoOK, SkipForOK, ReturnOK DEF Link, At, Working, PC, WorkerPC, SkipReason
  <2> QED
    BY <1>3, <2>2, <2>3, RowStep DEF Link
<1>4. CASE MarkNew(w)
  <2>1. TaskOK'
    BY <1>4, GotoOK DEF MarkNew, At, Working, PC, WorkerPC
  <2>2. srv' \in [NewAsset -> Replacement]
    BY <1>4 DEF MarkNew, Replacement
  <2> QED
    BY <1>4, <2>1, <2>2, ReplacementStep DEF MarkNew
<1>5. CASE MarkSource(w)
  <2>1. TaskOK'
    BY <1>5, GotoOK DEF MarkSource, At, Working, PC, WorkerPC
  <2>2. srcMark' \in [Asset -> {"none", "no_gain", "replaced"}]
    BY <1>5 DEF MarkSource, TypeInv, TypeOK
  <2> QED
    BY <1>5, <2>1, <2>2, SourceMarkStep DEF MarkSource
<1>6. CASE MarkFails(w)
  <2>1. TaskOK'
    BY <1>6, GotoOK, SkipForOK DEF MarkFails, At, Working, PC, WorkerPC, SkipReason
  <2> QED
    BY <1>6, <2>1, CallStep DEF MarkFails
<1>7. CASE Pend(w)
  <2>1. Job(w) \in Asset /\ row[Job(w)] \in Row /\ task[w] \in Local
    BY <1>7, WorkingJob DEF Pend, At, Working, PC, WorkerPC, FinalPC
  <2>2. row' \in [Asset -> Row]
    BY <1>7, <2>1, RowEdits, SetRowType DEF Pend, Local
  <2>3. TaskOK'
    BY <1>7, GotoOK, SkipForOK, ReturnOK DEF Pend, At, Working, PC, WorkerPC, FinalPC, SkipReason
  <2> QED
    BY <1>7, <2>2, <2>3, RowStep DEF Pend
<1>8. CASE Schedule(w)
  <2>1. Job(w) \in Asset /\ row[Job(w)] \in Row /\ task[w] \in Local
    BY <1>8, WorkingJob DEF Schedule, At, Working, PC, WorkerPC
  <2>2. row' \in [Asset -> Row]
    BY <1>8, <2>1, RowEdits, SetRowType DEF Schedule, Local
  <2> QED
    BY <1>8, <2>2, ReturnOK, RowStep DEF Schedule
<1> QED
  BY <1>1, <1>2, <1>3, <1>4, <1>5, <1>6, <1>7, <1>8 DEF CarryOver

\* finalize_original.
LEMMA TypeFinalize ==
    ASSUME TypeInv, NEW t \in Task, Finalize(t)
    PROVE  TypeInv'
<1> TaskOK /\ row \in [Asset -> Row] /\ srv \in [NewAsset -> Replacement]
  BY TypeInvTask DEF TypeInv, TypeOK
<1>1. CASE Verify(t)
  <2>1. TaskOK'
    BY <1>1, GotoOK, SkipForOK DEF Verify, At, Working, PC, FinalPC, SkipReason
  <2> QED
    BY <1>1, <2>1, CallStep DEF Verify
<1>2. CASE VerifyMarker(t)
  <2>1. TaskOK'
    BY <1>2, GotoOK, SkipForOK DEF VerifyMarker, At, Working, PC, FinalPC, SkipReason
  <2> QED
    BY <1>2, <2>1, CallStep DEF VerifyMarker
<1>3. CASE Delete(t)
  <2>1. TaskOK'
    BY <1>3, GotoOK DEF Delete, At, Working, PC, FinalPC
  <2>2. task[t] \in Local
    BY <1>3, WorkingJob DEF Delete, At, Working, PC, FinalPC
  <2>3. orig' \in [Asset -> Presence] /\ basis' \in [Asset -> NewAsset \cup {None}]
    BY <1>3, <2>2 DEF Delete, TypeInv, TypeOK, Presence, Local
  <2> QED
    BY <1>3, <2>1, <2>3 DEF Delete, TypeInv, TypeOK, TaskOK, dbVars
<1>4. CASE Refuse(t)
  <2>1. TaskOK'
    BY <1>4, GotoOK, SkipForOK DEF Refuse, At, Working, PC, FinalPC, SkipReason
  <2> QED
    BY <1>4, <2>1, CallStep DEF Refuse
<1>5. CASE Finish(t)
  <2>1. Job(t) \in Asset /\ row[Job(t)] \in Row /\ task[t] \in Local
    BY <1>5, WorkingJob DEF Finish, At, Working, PC, FinalPC
  <2>2. row' \in [Asset -> Row]
    BY <1>5, <2>1, RowEdits, SetRowType DEF Finish, Local
  <2>3. TaskOK'
    BY <1>5, GotoOK, SkipForOK, ReturnOK DEF Finish, At, Working, PC, FinalPC, SkipReason
  <2> QED
    BY <1>5, <2>2, <2>3, RowStep DEF Finish
<1>6. CASE Free(t)
  <2>1. Job(t) \in Asset /\ row[Job(t)] \in Row
    BY <1>6, WorkingJob DEF Free, At, Working, PC, FinalPC
  <2>2. row' \in [Asset -> Row]
    BY <1>6, <2>1, RowTypes, SetRowType DEF Free
  <2> QED
    BY <1>6, <2>2, ReturnOK, RowStep DEF Free
<1>7. CASE DeferQueue(t)
  <2>1. Job(t) \in Asset /\ row[Job(t)] \in Row /\ task[t] \in Local
    BY <1>7, WorkingJob DEF DeferQueue, At, Working, PC, FinalPC
  <2>2. row' \in [Asset -> Row]
    BY <1>7, <2>1, RowTypes, SetRowType DEF DeferQueue, Local
  <2>3. TaskOK'
    BY <1>7, GotoOK, SkipForOK, ReturnOK DEF DeferQueue, At, Working, PC, FinalPC, SkipReason
  <2> QED
    BY <1>7, <2>2, <2>3, RowStep DEF DeferQueue
<1>8. CASE DeferPend(t)
  <2>1. Job(t) \in Asset /\ row[Job(t)] \in Row /\ task[t] \in Local
    BY <1>8, WorkingJob DEF DeferPend, At, Working, PC, FinalPC
  <2>2. row' \in [Asset -> Row]
    BY <1>8, <2>1, RowEdits, SetRowType DEF DeferPend, Local
  <2> QED
    BY <1>8, <2>2, ReturnOK, RowStep DEF DeferPend
<1> QED
  BY <1>1, <1>2, <1>3, <1>4, <1>5, <1>6, <1>7, <1>8 DEF Finalize

\* Counting an occasion.
LEMMA SpendType ==
    ASSUME used \in [Occasion -> Nat], NEW o \in Occasion, Spend(o)
    PROVE  used' \in [Occasion -> Nat]
BY DEF Spend

\* Everything that is not a step of a task.
LEMMA TypeEnvironment ==
    ASSUME TypeInv, Outside \/ Clock \/ Operator \/ Trigger
    PROVE  TypeInv'
<1> TaskOK /\ row \in [Asset -> Row] /\ srv \in [NewAsset -> Replacement]
    /\ orig \in [Asset -> Presence] /\ lateLoss \in SUBSET NewAsset
    /\ used \in [Occasion -> Nat]
  BY TypeInvTask DEF TypeInv, TypeOK
<1> USE DEF serverVars, histVars, dbVars, taskVars
<1>1. ASSUME NEW a \in Asset, Arrive(a) PROVE TypeInv'
  <2>1. orig' \in [Asset -> Presence]
    BY <1>1 DEF Arrive, Presence
  <2> QED
    BY <1>1, <2>1 DEF Arrive, TypeInv, TypeOK, HasJob, Job
<1>2. ASSUME NEW a \in Asset, OriginalMoved(a) PROVE TypeInv'
  <2>1. orig' \in [Asset -> Presence]
    BY <1>2 DEF OriginalMoved, Presence, Stored
  <2>2. used' \in [Occasion -> Nat]
    BY <1>2, SpendType DEF OriginalMoved, Occasion
  <2> QED
    BY <1>2, <2>1, <2>2 DEF OriginalMoved, TypeInv, TypeOK, HasJob, Job
<1>3. ASSUME NEW n \in NewAsset, ReplacementMoved(n) PROVE TypeInv'
  <2>1. srv' \in [NewAsset -> Replacement]
    BY <1>3 DEF ReplacementMoved, Replacement, Presence, Stored
  <2>2. used' \in [Occasion -> Nat]
    BY <1>3, SpendType DEF ReplacementMoved, Occasion
  <2>3. lateLoss' \in SUBSET NewAsset
    BY <1>3 DEF ReplacementMoved
  <2> QED
    BY <1>3, <2>1, <2>2, <2>3 DEF ReplacementMoved, TypeInv, TypeOK, HasJob, Job
<1>4. ASSUME NEW a \in Asset, RunAfterPasses(a) \/ DeleteAfterPasses(a) PROVE TypeInv'
  <2>1. row' \in [Asset -> Row]
    BY <1>4, RowEdits, SetRowType DEF RunAfterPasses, DeleteAfterPasses
  <2> QED
    BY <1>4, <2>1 DEF RunAfterPasses, DeleteAfterPasses, TypeInv, TypeOK, HasJob, Job
<1>5. CASE Surge \/ Resume
  <2>1. used' \in [Occasion -> Nat] /\ paused' \in BOOLEAN
    BY <1>5, SpendType DEF Surge, Resume, Occasion
  <2> QED
    BY <1>5, <2>1 DEF Surge, Resume, TypeInv, TypeOK, HasJob, Job
<1>6. CASE Restart
  <2>1. used' \in [Occasion -> Nat]
    BY <1>6, SpendType DEF Restart, Occasion
  <2>2. TaskOK'
    BY <1>6, IdleType DEF Restart, TaskOK, HasJob, Job, Idle
  <2> QED
    BY <1>6, <2>1, <2>2 DEF Restart, TypeInv, TypeOK, TaskOK
<1>7. ASSUME NEW a \in Asset, Reprocess(a) PROVE TypeInv'
  <2>1. row' \in [Asset -> Row]
    BY <1>7, RowTypes, SetRowType DEF Reprocess
  <2>2. used' \in [Occasion -> Nat]
    BY <1>7, SpendType DEF Reprocess, Occasion
  <2> QED
    BY <1>7, <2>1, <2>2 DEF Reprocess, TypeInv, TypeOK, HasJob, Job
<1>8. ASSUME NEW S \in SUBSET Asset, RequeueFailed(S) PROVE TypeInv'
  <2>1. row' \in [Asset -> Row]
    BY <1>8, RowTypes DEF RequeueFailed
  <2>2. used' \in [Occasion -> Nat]
    BY <1>8, SpendType DEF RequeueFailed, Occasion
  <2> QED
    BY <1>8, <2>1, <2>2 DEF RequeueFailed, TypeInv, TypeOK, HasJob, Job
<1>9. ASSUME NEW reason \in SkipReason, RequeueSkipped(reason) PROVE TypeInv'
  <2>1. row' \in [Asset -> Row]
    BY <1>9, RowTypes DEF RequeueSkipped
  <2>2. used' \in [Occasion -> Nat]
    BY <1>9, SpendType DEF RequeueSkipped, Occasion
  <2> QED
    BY <1>9, <2>1, <2>2 DEF RequeueSkipped, TypeInv, TypeOK, HasJob, Job
<1>10. ASSUME NEW a \in Asset, Enqueue(a) PROVE TypeInv'
  <2>1. row' \in [Asset -> Row]
    BY <1>10, RowTypes, SetRowType DEF Enqueue
  <2> QED
    BY <1>10, <2>1 DEF Enqueue, TypeInv, TypeOK, HasJob, Job
<1> QED
  BY <1>1, <1>2, <1>3, <1>4, <1>5, <1>6, <1>7, <1>8, <1>9, <1>10
     DEF Outside, Clock, Operator, Trigger

\* The SELECT of claim_next.
LEMMA TypePoll ==
    ASSUME TypeInv, NEW w \in Worker, Poll(w)
    PROVE  TypeInv'
<1>1. TaskOK /\ w \in Task /\ task[w] \in Local
  BY TypeInvTask DEF TypeInv, TypeOK, Task
<1> DEFINE l(a) == [task[w] EXCEPT !.pc = "claim", !.job = a]
<1>2. PICK a \in Asset : task' = [task EXCEPT ![w] = l(a)]
  BY DEF Poll
<1>3. l(a) \in Local /\ l(a).pc = "claim" /\ l(a).job = a /\ a # None
  BY <1>1, StoreAssumption DEF StoreAssumption, Local, PC, WorkerPC
<1>4. TaskOK'
  BY <1>1, <1>2, <1>3, TaskSet
<1>5. used' \in [Occasion -> Nat]
  BY SpendType DEF Poll, TypeInv, TypeOK, Occasion
<1> QED
  BY <1>4, <1>5 DEF Poll, TypeInv, TypeOK, TaskOK, dbVars, serverVars, histVars

\* The sweeper's own steps.
LEMMA TypeSweep ==
    ASSUME TypeInv, SweepStart \/ SweepNext
    PROVE  TypeInv'
<1>1. TaskOK /\ Sweeper \in Task /\ task[Sweeper] \in Local /\ row \in [Asset -> Row]
  BY TypeInvTask DEF TypeInv, TypeOK, Task
<1> DEFINE Item == [job : Asset, new : NewAsset \cup {None}, sum : Bytes \cup {None}]
<1>2. todo \subseteq Item
  BY DEF TypeInv, TypeOK
<1>3. CASE SweepStart
  <2> DEFINE l == [task[Sweeper] EXCEPT !.pc = "next"]
  <2>1. task' = [task EXCEPT ![Sweeper] = l] /\ At(Sweeper, "idle")
    BY <1>3 DEF SweepStart, Goto
  <2>2. l \in Local /\ l.pc = "next" /\ l.job = None
    BY <1>1, <2>1 DEF Local, PC, At, TaskOK, HasJob, Job
  <2>3. TaskOK'
    BY <1>1, <2>1, <2>2, TaskSet
  <2>4. \A a \in Asset : Snapshot(a) \in Item
    BY <1>1 DEF Snapshot, Row
  <2>5. todo' \subseteq Item
    BY <1>3, <2>4 DEF SweepStart
  <2> QED
    BY <1>3, <2>3, <2>5 DEF SweepStart, TypeInv, TypeOK, TaskOK, dbVars, serverVars, histVars
<1>4. CASE SweepNext /\ todo = {}
  <2>1. task' = [task EXCEPT ![Sweeper] = Idle] /\ UNCHANGED <<row, todo>>
    BY <1>4 DEF SweepNext
  <2>2. TaskOK'
    BY <1>1, <2>1, IdleType, TaskSet DEF Idle
  <2> QED
    BY <1>4, <2>1, <2>2 DEF SweepNext, TypeInv, TypeOK, TaskOK, serverVars, histVars
<1>5. CASE SweepNext /\ todo # {}
  <2> DEFINE l(j) == [Idle EXCEPT !.pc = "verify", !.job = j.job,
                                  !.new = j.new, !.sum = j.sum]
  <2>1. PICK j \in todo :
           /\ todo' = todo \ {j}
           /\ IF j.new = None
                 THEN SetRow(j.job, MarkedFailed(row[j.job])) /\ UNCHANGED task
                 ELSE task' = [task EXCEPT ![Sweeper] = l(j)] /\ UNCHANGED row
    BY <1>5 DEF SweepNext, Idle
  <2>2. j \in Item /\ j.job \in Asset
    BY <1>2
  <2>3. l(j) \in Local /\ l(j).pc = "verify" /\ l(j).job = j.job /\ j.job # None
    BY <2>2, StoreAssumption, IdleType DEF StoreAssumption, Local, PC, FinalPC
  <2>4. TaskOK'
    <3>1. CASE j.new = None
      BY <1>1, <2>1, <3>1 DEF TaskOK, HasJob, Job
    <3>2. CASE j.new # None
      BY <1>1, <2>1, <2>3, <3>2, TaskSet
    <3> QED
      BY <3>1, <3>2
  <2>5. row' \in [Asset -> Row]
    BY <1>1, <2>1, <2>2, RowTypes, SetRowType
  <2> QED
    BY <1>2, <1>5, <2>1, <2>4, <2>5 DEF SweepNext, TypeInv, TypeOK, TaskOK, serverVars, histVars
<1> QED
  BY <1>3, <1>4, <1>5

\* The empty table and idle tasks.
LEMMA TypeInit == Init => TypeInv
<1> SUFFICES ASSUME Init PROVE TypeInv
  OBVIOUS
<1>1. row \in [Asset -> Row]
  BY RowTypes DEF Init
<1>2. TaskOK
  BY IdleType DEF Init, TaskOK, HasJob, Job, Idle
<1>3. srv \in [NewAsset -> Replacement]
  BY DEF Init, NoReplacement, Replacement, Presence
<1> QED
  BY <1>1, <1>2, <1>3 DEF Init, TypeInv, TypeOK, TaskOK, Presence

\* Every step of Next, one group of actions at a time.
LEMMA TypeStep == TypeInv /\ [Next]_vars => TypeInv'
<1> SUFFICES ASSUME TypeInv, [Next]_vars PROVE TypeInv'
  OBVIOUS
<1>1. CASE Outside \/ Clock \/ Operator \/ Trigger
  BY <1>1, TypeEnvironment
<1>2. ASSUME NEW w \in Worker, Poll(w) PROVE TypeInv'
  BY <1>2, TypePoll
<1>3. ASSUME NEW w \in Worker, Work(w) PROVE TypeInv'
  <2>1. w \in Task
    BY DEF Task
  <2> QED
    BY <1>3, <2>1, TypeGuards, TypeReplace, TypeCarryOver, TypeFinalize DEF Work
<1>4. CASE Sweep
  <2>1. Sweeper \in Task
    BY DEF Task
  <2> QED
    BY <1>4, <2>1, TypeSweep, TypeFinalize DEF Sweep
<1>5. CASE UNCHANGED vars
  BY <1>5 DEF vars, TypeInv, TypeOK, HasJob, Job
<1> QED
  BY <1>1, <1>2, <1>3, <1>4, <1>5 DEF Next

(***************************************************************************)
(* Whatever the workers, the sweeper, the operator and the server do, the  *)
(* table, the tasks and the server's assets keep the shape the code        *)
(* assumes of them; a task has a job exactly when it is at work.           *)
(***************************************************************************)
THEOREM TypeCorrect == Spec => []TypeOK
<1>1. Init => TypeInv
  BY TypeInit
<1>2. TypeInv /\ [Next]_vars => TypeInv'
  BY TypeStep
<1>3. TypeInv => TypeOK
  BY DEF TypeInv
<1> QED
  BY <1>1, <1>2, <1>3, PTL DEF Spec
=============================================================================
