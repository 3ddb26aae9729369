----------------------------- MODULE JobPipeline -----------------------------
(***************************************************************************)
(* One asset's way through pipeline.py, run by the worker lanes and the    *)
(* trash sweeper of one process against the jobs table and the Immich      *)
(* server, with crashes, restarts and a second hand on all three.          *)
(*                                                                         *)
(* A step of this module is what a task does between two awaits: one       *)
(* statement on the database or one call to the server, with the local     *)
(* decisions that follow from its answer.  The program counter task[t].pc  *)
(* is named for the step the task takes next.  A call either takes effect  *)
(* and answers, takes effect with its answer lost, or does neither.        *)
(*                                                                         *)
(* Outside the process: orig, srcMark and srv are the server's; the user   *)
(* and the trash retention of the server may remove assets at any time.    *)
(***************************************************************************)
EXTENDS JobStore

CONSTANTS
    Worker,    \* the worker tasks of all lanes that may claim these jobs
    Sweeper,   \* the trash sweeper task
    Configs,   \* the settings the operator may start the process with
    Limit      \* how often each Occasion may arise: bounds the model only

\* What happens an unbounded number of times in reality.
Occasion == {"restart", "operator", "outside", "surge", "reclaim"}

(***************************************************************************)
(* dryRun: dry_run; trash: trash_original; inline: retention_days = 0;     *)
(* permanent: delete_mode = permanent, which _validate_delete_mode refuses *)
(* without trash_original or together with dry_run.                        *)
(***************************************************************************)
Config == {c \in [dryRun : BOOLEAN, trash : BOOLEAN,
                  inline : BOOLEAN, permanent : BOOLEAN] :
               c.permanent => c.trash /\ ~c.dryRun}

ASSUME PipelineAssumption ==
    /\ Sweeper \notin Worker
    /\ Configs \subseteq Config
    /\ Limit \in [Occasion -> Nat]

Task == Worker \cup {Sweeper}

VARIABLES
    row,        \* the jobs table
    paused,     \* the surge breaker's latch in service_state
    config,     \* the settings of the running process
    task,       \* local state of every asyncio task
    todo,       \* the jobs the sweeper has read and not yet dealt with
    orig,       \* server: where each source asset is
    srcMark,    \* server: compressor marker on each source asset
    srv,        \* server: the uploaded replacements
    basis,      \* history: the replacement a source was first deleted for
    lateLoss,   \* history: replacements removed too late to be noticed
    used        \* bound: how often each Occasion has arisen

dbVars     == <<row, paused>>
taskVars   == <<task, todo>>
serverVars == <<orig, srcMark, srv>>
histVars   == <<basis, lateLoss>>
vars == <<row, paused, config, task, todo, orig, srcMark, srv,
          basis, lateLoss, used>>

-----------------------------------------------------------------------------

Presence == {"absent", "live", "trashed", "gone"}
Stored   == {"live", "trashed"}

\* from: the source whose job uploaded it (history).  fields covers tags too.
Replacement == [st : Presence, sum : Bytes \cup {None}, links : BOOLEAN,
                fields : BOOLEAN, mark : BOOLEAN, from : Asset \cup {None}]

NoReplacement == [st |-> "absent", sum |-> None, links |-> FALSE,
                  fields |-> FALSE, mark |-> FALSE, from |-> None]

\* Steps 2 to 10 of a job that is still to be decided.
WorkerPC == {"claim", "load", "reject", "marker", "detail", "ledger",
             "re_upload", "download", "encode", "mark_no_gain", "upload",
             "read_duplicate", "record_duplicate", "record", "copy", "fields",
             "link", "mark_new", "mark_source", "pend", "schedule",
             "skip", "fail"}

\* finalize_original, reached from a worker or from the sweeper.
FinalPC == {"verify", "verify_marker", "delete", "finish", "free",
            "defer_queue", "defer_pend"}

PC == {"idle", "next"} \cup WorkerPC \cup FinalPC

\* new, sum: the replacement's id and the checksum expected of it.
Local == [pc : PC, job : Asset \cup {None}, new : NewAsset \cup {None},
          sum : Bytes \cup {None}, tries : 0..MaxAttempts, why : SkipReason]

Idle == [pc |-> "idle", job |-> None, new |-> None, sum |-> None,
         tries |-> 0, why |-> "none"]

Init ==
    /\ row = [a \in Asset |-> NoRow]
    /\ paused = FALSE
    /\ config \in Configs
    /\ task = [t \in Task |-> Idle]
    /\ todo = {}
    /\ orig = [a \in Asset |-> "absent"]
    /\ srcMark = [a \in Asset |-> "none"]
    /\ srv = [n \in NewAsset |-> NoReplacement]
    /\ basis = [a \in Asset |-> None]
    /\ lateLoss = {}
    /\ used = [o \in Occasion |-> 0]

-----------------------------------------------------------------------------
\* Abbreviations.

At(t, pc) == task[t].pc = pc
Job(t)    == task[t].job

Goto(t, pc) == task' = [task EXCEPT ![t].pc = pc]

SkipFor(t, reason) ==
    task' = [task EXCEPT ![t].pc = "skip", ![t].why = reason]

\* The end of run_job, or of one round of the sweeper's loop.
Return(t) ==
    task' = [task EXCEPT ![t] =
                 [Idle EXCEPT !.pc = IF t = Sweeper THEN "next" ELSE "idle"]]

SetRow(a, r) == row' = [row EXCEPT ![a] = r]

Spend(o) ==
    /\ used[o] < Limit[o]
    /\ used' = [used EXCEPT ![o] = @ + 1]

\* A claim of a now would be the second one, with the first still at work.
Busy(a) == \E t \in Task : Job(t) = a

\* n is about to justify, or has justified, the removal of an original.
Relied(n) ==
    \/ \E t \in Task : task[t].pc \in {"verify_marker", "delete"} /\ task[t].new = n
    \/ \E a \in Asset : basis[a] = n

-----------------------------------------------------------------------------
\* The server and its users.

\* An asset is uploaded; the server holds one asset per content and owner.
Arrive(a) ==
    /\ orig[a] = "absent"
    /\ \A e \in Asset : Content[e] = Content[a] => orig[e] \notin Stored
    /\ orig' = [orig EXCEPT ![a] = "live"]
    /\ UNCHANGED <<dbVars, config, taskVars, srcMark, srv, histVars, used>>

\* The user trashes, restores or deletes an original; the server empties its trash.
OriginalMoved(a) ==
    /\ orig[a] \in Stored
    /\ Spend("outside")
    /\ \E p \in (Stored \cup {"gone"}) \ {orig[a]} : orig' = [orig EXCEPT ![a] = p]
    /\ UNCHANGED <<dbVars, config, taskVars, srcMark, srv, histVars>>

\* The same happens to a replacement.
ReplacementMoved(n) ==
    /\ srv[n].st \in Stored
    /\ Spend("outside")
    /\ \E p \in (Stored \cup {"gone"}) \ {srv[n].st} : srv' = [srv EXCEPT ![n].st = p]
    /\ lateLoss' = IF Relied(n) THEN lateLoss \cup {n} ELSE lateLoss
    /\ UNCHANGED <<dbVars, config, taskVars, orig, srcMark, basis>>

-----------------------------------------------------------------------------
\* The clock, the webhook, the operator and the process itself.

\* JobStore.enqueue, from the webhook or from backfill: a replay inserts nothing.
Enqueue(a) ==
    /\ orig[a] # "absent"
    /\ ~HasRow(row[a])
    /\ \E p \in Payloads : SetRow(a, Enqueued(p))
    /\ UNCHANGED <<paused, config, taskVars, serverVars, histVars, used>>

RunAfterPasses(a) ==
    /\ HasRow(row[a]) /\ ~row[a].due
    /\ SetRow(a, [row[a] EXCEPT !.due = TRUE])
    /\ UNCHANGED <<paused, config, taskVars, serverVars, histVars, used>>

DeleteAfterPasses(a) ==
    /\ row[a].del = "ahead"
    /\ SetRow(a, [row[a] EXCEPT !.del = "due"])
    /\ UNCHANGED <<paused, config, taskVars, serverVars, histVars, used>>

\* The webhook handler trips the breaker; a second surge changes nothing.
Surge ==
    /\ ~paused
    /\ Spend("surge")
    /\ paused' = TRUE
    /\ UNCHANGED <<row, config, taskVars, serverVars, histVars>>

Resume ==
    /\ paused
    /\ paused' = FALSE
    /\ UNCHANGED <<row, config, taskVars, serverVars, histVars, used>>

\* POST /reprocess, or the command of that name: any state, at any moment.
Reprocess(a) ==
    /\ HasRow(row[a])
    /\ Spend("operator")
    /\ SetRow(a, Requeued(row[a]))
    /\ UNCHANGED <<paused, config, taskVars, serverVars, histVars>>

\* requeue --failed, with an --error-contains that selects the rows in S.
RequeueFailed(S) ==
    /\ S # {} /\ \A a \in S : row[a].state = "failed"
    /\ Spend("operator")
    /\ row' = [a \in Asset |-> IF a \in S THEN Requeued(row[a]) ELSE row[a]]
    /\ UNCHANGED <<paused, config, taskVars, serverVars, histVars>>

RequeueSkipped(reason) ==
    LET S == {a \in Asset : row[a].state = "skipped" /\ row[a].skip = reason} IN
    /\ S # {}
    /\ Spend("operator")
    /\ row' = [a \in Asset |-> IF a \in S THEN Requeued(row[a]) ELSE row[a]]
    /\ UNCHANGED <<paused, config, taskVars, serverVars, histVars>>

\* A crash or Worker.stop, and the next start: tasks go, the table stays.
Restart ==
    /\ Spend("restart")
    /\ task' = [t \in Task |-> Idle]
    /\ todo' = {}
    /\ config' \in Configs
    /\ UNCHANGED <<dbVars, serverVars, histVars>>

-----------------------------------------------------------------------------
\* Worker._loop and JobStore.claim_next.

(***************************************************************************)
(* The pause check and the SELECT of claim_next.  They are two reads with  *)
(* nothing in between that depends on the first, so a surge between them   *)
(* is a surge right after them.                                            *)
(***************************************************************************)
Poll(w) ==
    /\ At(w, "idle")
    /\ ~paused
    /\ \E a \in Asset :
          /\ Claimable(row[a])
          /\ IF Busy(a) THEN Spend("reclaim") ELSE UNCHANGED used
          /\ task' = [task EXCEPT ![w].pc = "claim", ![w].job = a]
    /\ UNCHANGED <<dbVars, config, todo, serverVars, histVars>>

\* The UPDATE of claim_next, whatever has become of the row since the SELECT.
Claim(w) ==
    /\ At(w, "claim")
    /\ SetRow(Job(w), Claimed(row[Job(w)]))
    /\ Goto(w, "load")
    /\ UNCHANGED <<paused, config, todo, serverVars, histVars, used>>

\* Parsing, then check_guards.
Parsed(r) == CASE r.payload = "ok"      -> "marker"
               [] r.payload = "guarded" -> "skip"
               [] r.payload = "bad"     -> "reject"

\* run_job up to the first call, on the row as claim_next returns it.
Load(w) ==
    /\ At(w, "load")
    /\ LET r == row[Job(w)] IN
          task' = [task EXCEPT ![w].pc = Parsed(r), ![w].new = r.new,
                      ![w].tries = r.attempts,
                      ![w].why = IF Parsed(r) = "skip" THEN "policy" ELSE "none"]
    /\ UNCHANGED <<dbVars, config, todo, serverVars, histVars, used>>

\* An unparseable payload: failed at once, whatever attempts are left.
Reject(w) ==
    /\ At(w, "reject")
    /\ SetRow(Job(w), MarkedFailed(row[Job(w)]))
    /\ Return(w)
    /\ UNCHANGED <<paused, config, todo, serverVars, histVars, used>>

-----------------------------------------------------------------------------
\* Pipeline._process: steps 1 and 2.

\* has_metadata_key on the source; a marker of this version always blocks.
ReadMarker(w) ==
    /\ At(w, "marker")
    /\ orig[Job(w)] \in Stored
    /\ IF srcMark[Job(w)] # "none"
          THEN SkipFor(w, "already_compressed")
          ELSE Goto(w, "detail")
    /\ UNCHANGED <<dbVars, config, todo, serverVars, histVars, used>>

GetDetail(w) ==
    /\ At(w, "detail")
    /\ orig[Job(w)] \in Stored
    /\ IF orig[Job(w)] = "trashed"
          THEN SkipFor(w, "trashed")
          ELSE Goto(w, "ledger")
    /\ UNCHANGED <<dbVars, config, todo, serverVars, histVars, used>>

\* Mutant: the two columns are not written.
WriteLedgerNothing(w) ==
    /\ At(w, "ledger")
    /\ Goto(w, "re_upload")
    /\ UNCHANGED <<dbVars, config, todo, serverVars, histVars, used>>

\* source_checksum and owner_id, written before anything mutating.  Both are
\* optional in the model of the answer and may be written as NULL; a server that
\* declares them required is assumed to send them.
WriteLedger(w) ==
    /\ At(w, "ledger")
    /\ SetRow(Job(w), [row[Job(w)] EXCEPT !.ledger = TRUE])
    /\ Goto(w, "re_upload")
    /\ UNCHANGED <<paused, config, todo, serverVars, histVars, used>>

\* _check_re_upload, then the named-people guard and the dry-run exit.
CheckReUpload(w) ==
    /\ At(w, "re_upload")
    /\ \/ /\ ReplacedOriginal(row, Job(w))
          /\ SkipFor(w, "re_uploaded")
       \/ /\ ~ReplacedOriginal(row, Job(w))
          /\ \/ SkipFor(w, "policy")
             \/ IF config.dryRun THEN SkipFor(w, "dry_run") ELSE Goto(w, "download")
    /\ UNCHANGED <<dbVars, config, todo, serverVars, histVars, used>>

-----------------------------------------------------------------------------
\* Pipeline._run_media_steps: steps 3 to 10.

\* download_original and, for a still, _check_still.
Download(w) ==
    /\ At(w, "download")
    /\ orig[Job(w)] \in Stored
    /\ Goto(w, "encode") \/ SkipFor(w, "policy")
    /\ UNCHANGED <<dbVars, config, todo, serverVars, histVars, used>>

\* Mutant: a job that has its upload already takes steps 7 and 8 for done.
EncodeResumesLate(w) ==
    /\ At(w, "encode")
    /\ \E b \in Bytes :
          /\ Encodes(b, Job(w))
          /\ task' = [task EXCEPT
                ![w].pc = IF task[w].new = None THEN "upload" ELSE "mark_new",
                ![w].sum = b]
    /\ UNCHANGED <<dbVars, config, todo, serverVars, histVars, used>>

\* Mutant: the recorded replacement is not looked at.
EncodeUploadsAgain(w) ==
    /\ At(w, "encode")
    /\ \E b \in Bytes :
          /\ Encodes(b, Job(w))
          /\ task' = [task EXCEPT ![w].pc = "upload", ![w].sum = b]
    /\ UNCHANGED <<dbVars, config, todo, serverVars, histVars, used>>

\* Encode, metadata gate and sanity gate: the file is good, or not worth it.
Encode(w) ==
    /\ At(w, "encode")
    /\ \/ \E b \in Bytes :
             /\ Encodes(b, Job(w))
             /\ task' = [task EXCEPT
                   ![w].pc = IF task[w].new = None THEN "upload" ELSE "copy",
                   ![w].sum = b]
       \/ Goto(w, "mark_no_gain")
    /\ UNCHANGED <<dbVars, config, todo, serverVars, histVars, used>>

MarkNoGain(w) ==
    /\ At(w, "mark_no_gain")
    /\ orig[Job(w)] \in Stored
    /\ srcMark' = [srcMark EXCEPT ![Job(w)] = "no_gain"]
    /\ SkipFor(w, "no_gain")
    /\ UNCHANGED <<dbVars, config, todo, orig, srv, histVars, used>>

\* The server answers "duplicate" when it holds these bytes already, and never
\* otherwise.  This is an assumption about Immich, which the code does not make
\* about the checksum it records, but does for what it may delete later.
Holds(n, b) == srv[n].st \in Stored /\ srv[n].sum = b

UploadDuplicate(w) ==
    /\ At(w, "upload")
    /\ \E n \in NewAsset :
          /\ Holds(n, task[w].sum)
          /\ task' = [task EXCEPT ![w].pc = "read_duplicate", ![w].new = n]
    /\ UNCHANGED <<dbVars, config, todo, serverVars, histVars, used>>

(***************************************************************************)
(* The server creates n and stores the bytes, or something else if they    *)
(* are damaged on the way.  Then the answer arrives; or it is lost, and    *)
(* the retry inside _request uploads again, to be told the bytes are a     *)
(* duplicate of n; or every retry is lost as well.                         *)
(***************************************************************************)
Upload(w) ==
    /\ At(w, "upload")
    /\ \A n \in NewAsset : ~Holds(n, task[w].sum)
    /\ \E n \in NewAsset, s \in {b \in Bytes : b = task[w].sum \/ EncodedFrom[b] = None} :
          /\ srv[n].st = "absent"
          /\ srv' = [srv EXCEPT ![n] = [NoReplacement EXCEPT
                        !.st = "live", !.sum = s, !.from = Job(w)]]
          /\ \/ task' = [task EXCEPT ![w].pc = "record", ![w].new = n]
             \/ /\ s = task[w].sum
                /\ task' = [task EXCEPT ![w].pc = "read_duplicate", ![w].new = n]
             \/ Goto(w, "fail")
    /\ UNCHANGED <<dbVars, config, todo, orig, srcMark, histVars, used>>

\* _duplicate_checksum: what the server holds, or NULL when it cannot be read.
ReadDuplicate(w) ==
    /\ At(w, "read_duplicate")
    /\ \E s \in Bytes \cup {None} :
          /\ s = None \/ Holds(task[w].new, s)
          /\ task' = [task EXCEPT ![w].pc = "record_duplicate", ![w].sum = s]
    /\ UNCHANGED <<dbVars, config, todo, serverVars, histVars, used>>

RecordDuplicate(w) ==
    /\ At(w, "record_duplicate")
    /\ SetRow(Job(w), [row[Job(w)] EXCEPT !.new = task[w].new, !.newSum = task[w].sum])
    /\ SkipFor(w, "duplicate")
    /\ UNCHANGED <<paused, config, todo, serverVars, histVars, used>>

\* Mutant: id and checksum end up in each other's column.
RecordSwapped(w) ==
    /\ At(w, "record")
    /\ SetRow(Job(w), [row[Job(w)] EXCEPT !.state = "uploaded",
                           !.new = task[w].sum, !.newSum = task[w].new])
    /\ Goto(w, "copy")
    /\ UNCHANGED <<paused, config, todo, serverVars, histVars, used>>

\* Mutant: the state moves on, the id is not written.
RecordStateOnly(w) ==
    /\ At(w, "record")
    /\ SetRow(Job(w), [row[Job(w)] EXCEPT !.state = "uploaded"])
    /\ Goto(w, "copy")
    /\ UNCHANGED <<paused, config, todo, serverVars, histVars, used>>

Record(w) ==
    /\ At(w, "record")
    /\ SetRow(Job(w), [row[Job(w)] EXCEPT !.state = "uploaded",
                           !.new = task[w].new, !.newSum = task[w].sum])
    /\ Goto(w, "copy")
    /\ UNCHANGED <<paused, config, todo, serverVars, histVars, used>>

\* Mutant: step 8 is left to what the server copies by itself.
CopyLinksOnly(w) ==
    /\ At(w, "copy")
    /\ orig[Job(w)] \in Stored /\ srv[task[w].new].st \in Stored
    /\ srv' = [srv EXCEPT ![task[w].new].links = TRUE]
    /\ Goto(w, "link")
    /\ UNCHANGED <<dbVars, config, todo, orig, srcMark, histVars, used>>

\* Step 7.  copy_asset reads from the source, so both must still be there.
CopyLinks(w) ==
    /\ At(w, "copy")
    /\ orig[Job(w)] \in Stored /\ srv[task[w].new].st \in Stored
    /\ srv' = [srv EXCEPT ![task[w].new].links = TRUE]
    /\ \E pc \in {"fields", "fail"} : Goto(w, pc)
    /\ UNCHANGED <<dbVars, config, todo, orig, srcMark, histVars, used>>

\* Step 8: _apply_fields and _apply_tags, after waiting for the extraction.
ApplyFields(w) ==
    /\ At(w, "fields")
    /\ srv[task[w].new].st \in Stored
    /\ srv' = [srv EXCEPT ![task[w].new].fields = TRUE]
    /\ \E pc \in {"link", "fail"} : Goto(w, pc)
    /\ UNCHANGED <<dbVars, config, todo, orig, srcMark, histVars, used>>

Link(w) ==
    /\ At(w, "link")
    /\ SetRow(Job(w), [row[Job(w)] EXCEPT !.state = "linked"])
    /\ Goto(w, "mark_new")
    /\ UNCHANGED <<paused, config, todo, serverVars, histVars, used>>

MarkNew(w) ==
    /\ At(w, "mark_new")
    /\ srv[task[w].new].st \in Stored
    /\ srv' = [srv EXCEPT ![task[w].new].mark = TRUE]
    /\ Goto(w, "mark_source")
    /\ UNCHANGED <<dbVars, config, todo, orig, srcMark, histVars, used>>

MarkSource(w) ==
    /\ At(w, "mark_source")
    /\ orig[Job(w)] \in Stored
    /\ srcMark' = [srcMark EXCEPT ![Job(w)] = "replaced"]
    /\ Goto(w, "pend")
    /\ UNCHANGED <<dbVars, config, todo, orig, srv, histVars, used>>

\* _safe_mark swallows a failed write: the job goes on without the marker.
MarkFails(w) ==
    /\ \/ At(w, "mark_no_gain") /\ SkipFor(w, "no_gain")
       \/ At(w, "mark_new")     /\ Goto(w, "mark_source")
       \/ At(w, "mark_source")  /\ Goto(w, "pend")
    /\ UNCHANGED <<dbVars, config, todo, serverVars, histVars, used>>

\* Step 10.  The state is written before delete_after is.
Pend(w) ==
    /\ At(w, "pend")
    /\ IF config.trash
          THEN /\ SetRow(Job(w), [row[Job(w)] EXCEPT !.state = "pending_delete"])
               /\ Goto(w, IF config.inline THEN "verify" ELSE "schedule")
          ELSE /\ SetRow(Job(w), [row[Job(w)] EXCEPT !.state = "done"])
               /\ Return(w)
    /\ UNCHANGED <<paused, config, todo, serverVars, histVars, used>>

Schedule(w) ==
    /\ At(w, "schedule")
    /\ SetRow(Job(w), [row[Job(w)] EXCEPT !.del = "ahead"])
    /\ Return(w)
    /\ UNCHANGED <<paused, config, todo, serverVars, histVars, used>>

-----------------------------------------------------------------------------
\* run_job: what becomes of a SkipJob and of any other exception.

\* The calls and local tools whose failure ends the run, changing nothing.
MayFail == {"marker", "detail", "download", "encode", "upload", "copy", "fields"}

CallFails(w) ==
    /\ task[w].pc \in MayFail
    /\ Goto(w, "fail")
    /\ UNCHANGED <<dbVars, config, todo, serverVars, histVars, used>>

Skip(w) ==
    /\ At(w, "skip")
    /\ SetRow(Job(w), MarkedSkipped(row[Job(w)], task[w].why))
    /\ Return(w)
    /\ UNCHANGED <<paused, config, todo, serverVars, histVars, used>>

HandleFailure(w) ==
    /\ At(w, "fail")
    /\ SetRow(Job(w), IF task[w].tries >= MaxAttempts
                         THEN MarkedFailed(row[Job(w)])
                         ELSE Rescheduled(row[Job(w)]))
    /\ Return(w)
    /\ UNCHANGED <<paused, config, todo, serverVars, histVars, used>>

-----------------------------------------------------------------------------
\* finalize_original, called by a worker (inline) or by the sweeper.

\* Mutant: that the replacement is there is enough.
VerifyAnyBytes(t) ==
    /\ At(t, "verify")
    /\ srv[task[t].new].st = "live"
    /\ Goto(t, "verify_marker")
    /\ UNCHANGED <<dbVars, config, todo, serverVars, histVars, used>>

\* Mutant: a replacement in the trash passes.
VerifyTrashed(t) ==
    /\ At(t, "verify")
    /\ srv[task[t].new].st \in Stored
    /\ task[t].sum # None
    /\ srv[task[t].new].sum = task[t].sum
    /\ Goto(t, "verify_marker")
    /\ UNCHANGED <<dbVars, config, todo, serverVars, histVars, used>>

\* _verify_replacement, conditions 1 to 3: there, not trashed, the same bytes.
Verify(t) ==
    /\ At(t, "verify")
    /\ srv[task[t].new].st = "live"
    /\ task[t].sum # None
    /\ srv[task[t].new].sum = task[t].sum
    /\ Goto(t, "verify_marker")
    /\ UNCHANGED <<dbVars, config, todo, serverVars, histVars, used>>

\* Mutant: the marker is not asked for.
VerifyMarkerUnchecked(t) ==
    /\ At(t, "verify_marker")
    /\ Goto(t, "delete")
    /\ UNCHANGED <<dbVars, config, todo, serverVars, histVars, used>>

\* Condition 4: step 9 got its marker written.
VerifyMarker(t) ==
    /\ At(t, "verify_marker")
    /\ srv[task[t].new].st \in Stored
    /\ srv[task[t].new].mark
    /\ Goto(t, "delete")
    /\ UNCHANGED <<dbVars, config, todo, serverVars, histVars, used>>

(***************************************************************************)
(* delete_assets.  The server refuses an id it does not know.  A lost      *)
(* answer is retried: in the trash the repeat succeeds, after a force      *)
(* delete it is refused.                                                   *)
(***************************************************************************)
Delete(t) ==
    /\ At(t, "delete")
    /\ orig[Job(t)] \in Stored
    /\ orig' = [orig EXCEPT ![Job(t)] = IF config.permanent THEN "gone" ELSE "trashed"]
    /\ basis' = [basis EXCEPT ![Job(t)] = IF @ = None THEN task[t].new ELSE @]
    /\ \E pc \in {"finish", "defer_queue"} : Goto(t, pc)
    /\ UNCHANGED <<dbVars, config, todo, srcMark, srv, lateLoss, used>>

\* A condition does not hold, or a call of the chain fails.
Refuse(t) ==
    /\ task[t].pc \in {"verify", "verify_marker", "delete"}
    /\ Goto(t, "defer_queue")
    /\ UNCHANGED <<dbVars, config, todo, serverVars, histVars, used>>

\* Mutant: the checksum counts as freed after either kind of delete.
FinishFrees(t) ==
    /\ At(t, "finish")
    /\ SetRow(Job(t), [row[Job(t)] EXCEPT !.state = "done", !.del = "null"])
    /\ Goto(t, "free")
    /\ UNCHANGED <<paused, config, todo, serverVars, histVars, used>>

Finish(t) ==
    /\ At(t, "finish")
    /\ SetRow(Job(t), [row[Job(t)] EXCEPT !.state = "done", !.del = "null"])
    /\ IF config.permanent THEN Goto(t, "free") ELSE Return(t)
    /\ UNCHANGED <<paused, config, todo, serverVars, histVars, used>>

\* _free_original_checksum up to mark_original_freed; the touch is the shim's.
Free(t) ==
    /\ At(t, "free")
    /\ IF row[Job(t)].ledger
          THEN SetRow(Job(t), MarkedFreed(row[Job(t)]))
          ELSE UNCHANGED row
    /\ Return(t)
    /\ UNCHANGED <<paused, config, todo, serverVars, histVars, used>>

\* _defer_deletion: reschedule, and only then back to pending_delete.
DeferQueue(t) ==
    /\ At(t, "defer_queue")
    /\ SetRow(Job(t), Rescheduled(row[Job(t)]))
    /\ Goto(t, "defer_pend")
    /\ UNCHANGED <<paused, config, todo, serverVars, histVars, used>>

\* Mutant: the date of the next attempt is cleared, as after a deletion.
DeferPendNoDate(t) ==
    /\ At(t, "defer_pend")
    /\ SetRow(Job(t), [row[Job(t)] EXCEPT !.state = "pending_delete", !.del = "null"])
    /\ Return(t)
    /\ UNCHANGED <<paused, config, todo, serverVars, histVars, used>>

DeferPend(t) ==
    /\ At(t, "defer_pend")
    /\ SetRow(Job(t), [row[Job(t)] EXCEPT !.state = "pending_delete", !.del = "ahead"])
    /\ Return(t)
    /\ UNCHANGED <<paused, config, todo, serverVars, histVars, used>>

-----------------------------------------------------------------------------
\* Worker._sweeper and _trash_one.

Snapshot(a) == [job |-> a, new |-> row[a].new, sum |-> row[a].newSum]

\* Mutant: the sweeper goes on while the service is paused.
SweepStartAnyway ==
    /\ At(Sweeper, "idle")
    /\ config.trash
    /\ \E a \in Asset : DueDeletion(row[a])
    /\ todo' = {Snapshot(a) : a \in {e \in Asset : DueDeletion(row[e])}}
    /\ Goto(Sweeper, "next")
    /\ UNCHANGED <<dbVars, config, serverVars, histVars, used>>

\* trash_original, pause check and due_deletions: reads, as in Poll.
SweepStart ==
    /\ At(Sweeper, "idle")
    /\ config.trash /\ ~paused
    /\ \E a \in Asset : DueDeletion(row[a])
    /\ todo' = {Snapshot(a) : a \in {e \in Asset : DueDeletion(row[e])}}
    /\ Goto(Sweeper, "next")
    /\ UNCHANGED <<dbVars, config, serverVars, histVars, used>>

\* Works from the snapshot: neither the row nor the latch is read again.
SweepNext ==
    /\ At(Sweeper, "next")
    /\ \/ /\ todo = {}
          /\ task' = [task EXCEPT ![Sweeper] = Idle]
          /\ UNCHANGED <<row, todo>>
       \/ \E j \in todo :
             /\ todo' = todo \ {j}
             /\ IF j.new = None
                   THEN /\ SetRow(j.job, MarkedFailed(row[j.job]))
                        /\ UNCHANGED task
                   ELSE /\ task' = [task EXCEPT ![Sweeper] =
                              [Idle EXCEPT !.pc = "verify", !.job = j.job,
                                           !.new = j.new, !.sum = j.sum]]
                        /\ UNCHANGED row
    /\ UNCHANGED <<paused, config, serverVars, histVars, used>>

-----------------------------------------------------------------------------

Outside ==
    \/ \E a \in Asset : Arrive(a) \/ OriginalMoved(a)
    \/ \E n \in NewAsset : ReplacementMoved(n)

Clock == \E a \in Asset : RunAfterPasses(a) \/ DeleteAfterPasses(a)

Operator ==
    \/ Resume
    \/ Restart
    \/ \E a \in Asset : Reprocess(a)
    \/ \E S \in SUBSET Asset : RequeueFailed(S)
    \/ \E reason \in SkipReason : RequeueSkipped(reason)

Trigger == Surge \/ \E a \in Asset : Enqueue(a)

Guards(w) ==
    \/ Load(w) \/ Reject(w) \/ ReadMarker(w) \/ GetDetail(w)
    \/ WriteLedger(w) \/ CheckReUpload(w)

Replace(w) ==
    \/ Download(w) \/ Encode(w) \/ MarkNoGain(w)
    \/ UploadDuplicate(w) \/ Upload(w) \/ ReadDuplicate(w)
    \/ RecordDuplicate(w) \/ Record(w)

CarryOver(w) ==
    \/ CopyLinks(w) \/ ApplyFields(w) \/ Link(w)
    \/ MarkNew(w) \/ MarkSource(w) \/ MarkFails(w)
    \/ Pend(w) \/ Schedule(w)

EndRun(w) == CallFails(w) \/ Skip(w) \/ HandleFailure(w)

Finalize(t) ==
    \/ Verify(t) \/ VerifyMarker(t) \/ Delete(t) \/ Refuse(t)
    \/ Finish(t) \/ Free(t) \/ DeferQueue(t) \/ DeferPend(t)

\* What a worker does once it has picked a job.
Work(w) ==
    \/ Claim(w) \/ Guards(w) \/ Replace(w) \/ CarryOver(w)
    \/ EndRun(w) \/ Finalize(w)

Sweep == SweepStart \/ SweepNext \/ Finalize(Sweeper)

Next ==
    \/ Outside \/ Clock \/ Operator \/ Trigger
    \/ \E w \in Worker : Poll(w) \/ Work(w)
    \/ Sweep

Spec == Init /\ [][Next]_vars

-----------------------------------------------------------------------------
\* Fairness: asyncio runs every task that can run, and time passes.

(***************************************************************************)
(* A call that is repeated for ever gets through at some point (strong     *)
(* fairness of the two that finalize_original repeats); nothing is assumed *)
(* of the user, of the operator or of the process staying up.              *)
(***************************************************************************)
Fairness ==
    /\ \A w \in Worker : WF_vars(Work(w)) /\ WF_vars(Poll(w))
    /\ WF_vars(Sweep)
    /\ \A t \in Task : SF_vars(Verify(t)) /\ SF_vars(VerifyMarker(t))
                       /\ SF_vars(Delete(t) /\ task'[t].pc = "finish")
    /\ \A a \in Asset : WF_vars(RunAfterPasses(a)) /\ WF_vars(DeleteAfterPasses(a))

FairSpec == Spec /\ Fairness

-----------------------------------------------------------------------------
\* Properties.

TypeOK ==
    /\ row \in [Asset -> Row]
    /\ paused \in BOOLEAN
    /\ config \in Configs
    /\ task \in [Task -> Local]
    /\ todo \subseteq [job : Asset, new : NewAsset \cup {None}, sum : Bytes \cup {None}]
    /\ orig \in [Asset -> Presence]
    /\ srcMark \in [Asset -> {"none", "no_gain", "replaced"}]
    /\ srv \in [NewAsset -> Replacement]
    /\ basis \in [Asset -> NewAsset \cup {None}]
    /\ lateLoss \subseteq NewAsset
    /\ used \in [Occasion -> Nat]

\* n is on the server, or went when nothing could notice any more.
Stands(n) == srv[n].st = "live" \/ n \in lateLoss

(***************************************************************************)
(* pipeline.py promises that nothing is destroyed before the replacement   *)
(* is confirmed: the replacement an original was deleted for holds the     *)
(* very bytes encoded from it and was live when it was last looked at,     *)
(* whoever else ran the same job, crashed or trashed it.                   *)
(***************************************************************************)
NothingLost ==
    \A a \in Asset : basis[a] # None =>
        /\ Encodes(srv[basis[a]].sum, a)
        /\ Stands(basis[a])

(***************************************************************************)
(* Step 10 is strictly after 7 and 8: what an original was deleted for has *)
(* its links, fields and tags, also when the sweeper took the id from a    *)
(* row another worker had overwritten.  Only the marker tells it so.       *)
(***************************************************************************)
CarriedOver ==
    \A a \in Asset : basis[a] # None =>
        srv[basis[a]].links /\ srv[basis[a]].fields

(***************************************************************************)
(* Once an original has been deleted, its row recognises the same bytes    *)
(* coming back: find_replaced_original needs both halves, in every state   *)
(* the row may be in, and no crash falls between the delete and either.    *)
(***************************************************************************)
RemovalIsRemembered ==
    \A a \in Asset : basis[a] # None => row[a].ledger /\ row[a].new # None

(***************************************************************************)
(* The gate the shim relies on: original_freed_at is only ever set while   *)
(* no asset with the original's id holds its checksum any more.            *)
(***************************************************************************)
FreedMeansGone == \A a \in Asset : row[a].freed => orig[a] = "gone"

(***************************************************************************)
(* The branch of _trash_one that fails a job for want of a replacement id  *)
(* is never taken: nothing pends deletion without one.                     *)
(***************************************************************************)
PendingHasReplacement ==
    /\ \A a \in Asset : row[a].state = "pending_delete" => row[a].new # None
    /\ \A j \in todo : j.new # None

Created(n) == srv[n].st = "absent" /\ srv'[n].st = "live"

(***************************************************************************)
(* _check_re_upload: a device sending a replaced original again does not   *)
(* get it compressed a second time.  With one worker, no upload is ever    *)
(* made for an asset whose bytes this service has already deleted under    *)
(* another id.                                                             *)
(***************************************************************************)
NoSecondGeneration ==
    [][\A n \in NewAsset : Created(n) =>
          ~\E e \in Asset \ {srv'[n].from} :
              /\ basis[e] # None
              /\ Content[e] = Content[srv'[n].from]]_vars

(***************************************************************************)
(* A job whose replacement is on record never uploads another, whatever    *)
(* crashes, retries and reprocess did in between (with one worker).        *)
(***************************************************************************)
NoUploadOnceRecorded ==
    [][\A n \in NewAsset : Created(n) => row[srv'[n].from].new = None]_vars

(***************************************************************************)
(* Every job that has been accepted is taken to a terminal state or to the *)
(* deletion queue, unless the service is paused: backoff, crashes and a    *)
(* broken server do not strand it.                                         *)
(***************************************************************************)
Terminal == {"done", "skipped", "failed"}

JobSettles ==
    \A a \in Asset :
        row[a].state \in Resumable ~>
            row[a].state \in Terminal \cup {"pending_delete"} \/ paused

(***************************************************************************)
(* A scheduled deletion whose replacement is in order gets done, or its    *)
(* job leaves the deletion queue for good: a refused attempt and a broken  *)
(* server cost retries of the sweeper and nothing else.                    *)
(***************************************************************************)
InOrder(a) ==
    LET n == row[a].new IN
    /\ row[a].state = "pending_delete" /\ row[a].del # "null"
    /\ n # None /\ srv[n].st = "live" /\ srv[n].mark
    /\ srv[n].sum = row[a].newSum

DeletionSettles ==
    \A a \in Asset :
        InOrder(a) /\ config.trash ~>
            orig[a] # "live" \/ row[a].state \in Terminal \/ paused \/ ~config.trash

(***************************************************************************)
(* While nobody resumes a paused service, what was in flight comes to an   *)
(* end and the service to rest.                                            *)
(***************************************************************************)
PauseBringsRest ==
    []<>~paused \/ <>[](\A t \in Task : At(t, "idle"))
=============================================================================
