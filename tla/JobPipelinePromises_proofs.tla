---------------------- MODULE JobPipelinePromises_proofs ----------------------
(***************************************************************************)
(* What the pipeline promises to those outside it.                         *)
(*                                                                         *)
(* First, with any number of workers: JobPipeline implements               *)
(* SafeReplacement.  A step of the pipeline is one of three kinds to that  *)
(* promise: it writes one row of the table, and may thereby come to        *)
(* remember an original; it changes one replacement, which becomes a       *)
(* stand-in or is withdrawn; or it deletes an original.  Everything else   *)
(* the promise does not see.                                               *)
(*                                                                         *)
(* Second, what one worker promises and several do not: no job uploads     *)
(* twice, and nothing this service has replaced is compressed again.  Both *)
(* are decided by what run_job and _check_re_upload read, several steps    *)
(* before the upload.  They hold because nothing but a worker writes the   *)
(* columns that were read: the sweeper, the operator, the clock and the    *)
(* webhook change neither the ledger nor the recorded replacement.         *)
(***************************************************************************)
EXTENDS JobPipelineSafety_proofs

PromiseStep == [Promise!Next]_(Promise!vars)

-----------------------------------------------------------------------------
\* The three kinds of step, and the fourth.

\* The columns from which a deleted original is recognised, and at which the
\* two reads of a worker look.
SameMemory(e) == row'[e].ledger = row[e].ledger /\ row'[e].new = row[e].new

SameServer == UNCHANGED <<srv, basis, lateLoss>>

\* Neither a stand-in nor what is remembered changes: the promise stutters.
LEMMA NothingPromised ==
    ASSUME SameServer, \A e \in Asset : SameMemory(e)
    PROVE  PromiseStep
<1>1. \A a \in Asset : StandIn(a)' = StandIn(a)
  BY DEF SameServer, StandIn, Stands
<1>2. {a \in Asset : row'[a].ledger /\ row'[a].new # None}
      = {a \in Asset : row[a].ledger /\ row[a].new # None}
  BY DEF SameMemory
<1> QED
  BY <1>1, <1>2 DEF PromiseStep, Promise!vars, SameServer

\* A statement on the row of a: the promise remembers a, or stutters.
LEMMA RowRemembers ==
    ASSUME TableGrows, SameServer, NEW a \in Asset, \A e \in Asset \ {a} : SameMemory(e)
    PROVE  PromiseStep
<1>1. \A e \in Asset : StandIn(e)' = StandIn(e)
  BY DEF SameServer, StandIn, Stands
<1>2. CASE row'[a].ledger /\ row'[a].new # None
  <2>1. {e \in Asset : row'[e].ledger /\ row'[e].new # None}
        = {e \in Asset : row[e].ledger /\ row[e].new # None} \cup {a}
    BY <1>2 DEF SameMemory
  <2>2. Promise!Remember(a)
    BY <1>1, <2>1 DEF Promise!Remember, SameServer
  <2> QED
    BY <2>2 DEF PromiseStep, Promise!Next
<1>3. CASE ~(row'[a].ledger /\ row'[a].new # None)
  <2>1. {e \in Asset : row'[e].ledger /\ row'[e].new # None}
        = {e \in Asset : row[e].ledger /\ row[e].new # None}
    BY <1>3 DEF SameMemory, TableGrows
  <2> QED
    BY <1>1, <2>1 DEF PromiseStep, Promise!vars, SameServer
<1> QED
  BY <1>2, <1>3

\* Nothing but n changes on the server, and n keeps what it has.
OnlyGains(n) ==
    /\ UNCHANGED <<row, basis>>
    /\ \A m \in NewAsset \ {n} : srv'[m] = srv[m]
    /\ \A m \in NewAsset \ {n} : m \in lateLoss' <=> m \in lateLoss
    /\ srv[n].sum # None => srv'[n].sum = srv[n].sum
    /\ srv[n].links => srv'[n].links
    /\ srv[n].fields => srv'[n].fields
    /\ srv[n].mark => srv'[n].mark

\* A stand-in that still stands: the promise takes it for complete.
LEMMA ReplacementCompletes ==
    ASSUME NEW n \in NewAsset, OnlyGains(n), Stands(n) => Stands(n)'
    PROVE  PromiseStep
<1>1. ASSUME NEW a \in Asset
      PROVE  /\ StandIn(a)' \in {StandIn(a), StandIn(a) \cup {n}}
             /\ StandIn(a)' \in SUBSET NewAsset
  <2>1. StandIn(a)' \in SUBSET NewAsset
    BY DEF StandIn
  <2>2. \A m \in NewAsset \ {n} : m \in StandIn(a)' <=> m \in StandIn(a)
    BY DEF OnlyGains, StandIn, Stands
  <2>3. n \in StandIn(a) => n \in StandIn(a)'
    BY DEF OnlyGains, StandIn
  <2>4. StandIn(a) \in SUBSET NewAsset
    BY DEF StandIn
  <2>5. CASE n \in StandIn(a)'
    <3>1. StandIn(a)' = StandIn(a) \cup {n}
      BY <2>1, <2>2, <2>4, <2>5
    <3> QED
      BY <2>1, <3>1
  <2>6. CASE n \notin StandIn(a)'
    <3>1. StandIn(a)' = StandIn(a)
      BY <2>1, <2>2, <2>3, <2>4, <2>6
    <3> QED
      BY <2>1, <3>1
  <2> QED
    BY <2>5, <2>6
<1>2. Promise!Complete(n)
  BY <1>1 DEF Promise!Complete, OnlyGains
<1> QED
  BY <1>2 DEF PromiseStep, Promise!Next

\* A replacement nobody relies on goes: the promise withdraws it.
LEMMA ReplacementWithdrawn ==
    ASSUME NEW n \in NewAsset, OnlyGains(n), ~Relied(n), ~Stands(n)'
    PROVE  PromiseStep
<1>1. ASSUME NEW a \in Asset PROVE StandIn(a)' = StandIn(a) \ {n}
  <2>1. \A m \in NewAsset \ {n} : m \in StandIn(a)' <=> m \in StandIn(a)
    BY DEF OnlyGains, StandIn, Stands
  <2>2. n \notin StandIn(a)'
    BY DEF StandIn
  <2>3. StandIn(a) \subseteq NewAsset /\ StandIn(a)' \subseteq NewAsset
    BY DEF StandIn
  <2> QED
    BY <2>1, <2>2, <2>3
<1>2. Promise!Withdraw(n)
  BY <1>1 DEF Promise!Withdraw, OnlyGains, Relied
<1> QED
  BY <1>2 DEF PromiseStep, Promise!Next

-----------------------------------------------------------------------------
\* The steps of a task.

\* A statement on the row of t's job.
LEMMA JobRowStep ==
    ASSUME SafeInv, TableGrows, NEW t \in Task, task[t].pc \in Working,
           NEW q, SetRow(Job(t), q), UNCHANGED <<serverVars, histVars>>
    PROVE  PromiseStep
<1>1. Job(t) \in Asset /\ row \in [Asset -> Row]
  BY AtWork DEF SafeInv, TypeInv, TypeOK
<1>2. \A e \in Asset \ {Job(t)} : SameMemory(e)
  BY <1>1 DEF SetRow, SameMemory
<1> QED
  BY <1>1, <1>2, RowRemembers DEF SameServer, serverVars, histVars

\* A step that writes neither the table nor a replacement.
LEMMA UnseenStep ==
    ASSUME UNCHANGED <<row, srv, basis, lateLoss>>
    PROVE  PromiseStep
BY NothingPromised DEF SameMemory, SameServer

\* Steps 1 and 2 and the end of a run write one row at most.
LEMMA GuardsPromise ==
    ASSUME SafeInv, TableGrows, NEW t \in Task, Claim(t) \/ Guards(t) \/ EndRun(t)
    PROVE  PromiseStep
<1> USE DEF dbVars, serverVars, histVars
<1>1. CASE Claim(t) \/ WriteLedger(t) \/ Reject(t) \/ Skip(t) \/ HandleFailure(t)
  <2>1. task[t].pc \in Working
    BY <1>1 DEF Claim, WriteLedger, Reject, Skip, HandleFailure, At, Working, PC, WorkerPC
  <2>2. PICK q : SetRow(Job(t), q)
    BY <1>1 DEF Claim, WriteLedger, Reject, Skip, HandleFailure
  <2> QED
    BY <1>1, <2>1, <2>2, JobRowStep DEF Claim, WriteLedger, Reject, Skip, HandleFailure
<1>2. CASE Load(t) \/ ReadMarker(t) \/ GetDetail(t) \/ CheckReUpload(t) \/ CallFails(t)
  BY <1>2, UnseenStep DEF Load, ReadMarker, GetDetail, CheckReUpload, CallFails
<1> QED
  BY <1>1, <1>2 DEF Guards, EndRun

\* A call that writes to the replacement t works on.
LEMMA ReplacementCall ==
    ASSUME SafeInv, NEW n \in NewAsset,
           NEW r \in {[srv[n] EXCEPT !.links = TRUE], [srv[n] EXCEPT !.fields = TRUE],
                      [srv[n] EXCEPT !.mark = TRUE]},
           srv' = [srv EXCEPT ![n] = r], UNCHANGED <<row, basis, lateLoss>>
    PROVE  PromiseStep
<1>1. srv \in [NewAsset -> Replacement]
  BY DEF SafeInv, TypeInv, TypeOK
<1>2. /\ r.st = srv[n].st /\ r.sum = srv[n].sum
      /\ srv[n].links => r.links
      /\ srv[n].fields => r.fields
      /\ srv[n].mark => r.mark
  BY <1>1 DEF Replacement
<1>3. OnlyGains(n) /\ (Stands(n) => Stands(n)')
  BY <1>1, <1>2 DEF OnlyGains, Stands
<1> QED
  BY <1>3, ReplacementCompletes

\* Steps 3 to 6 create a replacement and put it on record.
LEMMA ReplacePromise ==
    ASSUME SafeInv, TableGrows, NEW t \in Task, Replace(t)
    PROVE  PromiseStep
<1> USE DEF dbVars, serverVars, histVars
<1>1. CASE Record(t) \/ RecordDuplicate(t)
  <2>1. task[t].pc \in Working
    BY <1>1 DEF Record, RecordDuplicate, At, Working, PC, WorkerPC
  <2>2. PICK q : SetRow(Job(t), q)
    BY <1>1 DEF Record, RecordDuplicate
  <2> QED
    BY <1>1, <2>1, <2>2, JobRowStep DEF Record, RecordDuplicate
<1>2. CASE Download(t) \/ Encode(t) \/ MarkNoGain(t) \/ UploadDuplicate(t) \/ ReadDuplicate(t)
  BY <1>2, UnseenStep DEF Download, Encode, MarkNoGain, UploadDuplicate, ReadDuplicate
<1>3. CASE Upload(t)
  <2>1. PICK n \in NewAsset, b \in Bytes :
           /\ srv[n].st = "absent"
           /\ srv' = [srv EXCEPT ![n] = [NoReplacement EXCEPT
                         !.st = "live", !.sum = b, !.from = Job(t)]]
    BY <1>3 DEF Upload
  <2>2. srv \in [NewAsset -> Replacement] /\ srv[n] = NoReplacement
    BY <2>1 DEF SafeInv, TypeInv, TypeOK, SharedInv, ServerInv
  <2>3. OnlyGains(n)
    BY <1>3, <2>1, <2>2 DEF Upload, OnlyGains, NoReplacement
  <2>4. Stands(n)'
    BY <2>1, <2>2 DEF Stands, NoReplacement
  <2> QED
    BY <2>3, <2>4, ReplacementCompletes
<1> QED
  BY <1>1, <1>2, <1>3 DEF Replace

\* Steps 7 to 9 complete the replacement; step 10 writes the row.
LEMMA CarryOverPromise ==
    ASSUME SafeInv, TableGrows, NEW t \in Task, CarryOver(t)
    PROVE  PromiseStep
<1> USE DEF dbVars, serverVars, histVars
<1>1. CASE Link(t) \/ Pend(t) \/ Schedule(t)
  <2>1. task[t].pc \in Working
    BY <1>1 DEF Link, Pend, Schedule, At, Working, PC, WorkerPC
  <2>2. PICK q : SetRow(Job(t), q)
    BY <1>1 DEF Link, Pend, Schedule
  <2> QED
    BY <1>1, <2>1, <2>2, JobRowStep DEF Link, Pend, Schedule
<1>2. CASE CopyLinks(t) \/ ApplyFields(t) \/ MarkNew(t)
  <2>1. task[t].pc \in Working /\ task[t].pc \in Replaced
    BY <1>2 DEF CopyLinks, ApplyFields, MarkNew, At, Working, PC, WorkerPC, Replaced
  <2>2. task[t].new \in NewAsset
    BY <2>1, AtWork DEF Knows, KnowsRow, Local
  <2>3. PICK r \in {[srv[task[t].new] EXCEPT !.links = TRUE],
                    [srv[task[t].new] EXCEPT !.fields = TRUE],
                    [srv[task[t].new] EXCEPT !.mark = TRUE]} :
           srv' = [srv EXCEPT ![task[t].new] = r]
    BY <1>2, <2>2 DEF CopyLinks, ApplyFields, MarkNew, SafeInv, TypeInv, TypeOK
  <2> QED
    BY <1>2, <2>2, <2>3, ReplacementCall DEF CopyLinks, ApplyFields, MarkNew
<1>3. CASE MarkSource(t) \/ MarkFails(t)
  BY <1>3, UnseenStep DEF MarkSource, MarkFails
<1> QED
  BY <1>1, <1>2, <1>3 DEF CarryOver

\* The deletion: what t knows at this point is what the promise asks for.
LEMMA DeletePromise ==
    ASSUME SafeInv, NEW t \in Task, Delete(t)
    PROVE  PromiseStep
<1> USE DEF dbVars, serverVars, histVars
<1>1. At(t, "delete") /\ task[t].pc \in Working
  BY DEF Delete, At, Working, PC, FinalPC
<1>2. Job(t) \in Asset /\ Knows(t) /\ task[t] \in Local
  BY <1>1, AtWork
<1>3. /\ row[Job(t)].ledger /\ row[Job(t)].new # None /\ task[t].new \in NewAsset
  BY <1>1, <1>2, AtWork
     DEF Knows, KnowsRow, Local, At, Undecided, Unrecorded, Replaced, FinalPC
<1>4. task[t].new \in StandIn(Job(t))
  <2>1. /\ srv[task[t].new].sum # None /\ Encodes(srv[task[t].new].sum, Job(t))
        /\ srv[task[t].new].mark /\ Stands(task[t].new)
    BY <1>1, <1>2 DEF Knows, KnowsReplacement, KnowsBytes, At
  <2>2. srv[task[t].new].links /\ srv[task[t].new].fields
    BY <1>3, <2>1 DEF SafeInv, SharedInv, ServerInv
  <2> QED
    BY <1>3, <2>1, <2>2 DEF StandIn
<1>5. UNCHANGED <<row, srv, lateLoss>>
  BY DEF Delete
<1>6. \A a \in Asset : StandIn(a)' = StandIn(a)
  BY <1>5 DEF StandIn, Stands
<1>7. CASE basis[Job(t)] = None
  <2>1. basis' = [basis EXCEPT ![Job(t)] = task[t].new]
    BY <1>7 DEF Delete
  <2>2. Promise!TakeAway(Job(t))
    BY <1>2, <1>3, <1>4, <1>5, <1>6, <1>7, <2>1 DEF Promise!TakeAway
  <2> QED
    BY <1>2, <2>2 DEF PromiseStep, Promise!Next
<1>8. CASE basis[Job(t)] # None
  <2>1. basis' = basis
    BY <1>2, <1>8 DEF Delete, SafeInv, TypeInv, TypeOK
  <2> QED
    BY <1>5, <2>1, UnseenStep
<1> QED
  BY <1>7, <1>8

\* finalize_original: but for Delete, it writes one row at most.
LEMMA FinalizePromise ==
    ASSUME SafeInv, TableGrows, NEW t \in Task, Finalize(t)
    PROVE  PromiseStep
<1> USE DEF dbVars, serverVars, histVars
<1>1. CASE Finish(t) \/ DeferQueue(t) \/ DeferPend(t)
  <2>1. task[t].pc \in Working
    BY <1>1 DEF Finish, DeferQueue, DeferPend, At, Working, PC, FinalPC
  <2>2. PICK q : SetRow(Job(t), q)
    BY <1>1 DEF Finish, DeferQueue, DeferPend
  <2> QED
    BY <1>1, <2>1, <2>2, JobRowStep DEF Finish, DeferQueue, DeferPend
<1>2. CASE Free(t)
  <2>1. task[t].pc \in Working
    BY <1>2 DEF Free, At, Working, PC, FinalPC
  <2> QED
    BY <1>2, <2>1, JobRowStep, UnseenStep DEF Free
<1>3. CASE Verify(t) \/ VerifyMarker(t) \/ Refuse(t)
  BY <1>3, UnseenStep DEF Verify, VerifyMarker, Refuse
<1> QED
  BY <1>1, <1>2, <1>3, DeletePromise DEF Finalize

\* The sweeper's own steps write one row at most.
LEMMA SweepPromise ==
    ASSUME SafeInv, TableGrows, SweepStart \/ SweepNext
    PROVE  PromiseStep
<1> USE DEF dbVars, serverVars, histVars
<1>1. CASE UNCHANGED row
  BY <1>1, UnseenStep DEF SweepStart, SweepNext
<1>2. ASSUME NEW j \in todo, SetRow(j.job, MarkedFailed(row[j.job])), SweepNext
      PROVE  PromiseStep
  <2>1. j.job \in Asset /\ row \in [Asset -> Row]
    BY DEF SafeInv, TypeInv, TypeOK
  <2>2. \A e \in Asset \ {j.job} : SameMemory(e)
    BY <1>2, <2>1 DEF SetRow, SameMemory
  <2> QED
    BY <1>2, <2>1, <2>2, RowRemembers DEF SameServer, SweepNext
<1> QED
  BY <1>1, <1>2 DEF SweepStart, SweepNext

-----------------------------------------------------------------------------
\* Everybody else's steps.

\* A user, or the server, removes or restores a replacement.
LEMMA ReplacementMovedPromise ==
    ASSUME SafeInv, NEW n \in NewAsset, ReplacementMoved(n)
    PROVE  PromiseStep
<1>1. PICK p \in Stored \cup {"gone"} : srv' = [srv EXCEPT ![n].st = p]
  BY DEF ReplacementMoved
<1>2. /\ lateLoss' = IF Relied(n) THEN lateLoss \cup {n} ELSE lateLoss
      /\ UNCHANGED <<row, basis>> /\ srv \in [NewAsset -> Replacement]
  BY DEF ReplacementMoved, dbVars, SafeInv, TypeInv, TypeOK
<1>3. OnlyGains(n)
  BY <1>1, <1>2 DEF OnlyGains, Replacement
<1>4. CASE Relied(n) \/ Stands(n)'
  <2>1. Stands(n)'
    BY <1>2, <1>4 DEF Stands
  <2> QED
    BY <1>3, <2>1, ReplacementCompletes
<1>5. CASE ~Relied(n) /\ ~Stands(n)'
  BY <1>3, <1>5, ReplacementWithdrawn
<1> QED
  BY <1>4, <1>5

\* Users, the clock, the operator and the webhook.
LEMMA EnvironmentPromise ==
    ASSUME SafeInv, TableGrows, Outside \/ Clock \/ Operator \/ Trigger
    PROVE  PromiseStep
<1> row \in [Asset -> Row]
  BY DEF SafeInv, TypeInv, TypeOK
<1> USE DEF dbVars, serverVars, histVars
<1>1. ASSUME NEW a \in Asset, Arrive(a) \/ OriginalMoved(a) PROVE PromiseStep
  BY <1>1, UnseenStep DEF Arrive, OriginalMoved
<1>2. ASSUME NEW a \in Asset, NEW q, SetRow(a, q), SameServer PROVE PromiseStep
  <2>1. \A e \in Asset \ {a} : SameMemory(e)
    BY <1>2 DEF SetRow, SameMemory
  <2> QED
    BY <1>2, <2>1, RowRemembers
<1>3. CASE Clock
  <2>1. PICK a \in Asset : RunAfterPasses(a) \/ DeleteAfterPasses(a)
    BY <1>3 DEF Clock
  <2>2. PICK q : SetRow(a, q)
    BY <2>1 DEF RunAfterPasses, DeleteAfterPasses
  <2> QED
    BY <1>2, <2>1, <2>2 DEF RunAfterPasses, DeleteAfterPasses, SameServer
<1>4. CASE Trigger
  <2>1. ASSUME NEW a \in Asset, Enqueue(a) PROVE PromiseStep
    <3>1. PICK q : SetRow(a, q)
      BY <2>1 DEF Enqueue
    <3> QED
      BY <1>2, <2>1, <3>1 DEF Enqueue, SameServer
  <2>2. CASE Surge
    BY <2>2, UnseenStep DEF Surge
  <2> QED
    BY <1>4, <2>1, <2>2 DEF Trigger
<1>5. CASE Operator
  <2>1. CASE Resume \/ Restart
    BY <2>1, UnseenStep DEF Resume, Restart
  <2>2. \A r \in Row : Requeued(r).ledger = r.ledger /\ Requeued(r).new = r.new
    BY DEF Requeued, Row
  <2>3. ASSUME NEW a \in Asset, Reprocess(a) PROVE PromiseStep
    <3>1. PICK q : SetRow(a, q)
      BY <2>3 DEF Reprocess
    <3> QED
      BY <1>2, <2>3, <3>1 DEF Reprocess, SameServer
  <2>4. ASSUME NEW S \in SUBSET Asset, RequeueFailed(S) PROVE PromiseStep
    <3>1. \A e \in Asset : SameMemory(e)
      BY <2>2, <2>4 DEF RequeueFailed, SameMemory
    <3> QED
      BY <2>4, <3>1, NothingPromised DEF RequeueFailed, SameServer
  <2>5. ASSUME NEW reason \in SkipReason, RequeueSkipped(reason) PROVE PromiseStep
    <3>1. \A e \in Asset : SameMemory(e)
      BY <2>2, <2>5 DEF RequeueSkipped, SameMemory
    <3> QED
      BY <2>5, <3>1, NothingPromised DEF RequeueSkipped, SameServer
  <2> QED
    BY <1>5, <2>1, <2>3, <2>4, <2>5 DEF Operator
<1> QED
  BY <1>1, <1>3, <1>4, <1>5, ReplacementMovedPromise DEF Outside

-----------------------------------------------------------------------------
\* The refinement.

\* Nothing stands in for anything, and nothing has been taken away.
LEMMA PromiseInit == Init => Promise!Init
<1> SUFFICES ASSUME Init PROVE Promise!Init
  OBVIOUS
<1>1. \A a \in Asset : StandIn(a) = {}
  BY DEF Init, StandIn, NoReplacement
<1>2. {a \in Asset : row[a].ledger /\ row[a].new # None} = {}
  BY DEF Init, NoRow
<1> QED
  BY <1>1, <1>2 DEF Init, Promise!Init

\* Every step of the pipeline is a step of the promise, or none.
LEMMA PromiseNext == SafeInv /\ [Next]_vars => PromiseStep
<1> SUFFICES ASSUME SafeInv, [Next]_vars PROVE PromiseStep
  OBVIOUS
<1>1. TableGrows
  BY SafeStep DEF Grows
<1>2. CASE Outside \/ Clock \/ Operator \/ Trigger
  BY <1>1, <1>2, EnvironmentPromise
<1>3. ASSUME NEW w \in Worker, Poll(w) PROVE PromiseStep
  BY <1>3, UnseenStep DEF Poll, dbVars, serverVars, histVars
<1>4. ASSUME NEW w \in Worker, Work(w) PROVE PromiseStep
  <2>1. w \in Task
    BY DEF Task
  <2> QED
    BY <1>1, <1>4, <2>1, GuardsPromise, ReplacePromise, CarryOverPromise, FinalizePromise
       DEF Work
<1>5. CASE Sweep
  <2>1. Sweeper \in Task
    BY DEF Task
  <2> QED
    BY <1>1, <1>5, <2>1, SweepPromise, FinalizePromise DEF Sweep
<1>6. CASE UNCHANGED vars
  BY <1>6, UnseenStep DEF vars
<1> QED
  BY <1>2, <1>3, <1>4, <1>5, <1>6 DEF Next

(***************************************************************************)
(* The pipeline, with any number of workers, crashes and outside hands,    *)
(* implements the promise: every delete_assets of finalize_original takes  *)
(* an original away for a stand-in that is complete at that very step and  *)
(* with its removal on record, and no stand-in is withdrawn under it.      *)
(***************************************************************************)
THEOREM PipelineKeepsPromise == Spec => KeepsPromise
<1>1. Init => Promise!Init
  BY PromiseInit
<1>2. SafeInv /\ [Next]_vars => [Promise!Next]_(Promise!vars)
  BY PromiseNext DEF PromiseStep
<1>3. Spec => []SafeInv
  <2>1. Init => SafeInv
    BY SafeInit
  <2>2. SafeInv /\ [Next]_vars => SafeInv'
    BY SafeStep
  <2> QED
    BY <2>1, <2>2, PTL DEF Spec
<1> QED
  BY <1>1, <1>2, <1>3, PTL DEF Spec, KeepsPromise, Promise!Spec

-----------------------------------------------------------------------------
(* One worker.                                                             *)

\* concurrency is 1: one worker takes the jobs of a lane.  It is the default, but
\* not what detection makes of it on a CPU-only host with sixteen cores.
OneWorker == \A v, w \in Worker : v = w

-----------------------------------------------------------------------------
\* What is read stays true until the upload.

\* The steps at which w goes by the replacement id that run_job has read,
LookedUp == {"marker", "detail", "ledger", "re_upload", "download", "encode", "upload"}

\* ... and those at which it goes by the answer of _check_re_upload.
Cleared == {"download", "encode", "upload"}

UpToDate(w) ==
    /\ task[w].pc \in LookedUp => task[w].new = row[Job(w)].new
    /\ At(w, "upload") => task[w].new = None
    /\ task[w].pc \in Cleared => ~ReplacedOriginal(row, Job(w))

OneWorkerInv == \A w \in Worker : UpToDate(w)

Remembers == \A e \in Asset : SameMemory(e)

-----------------------------------------------------------------------------
\* Three ways of keeping it.

\* A step that has left the steps in question behind.
LEMMA Elsewhere ==
    ASSUME NEW w, task'[w].pc \notin LookedUp
    PROVE  UpToDate(w)'
BY DEF UpToDate, LookedUp, Cleared, At

\* A move of w among them, with the table remembering what it did.
LEMMA Onwards ==
    ASSUME SafeInv, NEW w \in Task, UpToDate(w), Remembers, task[w].pc \in LookedUp,
           task'[w].job = Job(w), task'[w].new = task[w].new,
           task'[w].pc = "upload" => task[w].new = None,
           task'[w].pc \in Cleared => ~ReplacedOriginal(row, Job(w))
    PROVE  UpToDate(w)'
<1>1. Job(w) \in Asset
  BY AtWork DEF LookedUp, Working, PC, WorkerPC
<1>2. Job(w)' = Job(w)
  BY DEF Job
<1>3. ReplacedOriginal(row', Job(w)) <=> ReplacedOriginal(row, Job(w))
  BY <1>1 DEF Remembers, SameMemory, ReplacedOriginal
<1>4. task'[w].new = row'[Job(w)].new
  BY <1>1 DEF UpToDate, Remembers, SameMemory
<1> QED
  BY <1>2, <1>3, <1>4 DEF UpToDate, At

\* Somebody else's step.
LEMMA NotMine ==
    ASSUME SafeInv, NEW w \in Task, UpToDate(w), Remembers, task'[w] = task[w]
    PROVE  UpToDate(w)'
<1>1. CASE task[w].pc \in LookedUp
  BY <1>1, Onwards DEF UpToDate, At, Job
<1>2. CASE task[w].pc \notin LookedUp
  BY <1>2, Elsewhere
<1> QED
  BY <1>1, <1>2

-----------------------------------------------------------------------------
\* The steps of the worker.

\* Claiming, and steps 1 and 2: the two reads are made.
LEMMA GuardsUpToDate ==
    ASSUME SafeInv, NEW w \in Worker, UpToDate(w), Claim(w) \/ Guards(w)
    PROVE  UpToDate(w)'
<1> w \in Task
  BY DEF Task
<1>0. task \in [Task -> Local] /\ row \in [Asset -> Row]
  BY DEF SafeInv, TypeInv, TypeOK
<1>1. CASE Claim(w) \/ Reject(w)
  <2>1. task'[w].pc \notin LookedUp
    BY <1>0, <1>1 DEF Claim, Reject, Goto, Return, Idle, Local, LookedUp
  <2> QED
    BY <2>1, Elsewhere
<1>2. CASE Load(w)
  <2>1. row' = row /\ task'[w].job = Job(w) /\ task'[w].new = row[Job(w)].new
    BY <1>0, <1>2 DEF Load, Local, Job, dbVars
  <2>2. task'[w].pc \in {"marker", "skip", "reject"}
    <3>1. row[Job(w)].payload \in {"ok", "guarded", "bad"}
      BY <1>2, AtWork DEF Load, At, Working, PC, WorkerPC, Row
    <3> QED
      BY <1>0, <1>2, <3>1 DEF Load, Parsed, Local
  <2> QED
    BY <2>1, <2>2 DEF UpToDate, Cleared, At, Job
<1>3. CASE ReadMarker(w) \/ GetDetail(w)
  <2>1. Remembers /\ task[w].pc \in LookedUp
    BY <1>3 DEF ReadMarker, GetDetail, dbVars, Remembers, SameMemory, At, LookedUp
  <2>2. /\ task'[w].job = Job(w) /\ task'[w].new = task[w].new
        /\ task'[w].pc \in {"detail", "ledger", "skip"}
    BY <1>0, <1>3 DEF ReadMarker, GetDetail, Goto, SkipFor, Local, Job
  <2> QED
    BY <2>1, <2>2, Onwards DEF Cleared
<1>4. CASE WriteLedger(w)
  <2>1. At(w, "ledger") /\ Job(w) \in Asset
    BY <1>4, AtWork DEF WriteLedger, At, Working, PC, WorkerPC
  <2>2. row'[Job(w)].new = row[Job(w)].new
    BY <1>0, <1>4, <2>1 DEF WriteLedger, SetRow, Row
  <2>3. /\ task'[w].job = Job(w) /\ task'[w].new = task[w].new
        /\ task'[w].pc = "re_upload"
    BY <1>0, <1>4 DEF WriteLedger, Goto, Local, Job
  <2> QED
    BY <2>1, <2>2, <2>3 DEF UpToDate, LookedUp, Cleared, At, Job
<1>5. CASE CheckReUpload(w)
  <2>1. Remembers /\ task[w].pc \in LookedUp
    BY <1>5 DEF CheckReUpload, dbVars, Remembers, SameMemory, At, LookedUp
  <2>2. /\ task'[w].job = Job(w) /\ task'[w].new = task[w].new
        /\ \/ task'[w].pc = "skip"
           \/ task'[w].pc = "download" /\ ~ReplacedOriginal(row, Job(w))
    BY <1>0, <1>5 DEF CheckReUpload, Goto, SkipFor, Local, Job
  <2> QED
    BY <2>1, <2>2, Onwards DEF Cleared
<1> QED
  BY <1>1, <1>2, <1>3, <1>4, <1>5 DEF Guards

\* Steps 3 to 6: nothing is uploaded but what has no replacement on record.
LEMMA ReplaceUpToDate ==
    ASSUME SafeInv, NEW w \in Worker, UpToDate(w), Replace(w)
    PROVE  UpToDate(w)'
<1> w \in Task
  BY DEF Task
<1>0. task \in [Task -> Local]
  BY DEF SafeInv, TypeInv, TypeOK
<1>1. CASE Download(w) \/ Encode(w)
  <2>1. Remembers /\ task[w].pc \in Cleared /\ task[w].pc \in LookedUp
    BY <1>1 DEF Download, Encode, dbVars, Remembers, SameMemory, At, LookedUp, Cleared
  <2>2. task'[w].job = Job(w) /\ task'[w].new = task[w].new
    BY <1>0, <1>1 DEF Download, Encode, Goto, SkipFor, Local, Job
  <2>3. task'[w].pc = "upload" => task[w].new = None
    BY <1>0, <1>1 DEF Download, Encode, Goto, SkipFor, Local
  <2> QED
    BY <2>1, <2>2, <2>3, Onwards DEF UpToDate
<1>2. CASE MarkNoGain(w) \/ RecordDuplicate(w) \/ Record(w)
  <2>1. task'[w].pc \in {"skip", "copy"}
    BY <1>0, <1>2 DEF MarkNoGain, RecordDuplicate, Record, Goto, SkipFor, Local
  <2> QED
    BY <2>1, Elsewhere DEF LookedUp
<1>3. CASE UploadDuplicate(w) \/ ReadDuplicate(w)
  <2>1. task'[w].pc \in {"read_duplicate", "record_duplicate"}
    BY <1>0, <1>3 DEF UploadDuplicate, ReadDuplicate, Local
  <2> QED
    BY <2>1, Elsewhere DEF LookedUp
<1>4. CASE Upload(w)
  <2>1. task'[w].pc \in {"record", "read_duplicate", "fail"}
    BY <1>0, <1>4 DEF Upload, Goto, Local
  <2> QED
    BY <2>1, Elsewhere DEF LookedUp
<1> QED
  BY <1>1, <1>2, <1>3, <1>4 DEF Replace

\* Everything after step 6, and the end of a run, is past the reads.
LEMMA LaterUpToDate ==
    ASSUME SafeInv, NEW w \in Worker, CarryOver(w) \/ EndRun(w) \/ Finalize(w)
    PROVE  UpToDate(w)'
<1> w \in Task
  BY DEF Task
<1>0. task \in [Task -> Local]
  BY DEF SafeInv, TypeInv, TypeOK
<1>1. CASE CarryOver(w)
  <2>1. task'[w].pc \in {"fields", "fail", "link", "mark_new", "mark_source", "skip",
                         "pend", "verify", "schedule", "idle", "next"}
    BY <1>0, <1>1 DEF CarryOver, CopyLinks, ApplyFields, Link, MarkNew, MarkSource,
                      MarkFails, Pend, Schedule, Goto, SkipFor, Return, Idle, Local
  <2> QED
    BY <2>1, Elsewhere DEF LookedUp
<1>2. CASE EndRun(w)
  <2>1. task'[w].pc \in {"fail", "idle", "next"}
    BY <1>0, <1>2 DEF EndRun, CallFails, Skip, HandleFailure, Goto, Return, Idle, Local
  <2> QED
    BY <2>1, Elsewhere DEF LookedUp
<1>3. CASE Finalize(w)
  <2>1. task'[w].pc \in {"verify_marker", "delete", "finish", "defer_queue",
                         "free", "defer_pend", "idle", "next"}
    BY <1>0, <1>3 DEF Finalize, Verify, VerifyMarker, Delete, Refuse, Finish, Free,
                      DeferQueue, DeferPend, Goto, Return, Idle, Local
  <2> QED
    BY <2>1, Elsewhere DEF LookedUp
<1> QED
  BY <1>1, <1>2, <1>3

-----------------------------------------------------------------------------
\* The steps of the others.

\* A statement that keeps these two columns of the row of a.
LEMMA KeepingRemembers ==
    ASSUME row \in [Asset -> Row], NEW a \in Asset, NEW q, SetRow(a, q), Keeps(row[a], q)
    PROVE  Remembers
BY DEF SetRow, Keeps, Remembers, SameMemory

\* The webhook, the clock, the operator, the user and a restart of the process.
LEMMA EnvironmentRemembers ==
    ASSUME SafeInv, Outside \/ Clock \/ Operator \/ Trigger
    PROVE  Remembers
<1>0. row \in [Asset -> Row]
  BY DEF SafeInv, TypeInv, TypeOK
<1>1. CASE UNCHANGED row
  BY <1>1 DEF Remembers, SameMemory
<1>2. ASSUME NEW a \in Asset, Enqueue(a) PROVE Remembers
  <2>1. row[a] = NoRow
    BY <1>2 DEF Enqueue, SafeInv, SharedInv, RowInv
  <2>2. PICK p \in Payloads : SetRow(a, Enqueued(p))
    BY <1>2 DEF Enqueue
  <2>3. Enqueued(p).ledger = NoRow.ledger /\ Enqueued(p).new = NoRow.new
    BY DEF Enqueued, NoRow
  <2> QED
    BY <1>0, <2>1, <2>2, <2>3 DEF SetRow, Remembers, SameMemory
<1>3. ASSUME NEW a \in Asset,
             RunAfterPasses(a) \/ DeleteAfterPasses(a) \/ Reprocess(a)
      PROVE  Remembers
  <2>1. row[a] \in Row /\ HasRow(row[a])
    BY <1>0, <1>3 DEF RunAfterPasses, DeleteAfterPasses, Reprocess, NoRow,
                      SafeInv, SharedInv, RowInv
  <2>2. PICK q : SetRow(a, q) /\ Keeps(row[a], q)
    BY <1>3, <2>1, StatementsKeep DEF RunAfterPasses, DeleteAfterPasses, Reprocess
  <2> QED
    BY <1>0, <2>2, KeepingRemembers
<1>4. ASSUME NEW S \in SUBSET Asset, RequeueFailed(S) PROVE Remembers
  BY <1>0, <1>4 DEF RequeueFailed, Requeued, Row, Remembers, SameMemory
<1>5. ASSUME NEW reason \in SkipReason, RequeueSkipped(reason) PROVE Remembers
  BY <1>0, <1>5 DEF RequeueSkipped, Requeued, Row, Remembers, SameMemory
<1>6. CASE Outside
  BY <1>1, <1>6 DEF Outside, Arrive, OriginalMoved, ReplacementMoved, dbVars
<1>7. CASE Surge \/ Resume \/ Restart
  BY <1>1, <1>7 DEF Surge, Resume, Restart, dbVars
<1> QED
  BY <1>2, <1>3, <1>4, <1>5, <1>6, <1>7 DEF Clock, Operator, Trigger

\* Whoever finalizes a deletion, the sweeper included.
LEMMA FinalizeRemembers ==
    ASSUME SafeInv, NEW t \in Task, Finalize(t)
    PROVE  Remembers
<1>0. row \in [Asset -> Row]
  BY DEF SafeInv, TypeInv, TypeOK
<1>1. CASE Verify(t) \/ VerifyMarker(t) \/ Delete(t) \/ Refuse(t)
  BY <1>1 DEF Verify, VerifyMarker, Delete, Refuse, dbVars, Remembers, SameMemory
<1>2. CASE Finish(t) \/ DeferQueue(t) \/ DeferPend(t)
  <2>1. Job(t) \in Asset /\ row[Job(t)] \in Row /\ HasRow(row[Job(t)])
    BY <1>2, AtWork DEF Finish, DeferQueue, DeferPend, At, Working, PC, FinalPC
  <2>2. PICK q : SetRow(Job(t), q) /\ Keeps(row[Job(t)], q)
    BY <1>2, <2>1, StatementsKeep DEF Finish, DeferQueue, DeferPend
  <2> QED
    BY <1>0, <2>1, <2>2, KeepingRemembers
<1>3. CASE Free(t)
  BY <1>0, <1>3 DEF Free, MarkedFreed, SetRow, Row, Remembers, SameMemory
<1> QED
  BY <1>1, <1>2, <1>3 DEF Finalize

\* The sweeper as a whole, which moves no worker.
LEMMA SweepRemembers ==
    ASSUME SafeInv, Sweep
    PROVE  Remembers /\ \A w \in Worker : task'[w] = task[w]
<1>0. row \in [Asset -> Row] /\ task \in [Task -> Local] /\ Sweeper \in Task
      /\ \A w \in Worker : w \in Task /\ w # Sweeper
  BY PipelineAssumption DEF SafeInv, TypeInv, TypeOK, Task, PipelineAssumption
<1>1. CASE SweepStart
  BY <1>0, <1>1 DEF SweepStart, Goto, dbVars, Remembers, SameMemory
<1>2. CASE SweepNext
  <2>1. \A w \in Worker : task'[w] = task[w]
    BY <1>0, <1>2 DEF SweepNext
  <2>2. CASE UNCHANGED row
    BY <2>1, <2>2 DEF Remembers, SameMemory
  <2>3. ASSUME NEW j \in todo, SetRow(j.job, MarkedFailed(row[j.job])) PROVE Remembers
    BY <1>0, <2>3 DEF SetRow, MarkedFailed, Row, Remembers, SameMemory
  <2> QED
    BY <1>2, <2>1, <2>2, <2>3 DEF SweepNext
<1>3. CASE Finalize(Sweeper)
  <2>1. \A w \in Worker : task'[w] = task[w]
    BY <1>0, <1>3 DEF Finalize, Verify, VerifyMarker, Delete, Refuse, Finish, Free,
                      DeferQueue, DeferPend, Goto, Return
  <2> QED
    BY <1>0, <1>3, <2>1, FinalizeRemembers
<1> QED
  BY <1>1, <1>2, <1>3 DEF Sweep

-----------------------------------------------------------------------------
\* All together.

\* One worker is up to date initially and after every step.
LEMMA OneWorkerStep ==
    ASSUME OneWorker, SafeInv, OneWorkerInv, [Next]_vars
    PROVE  OneWorkerInv'
<1> SUFFICES ASSUME NEW w \in Worker PROVE UpToDate(w)'
  BY DEF OneWorkerInv
<1>0. w \in Task /\ UpToDate(w) /\ task \in [Task -> Local]
  BY DEF Task, OneWorkerInv, SafeInv, TypeInv, TypeOK
<1>1. CASE Outside \/ Clock \/ Operator \/ Trigger
  <2>1. CASE Restart
    BY <1>0, <2>1, Elsewhere DEF Restart, Idle, LookedUp
  <2>2. CASE ~Restart
    <3>1. task' = task
      BY <1>1, <2>2 DEF Outside, Clock, Operator, Trigger, Arrive, OriginalMoved,
                        ReplacementMoved, RunAfterPasses, DeleteAfterPasses, Resume,
                        Reprocess, RequeueFailed, RequeueSkipped, Surge, Enqueue, taskVars
    <3> QED
      BY <1>0, <1>1, <3>1, EnvironmentRemembers, NotMine
  <2> QED
    BY <2>1, <2>2
<1>2. ASSUME NEW v \in Worker, Poll(v) \/ Work(v) PROVE UpToDate(w)'
  <2>1. v = w
    BY DEF OneWorker
  <2>2. CASE Poll(w)
    <3>1. task'[w].pc = "claim"
      BY <1>0, <2>2 DEF Poll, Local
    <3> QED
      BY <3>1, Elsewhere DEF LookedUp
  <2>3. CASE Work(w)
    BY <1>0, <2>3, GuardsUpToDate, ReplaceUpToDate, LaterUpToDate DEF Work
  <2> QED
    BY <1>2, <2>1, <2>2, <2>3
<1>3. CASE Sweep
  BY <1>0, <1>3, SweepRemembers, NotMine
<1>4. CASE UNCHANGED vars
  BY <1>0, <1>4, NotMine DEF vars, Remembers, SameMemory
<1> QED
  BY <1>1, <1>2, <1>3, <1>4 DEF Next

\* Only an upload creates a replacement, and it is the one of the uploader's job.
LEMMA CreatedByUpload ==
    ASSUME SafeInv, [Next]_vars, NEW n \in NewAsset, Created(n)
    PROVE  \E w \in Worker : At(w, "upload") /\ srv'[n].from = Job(w)
<1>0. srv \in [NewAsset -> Replacement]
  BY DEF SafeInv, TypeInv, TypeOK
<1>1. srv'[n].st # srv[n].st
  BY DEF Created
<1>2. CASE UNCHANGED srv
  BY <1>1, <1>2
<1>3. ASSUME NEW m \in NewAsset, ReplacementMoved(m) PROVE FALSE
  BY <1>0, <1>3 DEF ReplacementMoved, Created, Stored
<1>4. CASE Outside \/ Clock \/ Operator \/ Trigger
  BY <1>2, <1>3, <1>4
     DEF Outside, Clock, Operator, Trigger, Arrive, OriginalMoved, RunAfterPasses,
         DeleteAfterPasses, Resume, Restart, Reprocess, RequeueFailed, RequeueSkipped,
         Surge, Enqueue, serverVars
<1>5. ASSUME NEW w \in Worker, Upload(w)
      PROVE  At(w, "upload") /\ srv'[n].from = Job(w)
  <2>1. PICK m \in NewAsset, s \in Bytes :
            srv' = [srv EXCEPT ![m] = [NoReplacement EXCEPT
                        !.st = "live", !.sum = s, !.from = Job(w)]]
    BY <1>5 DEF Upload
  <2>2. n = m
    BY <1>0, <1>1, <2>1
  <2> QED
    BY <1>0, <1>5, <2>1, <2>2 DEF Upload, NoReplacement
<1>6. ASSUME NEW w \in Worker, CopyLinks(w) \/ ApplyFields(w) \/ MarkNew(w) PROVE FALSE
  <2>1. srv'[n].st = srv[n].st
    BY <1>0, <1>6 DEF CopyLinks, ApplyFields, MarkNew, Replacement
  <2> QED
    BY <1>1, <2>1
<1>7. ASSUME NEW t \in Task, Finalize(t) PROVE FALSE
  <2>1. UNCHANGED srv
    BY <1>7 DEF Finalize, Verify, VerifyMarker, Delete, Refuse, Finish, Free,
                DeferQueue, DeferPend, serverVars
  <2> QED
    BY <1>1, <2>1
<1>8. ASSUME NEW w \in Worker, Poll(w) \/ Work(w)
      PROVE  At(w, "upload") /\ srv'[n].from = Job(w)
  <2>1. w \in Task
    BY DEF Task
  <2>2. CASE Poll(w) \/ Claim(w) \/ Guards(w) \/ EndRun(w)
    <3>1. UNCHANGED srv
      BY <2>2 DEF Poll, Claim, Guards, Load, Reject, ReadMarker, GetDetail,
                  WriteLedger, CheckReUpload, EndRun, CallFails, Skip,
                  HandleFailure, serverVars
    <3> QED
      BY <1>1, <3>1
  <2>3. CASE Replace(w)
    <3>1. Upload(w) \/ UNCHANGED srv
      BY <2>3 DEF Replace, Download, Encode, MarkNoGain, UploadDuplicate,
                  ReadDuplicate, RecordDuplicate, Record, serverVars
    <3> QED
      BY <1>1, <1>5, <3>1
  <2>4. CASE CarryOver(w)
    <3>1. CopyLinks(w) \/ ApplyFields(w) \/ MarkNew(w) \/ UNCHANGED srv
      BY <2>4 DEF CarryOver, Link, MarkSource, MarkFails, Pend, Schedule, serverVars
    <3> QED
      BY <1>1, <1>6, <3>1
  <2> QED
    BY <1>7, <1>8, <2>1, <2>2, <2>3, <2>4 DEF Work
<1>9. CASE Sweep
  BY <1>2, <1>7, <1>9 DEF Sweep, SweepStart, SweepNext, serverVars, Task
<1>10. CASE UNCHANGED vars
  BY <1>2, <1>10 DEF vars
<1> QED
  BY <1>4, <1>8, <1>9, <1>10 DEF Next

\* SafeInv and OneWorkerInv hold together.
LEMMA OneWorkerInductive ==
    ASSUME OneWorker
    PROVE  Spec => [](SafeInv /\ OneWorkerInv)
<1>1. Init => SafeInv /\ OneWorkerInv
  <2> SUFFICES ASSUME Init PROVE SafeInv /\ OneWorkerInv
    OBVIOUS
  <2>1. \A w \in Worker : task[w].pc = "idle"
    BY DEF Init, Task, Idle
  <2>2. OneWorkerInv
    BY <2>1 DEF OneWorkerInv, UpToDate, LookedUp, Cleared, At
  <2> QED
    BY <2>2, SafeInit
<1>2. SafeInv /\ OneWorkerInv /\ [Next]_vars => (SafeInv /\ OneWorkerInv)'
  BY SafeStep, OneWorkerStep
<1> QED
  BY <1>1, <1>2, PTL DEF Spec

(***************************************************************************)
(* One worker never uploads for a job whose replacement is on record: the  *)
(* id that run_job reads when it claims the job is still the row's when    *)
(* step 5 asks, whatever was reprocessed, swept or restarted in between.   *)
(***************************************************************************)
THEOREM OneWorkerUploadsOnce ==
    ASSUME OneWorker
    PROVE  Spec => NoUploadOnceRecorded
<1>1. ASSUME SafeInv, OneWorkerInv, [Next]_vars, NEW n \in NewAsset, Created(n)
      PROVE  row[srv'[n].from].new = None
  <2>1. PICK w \in Worker : At(w, "upload") /\ srv'[n].from = Job(w)
    BY <1>1, CreatedByUpload
  <2>2. UpToDate(w)
    BY <1>1 DEF OneWorkerInv
  <2> QED
    BY <2>1, <2>2 DEF UpToDate, LookedUp, At
<1>2. SafeInv /\ OneWorkerInv /\ [Next]_vars
      => [\A n \in NewAsset : Created(n) => row[srv'[n].from].new = None]_vars
  BY <1>1
<1> QED
  BY <1>2, OneWorkerInductive, PTL DEF Spec, NoUploadOnceRecorded

(***************************************************************************)
(* One worker never compresses a second time what this service has         *)
(* replaced and removed: what _check_re_upload found in the ledger before  *)
(* the download still holds at the upload.                                 *)
(***************************************************************************)
THEOREM OneWorkerNoSecondGeneration ==
    ASSUME OneWorker
    PROVE  Spec => NoSecondGeneration
<1>1. ASSUME SafeInv, OneWorkerInv, [Next]_vars, NEW n \in NewAsset, Created(n),
             NEW e \in Asset \ {srv'[n].from}, basis[e] # None,
             Content[e] = Content[srv'[n].from]
      PROVE  FALSE
  <2>1. PICK w \in Worker : At(w, "upload") /\ srv'[n].from = Job(w)
    BY <1>1, CreatedByUpload
  <2>2. ~ReplacedOriginal(row, Job(w))
    BY <1>1, <2>1 DEF OneWorkerInv, UpToDate, Cleared, At
  <2>3. row[e].ledger /\ row[e].new # None
    BY <1>1 DEF SafeInv, SharedInv, BasisInv
  <2> QED
    BY <1>1, <2>1, <2>2, <2>3 DEF ReplacedOriginal
<1>2. SafeInv /\ OneWorkerInv /\ [Next]_vars
      => [\A n \in NewAsset : Created(n) =>
             ~\E e \in Asset \ {srv'[n].from} :
                 /\ basis[e] # None
                 /\ Content[e] = Content[srv'[n].from]]_vars
  BY <1>1
<1> QED
  BY <1>2, OneWorkerInductive, PTL DEF Spec, NoSecondGeneration
=============================================================================
