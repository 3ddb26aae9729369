--------------------------- MODULE JobPipelineInv ---------------------------
(***************************************************************************)
(* Why JobPipeline is safe: the inductive invariant its theorems rest on,  *)
(* and the mapping under which it implements SafeReplacement.  TLC checks  *)
(* both on small instances, the *_proofs modules prove both.               *)
(***************************************************************************)
EXTENDS JobPipeline

-----------------------------------------------------------------------------
\* Where a task is in its job.

\* WriteLedger has not run yet, or need not have.
Undecided == {"claim", "load", "reject", "marker", "detail", "ledger",
              "skip", "fail"}

\* The server has named a replacement that the row does not know yet.
Unrecorded == {"read_duplicate", "record_duplicate", "record"}

\* The replacement is on record.
Replaced == {"copy", "fields", "link", "mark_new", "mark_source",
             "pend", "schedule"} \cup FinalPC

\* A task is at work exactly when it has a job.
HasJob == \A t \in Task : task[t].pc \in {"idle", "next"} <=> Job(t) = None

\* What the next steps of task t take for granted about the jobs table.
KnowsRow(t) ==
    /\ Job(t) = None => task[t].new = None /\ task[t].sum = None
    /\ Job(t) # None => HasRow(row[Job(t)])
    /\ Job(t) # None /\ task[t].pc \notin Undecided => row[Job(t)].ledger
    /\ task[t].pc \in Unrecorded \cup Replaced => task[t].new # None
    /\ task[t].new # None /\ task[t].pc \notin Unrecorded => row[Job(t)].new # None

\* ... about the bytes: whatever it calls the checksum encodes its job.
KnowsBytes(t) ==
    /\ task[t].sum # None => Encodes(task[t].sum, Job(t))
    /\ task[t].pc \in {"upload", "read_duplicate"} => task[t].sum # None

\* ... about the replacement on the server.
KnowsReplacement(t) ==
    LET n == task[t].new IN
    /\ At(t, "read_duplicate") => srv[n].sum = task[t].sum
    /\ task[t].pc \in {"fields", "link", "mark_new"} => srv[n].links
    /\ task[t].pc \in {"link", "mark_new"} => srv[n].fields
    /\ task[t].pc \in {"verify_marker", "delete"} =>
          /\ task[t].sum # None
          /\ srv[n].sum = task[t].sum
          /\ Stands(n)
    /\ At(t, "delete") => srv[n].mark

\* ... about the original: a checksum is only freed when nobody holds it.
KnowsOriginal(t) ==
    /\ At(t, "free") => orig[Job(t)] = "gone"
    /\ At(t, "finish") /\ config.permanent => orig[Job(t)] = "gone"

TaskInv ==
    \A t \in Task :
        KnowsRow(t) /\ KnowsBytes(t) /\ KnowsReplacement(t) /\ KnowsOriginal(t)

\* The jobs table on its own.
RowInv ==
    \A a \in Asset :
        /\ HasRow(row[a]) \/ row[a] = NoRow
        /\ row[a].newSum # None => Encodes(row[a].newSum, a)
        /\ row[a].new # None => row[a].ledger
        /\ row[a].state = "pending_delete" => row[a].new # None

\* The sweeper's snapshot, however stale it has become.
TodoInv ==
    \A j \in todo :
        /\ j.new # None
        /\ j.sum # None => Encodes(j.sum, j.job)
        /\ HasRow(row[j.job]) /\ row[j.job].ledger /\ row[j.job].new # None

\* The order of steps 7, 8 and 9, as far as it shows on the server.
ServerInv ==
    \A n \in NewAsset :
        /\ srv[n].st = "absent" => srv[n] = NoReplacement
        /\ srv[n].mark => srv[n].links /\ srv[n].fields

\* What stands in for a deleted original, and what the table knows about it.
BasisInv ==
    \A a \in Asset : basis[a] # None =>
        /\ srv[basis[a]].sum # None
        /\ Encodes(srv[basis[a]].sum, a)
        /\ srv[basis[a]].mark
        /\ Stands(basis[a])
        /\ row[a].ledger /\ row[a].new # None

(***************************************************************************)
(* The inductive invariant: holds initially, is preserved by every step    *)
(* whatever the bounds, and implies the safety invariants of JobPipeline.  *)
(***************************************************************************)
IInv ==
    /\ TypeOK
    /\ HasJob
    /\ TaskInv
    /\ RowInv
    /\ TodoInv
    /\ ServerInv
    /\ BasisInv
    /\ FreedMeansGone

-----------------------------------------------------------------------------
\* The refinement mapping.

StandIn(a) ==
    {n \in NewAsset :
        /\ srv[n].sum # None /\ Encodes(srv[n].sum, a)
        /\ srv[n].links /\ srv[n].fields /\ srv[n].mark
        /\ Stands(n)}

Promise == INSTANCE SafeReplacement WITH
    standIn    <- [a \in Asset |-> StandIn(a)],
    remembered <- {a \in Asset : row[a].ledger /\ row[a].new # None},
    by         <- basis

(***************************************************************************)
(* Every behaviour of the pipeline keeps the promise: an original goes     *)
(* only for a replacement that is complete, verified and remembered at     *)
(* that very step; and what an original has gone for loses nothing of that *)
(* afterwards, unless it is removed when nothing can notice any more.      *)
(***************************************************************************)
KeepsPromise == Promise!Spec
=============================================================================
