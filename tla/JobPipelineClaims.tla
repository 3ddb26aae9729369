-------------------------- MODULE JobPipelineClaims --------------------------
(***************************************************************************)
(* Sentences of the documentation about crashes and workers,               *)
(* stated of JobPipeline.  The code does not keep them: each is the        *)
(* property of one run, which TLC refutes.                                 *)
(***************************************************************************)
EXTENDS JobPipeline

(***************************************************************************)
(* pipeline.py:5: a crash anywhere is recoverable by replaying from state. *)
(* The marker that step 9 puts on the source must then not turn the replay *)
(* away: a linked job would end as skipped, its original never removed.    *)
(***************************************************************************)
ReplayPassesOwnMarker ==
    \A a \in Asset :
        row[a].state = "skipped" /\ row[a].skip = "already_compressed" =>
            row[a].new = None

(***************************************************************************)
(* store.py:4: every transition is persisted so a restart can resume.  In  *)
(* pending_delete without delete_after nobody takes the job up: neither    *)
(* claim_next nor due_deletions selects it, so a task must be working on it.*)
(***************************************************************************)
PendingIsScheduled ==
    \A a \in Asset :
        row[a].state = "pending_delete" /\ row[a].del = "null" =>
            \E t \in Task : Job(t) = a

(***************************************************************************)
(* store.py:290: claim_next atomically moves one due job into running.  A  *)
(* job one worker is running is then nobody else's.                        *)
(***************************************************************************)
ClaimIsExclusive ==
    \A v, w \in Worker :
        v # w /\ Job(v) # None /\ Job(v) = Job(w) =>
            At(v, "claim") \/ At(w, "claim")
=============================================================================
