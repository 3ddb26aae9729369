------------------------------ MODULE JobStore ------------------------------
(***************************************************************************)
(* The jobs table of store.py: one row per source asset, and the           *)
(* statements that read and write it.  An operator here is one SQL         *)
(* statement applied to one row; which task executes it, and what happens  *)
(* between two of them, is the business of JobPipeline.                    *)
(*                                                                         *)
(* Timestamps are abstracted to what the statements compare them with: the *)
(* clock.  due says whether run_after has passed, del whether delete_after *)
(* is NULL, ahead of the clock or behind it.  attempts saturates at        *)
(* MaxAttempts, because run_job only ever asks whether it has got there.   *)
(***************************************************************************)
EXTENDS Naturals

CONSTANTS
    Asset,        \* source assets: the primary key of the table
    NewAsset,     \* ids the server may give to an uploaded replacement
    Bytes,        \* file contents, as far as a checksum tells them apart
    Content,      \* Content[a]: source checksum and owner of a
    EncodedFrom,  \* EncodedFrom[b]: the content b is an encode of, if any
    MaxAttempts,  \* behavior.max_attempts
    Payloads,     \* what the guards make of a webhook payload, see below
    None          \* SQL NULL, Python None

ASSUME StoreAssumption ==
    /\ None \notin Asset \cup NewAsset \cup Bytes
    /\ MaxAttempts \in Nat \ {0}
    /\ Payloads \subseteq {"ok", "guarded", "bad"}
    /\ None \notin {Content[a] : a \in Asset}

-----------------------------------------------------------------------------

\* "absent" is no JobState of models.py: the table has no row for the asset.
JobState == {"absent", "queued", "running", "uploaded", "linked",
             "pending_delete", "done", "skipped", "failed"}

\* Mutant: a job that was running when the process died is not picked up.
ResumableNotRunning == {"queued", "uploaded", "linked"}

Resumable == {"queued", "running", "uploaded", "linked"}

(***************************************************************************)
(* "policy" stands for every reason that is decided from the asset alone   *)
(* and writes nothing to the server: check_guards, named people, motion    *)
(* photo, source quality.  "none" is a NULL skip_reason.                   *)
(***************************************************************************)
SkipReason == {"none", "policy", "already_compressed", "trashed", "dry_run",
               "re_uploaded", "no_gain", "duplicate"}

(***************************************************************************)
(* payload: "ok" passes check_guards, "guarded" does not, "bad" cannot be  *)
(* parsed.  ledger: source_checksum and owner_id have been written (their  *)
(* value is then Content[a]).  freed: original_freed_at is not NULL.       *)
(***************************************************************************)
Row == [state    : JobState,
        skip     : SkipReason,
        payload  : {"ok", "guarded", "bad"},
        attempts : 0..MaxAttempts,
        due      : BOOLEAN,
        new      : NewAsset \cup {None},
        newSum   : Bytes \cup {None},
        del      : {"null", "ahead", "due"},
        ledger   : BOOLEAN,
        freed    : BOOLEAN]

-----------------------------------------------------------------------------
\* Statements on one row.

NoRow ==
    [state |-> "absent", skip |-> "none", payload |-> "ok", attempts |-> 0,
     due |-> FALSE, new |-> None, newSum |-> None, del |-> "null",
     ledger |-> FALSE, freed |-> FALSE]

HasRow(r) == r.state # "absent"

\* Every column of a fresh row but state and payload is NULL or zero.
Enqueued(p) == [NoRow EXCEPT !.state = "queued", !.payload = p]

Claimable(r) == r.state \in Resumable /\ r.due

\* The UPDATE of claim_next: run_after stays, and the state is not looked at.
Claimed(r) ==
    [r EXCEPT !.state = "running",
              !.attempts = IF @ < MaxAttempts THEN @ + 1 ELSE @]

MarkedSkipped(r, reason) == [r EXCEPT !.state = "skipped", !.skip = reason]

MarkedFailed(r) == [r EXCEPT !.state = "failed"]

Rescheduled(r) == [r EXCEPT !.state = "queued", !.due = FALSE]

\* Mutant: a forced re-run replaces the row by a fresh one.
RequeuedFresh(r) == [Enqueued(r.payload) EXCEPT !.due = TRUE]

\* reset, and the UPDATE shared by requeue_skipped and requeue_failed.
Requeued(r) ==
    [r EXCEPT !.state = "queued", !.skip = "none", !.attempts = 0, !.due = TRUE]

DueDeletion(r) == r.state = "pending_delete" /\ r.del = "due"

MarkedFreed(r) == [r EXCEPT !.freed = TRUE]

-----------------------------------------------------------------------------
\* Reads over the whole table.

\* Mutant: only jobs that have reached done count as replaced.
ReplacedOriginalDone(jobs, a) ==
    \E e \in Asset \ {a} :
        jobs[e].ledger /\ jobs[e].state = "done" /\ Content[e] = Content[a]

\* An earlier asset with the same bytes and owner has a replacement recorded.
ReplacedOriginal(jobs, a) ==
    \E e \in Asset \ {a} :
        /\ jobs[e].ledger
        /\ jobs[e].new # None
        /\ Content[e] = Content[a]

Encodes(b, a) == EncodedFrom[b] = Content[a]
=============================================================================
