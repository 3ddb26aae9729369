------------------------------ MODULE Backfill ------------------------------
(***************************************************************************)
(* backfill scan and backfill run (backfill.py, and the commands of        *)
(* __main__.py that call it) for one asset type: the walk through the      *)
(* server's search pages into the inventory, and the run that turns        *)
(* inventory rows into jobs after asking the server once more.             *)
(*                                                                         *)
(* A session is one command in a process of its own.  It shares the        *)
(* database with the other sessions and with the service, and the library  *)
(* belongs to the server and changes under its feet.  An action is what a  *)
(* session does up to its next request or commit.                          *)
(***************************************************************************)
EXTENDS Filter, FiniteSets

CONSTANTS
    Session,    \* operator processes that may be open at once
    Scanners,   \* bound: those of them that may be given the scan command
    Asset,
    Foreign,    \* assets of another type, which search may return anyway
    Refused,    \* assets the worker's guards refuse from the payload
    Library,    \* the assets in the library at first, in search order
    InTrash,    \* those of them that are in the trash at first
    Uploads,    \* assets that may still be uploaded
    PageSizes,  \* values of --page-size
    DefaultPageSize,
    MaxPages,   \* MAX_PAGES
    Rank,       \* Rank[a]: the place of a in --order, size or scanned
    Limits,     \* values of --limit
    PickBatch,  \* _PICK_BATCH
    Budget,     \* bound: Budget[o] is how often the occasion o may arise
    None

\* What the bounds count: the commands other than run, which may be repeated
\* at will, and everything that comes between, be it a change of the library,
\* a webhook or a failure.
Occasion == {"command", "disturbance"}

ASSUME BackfillAssumption ==
    /\ IsFiniteSet(Asset)
    /\ Scanners \subseteq Session
    /\ Foreign \subseteq Asset /\ Refused \subseteq Asset
    /\ Library \in Seq(Asset)
    /\ InTrash \subseteq Asset
    /\ Uploads \subseteq Asset
    /\ \A i \in DOMAIN Library : Library[i] \notin Uploads
    /\ PageSizes \subseteq Nat \ {0}
    /\ DefaultPageSize \in PageSizes
    /\ Rank \in [Asset -> Nat]
    /\ \A a, b \in Asset : Rank[a] = Rank[b] => a = b
    /\ MaxPages \in Nat \ {0} /\ PickBatch \in Nat \ {0}
    /\ Limits \subseteq Nat \ {0}
    /\ Budget \in [Occasion -> Nat]
    /\ None \notin Asset \cup Nat

VARIABLES
    library,    \* the assets of the library, in search order
    status,     \* of each: "live", "named", "trashed"; "gone" if not there
    jobs,       \* assets with a row in the jobs table
    inventory,  \* backfill_candidates
    cursor,     \* service_state backfill_scan:<type>
    op,         \* the sessions
    left        \* what is left of Budget

bvars == <<library, status, jobs, inventory, cursor, op, left>>

Verdict == {"none", "guarded", "missing", "trashed", "named_people", "already_known"}

NoRow == [verdict |-> "absent", queued |-> FALSE]

Row == [verdict : Verdict, queued : BOOLEAN] \cup {NoRow}

\* A cursor that is not set reads like the one a finished walk leaves.  gap
\* and size are history: whether the walk may have lost its place in the
\* library, see Shift, and the page size that page counts in.
Start == [page |-> 1, first |-> None, gap |-> FALSE, size |-> DefaultPageSize]

Quiet == [pc |-> "idle", page |-> 1, first |-> None, gap |-> FALSE, size |-> 1,
          walked |-> 0, rows |-> <<>>, next |-> None, run |-> FALSE,
          batch |-> <<>>, verdict |-> "none", queued |-> 0, wrote |-> 0, limit |-> 1]

Scanning == {"clear", "clear_cursor", "resume", "fetch", "record", "save", "complete"}
Running  == {"pick", "verify", "enqueue", "refuse", "mark"}

PageNo == 1..(Len(Library) + Budget["disturbance"] + 2)

Local == [pc : {"idle", "stats"} \cup Scanning \cup Running,
          page : PageNo, first : Asset \cup {None}, gap : BOOLEAN,
          size : PageSizes \cup {1}, walked : 0..MaxPages, rows : Seq(Asset),
          next : PageNo \cup {None}, run : BOOLEAN, batch : Seq(Asset),
          verdict : Verdict, queued : Nat, wrote : Nat, limit : Limits \cup {1}]

TypeOK ==
    /\ library \in Seq(Asset)
    /\ status \in [Asset -> {"live", "named", "trashed", "gone"}]
    /\ jobs \in SUBSET Asset
    /\ inventory \in [Asset -> Row]
    /\ \A a \in Foreign : inventory[a] = NoRow
    /\ cursor \in [page : PageNo, first : Asset \cup {None}, gap : BOOLEAN,
                   size : PageSizes]
    /\ op \in [Session -> Local]
    /\ left \in [Occasion -> Nat]

Init ==
    /\ library = Library
    /\ status = [a \in Asset |-> IF \E i \in DOMAIN Library : Library[i] = a
                                 THEN IF a \in InTrash THEN "trashed" ELSE "live"
                                 ELSE "gone"]
    /\ jobs = {}
    /\ inventory = [a \in Asset |-> NoRow]
    /\ cursor = Start
    /\ op = [s \in Session |-> Quiet]
    /\ left = Budget

Spend(o) == left[o] > 0 /\ left' = [left EXCEPT ![o] = @ - 1]

At(s, pc) == op[s].pc = pc

-----------------------------------------------------------------------------
(***************************************************************************)
(* The server.  search_assets answers a page of what is not in the trash,  *)
(* newest first, with the number of the next page if there is one.         *)
(***************************************************************************)
Found == Only(library, {a \in Asset : status[a] # "trashed"})

Page(n, k) == SubSeq(Found, (n - 1) * k + 1, IF n * k < Len(Found) THEN n * k ELSE Len(Found))

NextPage(n, k) == IF n * k < Len(Found) THEN n + 1 ELSE None

\* Everything that moves the assets of the library to other pages.
Shift ==
    /\ cursor' = [cursor EXCEPT !.gap = @ \/ cursor.page > 1]
    /\ op' = [s \in Session |-> IF op[s].pc \in Scanning
                                THEN [op[s] EXCEPT !.gap = TRUE] ELSE op[s]]

Upload(a) ==
    /\ a \in Uploads /\ status[a] = "gone" /\ inventory[a] = NoRow
    /\ Spend("disturbance")
    /\ library' = <<a>> \o library
    /\ status' = [status EXCEPT ![a] = "live"]
    /\ Shift
    /\ UNCHANGED <<jobs, inventory>>

Name(a) ==
    /\ status[a] = "live"
    /\ Spend("disturbance")
    /\ status' = [status EXCEPT ![a] = "named"]
    /\ UNCHANGED <<library, jobs, inventory, cursor, op>>

Trash(a) ==
    /\ status[a] \in {"live", "named"}
    /\ Spend("disturbance")
    /\ status' = [status EXCEPT ![a] = "trashed"]
    /\ Shift
    /\ UNCHANGED <<library, jobs, inventory>>

\* The trash is emptied, or an original is deleted with force.
Purge(a) ==
    /\ status[a] # "gone"
    /\ Spend("disturbance")
    /\ status' = [status EXCEPT ![a] = "gone"]
    /\ library' = Only(library, Asset \ {a})
    /\ Shift
    /\ UNCHANGED <<jobs, inventory>>

\* The service queues an asset for a webhook.
Webhook(a) ==
    /\ a \notin jobs /\ status[a] # "gone"
    /\ Spend("disturbance")
    /\ jobs' = jobs \cup {a}
    /\ UNCHANGED <<library, status, inventory, cursor, op>>

Server == \E a \in Asset : Upload(a) \/ Name(a) \/ Trash(a) \/ Purge(a) \/ Webhook(a)

-----------------------------------------------------------------------------
(***************************************************************************)
(* scan_type.  A session that failed to get an answer, or was killed, ends *)
(* where it is; what it committed stays.                                   *)
(***************************************************************************)
StartScan(s, k, rescan) ==
    /\ s \in Scanners /\ At(s, "idle")
    /\ Spend("command")
    /\ op' = [op EXCEPT ![s] = [Quiet EXCEPT !.pc = IF rescan THEN "clear" ELSE "resume",
                                             !.size = k]]
    /\ UNCHANGED <<library, status, jobs, inventory, cursor>>

\* --rescan: the inventory of the type goes first, the cursor after it.
ClearInventory(s) ==
    /\ At(s, "clear")
    /\ inventory' = [a \in Asset |-> NoRow]
    /\ cursor' = [cursor EXCEPT !.gap = cursor.page > 1]
    /\ op' = [q \in Session |->
                 IF q = s THEN [op[s] EXCEPT !.pc = "clear_cursor"]
                 ELSE IF op[q].pc \in Scanning THEN [op[q] EXCEPT !.gap = TRUE] ELSE op[q]]
    /\ UNCHANGED <<library, status, jobs, left>>

ClearCursor(s) ==
    /\ At(s, "clear_cursor")
    /\ cursor' = Start
    /\ op' = [op EXCEPT ![s].pc = "resume"]
    /\ UNCHANGED <<library, status, jobs, inventory, left>>

\* The walk goes on with pages of another size than it was interrupted with.
Repaged(s) == cursor.page > 1 /\ cursor.size # op[s].size

ReadCursor(s) ==
    /\ At(s, "resume")
    /\ op' = [op EXCEPT ![s] = [@ EXCEPT !.pc = "fetch", !.page = cursor.page,
                                         !.first = cursor.first,
                                         !.gap = cursor.gap \/ Repaged(s)]]
    /\ UNCHANGED <<library, status, jobs, inventory, cursor, left>>

\* The scan is over: of scan itself, or the one run makes first.
AfterScan(s) ==
    IF op[s].run THEN [Quiet EXCEPT !.pc = "pick", !.run = TRUE, !.limit = op[s].limit]
    ELSE Quiet

Fetch(s) ==
    /\ At(s, "fetch")
    /\ op[s].walked < MaxPages
    /\ LET items == Page(op[s].page, op[s].size)
       IN op' = [op EXCEPT ![s] =
             IF items = <<>> THEN [@ EXCEPT !.pc = "complete"]
             ELSE IF items[1] = op[s].first THEN AfterScan(s)
             ELSE [@ EXCEPT !.pc = "record", !.rows = items, !.first = items[1],
                            !.next = NextPage(op[s].page, op[s].size)]]
    /\ UNCHANGED <<library, status, jobs, inventory, cursor, left>>

StopAtMaxPages(s) ==
    /\ At(s, "fetch")
    /\ op[s].walked = MaxPages
    /\ op' = [op EXCEPT ![s] = AfterScan(s)]
    /\ UNCHANGED <<library, status, jobs, inventory, cursor, left>>

\* Mutant: the type filter of the request is trusted.
ScannedForeign(s, a) ==
    IF ~\E i \in DOMAIN op[s].rows : op[s].rows[i] = a THEN inventory[a]
    ELSE [verdict |-> IF a \in Refused THEN "guarded" ELSE "none", queued |-> inventory[a].queued]

\* record_candidates: an upsert that leaves queued_at alone.
Scanned(s, a) ==
    IF a \in Foreign \/ ~\E i \in DOMAIN op[s].rows : op[s].rows[i] = a THEN inventory[a]
    ELSE [verdict |-> IF a \in Refused THEN "guarded" ELSE "none", queued |-> inventory[a].queued]

\* Mutant: the page without a successor ends the walk before it is recorded.
LastPageDropped(s) ==
    /\ At(s, "record")
    /\ inventory' = IF op[s].next = None THEN inventory ELSE [a \in Asset |-> Scanned(s, a)]
    /\ op' = [op EXCEPT ![s] =
                 [@ EXCEPT !.walked = op[s].walked + 1, !.rows = <<>>,
                           !.pc = IF op[s].next = None THEN "complete" ELSE "save"]]
    /\ UNCHANGED <<library, status, jobs, cursor, left>>

RecordPage(s) ==
    /\ At(s, "record")
    /\ inventory' = [a \in Asset |-> Scanned(s, a)]
    /\ op' = [op EXCEPT ![s] =
                 [@ EXCEPT !.walked = op[s].walked + 1, !.rows = <<>>,
                           !.pc = IF op[s].next = None THEN "complete" ELSE "save"]]
    /\ UNCHANGED <<library, status, jobs, cursor, left>>

SaveCursor(s) ==
    /\ At(s, "save")
    /\ cursor' = [page |-> op[s].next, first |-> op[s].first, gap |-> op[s].gap,
                  size |-> op[s].size]
    /\ op' = [op EXCEPT ![s] = [@ EXCEPT !.pc = "fetch", !.page = op[s].next, !.next = None]]
    /\ UNCHANGED <<library, status, jobs, inventory, left>>

\* A finished walk starts over next time.
CompleteWalk(s) ==
    /\ At(s, "complete")
    /\ cursor' = Start
    /\ op' = [op EXCEPT ![s] = AfterScan(s)]
    /\ UNCHANGED <<library, status, jobs, inventory, left>>

ScanStep(s) ==
    \/ ClearInventory(s)
    \/ ClearCursor(s)
    \/ ReadCursor(s)
    \/ Fetch(s)
    \/ StopAtMaxPages(s)
    \/ RecordPage(s)
    \/ SaveCursor(s)
    \/ CompleteWalk(s)

-----------------------------------------------------------------------------
(***************************************************************************)
(* queue_candidates, as run --apply calls it.  A dry run and a limit of    *)
(* zero change nothing and are left out.                                   *)
(***************************************************************************)
StartRun(s, n) ==
    /\ At(s, "idle")
    /\ op' = [op EXCEPT ![s] = [Quiet EXCEPT !.pc = "stats", !.run = TRUE, !.limit = n]]
    /\ UNCHANGED <<library, status, jobs, inventory, cursor, left>>

\* Without a row of the type the run scans first, with the default page size.
ReadStats(s) ==
    /\ At(s, "stats")
    /\ op' = [op EXCEPT ![s] =
                 IF \E a \in Asset : inventory[a] # NoRow THEN [@ EXCEPT !.pc = "pick"]
                 ELSE [@ EXCEPT !.pc = "resume", !.size = DefaultPageSize]]
    /\ UNCHANGED <<library, status, jobs, inventory, cursor, left>>

Waiting(a) == inventory[a].verdict = "none" /\ ~inventory[a].queued

\* ORDER BY and LIMIT: the n biggest candidates, or what there is.
Taken(n) ==
    {a \in Asset : Waiting(a) /\ Cardinality({b \in Asset : Waiting(b) /\ Rank[b] < Rank[a]}) < n}

Batches(n) ==
    {b \in [1..Cardinality(Taken(n)) -> Taken(n)] :
        \A i, j \in DOMAIN b : i < j => Rank[b[i]] < Rank[b[j]]}

PickLimit(s) ==
    IF op[s].limit - op[s].queued < PickBatch THEN op[s].limit - op[s].queued ELSE PickBatch

Pick(s) ==
    /\ At(s, "pick")
    /\ \E b \in Batches(PickLimit(s)) :
          op' = [op EXCEPT ![s] = IF b = <<>> THEN Quiet
                                  ELSE [@ EXCEPT !.pc = "verify", !.batch = b]]
    /\ UNCHANGED <<library, status, jobs, inventory, cursor, left>>

LiveVerdict(a) ==
    CASE status[a] = "gone"    -> "missing"
      [] status[a] = "trashed" -> "trashed"
      [] status[a] = "named"   -> "named_people"
      [] status[a] = "live"    -> "none"

\* Mutant: the candidate is marked before it is enqueued.
VerifyMarksFirst(s) ==
    /\ At(s, "verify")
    /\ LET a == Head(op[s].batch)
           v == LiveVerdict(a)
       IN /\ op' = [op EXCEPT ![s] =
                    [@ EXCEPT !.verdict = v, !.pc = IF v = "none" THEN "enqueue" ELSE "refuse"]]
          /\ inventory' = [inventory EXCEPT ![a].queued = @ \/ v = "none"]
    /\ UNCHANGED <<library, status, jobs, cursor, left>>

Verify(s) ==
    /\ At(s, "verify")
    /\ LET v == LiveVerdict(Head(op[s].batch))
       IN op' = [op EXCEPT ![s] =
                    [@ EXCEPT !.verdict = v, !.pc = IF v = "none" THEN "enqueue" ELSE "refuse"]]
    /\ UNCHANGED <<library, status, jobs, inventory, cursor, left>>

Enqueue(s) ==
    LET a == Head(op[s].batch)
    IN /\ At(s, "enqueue")
       /\ jobs' = jobs \cup {a}
       /\ op' = [op EXCEPT ![s] =
                    IF a \in jobs
                    THEN [@ EXCEPT !.verdict = "already_known", !.pc = "refuse"]
                    ELSE [@ EXCEPT !.wrote = op[s].wrote + 1, !.pc = "mark"]]
       /\ UNCHANGED <<library, status, inventory, cursor, left>>

\* The next of the batch; a run that has its limit ends, or picks again.
NextCandidate(l) ==
    IF l.queued >= l.limit THEN Quiet
    ELSE IF Len(l.batch) > 1 THEN [l EXCEPT !.pc = "verify", !.batch = Tail(@)]
    ELSE [l EXCEPT !.pc = "pick", !.batch = <<>>]

\* Mutant: a refused candidate counts towards the limit.
RefuseCounts(s) ==
    LET a == Head(op[s].batch)
    IN /\ At(s, "refuse")
       /\ inventory' = IF inventory[a] = NoRow THEN inventory
                       ELSE [inventory EXCEPT ![a].verdict = op[s].verdict]
       /\ op' = [op EXCEPT ![s] = NextCandidate([@ EXCEPT !.verdict = "none", !.queued = op[s].queued + 1])]
       /\ UNCHANGED <<library, status, jobs, cursor, left>>

\* Mutant: what the live check refuses stays a candidate.
RefuseForgets(s) ==
    /\ At(s, "refuse")
    /\ op' = [op EXCEPT ![s] = NextCandidate([@ EXCEPT !.verdict = "none"])]
    /\ UNCHANGED <<library, status, jobs, inventory, cursor, left>>

\* Both updates do nothing to a row that a rescan has dropped meanwhile.
Refuse(s) ==
    LET a == Head(op[s].batch)
    IN /\ At(s, "refuse")
       /\ inventory' = IF inventory[a] = NoRow THEN inventory
                       ELSE [inventory EXCEPT ![a].verdict = op[s].verdict]
       /\ op' = [op EXCEPT ![s] = NextCandidate([@ EXCEPT !.verdict = "none"])]
       /\ UNCHANGED <<library, status, jobs, cursor, left>>

Mark(s) ==
    LET a == Head(op[s].batch)
    IN /\ At(s, "mark")
       /\ inventory' = IF inventory[a] = NoRow THEN inventory
                       ELSE [inventory EXCEPT ![a].queued = TRUE]
       /\ op' = [op EXCEPT ![s] = NextCandidate([@ EXCEPT !.queued = op[s].queued + 1])]
       /\ UNCHANGED <<library, status, jobs, cursor, left>>

RunStep(s) ==
    \/ ReadStats(s)
    \/ Pick(s)
    \/ Verify(s)
    \/ Enqueue(s)
    \/ Refuse(s)
    \/ Mark(s)

\* A request that fails for good, or the end of the process.
Fail(s) ==
    /\ ~At(s, "idle")
    /\ Spend("disturbance")
    /\ op' = [op EXCEPT ![s] = Quiet]
    /\ UNCHANGED <<library, status, jobs, inventory, cursor>>

Next ==
    \/ Server
    \/ \E s \in Session :
          \/ \E k \in PageSizes, rescan \in BOOLEAN : StartScan(s, k, rescan)
          \/ ScanStep(s)
          \/ \E n \in Limits : StartRun(s, n)
          \/ RunStep(s)
          \/ Fail(s)

(***************************************************************************)
(* The operator repeats run, as its docstring says to.  A command that was *)
(* started goes on until it ends or fails.                                 *)
(***************************************************************************)
Fairness ==
    \A s \in Session :
        /\ WF_bvars(ScanStep(s) \/ RunStep(s))
        /\ WF_bvars(\E n \in Limits : StartRun(s, n))

Safe == Init /\ [][Next]_bvars

Spec == Safe /\ Fairness

-----------------------------------------------------------------------------

(***************************************************************************)
(* A walk leaves nothing behind: what search lists before the page a scan  *)
(* is about to ask for is in the inventory, however often the walk was     *)
(* interrupted and resumed, unless the library moved, a rescan dropped the *)
(* rows or the page size was changed meanwhile (backfill.py 170-172,       *)
(* 225-229).                                                               *)
(***************************************************************************)
Passed(s) == {Found[i] : i \in {j \in DOMAIN Found :
                 j <= (op[s].page - 1) * op[s].size \/ At(s, "complete")}}

WalkCovers ==
    \A s \in Session :
        At(s, "fetch") \/ At(s, "complete") =>
            op[s].gap \/ \A a \in Passed(s) \ Foreign : inventory[a] # NoRow

(***************************************************************************)
(* A row that says queued or already_known has a job behind it: neither a  *)
(* crash between the two commits of a run, nor a webhook, a second run or  *)
(* a rescan in between, leaves an asset marked that nobody will process    *)
(* (backfill.py 317-330).                                                  *)
(***************************************************************************)
MarkHasJob ==
    \A a \in Asset :
        inventory[a].queued \/ inventory[a].verdict = "already_known" => a \in jobs

(***************************************************************************)
(* --limit counts the jobs a run writes: it ends after exactly that many,  *)
(* whatever it had to refuse or found already known on the way, unless a   *)
(* pick finds no candidate left or the run fails (backfill.py 279-282).    *)
(***************************************************************************)
LimitIsReached ==
    [][\A s \in Session :
          (At(s, "mark") \/ At(s, "refuse")) /\ op'[s] = Quiet /\ left' = left =>
              op[s].wrote = op[s].limit]_bvars

(***************************************************************************)
(* Repeated runs come to the end of the inventory, whatever was refused,   *)
(* interrupted or scanned again in between (backfill.py 281-282).          *)
(***************************************************************************)
InventoryDrains == []<>(\A a \in Asset : ~Waiting(a))

=============================================================================
