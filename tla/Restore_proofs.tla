--------------------------- MODULE Restore_proofs ---------------------------
(***************************************************************************)
(* Proofs about Restore, and with it about Backfill, for any number of     *)
(* sessions, assets and ids, any page size, batch size and chunk size, and *)
(* with nothing bounded: what holds of the safety part of RestoreSpec.     *)
(***************************************************************************)
EXTENDS Restore, Filter_proofs, FiniteSetTheorems

-----------------------------------------------------------------------------
\* A session keeps its fields.

Fields == {"pc", "page", "first", "gap", "size", "walked", "rows", "next", "run", "batch",
           "verdict", "queued", "wrote", "limit"}

AtWork == {"verify", "enqueue", "refuse", "mark"}

(***************************************************************************)
(* A session is sound when its counters agree with where it is, what it    *)
(* works on is an asset, and what it is about to mark has a job.           *)
(***************************************************************************)
Sound(l, known) ==
    /\ DOMAIN l = Fields
    /\ l.verdict \in Verdict
    /\ l.queued \in Nat /\ l.wrote \in Nat /\ l.limit \in Nat
    /\ l.queued < l.limit
    /\ l.wrote = IF l.pc = "mark" THEN l.queued + 1 ELSE l.queued
    /\ l.pc \in AtWork => l.batch \in Seq(Asset) /\ l.batch # <<>>
    /\ l.pc = "mark" \/ (l.pc = "refuse" /\ l.verdict = "already_known") =>
          Head(l.batch) \in known

LEMMA QuietIsSound == \A known : Sound(Quiet, known)
<1>1. DOMAIN Quiet = Fields
    BY DEF Quiet, Fields
<1> QED BY <1>1 DEF Sound, Quiet, AtWork, Verdict

\* A run that is about to pick, or to look at the inventory.
LEMMA FreshRunIsSound ==
    ASSUME NEW n \in Nat \ {0}, NEW p, p \notin AtWork, NEW known
    PROVE  Sound([Quiet EXCEPT !.pc = p, !.run = TRUE, !.limit = n], known)
<1>1. DOMAIN Quiet = Fields
    BY DEF Quiet, Fields
<1>2. PICK m : m = [Quiet EXCEPT !.pc = p, !.run = TRUE, !.limit = n]
    OBVIOUS
<1>3. /\ DOMAIN m = Fields /\ m.pc = p /\ m.limit = n
      /\ m.verdict = "none" /\ m.queued = 0 /\ m.wrote = 0
    BY <1>1, <1>2 DEF Quiet, Fields
<1> QED BY <1>2, <1>3 DEF Sound, AtWork, Verdict

\* More jobs do no harm.
LEMMA SoundGrows ==
    ASSUME NEW l, NEW known, NEW more, Sound(l, known), known \subseteq more
    PROVE  Sound(l, more)
BY DEF Sound

\* A change of the fields only a walk uses.
LEMMA WalkFieldsOnly ==
    ASSUME NEW l, NEW m, NEW known, Sound(l, known), DOMAIN m = Fields,
           (m.pc \notin AtWork /\ l.pc \notin AtWork) \/ (m.pc = l.pc /\ m.batch = l.batch),
           m.verdict = l.verdict, m.queued = l.queued, m.wrote = l.wrote, m.limit = l.limit
    PROVE  Sound(m, known)
BY DEF Sound, AtWork

LEMMA TailOfMany ==
    ASSUME NEW q \in Seq(Asset), Len(q) > 1
    PROVE  Tail(q) \in Seq(Asset) /\ Tail(q) # <<>>
<1>1. q # <<>> /\ Len(q) \in Nat
    BY EmptySeq
<1>2. PICK t \in Seq(Asset) : t = Tail(q) /\ Len(t) = Len(q) - 1
    BY <1>1, HeadTailProperties
<1>3. Len(t) = Len(q) - 1
    BY <1>2
<1>4. Len(t) # 0
    BY <1>1, <1>3
<1> QED BY <1>2, <1>4, EmptySeq

\* The next candidate of a batch, from a session that has just dealt with one.
LEMMA NextIsSound ==
    ASSUME NEW l, NEW known, DOMAIN l = Fields, l.verdict = "none" \/ l.verdict \in Verdict,
           l.queued \in Nat, l.limit \in Nat, l.wrote = l.queued,
           l.batch \in Seq(Asset), l.batch # <<>>
    PROVE  Sound(NextCandidate(l), known)
<1>1. CASE l.queued >= l.limit
    BY <1>1, QuietIsSound DEF NextCandidate
<1>2. CASE l.queued < l.limit /\ Len(l.batch) > 1
  <2>1. PICK m : m = [l EXCEPT !.pc = "verify", !.batch = Tail(@)]
      OBVIOUS
  <2>2. /\ DOMAIN m = Fields /\ m.pc = "verify" /\ m.batch = Tail(l.batch)
        /\ m.verdict = l.verdict /\ m.queued = l.queued /\ m.wrote = l.wrote /\ m.limit = l.limit
      BY <2>1 DEF Fields
  <2>3. Tail(l.batch) \in Seq(Asset) /\ Tail(l.batch) # <<>>
      BY <1>2, TailOfMany
  <2>4. Sound(m, known)
      BY <1>2, <2>2, <2>3 DEF Sound, AtWork, Verdict
  <2>5. NextCandidate(l) = m
      BY <1>2, <2>1 DEF NextCandidate
  <2> QED BY <2>4, <2>5
<1>3. CASE l.queued < l.limit /\ ~(Len(l.batch) > 1)
  <2>1. PICK m : m = [l EXCEPT !.pc = "pick", !.batch = <<>>]
      OBVIOUS
  <2>2. /\ DOMAIN m = Fields /\ m.pc = "pick"
        /\ m.verdict = l.verdict /\ m.queued = l.queued /\ m.wrote = l.wrote /\ m.limit = l.limit
      BY <2>1 DEF Fields
  <2>3. Sound(m, known)
      BY <1>3, <2>2 DEF Sound, AtWork, Verdict
  <2>4. NextCandidate(l) = m
      BY <1>3, <2>1 DEF NextCandidate
  <2> QED BY <2>3, <2>4
<1> QED BY <1>1, <1>2, <1>3

-----------------------------------------------------------------------------
(***************************************************************************)
(* The inventory is typed, the sessions are sound, and every mark has its  *)
(* job.  Soundness is what carries MarkHasJob over the two commits of a    *)
(* run: the job is there from the first on.                                *)
(***************************************************************************)
Sessions == op = [s \in Session |-> op[s]] /\ \A s \in Session : Sound(op[s], jobs)

Statuses == {"live", "named", "trashed", "gone"}

RunInv ==
    /\ status \in [Asset -> Statuses]
    /\ inventory \in [Asset -> Row]
    /\ Sessions
    /\ MarkHasJob

\* A step of one session.
LEMMA OneSession ==
    ASSUME Sessions, NEW s \in Session, NEW l, op' = [op EXCEPT ![s] = l],
           jobs \subseteq jobs', Sound(l, jobs')
    PROVE  Sessions'
<1>1. op' = [q \in Session |-> op'[q]]
    BY DEF Sessions
<1>2. \A q \in Session : op'[q] = IF q = s THEN l ELSE op[q]
    BY DEF Sessions
<1>3. \A q \in Session : Sound(op[q], jobs')
    BY SoundGrows DEF Sessions
<1> QED BY <1>1, <1>2, <1>3 DEF Sessions

\* A step that gives some walks a gap, and changes no session otherwise.
LEMMA GapsOnly ==
    ASSUME Sessions, jobs' = jobs,
           op' = [s \in Session |-> IF op[s].pc \in Scanning
                                    THEN [op[s] EXCEPT !.gap = TRUE] ELSE op[s]]
    PROVE  Sessions'
<1>1. ASSUME NEW s \in Session PROVE Sound(op'[s], jobs)
  <2>1. CASE op[s].pc \in Scanning
    <3>1. PICK m : m = [op[s] EXCEPT !.gap = TRUE]
        OBVIOUS
    <3>2. DOMAIN op[s] = Fields
        BY DEF Sessions, Sound
    <3>3. /\ DOMAIN m = Fields /\ m.pc = op[s].pc /\ m.verdict = op[s].verdict
          /\ m.queued = op[s].queued /\ m.wrote = op[s].wrote /\ m.limit = op[s].limit
          /\ m.batch = op[s].batch
        BY <3>1, <3>2 DEF Fields
    <3>4. Sound(m, jobs)
        BY <3>3, WalkFieldsOnly DEF Sessions
    <3> QED BY <2>1, <3>1, <3>4
  <2>2. CASE op[s].pc \notin Scanning
      BY <2>2 DEF Sessions
  <2> QED BY <2>1, <2>2
<1> QED BY <1>1 DEF Sessions

LEMMA ServerStep ==
    ASSUME RunInv, NEW a \in Asset, Upload(a) \/ Name(a) \/ Trash(a) \/ Purge(a) \/ Webhook(a)
    PROVE  RunInv'
<1>1. inventory' = inventory /\ jobs \subseteq jobs' /\ status' \in [Asset -> Statuses]
    BY DEF RunInv, Statuses, Upload, Name, Trash, Purge, Webhook
<1>2. MarkHasJob'
    BY <1>1 DEF RunInv, MarkHasJob
<1>3. CASE Upload(a) \/ Trash(a) \/ Purge(a)
    BY <1>1, <1>2, <1>3, GapsOnly DEF RunInv, Upload, Trash, Purge, Shift
<1>4. CASE Name(a) \/ Webhook(a)
  <2>1. op' = op
      BY <1>4 DEF Name, Webhook
  <2> QED BY <1>1, <1>2, <2>1, SoundGrows DEF RunInv, Sessions
<1> QED BY <1>3, <1>4

\* A walk that goes on, or that is over.
LEMMA WalkGoesOn ==
    ASSUME Sessions, NEW s \in Session, op[s].pc \in Scanning, NEW m, DOMAIN m = Fields,
           m.pc \in Scanning, m.verdict = op[s].verdict, m.queued = op[s].queued,
           m.wrote = op[s].wrote, m.limit = op[s].limit,
           op' = [op EXCEPT ![s] = m], jobs' = jobs
    PROVE  Sessions'
<1>1. Sound(op[s], jobs) /\ m.pc \notin AtWork /\ op[s].pc \notin AtWork
    BY DEF Sessions, Scanning, AtWork
<1>2. Sound(m, jobs)
    BY <1>1 DEF Sound, AtWork
<1>3. Sound(m, jobs') /\ jobs \subseteq jobs'
    BY <1>2
<1> QED BY <1>3, OneSession

LEMMA WalkEnds ==
    ASSUME Sessions, NEW s \in Session, op' = [op EXCEPT ![s] = AfterScan(s)], jobs' = jobs
    PROVE  Sessions'
<1>1. op[s].limit \in Nat \ {0}
    BY DEF Sessions, Sound
<1>2. Sound([Quiet EXCEPT !.pc = "pick", !.run = TRUE, !.limit = op[s].limit], jobs)
    BY <1>1, FreshRunIsSound DEF AtWork
<1>3. Sound(AfterScan(s), jobs')
    BY <1>2, QuietIsSound DEF AfterScan
<1> QED BY <1>3, OneSession

LEMMA ScanSessions ==
    ASSUME Sessions, NEW s \in Session, ScanStep(s)
    PROVE  Sessions'
<1>0. /\ DOMAIN op[s] = Fields /\ jobs' = jobs /\ op[s].pc \in Scanning
      /\ op = [q \in Session |-> op[q]]
    BY DEF Sessions, Sound, ScanStep, ClearInventory, ClearCursor, ReadCursor, Fetch,
           StopAtMaxPages, RecordPage, SaveCursor, CompleteWalk, At, Scanning
<1>1. CASE ClearInventory(s)
  <2>1. ASSUME NEW q \in Session PROVE Sound(op'[q], jobs)
    <3>1. PICK m : m = IF q = s THEN [op[q] EXCEPT !.pc = "clear_cursor"]
                                ELSE [op[q] EXCEPT !.gap = TRUE]
        OBVIOUS
    <3>2. DOMAIN op[q] = Fields /\ Sound(op[q], jobs)
        BY DEF Sessions, Sound
    <3>3. /\ DOMAIN m = Fields /\ m.verdict = op[q].verdict
          /\ m.queued = op[q].queued /\ m.wrote = op[q].wrote /\ m.limit = op[q].limit
          /\ m.batch = op[q].batch /\ m.pc = IF q = s THEN "clear_cursor" ELSE op[q].pc
        BY <3>1, <3>2 DEF Fields
    <3>4. Sound(m, jobs)
        BY <1>0, <3>2, <3>3, WalkFieldsOnly DEF Scanning, AtWork
    <3>5. op'[q] \in {m, op[q]}
        BY <1>1, <3>1 DEF ClearInventory
    <3> QED BY <3>2, <3>4, <3>5
  <2>2. op' = [q \in Session |-> op'[q]]
      BY <1>1 DEF ClearInventory
  <2> QED BY <1>0, <2>1, <2>2 DEF Sessions
<1>2. CASE ClearCursor(s)
  <2>1. PICK m : m = [op[s] EXCEPT !.pc = "resume"]
      OBVIOUS
  <2>2. op' = [op EXCEPT ![s] = m]
      BY <1>2, <2>1 DEF ClearCursor
  <2>3. /\ DOMAIN m = Fields /\ m.pc \in Scanning /\ m.verdict = op[s].verdict
        /\ m.queued = op[s].queued /\ m.wrote = op[s].wrote /\ m.limit = op[s].limit
      BY <1>0, <2>1 DEF Fields, Scanning
  <2> QED BY <1>0, <2>2, <2>3, WalkGoesOn
<1>3. CASE ReadCursor(s)
  <2>1. PICK m : m = [op[s] EXCEPT !.pc = "fetch", !.page = cursor.page, !.first = cursor.first,
                                   !.gap = cursor.gap \/ Repaged(s)]
      OBVIOUS
  <2>2. op' = [op EXCEPT ![s] = m]
      BY <1>3, <2>1 DEF ReadCursor
  <2>3. /\ DOMAIN m = Fields /\ m.pc \in Scanning /\ m.verdict = op[s].verdict
        /\ m.queued = op[s].queued /\ m.wrote = op[s].wrote /\ m.limit = op[s].limit
      BY <1>0, <2>1 DEF Fields, Scanning
  <2> QED BY <1>0, <2>2, <2>3, WalkGoesOn
<1>4. CASE Fetch(s)
  <2>1. PICK items : items = Page(op[s].page, op[s].size)
      OBVIOUS
  <2>2. PICK m : m = IF items = <<>> THEN [op[s] EXCEPT !.pc = "complete"]
                     ELSE [op[s] EXCEPT !.pc = "record", !.rows = items, !.first = items[1],
                                        !.next = NextPage(op[s].page, op[s].size)]
      OBVIOUS
  <2>3. op' = [op EXCEPT ![s] = m] \/ op' = [op EXCEPT ![s] = AfterScan(s)]
      BY <1>4, <2>1, <2>2 DEF Fetch
  <2>4. /\ DOMAIN m = Fields /\ m.pc \in Scanning /\ m.verdict = op[s].verdict
        /\ m.queued = op[s].queued /\ m.wrote = op[s].wrote /\ m.limit = op[s].limit
      BY <1>0, <2>2 DEF Fields, Scanning
  <2> QED BY <1>0, <2>3, <2>4, WalkGoesOn, WalkEnds
<1>5. CASE StopAtMaxPages(s) \/ CompleteWalk(s)
    BY <1>0, <1>5, WalkEnds DEF StopAtMaxPages, CompleteWalk
<1>6. CASE RecordPage(s)
  <2>1. PICK p : p = IF op[s].next = None THEN "complete" ELSE "save"
      OBVIOUS
  <2>2. PICK w : w = op[s].walked + 1
      OBVIOUS
  <2>3. PICK m : m = [op[s] EXCEPT !.walked = w, !.rows = <<>>, !.pc = p]
      OBVIOUS
  <2>4. op' = [op EXCEPT ![s] = m]
      BY <1>6, <2>1, <2>2, <2>3 DEF RecordPage
  <2>5. /\ DOMAIN m = Fields /\ m.pc \in Scanning /\ m.verdict = op[s].verdict
        /\ m.queued = op[s].queued /\ m.wrote = op[s].wrote /\ m.limit = op[s].limit
      BY <1>0, <2>1, <2>3 DEF Fields, Scanning
  <2> QED BY <1>0, <2>4, <2>5, WalkGoesOn
<1>7. CASE SaveCursor(s)
  <2>1. PICK m : m = [op[s] EXCEPT !.pc = "fetch", !.page = op[s].next, !.next = None]
      OBVIOUS
  <2>2. op' = [op EXCEPT ![s] = m]
      BY <1>7, <2>1 DEF SaveCursor
  <2>3. /\ DOMAIN m = Fields /\ m.pc \in Scanning /\ m.verdict = op[s].verdict
        /\ m.queued = op[s].queued /\ m.wrote = op[s].wrote /\ m.limit = op[s].limit
      BY <1>0, <2>1 DEF Fields, Scanning
  <2> QED BY <1>0, <2>2, <2>3, WalkGoesOn
<1> QED BY <1>1, <1>2, <1>3, <1>4, <1>5, <1>6, <1>7 DEF ScanStep

LEMMA ScanPreserves ==
    ASSUME RunInv, NEW s \in Session, ScanStep(s)
    PROVE  RunInv'
<1>1. jobs' = jobs /\ status' = status
    BY DEF ScanStep, ClearInventory, ClearCursor, ReadCursor, Fetch, StopAtMaxPages, RecordPage,
           SaveCursor, CompleteWalk
<1>2. Sessions'
    BY ScanSessions DEF RunInv
<1>3. CASE ClearInventory(s)
  <2>1. inventory' = [a \in Asset |-> NoRow]
      BY <1>3 DEF ClearInventory
  <2>2. inventory' \in [Asset -> Row] /\ MarkHasJob'
      BY <1>1, <2>1 DEF Row, NoRow, MarkHasJob
  <2> QED BY <1>1, <1>2, <2>2 DEF RunInv
<1>4. CASE RecordPage(s)
  <2>1. inventory' = [a \in Asset |-> Scanned(s, a)]
      BY <1>4 DEF RecordPage
  <2>2. ASSUME NEW a \in Asset
        PROVE  /\ Scanned(s, a) \in Row
               /\ Scanned(s, a).queued = inventory[a].queued
               /\ Scanned(s, a).verdict = "already_known" => inventory[a].verdict = "already_known"
    <3>1. inventory[a] \in Row
        BY DEF RunInv
    <3>2. CASE inventory[a] = NoRow
        BY <3>2 DEF Scanned, Row, Verdict, NoRow
    <3>3. CASE inventory[a] \in [verdict : Verdict, queued : BOOLEAN]
        BY <3>3 DEF Scanned, Row, Verdict
    <3> QED BY <3>1, <3>2, <3>3 DEF Row
  <2>3. inventory' \in [Asset -> Row] /\ MarkHasJob'
      BY <1>1, <2>1, <2>2 DEF RunInv, MarkHasJob
  <2> QED BY <1>1, <1>2, <2>3 DEF RunInv
<1>5. CASE ~ClearInventory(s) /\ ~RecordPage(s)
  <2>1. inventory' = inventory
      BY <1>5 DEF ScanStep, ClearCursor, ReadCursor, Fetch, StopAtMaxPages, SaveCursor, CompleteWalk
  <2> QED BY <1>1, <1>2, <2>1 DEF RunInv, MarkHasJob
<1> QED BY <1>3, <1>4, <1>5

-----------------------------------------------------------------------------
\* A run.

\* What a pick takes is a sequence of assets.
LEMMA BatchesAreSequences ==
    ASSUME NEW n, NEW b \in Batches(n)
    PROVE  b \in Seq(Asset)
<1>1. Taken(n) \subseteq Asset /\ IsFiniteSet(Asset)
    BY BackfillAssumption DEF Taken, BackfillAssumption
<1>2. Cardinality(Taken(n)) \in Nat
    BY <1>1, FS_Subset, FS_CardinalityType
<1>3. b \in [1..Cardinality(Taken(n)) -> Asset]
    BY <1>1 DEF Batches
<1> QED BY <1>2, <1>3

\* A run that looks for work keeps its counters.
LEMMA StatsAndPick ==
    ASSUME RunInv, NEW s \in Session, ReadStats(s) \/ Pick(s)
    PROVE  RunInv'
<1>0. /\ DOMAIN op[s] = Fields /\ Sound(op[s], jobs) /\ Sessions
      /\ UNCHANGED <<status, jobs, inventory>>
    BY DEF RunInv, Sessions, Sound, ReadStats, Pick
<1>1. CASE ReadStats(s)
  <2>1. PICK m : m = IF \E a \in Asset : inventory[a] # NoRow THEN [op[s] EXCEPT !.pc = "pick"]
                     ELSE [op[s] EXCEPT !.pc = "resume", !.size = DefaultPageSize]
      OBVIOUS
  <2>2. op' = [op EXCEPT ![s] = m]
      BY <1>1, <2>1 DEF ReadStats
  <2>3. /\ DOMAIN m = Fields /\ m.pc \in {"pick", "resume"} /\ m.verdict = op[s].verdict
        /\ m.queued = op[s].queued /\ m.wrote = op[s].wrote /\ m.limit = op[s].limit
      BY <1>0, <2>1 DEF Fields
  <2>4. op[s].pc = "stats"
      BY <1>1 DEF ReadStats, At
  <2>5. Sound(m, jobs')
      BY <1>0, <2>3, <2>4 DEF Sound, AtWork
  <2>6. Sessions'
      BY <1>0, <2>2, <2>5, OneSession
  <2> QED BY <1>0, <2>6 DEF RunInv, MarkHasJob
<1>2. CASE Pick(s)
  <2>1. PICK b \in Batches(PickLimit(s)) :
            op' = [op EXCEPT ![s] = IF b = <<>> THEN Quiet
                                    ELSE [@ EXCEPT !.pc = "verify", !.batch = b]]
      BY <1>2 DEF Pick
  <2>2. PICK m : m = IF b = <<>> THEN Quiet ELSE [op[s] EXCEPT !.pc = "verify", !.batch = b]
      OBVIOUS
  <2>3. op' = [op EXCEPT ![s] = m]
      BY <2>1, <2>2
  <2>4. b \in Seq(Asset)
      BY BatchesAreSequences
  <2>5. b # <<>> => /\ DOMAIN m = Fields /\ m.pc = "verify" /\ m.verdict = op[s].verdict
                    /\ m.queued = op[s].queued /\ m.wrote = op[s].wrote
                    /\ m.limit = op[s].limit /\ m.batch = b
      BY <1>0, <2>2 DEF Fields
  <2>6. op[s].pc = "pick"
      BY <1>2 DEF Pick, At
  <2>7. Sound(m, jobs)
    <3>1. CASE b = <<>>
        BY <2>2, <3>1, QuietIsSound
    <3>2. CASE b # <<>>
        BY <1>0, <2>4, <2>5, <2>6, <3>2 DEF Sound, AtWork
    <3> QED BY <3>1, <3>2
  <2>8. Sessions'
    <3>1. Sound(m, jobs') /\ jobs \subseteq jobs'
        BY <1>0, <2>7
    <3> QED BY <1>0, <2>3, <3>1, OneSession
  <2> QED BY <1>0, <2>8 DEF RunInv, MarkHasJob
<1> QED BY <1>1, <1>2

LEMMA VerifyPreserves ==
    ASSUME RunInv, NEW s \in Session, Verify(s)
    PROVE  RunInv'
<1>0. /\ DOMAIN op[s] = Fields /\ Sound(op[s], jobs) /\ Sessions /\ op[s].pc = "verify"
      /\ UNCHANGED <<status, jobs, inventory>>
    BY DEF RunInv, Sessions, Sound, Verify, At
<1>1. op[s].batch \in Seq(Asset) /\ op[s].batch # <<>>
    BY <1>0 DEF Sound, AtWork
<1>2. Head(op[s].batch) \in Asset
    BY <1>1, HeadTailProperties
<1>3. PICK v : v = LiveVerdict(Head(op[s].batch))
    OBVIOUS
<1>4. v \in Verdict \ {"already_known"}
  <2>1. status[Head(op[s].batch)] \in Statuses
      BY <1>2 DEF RunInv
  <2> QED BY <1>3, <2>1 DEF LiveVerdict, Verdict, Statuses
<1>5. PICK m : m = [op[s] EXCEPT !.verdict = v, !.pc = IF v = "none" THEN "enqueue" ELSE "refuse"]
    OBVIOUS
<1>6. op' = [op EXCEPT ![s] = m]
    BY <1>3, <1>5 DEF Verify
<1>7. /\ DOMAIN m = Fields /\ m.pc \in {"enqueue", "refuse"} /\ m.verdict = v
      /\ m.queued = op[s].queued /\ m.wrote = op[s].wrote /\ m.limit = op[s].limit
      /\ m.batch = op[s].batch
    BY <1>0, <1>5 DEF Fields
<1>8. Sound(m, jobs)
    BY <1>0, <1>1, <1>4, <1>7 DEF Sound, AtWork
<1>9. Sessions'
  <2>1. Sound(m, jobs') /\ jobs \subseteq jobs'
      BY <1>0, <1>8
  <2> QED BY <1>0, <1>6, <2>1, OneSession
<1> QED BY <1>0, <1>9 DEF RunInv, MarkHasJob

LEMMA EnqueuePreserves ==
    ASSUME RunInv, NEW s \in Session, Enqueue(s)
    PROVE  RunInv'
<1>0. /\ DOMAIN op[s] = Fields /\ Sound(op[s], jobs) /\ Sessions /\ op[s].pc = "enqueue"
      /\ UNCHANGED <<status, inventory>> /\ jobs' = jobs \cup {Head(op[s].batch)}
    BY DEF RunInv, Sessions, Sound, Enqueue, At
<1>1. op[s].batch \in Seq(Asset) /\ op[s].batch # <<>>
    BY <1>0 DEF Sound, AtWork
<1>2. PICK m : m = IF Head(op[s].batch) \in jobs
                   THEN [op[s] EXCEPT !.verdict = "already_known", !.pc = "refuse"]
                   ELSE [op[s] EXCEPT !.wrote = op[s].wrote + 1, !.pc = "mark"]
    OBVIOUS
<1>3. op' = [op EXCEPT ![s] = m]
    BY <1>2 DEF Enqueue
<1>4. /\ DOMAIN m = Fields
      /\ m.queued = op[s].queued /\ m.limit = op[s].limit /\ m.batch = op[s].batch
      /\ \/ m.pc = "refuse" /\ m.verdict = "already_known" /\ m.wrote = op[s].wrote
         \/ m.pc = "mark" /\ m.verdict = op[s].verdict /\ m.wrote = op[s].wrote + 1
    BY <1>0, <1>2 DEF Fields
<1>5. Sound(m, jobs') /\ jobs \subseteq jobs'
    BY <1>0, <1>1, <1>4 DEF Sound, AtWork, Verdict
<1>6. Sessions'
    BY <1>0, <1>3, <1>5, OneSession
<1> QED BY <1>0, <1>6 DEF RunInv, MarkHasJob

\* One field of one row is written, unless a rescan has dropped the row.
LEMMA WriteRow ==
    ASSUME RunInv, NEW a \in Asset, NEW v \in Verdict, v = "already_known" => a \in jobs,
           jobs' = jobs,
           \/ inventory' = IF inventory[a] = NoRow THEN inventory
                           ELSE [inventory EXCEPT ![a].verdict = v]
           \/ /\ a \in jobs
              /\ inventory' = IF inventory[a] = NoRow THEN inventory
                              ELSE [inventory EXCEPT ![a].queued = TRUE]
    PROVE  inventory' \in [Asset -> Row] /\ MarkHasJob'
<1>1. inventory \in [Asset -> Row] /\ inventory[a] \in Row /\ MarkHasJob
    BY DEF RunInv
<1>2. CASE inventory' = inventory
    BY <1>1, <1>2 DEF MarkHasJob
<1>3. CASE inventory[a] # NoRow
  <2>1. inventory[a] \in [verdict : Verdict, queued : BOOLEAN]
      BY <1>1, <1>3 DEF Row
  <2>2. PICK row : /\ row \in Row
                   /\ inventory' = [inventory EXCEPT ![a] = row]
                   /\ row.queued \/ row.verdict = "already_known" => a \in jobs
    <3>1. inventory[a].queued \/ inventory[a].verdict = "already_known" => a \in jobs
        BY <1>1 DEF MarkHasJob
    <3>2. CASE inventory' = [inventory EXCEPT ![a].verdict = v]
      <4>1. PICK row : row = [inventory[a] EXCEPT !.verdict = v]
          OBVIOUS
      <4>2. inventory' = [inventory EXCEPT ![a] = row]
          BY <3>2, <4>1
      <4>3. row \in Row /\ row.verdict = v /\ row.queued = inventory[a].queued
          BY <2>1, <4>1 DEF Row
      <4> QED BY <3>1, <4>2, <4>3
    <3>3. CASE a \in jobs /\ inventory' = [inventory EXCEPT ![a].queued = TRUE]
      <4>1. PICK row : row = [inventory[a] EXCEPT !.queued = TRUE]
          OBVIOUS
      <4>2. inventory' = [inventory EXCEPT ![a] = row]
          BY <3>3, <4>1
      <4>3. row \in Row
          BY <2>1, <4>1 DEF Row
      <4> QED BY <3>3, <4>2, <4>3
    <3> QED BY <1>3, <3>2, <3>3
  <2> QED BY <1>1, <2>2 DEF MarkHasJob
<1> QED BY <1>2, <1>3

LEMMA RefusePreserves ==
    ASSUME RunInv, NEW s \in Session, Refuse(s)
    PROVE  RunInv'
<1>0. /\ DOMAIN op[s] = Fields /\ Sound(op[s], jobs) /\ Sessions /\ op[s].pc = "refuse"
      /\ UNCHANGED <<status, jobs>>
    BY DEF RunInv, Sessions, Sound, Refuse, At
<1>1. op[s].batch \in Seq(Asset) /\ op[s].batch # <<>>
    BY <1>0 DEF Sound, AtWork
<1>2. PICK a \in Asset : a = Head(op[s].batch)
    BY <1>1, HeadTailProperties
<1>3. /\ op[s].verdict \in Verdict
      /\ op[s].verdict = "already_known" => a \in jobs
    BY <1>0, <1>2 DEF Sound
<1>4. inventory' \in [Asset -> Row] /\ MarkHasJob'
  <2>1. inventory' = IF inventory[a] = NoRow THEN inventory
                     ELSE [inventory EXCEPT ![a].verdict = op[s].verdict]
      BY <1>2 DEF Refuse
  <2> QED BY <1>0, <1>3, <2>1, WriteRow
<1>5. PICK m : m = [op[s] EXCEPT !.verdict = "none"]
    OBVIOUS
<1>6. op' = [op EXCEPT ![s] = NextCandidate(m)]
    BY <1>5 DEF Refuse
<1>7. /\ DOMAIN m = Fields /\ m.verdict = "none" /\ m.queued = op[s].queued
      /\ m.wrote = op[s].wrote /\ m.limit = op[s].limit /\ m.batch = op[s].batch
    BY <1>0, <1>5 DEF Fields
<1>8. Sound(NextCandidate(m), jobs)
  <2>1. m.queued \in Nat /\ m.limit \in Nat /\ m.wrote = m.queued
      BY <1>0, <1>7 DEF Sound
  <2> QED BY <1>1, <1>7, <2>1, NextIsSound
<1>9. Sessions'
  <2>1. Sound(NextCandidate(m), jobs') /\ jobs \subseteq jobs'
      BY <1>0, <1>8
  <2> QED BY <1>0, <1>6, <2>1, OneSession
<1> QED BY <1>0, <1>4, <1>9 DEF RunInv

LEMMA MarkPreserves ==
    ASSUME RunInv, NEW s \in Session, Mark(s)
    PROVE  RunInv'
<1>0. /\ DOMAIN op[s] = Fields /\ Sound(op[s], jobs) /\ Sessions /\ op[s].pc = "mark"
      /\ UNCHANGED <<status, jobs>>
    BY DEF RunInv, Sessions, Sound, Mark, At
<1>1. op[s].batch \in Seq(Asset) /\ op[s].batch # <<>>
    BY <1>0 DEF Sound, AtWork
<1>2. PICK a \in Asset : a = Head(op[s].batch)
    BY <1>1, HeadTailProperties
<1>3. a \in jobs
    BY <1>0, <1>2 DEF Sound
<1>4. inventory' \in [Asset -> Row] /\ MarkHasJob'
  <2>1. inventory' = IF inventory[a] = NoRow THEN inventory
                     ELSE [inventory EXCEPT ![a].queued = TRUE]
      BY <1>2 DEF Mark
  <2>2. "none" \in Verdict /\ "none" # "already_known"
      BY DEF Verdict
  <2> QED BY <1>0, <1>3, <2>1, <2>2, WriteRow
<1>5. PICK m : m = [op[s] EXCEPT !.queued = op[s].queued + 1]
    OBVIOUS
<1>6. op' = [op EXCEPT ![s] = NextCandidate(m)]
    BY <1>5 DEF Mark
<1>7. /\ DOMAIN m = Fields /\ m.verdict = op[s].verdict /\ m.queued = op[s].queued + 1
      /\ m.wrote = op[s].wrote /\ m.limit = op[s].limit /\ m.batch = op[s].batch
    BY <1>0, <1>5 DEF Fields
<1>8. Sound(NextCandidate(m), jobs)
  <2>1. m.queued \in Nat /\ m.limit \in Nat /\ m.wrote = m.queued /\ m.verdict \in Verdict
      BY <1>0, <1>7 DEF Sound
  <2> QED BY <1>1, <1>7, <2>1, NextIsSound
<1>9. Sessions'
  <2>1. Sound(NextCandidate(m), jobs') /\ jobs \subseteq jobs'
      BY <1>0, <1>8
  <2> QED BY <1>0, <1>6, <2>1, OneSession
<1> QED BY <1>0, <1>4, <1>9 DEF RunInv

\* A command begins, or ends before its time.
LEMMA CommandPreserves ==
    ASSUME RunInv, NEW s \in Session,
           \/ \E k \in PageSizes, rescan \in BOOLEAN : StartScan(s, k, rescan)
           \/ \E n \in Limits : StartRun(s, n)
           \/ Fail(s)
    PROVE  RunInv'
<1>0. UNCHANGED <<status, jobs, inventory>> /\ Sessions
    BY DEF RunInv, StartScan, StartRun, Fail
<1>1. CASE \E k \in PageSizes, rescan \in BOOLEAN : StartScan(s, k, rescan)
  <2>1. PICK k, p : p \in {"clear", "resume"} /\ op' = [op EXCEPT ![s] = [Quiet EXCEPT !.pc = p, !.size = k]]
      BY <1>1 DEF StartScan
  <2>2. PICK m : m = [Quiet EXCEPT !.pc = p, !.size = k]
      OBVIOUS
  <2>3. DOMAIN Quiet = Fields /\ Sound(Quiet, jobs) /\ Quiet.pc \notin AtWork
      BY QuietIsSound DEF Sound, Quiet, AtWork
  <2>4. /\ DOMAIN m = Fields /\ m.pc = p /\ m.verdict = Quiet.verdict
        /\ m.queued = Quiet.queued /\ m.wrote = Quiet.wrote /\ m.limit = Quiet.limit
      BY <2>2, <2>3 DEF Fields
  <2>5. Sound(m, jobs)
      BY <2>1, <2>3, <2>4 DEF Sound, AtWork
  <2>6. Sound(m, jobs') /\ jobs \subseteq jobs' /\ op' = [op EXCEPT ![s] = m]
      BY <1>0, <2>1, <2>2, <2>5
  <2>7. Sessions'
      BY <1>0, <2>6, OneSession
  <2> QED BY <1>0, <2>7 DEF RunInv, MarkHasJob
<1>2. CASE \E n \in Limits : StartRun(s, n)
  <2>1. PICK n \in Limits :
            op' = [op EXCEPT ![s] = [Quiet EXCEPT !.pc = "stats", !.run = TRUE, !.limit = n]]
      BY <1>2 DEF StartRun
  <2>2. n \in Nat \ {0} /\ "stats" \notin AtWork
      BY BackfillAssumption DEF BackfillAssumption, AtWork
  <2>3. Sound([Quiet EXCEPT !.pc = "stats", !.run = TRUE, !.limit = n], jobs') /\ jobs \subseteq jobs'
      BY <1>0, <2>2, FreshRunIsSound
  <2>4. Sessions'
      BY <1>0, <2>1, <2>3, OneSession
  <2> QED BY <1>0, <2>4 DEF RunInv, MarkHasJob
<1>3. CASE Fail(s)
  <2>1. op' = [op EXCEPT ![s] = Quiet] /\ Sound(Quiet, jobs') /\ jobs \subseteq jobs'
      BY <1>0, <1>3, QuietIsSound DEF Fail
  <2>2. Sessions'
      BY <1>0, <2>1, OneSession
  <2> QED BY <1>0, <2>2 DEF RunInv, MarkHasJob
<1> QED BY <1>1, <1>2, <1>3

\* An answered restore moves assets out of the trash and nothing else.
LEMMA RestorePreserves ==
    ASSUME RunInv, StartRestore \/ RestoreRequest \/ Raised
    PROVE  RunInv'
<1>1. UNCHANGED <<jobs, inventory>>
    BY DEF StartRestore, RestoreRequest, Raised, Accepted, Isolated, Halved
<1>2. CASE Accepted
  <2>1. status' \in [Asset -> Statuses]
      BY <1>2 DEF Accepted, RunInv, Statuses
  <2>2. Sessions'
    <3>1. CASE UNCHANGED <<cursor, op>>
        BY <1>1, <3>1 DEF RunInv, Sessions
    <3>2. CASE Shift
        BY <1>1, <3>2, GapsOnly DEF RunInv, Shift
    <3> QED BY <1>2, <3>1, <3>2 DEF Accepted
  <2> QED BY <1>1, <2>1, <2>2 DEF RunInv, MarkHasJob
<1>3. CASE ~Accepted
  <2>1. UNCHANGED <<status, op>>
      BY <1>3 DEF StartRestore, RestoreRequest, Raised, Isolated, Halved
  <2> QED BY <1>1, <2>1 DEF RunInv, MarkHasJob, Sessions
<1> QED BY <1>2, <1>3

LEMMA RunStepPreserves == RunInv /\ [RestoreNext]_vars => RunInv'
<1> SUFFICES ASSUME RunInv, [RestoreNext]_vars PROVE RunInv'
    OBVIOUS
<1>1. CASE Next /\ UNCHANGED rs
    BY <1>1, ServerStep, ScanPreserves, StatsAndPick, VerifyPreserves, EnqueuePreserves,
       RefusePreserves, MarkPreserves, CommandPreserves DEF Next, Server, RunStep
<1>2. CASE StartRestore \/ RestoreRequest \/ Raised
    BY <1>2, RestorePreserves
<1>3. CASE UNCHANGED vars
    BY <1>3 DEF vars, RunInv, MarkHasJob, Sessions
<1> QED BY <1>1, <1>2, <1>3 DEF RestoreNext

LEMMA RunInit == RestoreInit => RunInv
<1> SUFFICES ASSUME RestoreInit PROVE RunInv
    OBVIOUS
<1>1. status \in [Asset -> Statuses]
    BY DEF RestoreInit, Init, Statuses
<1>2. inventory = [a \in Asset |-> NoRow] /\ jobs = {} /\ op = [s \in Session |-> Quiet]
    BY DEF RestoreInit, Init
<1>3. inventory \in [Asset -> Row] /\ MarkHasJob
    BY <1>2 DEF Row, NoRow, MarkHasJob
<1>4. Sessions
    BY <1>2, QuietIsSound DEF Sessions
<1> QED BY <1>1, <1>3, <1>4 DEF RunInv

(***************************************************************************)
(* No asset is ever marked as taken without a job, however many sessions,  *)
(* webhooks and rescans interleave with a run and wherever it is cut off   *)
(* (backfill.py 317-330).                                                  *)
(***************************************************************************)
THEOREM MarksHaveJobs == RestoreSafe => []MarkHasJob
<1>1. RunInv => MarkHasJob
    BY DEF RunInv
<1> QED BY <1>1, RunInit, RunStepPreserves, PTL DEF RestoreSafe

-----------------------------------------------------------------------------
\* Only its own step takes a session out of mark or refuse.

LEMMA OthersDoNot ==
    ASSUME Sessions, NEW s \in Session, op[s].pc \in {"mark", "refuse"}, NEW q \in Session,
           \/ \E k \in PageSizes, rescan \in BOOLEAN : StartScan(q, k, rescan)
           \/ ScanStep(q)
           \/ \E n \in Limits : StartRun(q, n)
           \/ RunStep(q)
           \/ Fail(q)
    PROVE  op'[s] = op[s] \/ (q = s /\ (Mark(s) \/ Refuse(s) \/ Fail(s)))
<1>0. op[s].pc \notin Scanning /\ op = [r \in Session |-> op[r]]
    BY DEF Scanning, Sessions
<1>1. CASE q # s
  <2>1. CASE ClearInventory(q)
      BY <1>0, <1>1, <2>1 DEF ClearInventory
  <2>2. CASE ~ClearInventory(q)
    <3>1. \E l : op' = [op EXCEPT ![q] = l]
        BY <2>2 DEF StartScan, StartRun, Fail, ScanStep, ClearCursor, ReadCursor, Fetch,
                    StopAtMaxPages, RecordPage, SaveCursor, CompleteWalk, RunStep, ReadStats,
                    Pick, Verify, Enqueue, Refuse, Mark
    <3> QED BY <1>0, <1>1, <3>1
  <2> QED BY <2>1, <2>2
<1>2. CASE q = s
    BY <1>2 DEF StartScan, StartRun, ScanStep, ClearInventory, ClearCursor, ReadCursor, Fetch,
                StopAtMaxPages, RecordPage, SaveCursor, CompleteWalk, RunStep, ReadStats,
                Pick, Verify, Enqueue, At
<1> QED BY <1>1, <1>2

\* The budgets are numbers, so what is spent is gone.
BudgetOK == left \in [Occasion -> Nat]

LEMMA BudgetStep == BudgetOK /\ [RestoreNext]_vars => BudgetOK'
<1> SUFFICES ASSUME BudgetOK, [RestoreNext]_vars PROVE BudgetOK'
    OBVIOUS
<1>1. ASSUME NEW o \in Occasion, Spend(o) PROVE BudgetOK'
    BY <1>1 DEF Spend, BudgetOK
<1>2. "command" \in Occasion /\ "disturbance" \in Occasion
    BY DEF Occasion
<1>3. UNCHANGED left \/ Spend("command") \/ Spend("disturbance")
    BY DEF RestoreNext, Next, Server, Upload, Name, Trash, Purge, Webhook, StartScan, ScanStep,
           ClearInventory, ClearCursor, ReadCursor, Fetch, StopAtMaxPages, RecordPage, SaveCursor,
           CompleteWalk, StartRun, RunStep, ReadStats, Pick, Verify, Enqueue, Refuse, Mark, Fail,
           StartRestore, RestoreRequest, Accepted, Isolated, Halved, Raised, vars
<1> QED BY <1>1, <1>2, <1>3 DEF BudgetOK

LEMMA SessionEnds ==
    ASSUME RunInv, BudgetOK, [RestoreNext]_vars, NEW s \in Session, At(s, "mark") \/ At(s, "refuse"),
           op'[s] = Quiet, left' = left
    PROVE  op[s].wrote = op[s].limit
<1>1. /\ Quiet.pc = "idle" /\ op[s].pc \in {"mark", "refuse"}
      /\ DOMAIN op[s] = Fields /\ Sound(op[s], jobs) /\ op = [q \in Session |-> op[q]]
    BY DEF Quiet, At, RunInv, Sessions, Sound
<1>2. op'[s] # op[s]
    BY <1>1
<1>3. ~Shift /\ ~UNCHANGED op
    BY <1>1, <1>2 DEF Shift, Scanning
<1>4. ~Fail(s)
  <2>1. "disturbance" \in Occasion
      BY DEF Occasion
  <2> QED BY <2>1 DEF Fail, Spend, BudgetOK
<1>5. Mark(s) \/ Refuse(s)
  <2>1. Next
      BY <1>3 DEF RestoreNext, StartRestore, RestoreRequest, Raised, Accepted, Isolated, Halved, vars
  <2>2. ~Server
      BY <1>3 DEF Server, Upload, Name, Trash, Purge, Webhook
  <2> QED BY <1>1, <1>2, <1>4, <2>1, <2>2, OthersDoNot DEF Next, RunInv
<1>6. /\ op[s].queued \in Nat /\ op[s].limit \in Nat /\ op[s].wrote \in Nat
      /\ op[s].queued < op[s].limit
    BY <1>1 DEF Sound
<1>7. ASSUME NEW m, DOMAIN m = Fields, NextCandidate(m) = Quiet PROVE m.queued >= m.limit
  <2>1. \A b : [m EXCEPT !.pc = "verify", !.batch = b].pc = "verify"
      BY <1>7 DEF Fields
  <2>2. \A b : [m EXCEPT !.pc = "pick", !.batch = b].pc = "pick"
      BY <1>7 DEF Fields
  <2> QED BY <1>1, <1>7, <2>1, <2>2 DEF NextCandidate
<1>8. CASE Mark(s)
  <2>1. PICK m : m = [op[s] EXCEPT !.queued = op[s].queued + 1]
      OBVIOUS
  <2>2. op'[s] = NextCandidate(m)
      BY <1>1, <1>8, <2>1 DEF Mark
  <2>3. DOMAIN m = Fields /\ m.queued = op[s].queued + 1 /\ m.limit = op[s].limit
      BY <1>1, <2>1 DEF Fields
  <2>4. op[s].wrote = op[s].queued + 1
      BY <1>1, <1>8 DEF Sound, Mark, At
  <2> QED BY <1>6, <1>7, <2>2, <2>3, <2>4
<1>9. CASE Refuse(s)
  <2>1. PICK m : m = [op[s] EXCEPT !.verdict = "none"]
      OBVIOUS
  <2>2. op'[s] = NextCandidate(m)
      BY <1>1, <1>9, <2>1 DEF Refuse
  <2>3. DOMAIN m = Fields /\ m.queued = op[s].queued /\ m.limit = op[s].limit
      BY <1>1, <2>1 DEF Fields
  <2> QED BY <1>6, <1>7, <2>2, <2>3
<1> QED BY <1>5, <1>8, <1>9

(***************************************************************************)
(* A run that ends on its own ends with exactly --limit jobs written, or   *)
(* for want of candidates (backfill.py 279-282).                           *)
(***************************************************************************)
THEOREM LimitsAreReached == RestoreSafe => LimitIsReached
<1>1. RestoreInit => BudgetOK
    BY BackfillAssumption DEF RestoreInit, Init, BudgetOK, BackfillAssumption
<1>2. RunInv /\ BudgetOK /\ [RestoreNext]_vars =>
          [\A s \in Session :
              (At(s, "mark") \/ At(s, "refuse")) /\ op'[s] = Quiet /\ left' = left =>
                  op[s].wrote = op[s].limit]_bvars
    BY SessionEnds
<1> QED BY <1>1, <1>2, RunInit, RunStepPreserves, BudgetStep, PTL DEF RestoreSafe, LimitIsReached

-----------------------------------------------------------------------------
\* The restore.

Phase == {"idle", "request", "done", "raised"}

Restoring == [pc : Phase, rest : Seq(Asset), todo : Seq(Seq(Asset)), chunk : {1, ChunkSize},
              missing : SUBSET Asset, lost : Nat, back : SUBSET Asset, asked : Nat]

\* Nothing of a sequence is lost where it is cut.
LEMMA Cut ==
    ASSUME NEW q \in Seq(Asset), NEW n \in 0..Len(q)
    PROVE  /\ SubSeq(q, 1, n) \in Seq(Asset) /\ SubSeq(q, n + 1, Len(q)) \in Seq(Asset)
           /\ Elements(q) = Elements(SubSeq(q, 1, n)) \cup Elements(SubSeq(q, n + 1, Len(q)))
<1> DEFINE k == Len(q)
           x == SubSeq(q, 1, n)
           y == SubSeq(q, n + 1, k)
<1>1. k \in Nat /\ n \in Nat /\ n <= k /\ \A i \in 1..k : q[i] \in Asset
    BY ElementOfSeq
<1>2. /\ x \in Seq(Asset) /\ Len(x) = n
      /\ \A i \in 1..n : x[i] = q[i]
  <2>1. \A i \in 1..n : q[i] \in Asset
      BY <1>1
  <2>2. /\ x \in Seq(Asset)
        /\ Len(x) = IF 1 <= n THEN n - 1 + 1 ELSE 0
        /\ \A i \in 1..(n - 1 + 1) : x[i] = q[1 + i - 1]
      BY <1>1, <2>1, SubSeqProperties
  <2> QED BY <1>1, <2>2
<1>3. /\ y \in Seq(Asset) /\ Len(y) = k - n
      /\ \A i \in 1..(k - n) : y[i] = q[n + i]
  <2>1. \A i \in (n + 1)..k : q[i] \in Asset
      BY <1>1
  <2>2. /\ y \in Seq(Asset)
        /\ Len(y) = IF n + 1 <= k THEN k - (n + 1) + 1 ELSE 0
        /\ \A i \in 1..(k - (n + 1) + 1) : y[i] = q[(n + 1) + i - 1]
      BY <1>1, <2>1, SubSeqProperties
  <2> QED BY <1>1, <2>2
<1>4. DOMAIN x = 1..n /\ DOMAIN y = 1..(k - n) /\ DOMAIN q = 1..k
    BY <1>2, <1>3
<1> HIDE DEF x, y
<1>5. ASSUME NEW e \in Elements(q) PROVE e \in Elements(x) \cup Elements(y)
  <2>1. PICK i \in 1..k : e = q[i]
      BY <1>4, <1>5 DEF Elements
  <2>2. CASE i <= n
      BY <1>1, <1>2, <1>4, <2>1, <2>2 DEF Elements
  <2>3. CASE i > n
    <3>1. i - n \in 1..(k - n) /\ n + (i - n) = i
        BY <1>1, <2>1, <2>3
    <3>2. y[i - n] = e
        BY <1>3, <2>1, <3>1
    <3> QED BY <1>4, <3>1, <3>2 DEF Elements
  <2> QED BY <1>1, <2>2, <2>3
<1>6. ASSUME NEW e \in Elements(x) \cup Elements(y) PROVE e \in Elements(q)
  <2>1. CASE e \in Elements(x)
      BY <1>1, <1>2, <1>4, <2>1 DEF Elements
  <2>2. CASE e \in Elements(y)
    <3>1. PICK i \in 1..(k - n) : e = y[i]
        BY <1>4, <2>2 DEF Elements
    <3>2. n + i \in 1..k /\ e = q[n + i]
        BY <1>1, <1>3, <3>1
    <3> QED BY <1>4, <3>2 DEF Elements
  <2> QED BY <1>6, <2>1, <2>2
<1>7. Elements(q) = Elements(x) \cup Elements(y)
    BY <1>5, <1>6
<1> QED BY <1>2, <1>3, <1>7 DEF x, y

\* Nor does anything get longer.
LEMMA CutLengths ==
    ASSUME NEW q \in Seq(Asset), NEW n \in 0..Len(q)
    PROVE  /\ SubSeq(q, 1, n) \in Seq(Asset) /\ Len(SubSeq(q, 1, n)) = n
           /\ SubSeq(q, n + 1, Len(q)) \in Seq(Asset)
           /\ Len(SubSeq(q, n + 1, Len(q))) = Len(q) - n
<1>1. Len(q) \in Nat /\ n \in Nat /\ n <= Len(q) /\ \A i \in 1..Len(q) : q[i] \in Asset
    BY ElementOfSeq
<1>2. /\ SubSeq(q, 1, n) \in Seq(Asset)
      /\ Len(SubSeq(q, 1, n)) = IF 1 <= n THEN n - 1 + 1 ELSE 0
  <2>1. \A i \in 1..n : q[i] \in Asset
      BY <1>1
  <2> QED BY <1>1, <2>1, SubSeqProperties
<1>3. /\ SubSeq(q, n + 1, Len(q)) \in Seq(Asset)
      /\ Len(SubSeq(q, n + 1, Len(q)))
            = IF n + 1 <= Len(q) THEN Len(q) - (n + 1) + 1 ELSE 0
  <2>1. \A i \in (n + 1)..Len(q) : q[i] \in Asset
      BY <1>1
  <2> QED BY <1>1, <2>1, SubSeqProperties
<1> QED BY <1>1, <1>2, <1>3

\* What is on the stack, seen from its top.
LEMMA TopOfStack ==
    ASSUME NEW t \in Seq(Seq(Asset)), t # <<>>
    PROVE  /\ Head(t) \in Seq(Asset) /\ Tail(t) \in Seq(Seq(Asset))
           /\ InBatches(t) = Elements(Head(t)) \cup InBatches(Tail(t))
<1>1. /\ Head(t) \in Seq(Asset) /\ Tail(t) \in Seq(Seq(Asset)) /\ Len(Tail(t)) = Len(t) - 1
      /\ \A i \in 1..Len(Tail(t)) : Tail(t)[i] = t[i + 1]
    BY HeadTailProperties
<1> DEFINE k == Len(t)
           u == Tail(t)
<1>2. k \in Nat /\ k # 0
    BY EmptySeq
<1>3. DOMAIN t = 1..k /\ DOMAIN u = 1..(k - 1) /\ Head(t) = t[1]
    BY <1>1, <1>2
<1>4. \A i \in 1..(k - 1) : u[i] = t[i + 1]
    BY <1>1
<1> HIDE DEF k, u
<1>5. ASSUME NEW e \in InBatches(t) PROVE e \in Elements(Head(t)) \cup InBatches(u)
  <2>1. PICK i \in 1..k : e \in Elements(t[i])
      BY <1>3, <1>5 DEF InBatches
  <2>2. CASE i = 1
      BY <1>3, <2>1, <2>2
  <2>3. CASE i # 1
    <3>1. i - 1 \in 1..(k - 1) /\ u[i - 1] = t[i]
        BY <1>2, <1>4, <2>1, <2>3
    <3> QED BY <1>3, <2>1, <3>1 DEF InBatches
  <2> QED BY <2>2, <2>3
<1>6. ASSUME NEW e \in Elements(Head(t)) \cup InBatches(u) PROVE e \in InBatches(t)
  <2>1. CASE e \in Elements(Head(t))
    <3>1. 1 \in 1..k
        BY <1>2
    <3> QED BY <1>3, <2>1, <3>1 DEF InBatches
  <2>2. CASE e \in InBatches(u)
    <3>1. PICK i \in 1..(k - 1) : e \in Elements(u[i])
        BY <1>3, <2>2 DEF InBatches
    <3>2. i + 1 \in 1..k /\ u[i] = t[i + 1]
        BY <1>2, <1>4, <3>1
    <3> QED BY <1>3, <3>1, <3>2 DEF InBatches
  <2> QED BY <1>6, <2>1, <2>2
<1>7. InBatches(t) = Elements(Head(t)) \cup InBatches(u)
    BY <1>5, <1>6
<1> QED BY <1>1, <1>7 DEF u

LEMMA ShortStacks ==
    /\ InBatches(<<>>) = {}
    /\ \A x : InBatches(<<x>>) = Elements(x)
<1>1. DOMAIN <<>> = {}
    OBVIOUS
<1>2. \A x : DOMAIN <<x>> = {1} /\ <<x>>[1] = x
    OBVIOUS
<1> QED BY <1>1, <1>2 DEF InBatches

LEMMA TwoMore ==
    ASSUME NEW x \in Seq(Asset), NEW y \in Seq(Asset), NEW t \in Seq(Seq(Asset))
    PROVE  /\ <<x, y>> \o t \in Seq(Seq(Asset)) /\ <<x, y>> \o t # <<>>
           /\ InBatches(<<x, y>> \o t) = Elements(x) \cup Elements(y) \cup InBatches(t)
<1> DEFINE k == Len(t)
           u == <<x, y>> \o t
<1>1. k \in Nat /\ <<x, y>> \in Seq(Seq(Asset)) /\ Len(<<x, y>>) = 2
    OBVIOUS
<1>2. /\ u \in Seq(Seq(Asset)) /\ Len(u) = 2 + k
      /\ \A i \in 1..(2 + k) : u[i] = IF i <= 2 THEN <<x, y>>[i] ELSE t[i - 2]
    BY <1>1, ConcatProperties
<1>3. DOMAIN t = 1..k /\ DOMAIN u = 1..(2 + k)
    BY <1>2
<1>4. 1 \in 1..(2 + k) /\ 2 \in 1..(2 + k)
    BY <1>1
<1>5. u[1] = x /\ u[2] = y
    BY <1>2, <1>4
<1>6. \A i \in 1..k : i + 2 \in 1..(2 + k) /\ u[i + 2] = t[i]
    BY <1>1, <1>2
<1>7. u # <<>>
  <2>1. Len(u) # 0
      BY <1>1, <1>2
  <2> QED BY <1>2, <2>1, EmptySeq
<1> HIDE DEF u
<1>8. ASSUME NEW e \in InBatches(u) PROVE e \in Elements(x) \cup Elements(y) \cup InBatches(t)
  <2>1. PICK i \in 1..(2 + k) : e \in Elements(u[i])
      BY <1>3, <1>8 DEF InBatches
  <2>2. CASE i = 1 \/ i = 2
      BY <1>5, <2>1, <2>2
  <2>3. CASE i > 2
    <3>1. i - 2 \in 1..k /\ u[i] = t[i - 2]
        BY <1>1, <1>2, <2>1, <2>3
    <3> QED BY <1>3, <2>1, <3>1 DEF InBatches
  <2> QED BY <1>1, <2>1, <2>2, <2>3
<1>9. ASSUME NEW e \in Elements(x) \cup Elements(y) \cup InBatches(t) PROVE e \in InBatches(u)
  <2>1. CASE e \in Elements(x) \cup Elements(y)
      BY <1>3, <1>4, <1>5, <2>1 DEF InBatches
  <2>2. CASE e \in InBatches(t)
    <3>1. PICK i \in 1..k : e \in Elements(t[i])
        BY <1>3, <2>2 DEF InBatches
    <3> QED BY <1>3, <1>6, <3>1 DEF InBatches
  <2> QED BY <1>9, <2>1, <2>2
<1>10. InBatches(u) = Elements(x) \cup Elements(y) \cup InBatches(t)
    BY <1>8, <1>9
<1> QED BY <1>2, <1>7, <1>10 DEF u

\* Between two chunks nothing is lost, and what is asked next is there.
LEMMA NextChunkCovers ==
    ASSUME NEW r \in Restoring, r.pc = "request" \/ r.todo = <<>>
    PROVE  /\ NextChunk(r) \in Restoring
           /\ Covered(NextChunk(r)) = Covered(r)
           /\ NextChunk(r).missing = r.missing
           /\ NextChunk(r).pc = "request" => NextChunk(r).todo # <<>>
<1>1. CASE r.todo # <<>>
    BY <1>1 DEF NextChunk
<1> SUFFICES ASSUME r.todo = <<>>
             PROVE  /\ NextChunk(r) \in Restoring
                    /\ Covered(NextChunk(r)) = Covered(r)
                    /\ NextChunk(r).missing = r.missing
                    /\ NextChunk(r).pc = "request" => NextChunk(r).todo # <<>>
    BY <1>1
<1>2. PICK chunk \in {1, ChunkSize} :
          chunk = IF r.chunk > 1 /\ 2 * r.lost > Len(Ids) - Len(r.rest) THEN 1 ELSE r.chunk
    BY DEF Restoring
<1>3. r.rest \in Seq(Asset) /\ Len(r.rest) \in Nat /\ chunk \in Nat
    BY RestoreAssumption DEF Restoring, RestoreAssumption
<1>4. PICK n : n = Least(chunk, Len(r.rest))
    OBVIOUS
<1>5. n \in 0..Len(r.rest)
    BY <1>3, <1>4 DEF Least
<1>6. PICK x \in Seq(Asset) : x = SubSeq(r.rest, 1, n)
    BY <1>3, <1>5, Cut
<1>7. PICK y \in Seq(Asset) : y = SubSeq(r.rest, n + 1, Len(r.rest))
    BY <1>3, <1>5, Cut
<1>8. Elements(r.rest) = Elements(x) \cup Elements(y)
    BY <1>3, <1>5, <1>6, <1>7, Cut
<1>9. PICK m : m = IF r.rest = <<>> THEN [r EXCEPT !.pc = "done", !.chunk = chunk]
                   ELSE [r EXCEPT !.pc = "request", !.chunk = chunk, !.todo = <<x>>, !.rest = y]
    OBVIOUS
<1>10. NextChunk(r) = m
    BY <1>2, <1>4, <1>6, <1>7, <1>9 DEF NextChunk
<1>11. <<x>> \in Seq(Seq(Asset)) /\ <<x>> # <<>>
    OBVIOUS
<1>12. CASE r.rest = <<>>
  <2>1. m \in Restoring /\ m.rest = r.rest /\ m.todo = r.todo /\ m.back = r.back
        /\ m.missing = r.missing /\ m.pc = "done"
      BY <1>9, <1>12 DEF Restoring, Phase
  <2> QED BY <1>10, <2>1 DEF Covered
<1>13. CASE r.rest # <<>>
  <2>1. m \in Restoring /\ m.rest = y /\ m.todo = <<x>> /\ m.back = r.back
        /\ m.missing = r.missing /\ m.pc = "request"
      BY <1>9, <1>11, <1>13 DEF Restoring, Phase
  <2>2. InBatches(r.todo) = {} /\ InBatches(<<x>>) = Elements(x)
      BY ShortStacks
  <2>3. Covered(m) = Covered(r)
      BY <1>8, <2>1, <2>2 DEF Covered
  <2> QED BY <1>10, <1>11, <2>1, <2>3
<1> QED BY <1>12, <1>13

-----------------------------------------------------------------------------
(***************************************************************************)
(* What makes EveryIdAnswered inductive: a request is only made while      *)
(* there is something on the stack, and a restore that has not begun has   *)
(* everything before it.                                                   *)
(***************************************************************************)
AnswerInv ==
    /\ status \in [Asset -> Statuses]
    /\ rs \in Restoring
    /\ rs.pc = "request" => rs.todo # <<>>
    /\ rs.pc = "idle" => rs = NotStarted
    /\ EveryIdAnswered

LEMMA NotStartedIs ==
    /\ NotStarted \in Restoring /\ NotStarted.pc = "idle" /\ NotStarted.todo = <<>>
    /\ NotStarted.missing = {} /\ Covered(NotStarted) = Elements(Ids)
<1>1. NotStarted \in Restoring
    BY RestoreAssumption DEF NotStarted, Restoring, Phase, RestoreAssumption
<1>2. Covered(NotStarted) = Elements(Ids)
    BY ShortStacks DEF Covered, NotStarted
<1> QED BY <1>1, <1>2 DEF NotStarted

\* A request has been dealt with and the next is chosen.
LEMMA AfterRequest ==
    ASSUME NEW m \in Restoring, m.pc = "request", rs' = NextChunk(m),
           status' \in [Asset -> Statuses], Elements(Ids) = Covered(m),
           \A a \in m.missing : status'[a] = "gone"
    PROVE  AnswerInv'
<1>1. /\ NextChunk(m) \in Restoring
      /\ Covered(NextChunk(m)) = Covered(m)
      /\ NextChunk(m).missing = m.missing
      /\ NextChunk(m).pc = "request" => NextChunk(m).todo # <<>>
    BY NextChunkCovers
<1>2. NextChunk(m).pc # "idle"
  <2>1. CASE m.todo # <<>>
      BY <2>1 DEF NextChunk
  <2>2. CASE m.todo = <<>>
    <3>1. PICK c, t, u :
              \/ NextChunk(m) = [m EXCEPT !.pc = "done", !.chunk = c]
              \/ NextChunk(m) = [m EXCEPT !.pc = "request", !.chunk = c, !.todo = t, !.rest = u]
        BY <2>2 DEF NextChunk
    <3> QED BY <3>1 DEF Restoring
  <2> QED BY <2>1, <2>2
<1>3. EveryIdAnswered'
    BY <1>1 DEF EveryIdAnswered
<1> QED BY <1>1, <1>2, <1>3 DEF AnswerInv

LEMMA RequestAnswered ==
    ASSUME AnswerInv, RestoreRequest
    PROVE  AnswerInv'
<1>1. PICK batch \in Seq(Asset) : batch = Head(rs.todo)
    BY TopOfStack DEF AnswerInv, RestoreRequest, Accepted, Isolated, Halved, Restoring
<1>2. PICK t \in Seq(Seq(Asset)) : t = Tail(rs.todo) /\ InBatches(rs.todo) = Elements(batch) \cup InBatches(t)
    BY <1>1, TopOfStack DEF AnswerInv, RestoreRequest, Accepted, Isolated, Halved, Restoring
<1>3. /\ rs \in Restoring /\ rs.pc = "request" /\ rs.asked + 1 \in Nat /\ rs.lost + 1 \in Nat
      /\ Elements(batch) \in SUBSET Asset
  <2>1. \A i \in DOMAIN batch : batch[i] \in Asset
      BY ElementOfSeq
  <2> QED BY <2>1 DEF AnswerInv, RestoreRequest, Accepted, Isolated, Halved, Restoring, Elements
<1>4. EveryIdAnswered
    BY DEF AnswerInv
<1>5. CASE Accepted
  <2>1. PICK m : m = [rs EXCEPT !.todo = t, !.asked = rs.asked + 1,
                                !.back = rs.back \cup Elements(batch)]
      OBVIOUS
  <2>2. /\ m \in Restoring /\ m.pc = "request" /\ m.rest = rs.rest /\ m.todo = t
        /\ m.back = rs.back \cup Elements(batch) /\ m.missing = rs.missing
      BY <1>3, <2>1 DEF Restoring
  <2>3. rs' = NextChunk(m)
      BY <1>1, <1>2, <1>5, <2>1 DEF Accepted
  <2>4. Covered(m) = Covered(rs)
      BY <1>2, <2>2 DEF Covered
  <2>5. /\ status' \in [Asset -> Statuses]
        /\ \A a \in Asset : status[a] = "gone" => status'[a] = "gone"
      BY <1>5 DEF Accepted, AnswerInv, Statuses
  <2>6. \A a \in m.missing : status'[a] = "gone"
      BY <1>4, <2>2, <2>5 DEF EveryIdAnswered, Restoring
  <2> QED BY <1>4, <2>2, <2>3, <2>4, <2>5, <2>6, AfterRequest DEF EveryIdAnswered
<1>6. CASE Isolated
  <2>1. PICK m : m = [rs EXCEPT !.todo = t, !.asked = rs.asked + 1,
                                !.missing = rs.missing \cup Elements(batch),
                                !.lost = rs.lost + 1]
      OBVIOUS
  <2>2. /\ m \in Restoring /\ m.pc = "request" /\ m.rest = rs.rest /\ m.todo = t
        /\ m.missing = rs.missing \cup Elements(batch) /\ m.back = rs.back
      BY <1>3, <2>1 DEF Restoring
  <2>3. rs' = NextChunk(m) /\ status' = status
      BY <1>1, <1>2, <1>6, <2>1 DEF Isolated
  <2>4. Covered(m) = Covered(rs)
      BY <1>2, <2>2 DEF Covered
  <2>5. \A a \in Elements(batch) : status[a] = "gone"
    <3>1. Len(batch) = 1 /\ ~Known(batch)
        BY <1>1, <1>6 DEF Isolated
    <3>2. DOMAIN batch = {1}
        BY <3>1
    <3>3. Elements(batch) = {batch[1]}
        BY <3>2 DEF Elements
    <3> QED BY <3>1, <3>3 DEF Known
  <2>6. \A a \in m.missing : status'[a] = "gone"
      BY <1>4, <2>2, <2>3, <2>5 DEF EveryIdAnswered
  <2>7. status' \in [Asset -> Statuses]
      BY <2>3 DEF AnswerInv
  <2> QED BY <1>4, <2>2, <2>3, <2>4, <2>6, <2>7, AfterRequest DEF EveryIdAnswered
<1>7. CASE Halved
  <2>1. PICK k \in 0..Len(batch) : k = Len(batch) \div 2
    <3>1. Len(batch) \in Nat
        OBVIOUS
    <3>2. Len(batch) \div 2 \in 0..Len(batch)
        BY <3>1
    <3> QED BY <3>2
  <2>2. PICK x \in Seq(Asset), y \in Seq(Asset) :
            x = SubSeq(batch, 1, k) /\ y = SubSeq(batch, k + 1, Len(batch))
            /\ Elements(batch) = Elements(x) \cup Elements(y)
    <3>1. /\ SubSeq(batch, 1, k) \in Seq(Asset) /\ SubSeq(batch, k + 1, Len(batch)) \in Seq(Asset)
          /\ Elements(batch) = Elements(SubSeq(batch, 1, k))
                                 \cup Elements(SubSeq(batch, k + 1, Len(batch)))
        BY Cut
    <3> QED BY <3>1, Zenon
  <2>3. PICK u \in Seq(Seq(Asset)) :
            u = <<x, y>> \o t /\ u # <<>> /\ InBatches(u) = Elements(x) \cup Elements(y) \cup InBatches(t)
    <3>1. /\ <<x, y>> \o t \in Seq(Seq(Asset)) /\ <<x, y>> \o t # <<>>
          /\ InBatches(<<x, y>> \o t) = Elements(x) \cup Elements(y) \cup InBatches(t)
        BY TwoMore
    <3> QED BY <3>1, Zenon
  <2>4. rs' = [rs EXCEPT !.asked = rs.asked + 1, !.todo = u] /\ status' = status
      BY <1>1, <1>2, <1>7, <2>1, <2>2, <2>3 DEF Halved
  <2>5. /\ rs' \in Restoring /\ rs'.pc = "request" /\ rs'.rest = rs.rest /\ rs'.todo = u
        /\ rs'.missing = rs.missing /\ rs'.back = rs.back
      BY <1>3, <2>4 DEF Restoring
  <2>6. EveryIdAnswered'
      BY <1>2, <1>4, <2>2, <2>3, <2>4, <2>5 DEF EveryIdAnswered, Covered
  <2> QED BY <2>3, <2>4, <2>5, <2>6 DEF AnswerInv
<1> QED BY <1>5, <1>6, <1>7 DEF RestoreRequest

\* What is reported missing was never in the library to be uploaded.
LEMMA MissingStaysGone ==
    ASSUME AnswerInv, Next, UNCHANGED rs
    PROVE  \A a \in rs.missing : status'[a] = "gone"
<1> SUFFICES ASSUME NEW a \in rs.missing PROVE status'[a] = "gone"
    OBVIOUS
<1>1. a \in Asset /\ status[a] = "gone" /\ a \in Elements(Ids)
    BY DEF AnswerInv, EveryIdAnswered, Covered, Restoring
<1>2. a \notin Uploads
    BY <1>1, RestoreAssumption DEF RestoreAssumption, Elements
<1>3. CASE Server
    BY <1>1, <1>2, <1>3 DEF Server, Upload, Name, Trash, Purge, Webhook, AnswerInv
<1>4. CASE UNCHANGED status
    BY <1>1, <1>4
<1> QED
    BY <1>3, <1>4 DEF Next, StartScan, ScanStep, ClearInventory, ClearCursor, ReadCursor, Fetch,
       StopAtMaxPages, RecordPage, SaveCursor, CompleteWalk, StartRun, RunStep, ReadStats, Pick,
       Verify, Enqueue, Refuse, Mark, Fail

LEMMA AnswerStep == RunInv' /\ AnswerInv /\ [RestoreNext]_vars => AnswerInv'
<1> SUFFICES ASSUME RunInv', AnswerInv, [RestoreNext]_vars PROVE AnswerInv'
    OBVIOUS
<1>0. status' \in [Asset -> Statuses]
    BY DEF RunInv
<1>1. CASE Next /\ UNCHANGED rs
    BY <1>0, <1>1, MissingStaysGone DEF AnswerInv, EveryIdAnswered
<1>2. CASE StartRestore
  <2>1. rs = NotStarted /\ rs' = NextChunk(NotStarted) /\ rs.pc = "idle"
      BY <1>2 DEF StartRestore, AnswerInv
  <2>2. /\ NextChunk(NotStarted) \in Restoring
        /\ Covered(NextChunk(NotStarted)) = Elements(Ids)
        /\ NextChunk(NotStarted).missing = {}
        /\ NextChunk(NotStarted).pc = "request" => NextChunk(NotStarted).todo # <<>>
      BY NotStartedIs, NextChunkCovers
  <2>3. NextChunk(NotStarted).pc # "idle"
    <3>1. NotStarted.todo = <<>> /\ NotStarted \in Restoring
        BY NotStartedIs
    <3>2. PICK c, t, u :
              \/ NextChunk(NotStarted) = [NotStarted EXCEPT !.pc = "done", !.chunk = c]
              \/ NextChunk(NotStarted) = [NotStarted EXCEPT !.pc = "request", !.chunk = c,
                                                            !.todo = t, !.rest = u]
        BY <3>1 DEF NextChunk
    <3> QED BY <3>1, <3>2 DEF Restoring
  <2>4. EveryIdAnswered'
      BY <2>1, <2>2 DEF EveryIdAnswered
  <2> QED BY <1>0, <2>1, <2>2, <2>3, <2>4 DEF AnswerInv
<1>3. CASE RestoreRequest
    BY <1>3, RequestAnswered
<1>4. CASE Raised
  <2>1. rs' = [rs EXCEPT !.pc = "raised"] /\ status' = status
      BY <1>4 DEF Raised
  <2>2. /\ rs' \in Restoring /\ rs'.pc = "raised" /\ rs'.rest = rs.rest /\ rs'.todo = rs.todo
        /\ rs'.missing = rs.missing /\ rs'.back = rs.back
      BY <2>1 DEF AnswerInv, Restoring, Phase
  <2>3. Covered(rs') = Covered(rs)
      BY <2>2 DEF Covered
  <2> QED BY <1>0, <2>1, <2>2, <2>3 DEF AnswerInv, EveryIdAnswered
<1>5. CASE UNCHANGED vars
    BY <1>5 DEF vars, AnswerInv, EveryIdAnswered
<1> QED BY <1>1, <1>2, <1>3, <1>4, <1>5 DEF RestoreNext

LEMMA AnswerAlways == RestoreSafe => []AnswerInv
<1>1. RestoreInit => AnswerInv
  <2> SUFFICES ASSUME RestoreInit PROVE AnswerInv
      OBVIOUS
  <2>1. rs = NotStarted /\ status \in [Asset -> Statuses]
      BY RunInit DEF RestoreInit, RunInv
  <2>2. EveryIdAnswered
      BY <2>1, NotStartedIs DEF EveryIdAnswered
  <2> QED BY <2>1, <2>2, NotStartedIs DEF AnswerInv
<1> QED BY <1>1, RunInit, RunStepPreserves, AnswerStep, PTL DEF RestoreSafe

(***************************************************************************)
(* The state of a restore keeps its type: the stack holds batches of       *)
(* assets, and the chunk is whole or one.                                  *)
(***************************************************************************)
THEOREM RestoreTypes == RestoreSafe => []RestoreTypeOK
<1>1. AnswerInv => RestoreTypeOK
    BY DEF AnswerInv, RestoreTypeOK, Restoring, Phase
<1> QED BY <1>1, AnswerAlways, PTL

(***************************************************************************)
(* For any ids, any chunk size and any library that changes meanwhile, no  *)
(* id falls between the halves and none is called missing that the server  *)
(* still has (api.py 425-430, 454-462).                                    *)
(***************************************************************************)
THEOREM EveryIdIsAnswered == RestoreSafe => []EveryIdAnswered
<1>1. AnswerInv => EveryIdAnswered
    BY DEF AnswerInv
<1> QED BY <1>1, AnswerAlways, PTL

-----------------------------------------------------------------------------
(***************************************************************************)
(* The cost of a restore.  A batch of n ids costs 2n - 1 requests at most: *)
(* its halves cost 2 less than that together, and the batch itself one.    *)
(* c[i] is what the batches from the i-th on may cost.                     *)
(***************************************************************************)
Costs(t, c) ==
    /\ c \in [1..(Len(t) + 1) -> Nat]
    /\ c[Len(t) + 1] = 0
    /\ \A i \in 1..Len(t) : Len(t[i]) >= 1 /\ c[i] = c[i + 1] + 2 * Len(t[i]) - 1

Bill(t, n) == \E c : Costs(t, c) /\ c[1] = n

\* With l ids still to be taken by a chunk, n requests stay below two for each
\* of the others.
Within(n, l) ==
    \/ l = Len(Ids) /\ n = 0
    \/ l < Len(Ids) /\ n + 1 <= 2 * (Len(Ids) - l)

\* What was asked and what is on the stack do.
Paid(r) == \E n \in Nat : Bill(r.todo, n) /\ Within(r.asked + n, Len(r.rest))

\* A chunk of n of the l ids that are left; one request less to be made.
LEMMA WithinFacts ==
    ASSUME NEW a \in Nat, NEW l \in Nat
    PROVE  /\ \A n \in 1..l : Within(a, l) => Within(a + (2 * n - 1), l - n)
           /\ \A b \in Nat : Within(a, l) /\ b <= a => Within(b, l)
<1>1. PICK k \in Nat : k = Len(Ids)
    BY RestoreAssumption DEF RestoreAssumption
<1>2. ASSUME NEW n \in 1..l, Within(a, l) PROVE Within(a + (2 * n - 1), l - n)
  <2>1. (l = k /\ a = 0) \/ (l < k /\ a + 1 <= 2 * (k - l))
      BY <1>1, <1>2 DEF Within
  <2>2. l - n < k /\ (a + (2 * n - 1)) + 1 <= 2 * (k - (l - n))
      BY <2>1
  <2> QED BY <1>1, <2>2 DEF Within
<1>3. ASSUME NEW b \in Nat, Within(a, l), b <= a PROVE Within(b, l)
  <2>1. (l = k /\ a = 0) \/ (l < k /\ a + 1 <= 2 * (k - l))
      BY <1>1, <1>3 DEF Within
  <2>2. (l = k /\ b = 0) \/ (l < k /\ b + 1 <= 2 * (k - l))
      BY <1>3, <2>1
  <2> QED BY <1>1, <2>2 DEF Within
<1> QED BY <1>2, <1>3

LEMMA BillOfNone ==
    /\ Bill(<<>>, 0)
    /\ \A n : Bill(<<>>, n) => n = 0
<1>1. Len(<<>>) = 0
    OBVIOUS
<1> DEFINE c == [i \in 1..1 |-> 0]
<1>2. c \in [1..1 -> Nat] /\ c[1] = 0
    OBVIOUS
<1> HIDE DEF c
<1>3. Costs(<<>>, c)
    BY <1>1, <1>2 DEF Costs
<1>4. Bill(<<>>, 0)
    BY <1>2, <1>3 DEF Bill
<1>5. ASSUME NEW n, NEW d, Costs(<<>>, d), d[1] = n PROVE n = 0
    BY <1>1, <1>5 DEF Costs
<1> QED BY <1>4, <1>5 DEF Bill

LEMMA BillOfOne ==
    ASSUME NEW x \in Seq(Asset), Len(x) >= 1
    PROVE  Bill(<<x>>, 2 * Len(x) - 1)
<1> DEFINE c == [i \in 1..2 |-> IF i = 1 THEN 2 * Len(x) - 1 ELSE 0]
<1>1. Len(<<x>>) = 1 /\ <<x>>[1] = x /\ Len(x) \in Nat
    OBVIOUS
<1>2. 2 * Len(x) - 1 \in Nat
    BY <1>1
<1>3. c \in [1..2 -> Nat] /\ c[1] = 2 * Len(x) - 1 /\ c[2] = 0
    BY <1>2
<1> HIDE DEF c
<1>4. Costs(<<x>>, c)
    BY <1>1, <1>2, <1>3 DEF Costs
<1> QED BY <1>3, <1>4 DEF Bill

\* The batch on top is paid for.
LEMMA BillOfTop ==
    ASSUME NEW t \in Seq(Seq(Asset)), t # <<>>, NEW n \in Nat, Bill(t, n)
    PROVE  /\ Len(Head(t)) >= 1
           /\ \E m \in Nat : Bill(Tail(t), m) /\ n = m + 2 * Len(Head(t)) - 1
<1> DEFINE k == Len(t)
           u == Tail(t)
<1>1. u \in Seq(Seq(Asset)) /\ Len(u) = k - 1 /\ \A i \in 1..Len(u) : u[i] = t[i + 1]
    BY HeadTailProperties
<1>2. k \in Nat /\ k # 0 /\ Head(t) = t[1] /\ t[1] \in Seq(Asset)
    BY EmptySeq, TopOfStack
<1>3. PICK c : Costs(t, c) /\ c[1] = n
    BY DEF Bill
<1>4. /\ c \in [1..(k + 1) -> Nat] /\ c[k + 1] = 0
      /\ \A i \in 1..k : Len(t[i]) >= 1 /\ c[i] = c[i + 1] + 2 * Len(t[i]) - 1
    BY <1>3 DEF Costs
<1> DEFINE d == [i \in 1..k |-> c[i + 1]]
<1> HIDE DEF k, u
<1>5. \A i \in 1..k : i + 1 \in 1..(k + 1)
    BY <1>2
<1>6. d \in [1..k -> Nat] /\ d[k] = 0 /\ d[1] = c[2]
    BY <1>2, <1>4, <1>5
<1>7. ASSUME NEW i \in 1..Len(u) PROVE Len(u[i]) >= 1 /\ d[i] = d[i + 1] + 2 * Len(u[i]) - 1
  <2>1. i + 1 \in 1..k /\ i \in 1..k /\ u[i] = t[i + 1]
      BY <1>1, <1>2
  <2>2. d[i] = c[i + 1] /\ d[i + 1] = c[(i + 1) + 1]
      BY <2>1
  <2> QED BY <1>4, <2>1, <2>2
<1>8. Len(u) + 1 = k
    BY <1>1, <1>2
<1> HIDE DEF d
<1>9. Costs(u, d)
    BY <1>6, <1>7, <1>8 DEF Costs
<1>10. Bill(u, c[2]) /\ c[2] \in Nat
    BY <1>2, <1>4, <1>5, <1>6, <1>9 DEF Bill
<1>11. Len(Head(t)) >= 1 /\ n = c[2] + 2 * Len(Head(t)) - 1
    BY <1>2, <1>3, <1>4
<1> QED BY <1>10, <1>11 DEF u

\* Two batches are put on top.
LEMMA BillOfTwoMore ==
    ASSUME NEW x \in Seq(Asset), NEW y \in Seq(Asset), NEW t \in Seq(Seq(Asset)),
           Len(x) >= 1, Len(y) >= 1, NEW n \in Nat, Bill(t, n)
    PROVE  Bill(<<x, y>> \o t, n + 2 * (Len(x) + Len(y)) - 2)
<1> DEFINE k == Len(t)
           u == <<x, y>> \o t
<1>1. k \in Nat /\ <<x, y>> \in Seq(Seq(Asset)) /\ Len(<<x, y>>) = 2
      /\ Len(x) \in Nat /\ Len(y) \in Nat
    OBVIOUS
<1>2. /\ Len(u) = 2 + k
      /\ \A i \in 1..(2 + k) : u[i] = IF i <= 2 THEN <<x, y>>[i] ELSE t[i - 2]
    BY <1>1, ConcatProperties
<1>3. PICK c : Costs(t, c) /\ c[1] = n
    BY DEF Bill
<1>4. /\ c \in [1..(k + 1) -> Nat] /\ c[k + 1] = 0
      /\ \A i \in 1..k : Len(t[i]) >= 1 /\ c[i] = c[i + 1] + 2 * Len(t[i]) - 1
    BY <1>3 DEF Costs
<1> DEFINE e == n + 2 * Len(y) - 1
           b == n + 2 * (Len(x) + Len(y)) - 2
           d == [i \in 1..(k + 3) |-> IF i = 1 THEN b ELSE IF i = 2 THEN e ELSE c[i - 2]]
<1>5. u[1] = x /\ u[2] = y /\ \A i \in 3..(2 + k) : u[i] = t[i - 2]
    BY <1>1, <1>2
<1>6. b \in Nat /\ e \in Nat /\ b = e + 2 * Len(x) - 1 /\ e = n + 2 * Len(y) - 1
    BY <1>1
<1> HIDE DEF k, u, b, e
<1>7. \A i \in 3..(k + 3) : i - 2 \in 1..(k + 1)
    BY <1>1
<1>8. d \in [1..(k + 3) -> Nat]
    BY <1>4, <1>6, <1>7
<1>9. /\ d[1] = b /\ d[2] = e /\ d[3] = n /\ d[k + 3] = 0
      /\ \A i \in 3..(k + 3) : d[i] = c[i - 2]
    BY <1>1, <1>3, <1>4, <1>7
<1> HIDE DEF d
<1>10. ASSUME NEW i \in 1..(2 + k)
       PROVE  Len(u[i]) >= 1 /\ d[i] = d[i + 1] + 2 * Len(u[i]) - 1
  <2>1. CASE i = 1
    <3>1. d[i] = b /\ d[i + 1] = e /\ u[i] = x
        BY <1>5, <1>9, <2>1
    <3> QED BY <1>6, <3>1
  <2>3. CASE i = 2
    <3>1. d[i] = e /\ d[i + 1] = n /\ u[i] = y
        BY <1>5, <1>9, <2>3
    <3> QED BY <1>6, <3>1
  <2>2. CASE i # 1 /\ i # 2
    <3>1. /\ i \in 3..(2 + k) /\ i - 2 \in 1..k /\ i + 1 \in 3..(k + 3)
          /\ (i + 1) - 2 = (i - 2) + 1
        BY <1>1, <2>2
    <3>2. d[i] = c[i - 2] /\ d[i + 1] = c[(i - 2) + 1] /\ u[i] = t[i - 2]
        BY <1>1, <1>5, <1>9, <3>1
    <3> QED BY <1>4, <3>1, <3>2
  <2> QED BY <2>1, <2>2, <2>3
<1>11. Len(u) + 1 = k + 3
    BY <1>1, <1>2
<1>12. Costs(u, d)
  <2>1. d \in [1..(Len(u) + 1) -> Nat] /\ d[Len(u) + 1] = 0
      BY <1>8, <1>9, <1>11
  <2> QED BY <1>2, <1>10, <2>1 DEF Costs
<1>13. Bill(u, b)
    BY <1>9, <1>12 DEF Bill
<1> QED BY <1>13 DEF u, b

\* The next chunk adds no more to the bill than two requests for each of its ids.
LEMMA NextChunkIsPaid ==
    ASSUME NEW r \in Restoring, Paid(r)
    PROVE  Paid(NextChunk(r))
<1>1. CASE r.todo # <<>>
    BY <1>1 DEF NextChunk
<1> SUFFICES ASSUME r.todo = <<>> PROVE Paid(NextChunk(r))
    BY <1>1
<1>2. PICK chunk \in {1, ChunkSize} :
          chunk = IF r.chunk > 1 /\ 2 * r.lost > Len(Ids) - Len(r.rest) THEN 1 ELSE r.chunk
    BY DEF Restoring
<1>3. /\ r.rest \in Seq(Asset) /\ Len(r.rest) \in Nat /\ chunk \in Nat /\ chunk >= 1
      /\ r.asked \in Nat /\ Len(Ids) \in Nat
    BY RestoreAssumption DEF Restoring, RestoreAssumption
<1>4. PICK n : n = Least(chunk, Len(r.rest))
    OBVIOUS
<1>5. PICK x : x = SubSeq(r.rest, 1, n)
    OBVIOUS
<1>6. PICK y : y = SubSeq(r.rest, n + 1, Len(r.rest))
    OBVIOUS
<1>7. PICK m : m = IF r.rest = <<>> THEN [r EXCEPT !.pc = "done", !.chunk = chunk]
                   ELSE [r EXCEPT !.pc = "request", !.chunk = chunk, !.todo = <<x>>, !.rest = y]
    OBVIOUS
<1>8. NextChunk(r) = m
    BY <1>2, <1>4, <1>5, <1>6, <1>7 DEF NextChunk
<1>9. Within(r.asked, Len(r.rest))
  <2>1. PICK i \in Nat : Bill(<<>>, i) /\ Within(r.asked + i, Len(r.rest))
      BY DEF Paid
  <2>2. i = 0
      BY <2>1, BillOfNone
  <2> QED BY <1>3, <2>1, <2>2
<1>10. CASE r.rest = <<>>
  <2>1. m.rest = r.rest /\ m.todo = r.todo /\ m.asked = r.asked
      BY <1>7, <1>10 DEF Restoring
  <2> QED BY <1>8, <2>1 DEF Paid
<1>11. CASE r.rest # <<>>
  <2>1. m.rest = y /\ m.todo = <<x>> /\ m.asked = r.asked
      BY <1>7, <1>11 DEF Restoring
  <2>2. Len(r.rest) >= 1
      BY <1>3, <1>11, EmptySeq
  <2>3. n \in 1..Len(r.rest)
      BY <1>3, <1>4, <2>2 DEF Least
  <2>4. x \in Seq(Asset) /\ Len(x) = n /\ y \in Seq(Asset) /\ Len(y) = Len(r.rest) - n
      BY <1>3, <1>5, <1>6, <2>3, CutLengths
  <2>5. Bill(<<x>>, 2 * n - 1) /\ 2 * n - 1 \in Nat
      BY <2>3, <2>4, BillOfOne
  <2>6. Within(r.asked + (2 * n - 1), Len(y))
      BY <1>3, <1>9, <2>3, <2>4, WithinFacts
  <2>7. Paid(m)
      BY <2>1, <2>5, <2>6 DEF Paid
  <2> QED BY <1>8, <2>7
<1> QED BY <1>10, <1>11

\* A request was made, and the batches that are left cost one less.
LEMMA RequestIsPaid ==
    ASSUME AnswerInv, Paid(rs), RestoreRequest
    PROVE  Paid(rs')
<1>1. /\ rs \in Restoring /\ rs.todo \in Seq(Seq(Asset)) /\ rs.todo # <<>> /\ rs.pc = "request"
      /\ rs.asked \in Nat /\ rs.lost \in Nat /\ rs.missing \in SUBSET Asset /\ rs.back \in SUBSET Asset
      /\ rs.rest \in Seq(Asset) /\ Len(rs.rest) \in Nat /\ Len(Ids) \in Nat
    BY RestoreAssumption
    DEF AnswerInv, RestoreRequest, Accepted, Isolated, Halved, Restoring, RestoreAssumption
<1>2. PICK batch \in Seq(Asset) : batch = Head(rs.todo)
    BY <1>1, TopOfStack
<1>3. PICK t \in Seq(Seq(Asset)) : t = Tail(rs.todo)
    BY <1>1, TopOfStack
<1>4. PICK n \in Nat : Bill(rs.todo, n) /\ Within(rs.asked + n, Len(rs.rest))
    BY DEF Paid
<1>5. Len(batch) >= 1 /\ \E i \in Nat : Bill(t, i) /\ n = i + 2 * Len(batch) - 1
    BY <1>1, <1>2, <1>3, <1>4, BillOfTop
<1>6. PICK i \in Nat : Bill(t, i) /\ n = i + 2 * Len(batch) - 1
    BY <1>5
<1>7. Len(batch) \in Nat /\ rs.asked + 1 \in Nat /\ rs.lost + 1 \in Nat
    BY <1>1
<1>8. /\ rs.asked + 1 \in Nat /\ (rs.asked + 1) + i \in Nat
      /\ (rs.asked + 1) + i <= rs.asked + n /\ rs.asked + n \in Nat
      /\ i + 2 * Len(batch) - 2 \in Nat
      /\ (rs.asked + 1) + (i + 2 * Len(batch) - 2) = rs.asked + n
  <2>1. PICK w \in Nat : w = Len(batch) /\ w >= 1
      BY <1>5, <1>7
  <2>2. PICK a \in Nat : a = rs.asked
      BY <1>1
  <2>3. n = i + 2 * w - 1
      BY <1>6, <2>1
  <2>4. /\ a + 1 \in Nat /\ (a + 1) + i \in Nat
        /\ (a + 1) + i <= a + n /\ a + n \in Nat
        /\ i + 2 * w - 2 \in Nat
        /\ (a + 1) + (i + 2 * w - 2) = a + n
      BY <2>1, <2>3
  <2> QED BY <2>1, <2>2, <2>4
<1>9. Elements(batch) \in SUBSET Asset
  <2>1. \A j \in DOMAIN batch : batch[j] \in Asset
      BY ElementOfSeq
  <2> QED BY <2>1 DEF Elements
<1>10. ASSUME NEW m \in Restoring, m.todo = t, m.asked = rs.asked + 1, m.rest = rs.rest
      PROVE  Paid(NextChunk(m))
  <2>1. Within((rs.asked + 1) + i, Len(rs.rest))
      BY <1>1, <1>4, <1>8, WithinFacts
  <2>2. Paid(m)
      BY <1>6, <1>10, <2>1 DEF Paid
  <2> QED BY <2>2, NextChunkIsPaid
<1>11. CASE Accepted
  <2>1. PICK m : m = [rs EXCEPT !.todo = t, !.asked = rs.asked + 1,
                                !.back = rs.back \cup Elements(batch)]
      OBVIOUS
  <2>2. m \in Restoring /\ m.todo = t /\ m.asked = rs.asked + 1 /\ m.rest = rs.rest
      BY <1>1, <1>7, <1>9, <2>1 DEF Restoring
  <2>3. rs' = NextChunk(m)
      BY <1>2, <1>3, <1>11, <2>1 DEF Accepted
  <2> QED BY <1>10, <2>2, <2>3
<1>12. CASE Isolated
  <2>1. PICK m : m = [rs EXCEPT !.todo = t, !.asked = rs.asked + 1,
                                !.missing = rs.missing \cup Elements(batch),
                                !.lost = rs.lost + 1]
      OBVIOUS
  <2>2. m \in Restoring /\ m.todo = t /\ m.asked = rs.asked + 1 /\ m.rest = rs.rest
      BY <1>1, <1>7, <1>9, <2>1 DEF Restoring
  <2>3. rs' = NextChunk(m)
      BY <1>2, <1>3, <1>12, <2>1 DEF Isolated
  <2> QED BY <1>10, <2>2, <2>3
<1>13. CASE Halved
  <2>1. PICK k : k = Len(batch) \div 2
      OBVIOUS
  <2>2. PICK x : x = SubSeq(batch, 1, k)
      OBVIOUS
  <2>3. PICK y : y = SubSeq(batch, k + 1, Len(batch))
      OBVIOUS
  <2>4. Len(batch) > 1
      BY <1>2, <1>13 DEF Halved
  <2>5. k \in 1..Len(batch) /\ Len(batch) - k >= 1
      BY <1>7, <2>1, <2>4
  <2>6. x \in Seq(Asset) /\ Len(x) = k /\ y \in Seq(Asset) /\ Len(y) = Len(batch) - k
      BY <2>2, <2>3, <2>5, CutLengths
  <2>7. PICK u : u = <<x, y>> \o t
      OBVIOUS
  <2>8. rs' = [rs EXCEPT !.asked = rs.asked + 1, !.todo = u]
      BY <1>2, <1>3, <1>13, <2>1, <2>2, <2>3, <2>7 DEF Halved
  <2>9. rs'.asked = rs.asked + 1 /\ rs'.todo = u /\ rs'.rest = rs.rest
      BY <1>1, <2>8 DEF Restoring
  <2>10. Len(x) >= 1 /\ Len(y) >= 1 /\ Len(x) + Len(y) = Len(batch)
      BY <1>7, <2>5, <2>6
  <2>11. Bill(u, i + 2 * Len(batch) - 2)
      BY <1>6, <2>6, <2>7, <2>10, BillOfTwoMore
  <2>12. i + 2 * Len(batch) - 2 \in Nat
         /\ (rs.asked + 1) + (i + 2 * Len(batch) - 2) = rs.asked + n
      BY <1>8
  <2> QED BY <1>4, <2>9, <2>11, <2>12 DEF Paid
<1> QED BY <1>11, <1>12, <1>13 DEF RestoreRequest

LEMMA PaidStep == AnswerInv /\ Paid(rs) /\ [RestoreNext]_vars => Paid(rs)'
<1> SUFFICES ASSUME AnswerInv, Paid(rs), [RestoreNext]_vars PROVE Paid(rs')
    BY DEF Paid, Bill, Costs
<1>1. CASE UNCHANGED rs
    BY <1>1
<1>2. CASE StartRestore
    BY <1>2, NotStartedIs, NextChunkIsPaid DEF StartRestore, AnswerInv
<1>3. CASE RestoreRequest
    BY <1>3, RequestIsPaid
<1>4. CASE Raised
  <2>1. rs'.rest = rs.rest /\ rs'.todo = rs.todo /\ rs'.asked = rs.asked
      BY <1>4 DEF Raised, AnswerInv, Restoring
  <2> QED BY <2>1 DEF Paid
<1> QED BY <1>1, <1>2, <1>3, <1>4 DEF RestoreNext, vars

(***************************************************************************)
(* However many of the ids are unknown and however they are spread over    *)
(* the chunks, a restore asks less than twice for each id (api.py          *)
(* 440-445).                                                               *)
(***************************************************************************)
THEOREM RestoreIsBounded == RestoreSafe => []RestoreCost
<1>1. RestoreInit => Paid(rs)
  <2>1. Len(Ids) \in Nat
      BY RestoreAssumption DEF RestoreAssumption
  <2> QED BY <2>1, BillOfNone DEF RestoreInit, NotStarted, Paid, Within
<1>2. AnswerInv /\ Paid(rs) => RestoreCost
  <2> SUFFICES ASSUME AnswerInv, Paid(rs) PROVE RestoreCost
      OBVIOUS
  <2>1. Len(Ids) \in Nat /\ Len(Ids) # 0 /\ Len(rs.rest) \in Nat /\ rs.asked \in Nat
      BY RestoreAssumption, EmptySeq DEF RestoreAssumption, AnswerInv, Restoring
  <2>2. PICK n \in Nat : Within(rs.asked + n, Len(rs.rest))
      BY DEF Paid
  <2> QED BY <2>1, <2>2 DEF Within, RestoreCost
<1> QED BY <1>1, <1>2, AnswerAlways, PaidStep, PTL DEF RestoreSafe

-----------------------------------------------------------------------------
(***************************************************************************)
(* The walk.  q is what search lists, n a page number and k a page size.   *)
(***************************************************************************)
Recorded(inv, S) == \A a \in S \ Foreign : inv[a] # NoRow

Before(q, n, k) == {q[i] : i \in {j \in 1..Len(q) : j <= (n - 1) * k}}

PageOf(q, n, k) == SubSeq(q, (n - 1) * k + 1, IF n * k < Len(q) THEN n * k ELSE Len(q))

NextOf(q, n, k) == IF n * k < Len(q) THEN n + 1 ELSE None

\* Page after page, the list is seen from its beginning without a hole.
LEMMA PageFacts ==
    ASSUME NEW q \in Seq(Asset), NEW n \in Nat \ {0}, NEW k \in Nat \ {0}
    PROVE  /\ PageOf(q, n, k) \in Seq(Asset)
           /\ PageOf(q, n, k) # <<>> => PageOf(q, n, k)[1] \in Asset
           /\ PageOf(q, n, k) = <<>> => Elements(q) = Before(q, n, k)
           /\ Before(q, n + 1, k) \subseteq Before(q, n, k) \cup Elements(PageOf(q, n, k))
           /\ NextOf(q, n, k) = None =>
                 Elements(q) \subseteq Before(q, n, k) \cup Elements(PageOf(q, n, k))
           /\ NextOf(q, n, k) # None => NextOf(q, n, k) = n + 1 /\ n < Len(q)
           /\ Before(q, 1, k) = {}
<1> DEFINE x == PageOf(q, n, k)
<1>1. PICK l \in Nat : l = Len(q)
    OBVIOUS
<1>2. PICK a \in Nat : a = (n - 1) * k
    OBVIOUS
<1>3. PICK b \in Nat : b = n * k /\ b = a + k /\ n <= b
  <2>1. n * k \in Nat /\ n * k = (n - 1) * k + k
      OBVIOUS
  <2>2. n <= n * k
      OBVIOUS
  <2> QED BY <1>2, <2>1, <2>2
<1>4. PICK e \in Nat : e = (IF b < l THEN b ELSE l) /\ e <= l /\ e <= b
    OBVIOUS
<1>5. x = SubSeq(q, a + 1, e)
    BY <1>1, <1>2, <1>3, <1>4 DEF PageOf
<1>6. \A i \in 1..l : q[i] \in Asset
    BY <1>1, ElementOfSeq
<1>7. /\ x \in Seq(Asset)
      /\ Len(x) = IF a + 1 <= e THEN e - (a + 1) + 1 ELSE 0
      /\ \A i \in 1..(e - (a + 1) + 1) : x[i] = q[(a + 1) + i - 1]
  <2>1. a + 1 \in Int /\ e \in Int
      OBVIOUS
  <2>2. \A i \in (a + 1)..e : q[i] \in Asset
      BY <1>4, <1>6
  <2>3. /\ SubSeq(q, a + 1, e) \in Seq(Asset)
        /\ Len(SubSeq(q, a + 1, e)) = IF a + 1 <= e THEN e - (a + 1) + 1 ELSE 0
        /\ \A i \in 1..(e - (a + 1) + 1) : SubSeq(q, a + 1, e)[i] = q[(a + 1) + i - 1]
      BY <2>1, <2>2, SubSeqProperties
  <2> QED BY <1>5, <2>3
<1> HIDE DEF x
<1>8. DOMAIN x = 1..Len(x) /\ DOMAIN q = 1..l
    BY <1>1, <1>7
<1>9. x # <<>> => x[1] \in Asset
    BY <1>7, EmptySeq, ElementOfSeq
<1>10. Before(q, n, k) = {q[i] : i \in {j \in 1..l : j <= a}}
    BY <1>1, <1>2 DEF Before
<1>11. Before(q, n + 1, k) = {q[i] : i \in {j \in 1..l : j <= b}}
  <2>1. ((n + 1) - 1) * k = b
      BY <1>3
  <2> QED BY <1>1, <2>1 DEF Before
<1>12. ASSUME NEW j \in 1..l, j <= b
       PROVE  q[j] \in Before(q, n, k) \cup Elements(x)
  <2>1. CASE j <= a
      BY <1>10, <2>1
  <2>2. CASE a < j
    <3>1. j - a \in 1..Len(x) /\ j - a \in 1..(e - (a + 1) + 1) /\ (a + 1) + (j - a) - 1 = j
        BY <1>4, <1>7, <1>12, <2>2
    <3>2. x[j - a] = q[j]
        BY <1>7, <3>1
    <3> QED BY <1>8, <3>1, <3>2 DEF Elements
  <2> QED BY <2>1, <2>2
<1>13. x = <<>> => Elements(q) = Before(q, n, k)
  <2> SUFFICES ASSUME x = <<>> PROVE Elements(q) = Before(q, n, k)
      OBVIOUS
  <2>1. Len(x) = 0
      OBVIOUS
  <2>2. ~ (a + 1 <= e)
      BY <1>7, <2>1
  <2>3. l <= a
      BY <1>3, <1>4, <2>2
  <2>4. {j \in 1..l : j <= a} = 1..l
      BY <2>3
  <2> QED BY <1>8, <1>10, <2>4 DEF Elements
<1>14. Before(q, n + 1, k) \subseteq Before(q, n, k) \cup Elements(x)
    BY <1>11, <1>12
<1>15. NextOf(q, n, k) = IF b < l THEN n + 1 ELSE None
    BY <1>1, <1>3 DEF NextOf
<1>16. n + 1 # None
    BY BackfillAssumption DEF BackfillAssumption
<1>17. NextOf(q, n, k) = None => Elements(q) \subseteq Before(q, n, k) \cup Elements(x)
  <2>1. NextOf(q, n, k) = None => l <= b
      BY <1>15, <1>16
  <2> QED BY <1>8, <1>12, <2>1 DEF Elements
<1>18. NextOf(q, n, k) # None => NextOf(q, n, k) = n + 1 /\ n < l
  <2>1. CASE b < l
    <3>1. n < l
        BY <1>3, <2>1
    <3> QED BY <1>15, <2>1, <3>1
  <2>2. CASE ~(b < l)
      BY <1>15, <2>2
  <2> QED BY <2>1, <2>2
<1>19. Before(q, 1, k) = {}
  <2>1. (1 - 1) * k = 0
      OBVIOUS
  <2> QED BY <1>1, <2>1 DEF Before
<1> QED BY <1>1, <1>7, <1>9, <1>13, <1>14, <1>17, <1>18, <1>19 DEF x

(***************************************************************************)
(* What makes WalkCovers inductive: how far a walk has come is known at    *)
(* every step of the page it is at, and at the cursor between two walks.   *)
(* The bound of PageNo holds because a page that has a successor is full.  *)
(***************************************************************************)
Placed(l, q, inv) ==
    \/ l.gap
    \/ /\ l.pc = "fetch" => Recorded(inv, Before(q, l.page, l.size))
       /\ l.pc = "record" =>
              /\ Recorded(inv, Before(q, l.page, l.size))
              /\ l.rows = PageOf(q, l.page, l.size)
              /\ l.next = NextOf(q, l.page, l.size)
       /\ l.pc = "save" => Recorded(inv, Before(q, l.next, l.size))
       /\ l.pc = "complete" => Recorded(inv, Elements(q))

TypedSession(l) ==
    /\ l \in Local
    /\ l.pc = "record" => l.walked < MaxPages
    /\ l.pc = "save" => l.next \in PageNo
    /\ l.pc \in Scanning => l.size \in PageSizes

Cursors == [page : PageNo, first : Asset \cup {None}, gap : BOOLEAN, size : PageSizes]

Room == Len(library) + left["disturbance"] <= Len(Library) + Budget["disturbance"]

LibraryOK ==
    /\ library \in Seq(Asset)
    /\ status \in [Asset -> Statuses]
    /\ left \in [Occasion -> Nat]
    /\ Room

InventoryOK ==
    /\ jobs \subseteq Asset
    /\ inventory \in [Asset -> Row]
    /\ \A a \in Foreign : inventory[a] = NoRow

CursorOK ==
    /\ cursor \in Cursors
    /\ cursor.gap \/ Recorded(inventory, Before(Found, cursor.page, cursor.size))

WalksOK ==
    /\ op \in [Session -> Local]
    /\ \A s \in Session : TypedSession(op[s]) /\ Placed(op[s], Found, inventory)

WalkInv == LibraryOK /\ InventoryOK /\ CursorOK /\ WalksOK

\* What search lists is a list of assets, no longer than the library.
LEMMA FoundFacts ==
    ASSUME library \in Seq(Asset)
    PROVE  Found \in Seq(Asset) /\ Len(Found) <= Len(library)
BY OnlyType, OnlyLength DEF Found

LEMMA PageNoFacts ==
    /\ PageNo \subseteq Nat \ {0}
    /\ 1 \in PageNo
    /\ None \notin PageNo
    /\ \A n \in Nat \ {0} :
           LibraryOK /\ n < Len(Found) => n + 1 \in PageNo
<1>1. Len(Library) \in Nat /\ Budget["disturbance"] \in Nat /\ None \notin Nat
    BY BackfillAssumption DEF BackfillAssumption, Occasion
<1>2. PICK l \in Nat : l = Len(Library) + Budget["disturbance"]
    BY <1>1
<1>3. PageNo = 1..(l + 2)
    BY <1>2 DEF PageNo
<1>4. ASSUME NEW n \in Nat \ {0}, LibraryOK, n < Len(Found) PROVE n + 1 \in PageNo
  <2>1. Len(Found) \in Nat /\ Len(library) \in Nat /\ Len(Found) <= Len(library)
      BY <1>4, FoundFacts DEF LibraryOK
  <2>2. left["disturbance"] \in Nat
      BY <1>4 DEF LibraryOK, Occasion
  <2>3. Len(library) <= l
      BY <1>2, <1>4, <2>1, <2>2 DEF LibraryOK, Room
  <2> QED BY <1>3, <1>4, <2>1, <2>3
<1> QED BY <1>1, <1>3, <1>4

LEMMA QuietIsPlaced ==
    /\ TypedSession(Quiet) /\ \A q, inv : Placed(Quiet, q, inv)
    /\ Start \in Cursors /\ \A q \in Seq(Asset) : \A inv : Recorded(inv, Before(q, Start.page, Start.size))
<1>1. Quiet \in Local
    BY PageNoFacts, BackfillAssumption DEF Quiet, Local, Verdict, BackfillAssumption
<1>2. TypedSession(Quiet) /\ \A q, inv : Placed(Quiet, q, inv)
    BY <1>1 DEF TypedSession, Placed, Quiet, Scanning
<1>3. Start \in Cursors /\ Start.page = 1 /\ Start.size \in Nat \ {0}
    BY PageNoFacts, BackfillAssumption DEF Start, Cursors, BackfillAssumption
<1>4. \A q \in Seq(Asset) : \A inv : Recorded(inv, Before(q, Start.page, Start.size))
    BY <1>3, PageFacts DEF Recorded
<1> QED BY <1>2, <1>3, <1>4

\* A cursor and walks that Shift has marked are no longer relied upon.
LEMMA ShiftStep ==
    ASSUME WalkInv, Shift, library' \in Seq(Asset)
    PROVE  CursorOK' /\ WalksOK'
<1>1. Found' \in Seq(Asset)
  <2>1. Only(library', {a \in Asset : status'[a] # "trashed"}) \in Seq(Asset)
      BY OnlyType
  <2> QED BY <2>1 DEF Found
<1>2. CursorOK'
  <2>1. PICK g \in BOOLEAN : g = (cursor.gap \/ cursor.page > 1)
      OBVIOUS
  <2>2. cursor \in Cursors
      BY DEF WalkInv, CursorOK
  <2>3. cursor' = [cursor EXCEPT !.gap = g]
      BY <2>1 DEF Shift
  <2>4. /\ cursor' \in Cursors /\ cursor'.gap = g
        /\ cursor'.page = cursor.page /\ cursor'.size = cursor.size
      BY <2>2, <2>3 DEF Cursors
  <2>5. cursor.page \in Nat \ {0} /\ cursor.size \in Nat \ {0}
      BY <2>2, PageNoFacts, BackfillAssumption DEF Cursors, BackfillAssumption
  <2>6. CASE g
      BY <2>4, <2>6 DEF CursorOK
  <2>7. CASE ~g
    <3>0. ~ (cursor.page > 1)
        BY <2>1, <2>7, Zenon
    <3>1. cursor.page = 1
        BY <2>5, <3>0
    <3>2. Before(Found', cursor'.page, cursor'.size) = {}
        BY <1>1, <2>4, <2>5, <3>1, PageFacts
    <3> QED BY <2>4, <3>2 DEF CursorOK, Recorded
  <2> QED BY <2>6, <2>7
<1>3. ASSUME NEW s \in Session
      PROVE  op'[s] \in Local /\ TypedSession(op'[s]) /\ \A q, inv : Placed(op'[s], q, inv)
  <2>1. op[s] \in Local /\ TypedSession(op[s])
      BY DEF WalkInv, WalksOK
  <2>2. CASE op[s].pc \in Scanning
    <3>1. op'[s] = [op[s] EXCEPT !.gap = TRUE]
        BY <2>2 DEF Shift
    <3>2. op'[s] \in Local /\ op'[s].gap = TRUE /\ op'[s].pc = op[s].pc /\ op'[s].size = op[s].size
          /\ op'[s].walked = op[s].walked /\ op'[s].next = op[s].next
        BY <2>1, <3>1 DEF Local
    <3> QED BY <2>1, <3>2 DEF TypedSession, Placed
  <2>3. CASE op[s].pc \notin Scanning
    <3>1. op'[s] = op[s]
        BY <2>3 DEF Shift
    <3> QED BY <2>1, <2>3, <3>1 DEF Placed, Scanning
  <2> QED BY <2>2, <2>3
<1>4. WalksOK'
  <2>1. op' = [s \in Session |-> op'[s]]
      BY DEF Shift
  <2> QED BY <1>3, <2>1 DEF WalksOK
<1> QED BY <1>2, <1>4

\* What was recorded stays so.
Grows == \A a \in Asset : inventory[a] # NoRow => inventory'[a] # NoRow

LEMMA PlacedGrows ==
    ASSUME Grows, NEW q \in Seq(Asset), NEW l, Placed(l, q, inventory),
           l.pc \in {"fetch", "record"} => l.page \in PageNo /\ l.size \in Nat,
           l.pc = "save" => l.next \in PageNo /\ l.size \in Nat
    PROVE  Placed(l, q, inventory')
<1>1. \A i \in 1..Len(q) : q[i] \in Asset
    BY ElementOfSeq
<1>2. \A n, k : Before(q, n, k) \subseteq Asset
    BY <1>1 DEF Before
<1>3. Elements(q) \subseteq Asset
    BY <1>1 DEF Elements
<1>4. \A S \in SUBSET Asset : Recorded(inventory, S) => Recorded(inventory', S)
    BY DEF Grows, Recorded
<1> QED BY <1>2, <1>3, <1>4 DEF Placed

\* Nothing has moved in what search lists.
LEMMA CursorStays ==
    ASSUME WalkInv, Grows, UNCHANGED cursor, Found' = Found
    PROVE  CursorOK'
<1>1. Found \in Seq(Asset) /\ cursor \in Cursors
    BY FoundFacts DEF WalkInv, LibraryOK, CursorOK
<1>2. \A i \in 1..Len(Found) : Found[i] \in Asset
    BY <1>1, ElementOfSeq
<1>3. Before(Found, cursor.page, cursor.size) \subseteq Asset
    BY <1>2 DEF Before
<1>4. cursor.gap \/ Recorded(inventory', Before(Found, cursor.page, cursor.size))
    BY <1>3 DEF WalkInv, CursorOK, Recorded, Grows
<1> QED BY <1>1, <1>4 DEF CursorOK

\* A session goes on to m, and nothing moves in what search lists.
LEMMA SessionGoes ==
    ASSUME WalkInv, Grows, Found' = Found, NEW s \in Session, NEW m,
           TypedSession(m), Placed(m, Found, inventory'), op' = [op EXCEPT ![s] = m]
    PROVE  WalksOK'
<1>1. Found \in Seq(Asset)
    BY FoundFacts DEF WalkInv, LibraryOK
<1>2. op' \in [Session -> Local] /\ \A r \in Session : op'[r] = IF r = s THEN m ELSE op[r]
    BY DEF WalkInv, WalksOK, TypedSession
<1>3. ASSUME NEW r \in Session PROVE TypedSession(op[r]) /\ Placed(op[r], Found, inventory')
  <2>1. op[r] \in Local /\ TypedSession(op[r]) /\ Placed(op[r], Found, inventory)
      BY DEF WalkInv, WalksOK
  <2>2. op[r].pc \in Scanning => op[r].size \in Nat
      BY <2>1, BackfillAssumption DEF TypedSession, BackfillAssumption
  <2>3. /\ op[r].pc \in {"fetch", "record"} => op[r].page \in PageNo /\ op[r].size \in Nat
        /\ op[r].pc = "save" => op[r].next \in PageNo /\ op[r].size \in Nat
      BY <2>1, <2>2 DEF TypedSession, Local, Scanning
  <2> QED BY <1>1, <2>1, <2>3, PlacedGrows
<1>4. \A r \in Session : TypedSession(op'[r]) /\ Placed(op'[r], Found, inventory')
    BY <1>2, <1>3
<1> QED BY <1>2, <1>4 DEF WalksOK

\* The sessions stay where they are.
LEMMA SessionsStay ==
    ASSUME WalkInv, Grows, Found' = Found, UNCHANGED op
    PROVE  WalksOK'
<1>1. CASE Session = {}
    BY <1>1 DEF WalkInv, WalksOK
<1>2. ASSUME NEW s \in Session PROVE WalksOK'
  <2>1. TypedSession(op[s]) /\ op' = [op EXCEPT ![s] = op[s]] /\ op[s] \in Local
        /\ Placed(op[s], Found, inventory)
      BY DEF WalkInv, WalksOK
  <2>2. Found \in Seq(Asset)
      BY FoundFacts DEF WalkInv, LibraryOK
  <2>3. /\ op[s].pc \in {"fetch", "record"} => op[s].page \in PageNo /\ op[s].size \in Nat
        /\ op[s].pc = "save" => op[s].next \in PageNo /\ op[s].size \in Nat
      BY <2>1, BackfillAssumption DEF TypedSession, BackfillAssumption, Local, Scanning
  <2>4. Placed(op[s], Found, inventory')
      BY <2>1, <2>2, <2>3, PlacedGrows
  <2> QED BY <2>1, <2>4, SessionGoes
<1> QED BY <1>1, <1>2

\* The server, and what it was asked to do.
LEMMA ServerWalks ==
    ASSUME WalkInv, NEW a \in Asset, Upload(a) \/ Name(a) \/ Trash(a) \/ Purge(a) \/ Webhook(a)
    PROVE  WalkInv'
<1>1. /\ inventory' = inventory /\ jobs' \subseteq Asset /\ status' \in [Asset -> Statuses]
      /\ "disturbance" \in Occasion
    BY DEF WalkInv, LibraryOK, InventoryOK, Statuses, Upload, Name, Trash, Purge, Webhook, Occasion
<1>2. InventoryOK'
    BY <1>1 DEF WalkInv, InventoryOK
<1>3. /\ left' \in [Occasion -> Nat]
      /\ left["disturbance"] \in Nat /\ left'["disturbance"] = left["disturbance"] - 1
    BY <1>1 DEF Upload, Name, Trash, Purge, Webhook, Spend, WalkInv, LibraryOK
<1>4. LibraryOK'
  <2>1. library \in Seq(Asset) /\ Room /\ Len(library) \in Nat
        /\ Len(Library) \in Nat /\ Budget["disturbance"] \in Nat
      BY <1>1, BackfillAssumption DEF WalkInv, LibraryOK, BackfillAssumption
  <2>2. CASE Upload(a)
    <3>1. library' = <<a>> \o library
        BY <2>2 DEF Upload
    <3>2. <<a>> \in Seq(Asset) /\ Len(<<a>>) = 1
        OBVIOUS
    <3>3. library' \in Seq(Asset) /\ Len(library') = 1 + Len(library)
        BY <2>1, <3>1, <3>2, ConcatProperties
    <3> QED BY <1>1, <1>3, <2>1, <3>3 DEF LibraryOK, Room
  <2>3. CASE Purge(a)
    <3>1. library' \in Seq(Asset) /\ Len(library') <= Len(library) /\ Len(library') \in Nat
        BY <2>1, <2>3, OnlyType, OnlyLength DEF Purge
    <3> QED BY <1>1, <1>3, <2>1, <3>1 DEF LibraryOK, Room
  <2>4. CASE library' = library
      BY <1>1, <1>3, <2>1, <2>4 DEF LibraryOK, Room
  <2> QED BY <2>2, <2>3, <2>4 DEF Name, Trash, Webhook
<1>5. CASE Upload(a) \/ Trash(a) \/ Purge(a)
    BY <1>2, <1>4, <1>5, ShiftStep DEF Upload, Trash, Purge, LibraryOK, WalkInv
<1>6. CASE Name(a) \/ Webhook(a)
  <2>1. UNCHANGED <<library, inventory, cursor, op>> /\ Grows
      BY <1>6 DEF Name, Webhook, Grows
  <2>2. Found' = Found
    <3>1. \A e \in Asset : status[e] = "trashed" <=> status'[e] = "trashed"
        BY <1>6 DEF Name, Webhook, WalkInv, LibraryOK
    <3>2. \A i \in 1..Len(library) : library[i] \in Asset
        BY ElementOfSeq DEF WalkInv, LibraryOK
    <3>3. {e \in Asset : status'[e] # "trashed"} = {e \in Asset : status[e] # "trashed"}
        BY <3>1
    <3> QED BY <2>1, <3>3 DEF Found
  <2> QED BY <1>2, <1>4, <2>1, <2>2, CursorStays, SessionsStay DEF WalkInv
<1> QED BY <1>5, <1>6

\* A command is started.
LEMMA StartWalks ==
    ASSUME WalkInv, NEW s \in Session,
           \/ \E k \in PageSizes, rescan \in BOOLEAN : StartScan(s, k, rescan)
           \/ \E n \in Limits : StartRun(s, n)
           \/ Fail(s)
    PROVE  WalkInv'
<1>1. UNCHANGED <<library, status, jobs, inventory, cursor>> /\ Grows /\ Found' = Found
    BY DEF StartScan, StartRun, Fail, Grows, Found
<1>2. InventoryOK' /\ CursorOK'
    BY <1>1, CursorStays DEF WalkInv, InventoryOK
<1>3. LibraryOK'
  <2>1. left' = left \/ Spend("command") \/ Spend("disturbance")
      BY DEF StartScan, StartRun, Fail
  <2>2. left' \in [Occasion -> Nat] /\ left'["disturbance"] <= left["disturbance"]
        /\ left["disturbance"] \in Nat
      BY <2>1 DEF Spend, Occasion, WalkInv, LibraryOK
  <2>3. Len(Library) \in Nat /\ Budget["disturbance"] \in Nat /\ Len(library) \in Nat
      BY BackfillAssumption DEF BackfillAssumption, Occasion, WalkInv, LibraryOK
  <2>4. left'["disturbance"] \in Nat
      BY <2>2 DEF Occasion
  <2>5. Room
      BY DEF WalkInv, LibraryOK
  <2>6. Room'
      BY <1>1, <2>2, <2>3, <2>4, <2>5 DEF Room
  <2> QED BY <1>1, <2>2, <2>6 DEF WalkInv, LibraryOK
<1>4. \E m : TypedSession(m) /\ Placed(m, Found, inventory') /\ op' = [op EXCEPT ![s] = m]
  <2>1. ASSUME NEW k \in PageSizes, NEW rescan \in BOOLEAN, StartScan(s, k, rescan)
        PROVE  \E m : TypedSession(m) /\ Placed(m, Found, inventory') /\ op' = [op EXCEPT ![s] = m]
    <3>1. PICK p \in {"clear", "resume"} : p = IF rescan THEN "clear" ELSE "resume"
        OBVIOUS
    <3>2. PICK m : m = [Quiet EXCEPT !.pc = p, !.size = k]
        OBVIOUS
    <3>3. op' = [op EXCEPT ![s] = m]
        BY <2>1, <3>1, <3>2 DEF StartScan
    <3>4. Quiet \in Local
        BY QuietIsPlaced DEF TypedSession
    <3>5. m \in Local /\ m.pc = p /\ m.size = k
        BY <3>2, <3>4 DEF Local, Scanning
    <3>6. TypedSession(m) /\ Placed(m, Found, inventory')
        BY <3>5 DEF TypedSession, Placed
    <3> QED BY <3>3, <3>6
  <2>2. ASSUME NEW n \in Limits, StartRun(s, n)
        PROVE  \E m : TypedSession(m) /\ Placed(m, Found, inventory') /\ op' = [op EXCEPT ![s] = m]
    <3>2. PICK m : m = [Quiet EXCEPT !.pc = "stats", !.run = TRUE, !.limit = n]
        OBVIOUS
    <3>3. op' = [op EXCEPT ![s] = m]
        BY <2>2, <3>2 DEF StartRun
    <3>4. Quiet \in Local
        BY QuietIsPlaced DEF TypedSession
    <3>5. m \in Local /\ m.pc = "stats"
        BY <3>2, <3>4 DEF Local
    <3>6. TypedSession(m) /\ Placed(m, Found, inventory')
        BY <3>5 DEF TypedSession, Placed, Scanning
    <3> QED BY <3>3, <3>6
  <2>3. CASE Fail(s)
      BY <2>3, QuietIsPlaced DEF Fail
  <2> QED BY <2>1, <2>2, <2>3
<1>5. WalksOK'
    BY <1>1, <1>4, SessionGoes
<1> QED BY <1>2, <1>3, <1>5 DEF WalkInv

\* A scan that is over leaves nothing to be placed.
LEMMA AfterScanIsPlaced ==
    ASSUME WalkInv, NEW s \in Session
    PROVE  TypedSession(AfterScan(s)) /\ \A q, inv : Placed(AfterScan(s), q, inv)
<1>1. Quiet \in Local /\ op[s] \in Local
    BY QuietIsPlaced DEF TypedSession, WalkInv, WalksOK
<1>2. PICK m : m = [Quiet EXCEPT !.pc = "pick", !.run = TRUE, !.limit = op[s].limit]
    OBVIOUS
<1>3. op[s].limit \in Limits \cup {1}
    BY <1>1 DEF Local
<1>4. m \in Local /\ m.pc = "pick"
    BY <1>1, <1>2, <1>3 DEF Local, Running
<1>5. TypedSession(m) /\ \A q, inv : Placed(m, q, inv)
    BY <1>4 DEF TypedSession, Placed, Scanning
<1> QED BY <1>2, <1>5, QuietIsPlaced DEF AfterScan

\* What a scan leaves alone.
LEMMA ScanLeaves ==
    ASSUME WalkInv, NEW s \in Session, ScanStep(s)
    PROVE  /\ UNCHANGED <<library, status, jobs, left>> /\ Found' = Found /\ LibraryOK'
           /\ op[s] \in Local /\ TypedSession(op[s]) /\ Placed(op[s], Found, inventory)
           /\ op[s].pc \in Scanning /\ op[s].size \in PageSizes /\ op[s].size \in Nat \ {0}
           /\ op[s].page \in PageNo /\ op[s].page \in Nat \ {0}
           /\ Found \in Seq(Asset) /\ cursor \in Cursors
<1>1. UNCHANGED <<library, status, jobs, left>> /\ op[s].pc \in Scanning
    BY DEF ScanStep, ClearInventory, ClearCursor, ReadCursor, Fetch, StopAtMaxPages, RecordPage,
           SaveCursor, CompleteWalk, At, Scanning
<1>2. Found' = Found /\ LibraryOK' /\ Found \in Seq(Asset) /\ cursor \in Cursors
    BY <1>1, FoundFacts DEF Found, WalkInv, LibraryOK, Room, CursorOK
<1>3. op[s] \in Local /\ TypedSession(op[s]) /\ Placed(op[s], Found, inventory)
    BY DEF WalkInv, WalksOK
<1>4. op[s].size \in PageSizes /\ op[s].page \in PageNo
    BY <1>1, <1>3 DEF TypedSession, Local
<1>5. op[s].size \in Nat \ {0} /\ op[s].page \in Nat \ {0}
    BY <1>4, PageNoFacts, BackfillAssumption DEF BackfillAssumption
<1> QED BY <1>1, <1>2, <1>3, <1>4, <1>5

\* --rescan.
LEMMA RescanWalks ==
    ASSUME WalkInv, NEW s \in Session, ClearInventory(s) \/ ClearCursor(s)
    PROVE  WalkInv'
<1>0. ScanStep(s)
    BY DEF ScanStep
<1>1. /\ UNCHANGED jobs /\ Found' = Found /\ LibraryOK'
      /\ op[s] \in Local /\ TypedSession(op[s]) /\ op[s].size \in PageSizes
      /\ Found \in Seq(Asset) /\ cursor \in Cursors
    BY <1>0, ScanLeaves
<1>2. CASE ClearInventory(s)
  <2>1. InventoryOK'
    <3>1. inventory' = [a \in Asset |-> NoRow]
        BY <1>2 DEF ClearInventory
    <3>2. jobs' \subseteq Asset /\ Foreign \subseteq Asset
        BY <1>1, BackfillAssumption DEF WalkInv, InventoryOK, BackfillAssumption
    <3> QED BY <3>1, <3>2 DEF InventoryOK, Row
  <2>2. CursorOK'
    <3>0. (cursor.page > 1) \in BOOLEAN
        OBVIOUS
    <3>1. PICK g \in BOOLEAN : g = (cursor.page > 1)
        BY <3>0
    <3>2. cursor' = [cursor EXCEPT !.gap = g]
        BY <1>2, <3>1 DEF ClearInventory
    <3>3. /\ cursor' \in Cursors /\ cursor'.gap = g
          /\ cursor'.page = cursor.page /\ cursor'.size = cursor.size
        BY <1>1, <3>2 DEF Cursors
    <3>4. cursor.page \in Nat \ {0} /\ cursor.size \in Nat \ {0}
        BY <1>1, PageNoFacts, BackfillAssumption DEF Cursors, BackfillAssumption
    <3>5. CASE g
        BY <3>3, <3>5 DEF CursorOK
    <3>6. CASE ~g
      <4>1. ~ (cursor.page > 1)
          BY <3>1, <3>6, Zenon
      <4>2. cursor.page = 1
          BY <3>4, <4>1
      <4>3. Before(Found', cursor'.page, cursor'.size) = {}
          BY <1>1, <3>3, <3>4, <4>2, PageFacts
      <4> QED BY <3>3, <4>3 DEF CursorOK, Recorded
    <3> QED BY <3>5, <3>6
  <2>3. ASSUME NEW r \in Session
        PROVE  op'[r] \in Local /\ TypedSession(op'[r]) /\ \A q, inv : Placed(op'[r], q, inv)
    <3>1. op[r] \in Local /\ TypedSession(op[r])
        BY DEF WalkInv, WalksOK
    <3>2. CASE r = s
      <4>1. op'[r] = [op[s] EXCEPT !.pc = "clear_cursor"]
          BY <1>2, <3>2 DEF ClearInventory
      <4>2. op'[r] \in Local /\ op'[r].pc = "clear_cursor" /\ op'[r].size = op[s].size
          BY <1>1, <4>1 DEF Local, Scanning
      <4> QED BY <1>1, <4>2 DEF TypedSession, Placed
    <3>3. CASE r # s /\ op[r].pc \in Scanning
      <4>1. op'[r] = [op[r] EXCEPT !.gap = TRUE]
          BY <1>2, <3>3 DEF ClearInventory
      <4>2. op'[r] \in Local /\ op'[r].gap = TRUE /\ op'[r].pc = op[r].pc /\ op'[r].size = op[r].size
            /\ op'[r].walked = op[r].walked /\ op'[r].next = op[r].next
          BY <3>1, <4>1 DEF Local
      <4> QED BY <3>1, <4>2 DEF TypedSession, Placed
    <3>4. CASE r # s /\ op[r].pc \notin Scanning
      <4>1. op'[r] = op[r]
          BY <1>2, <3>4 DEF ClearInventory
      <4> QED BY <3>1, <3>4, <4>1 DEF Placed, Scanning
    <3> QED BY <3>2, <3>3, <3>4
  <2>4. op' = [r \in Session |-> op'[r]]
      BY <1>2 DEF ClearInventory
  <2>5. WalksOK'
      BY <2>3, <2>4 DEF WalksOK
  <2> QED BY <1>1, <2>1, <2>2, <2>5 DEF WalkInv
<1>3. CASE ClearCursor(s)
  <2>1. inventory' = inventory /\ Grows /\ cursor' = Start
      BY <1>3 DEF ClearCursor, Grows
  <2>2. InventoryOK' /\ CursorOK'
      BY <1>1, <2>1, QuietIsPlaced DEF InventoryOK, CursorOK, WalkInv
  <2>3. PICK m : m = [op[s] EXCEPT !.pc = "resume"]
      OBVIOUS
  <2>4. op' = [op EXCEPT ![s] = m]
      BY <1>3, <2>3 DEF ClearCursor
  <2>5. m \in Local /\ m.pc = "resume" /\ m.size = op[s].size
      BY <1>1, <2>3 DEF Local, Scanning
  <2>6. TypedSession(m) /\ Placed(m, Found, inventory')
      BY <1>1, <2>5 DEF TypedSession, Placed
  <2> QED BY <1>1, <2>1, <2>2, <2>4, <2>6, SessionGoes DEF WalkInv
<1> QED BY <1>2, <1>3

\* A walk finds its place in the cursor.
LEMMA ReadCursorWalks ==
    ASSUME WalkInv, NEW s \in Session, ReadCursor(s)
    PROVE  WalkInv'
<1>0. ScanStep(s)
    BY DEF ScanStep
<1>1. /\ UNCHANGED jobs /\ Found' = Found /\ LibraryOK'
      /\ op[s] \in Local /\ TypedSession(op[s]) /\ op[s].size \in PageSizes
      /\ cursor \in Cursors
    BY <1>0, ScanLeaves
<1>2. inventory' = inventory /\ cursor' = cursor /\ Grows
    BY DEF ReadCursor, Grows
<1>3. InventoryOK' /\ CursorOK'
    BY <1>1, <1>2, CursorStays DEF InventoryOK, WalkInv
<1>4. PICK g \in BOOLEAN : g = (cursor.gap \/ Repaged(s))
  <2>1. (cursor.gap \/ Repaged(s)) \in BOOLEAN
      OBVIOUS
  <2> QED BY <2>1
<1>5. PICK m : m = [op[s] EXCEPT !.pc = "fetch", !.page = cursor.page, !.first = cursor.first,
                                 !.gap = g]
    OBVIOUS
<1>6. op' = [op EXCEPT ![s] = m]
    BY <1>4, <1>5 DEF ReadCursor
<1>7. /\ m \in Local /\ m.pc = "fetch" /\ m.size = op[s].size /\ m.page = cursor.page /\ m.gap = g
    BY <1>1, <1>5 DEF Local, Scanning, Cursors
<1>8. Placed(m, Found, inventory')
  <2>1. CASE g
      BY <1>7, <2>1 DEF Placed
  <2>2. CASE ~g
    <3>1. ~cursor.gap /\ ~Repaged(s)
        BY <1>4, <2>2, Zenon
    <3>2. Recorded(inventory, Before(Found, cursor.page, cursor.size))
        BY <3>1 DEF WalkInv, CursorOK
    <3>3. cursor.page = 1 \/ cursor.size = op[s].size
      <4>1. cursor.page \in Nat \ {0}
          BY <1>1, PageNoFacts DEF Cursors
      <4>2. ~ (cursor.page > 1) \/ cursor.size = op[s].size
          BY <3>1 DEF Repaged
      <4> QED BY <4>1, <4>2
    <3>4. Found \in Seq(Asset) /\ op[s].size \in Nat \ {0}
        BY <1>0, ScanLeaves
    <3>5. Recorded(inventory, Before(Found, m.page, m.size))
      <4>1. CASE cursor.page = 1
          BY <1>7, <3>4, <4>1, PageFacts DEF Recorded
      <4>2. CASE cursor.size = op[s].size
          BY <1>7, <3>2, <4>2
      <4> QED BY <3>3, <4>1, <4>2
    <3> QED BY <1>2, <1>7, <3>5 DEF Placed
  <2> QED BY <2>1, <2>2
<1>9. TypedSession(m)
    BY <1>1, <1>7 DEF TypedSession
<1> QED BY <1>1, <1>2, <1>3, <1>6, <1>8, <1>9, SessionGoes DEF WalkInv

\* It is over without a change of the cursor.
LEMMA EndWalks ==
    ASSUME WalkInv, NEW s \in Session, ScanStep(s), op' = [op EXCEPT ![s] = AfterScan(s)],
           UNCHANGED inventory, cursor' = cursor \/ cursor' = Start
    PROVE  WalkInv'
<1>1. UNCHANGED jobs /\ Found' = Found /\ LibraryOK' /\ Grows /\ Found \in Seq(Asset)
    BY ScanLeaves DEF Grows
<1>2. CursorOK'
    BY <1>1, CursorStays, QuietIsPlaced DEF CursorOK
<1>3. WalksOK'
    BY <1>1, AfterScanIsPlaced, SessionGoes
<1> QED BY <1>1, <1>2, <1>3 DEF WalkInv, InventoryOK

\* A page is asked for.
LEMMA FetchWalks ==
    ASSUME WalkInv, NEW s \in Session, Fetch(s)
    PROVE  WalkInv'
<1>0. ScanStep(s)
    BY DEF ScanStep
<1>1. /\ UNCHANGED jobs /\ Found' = Found /\ LibraryOK' /\ Found \in Seq(Asset)
      /\ op[s] \in Local /\ TypedSession(op[s]) /\ Placed(op[s], Found, inventory)
      /\ op[s].size \in PageSizes /\ op[s].size \in Nat \ {0} /\ op[s].page \in Nat \ {0}
    BY <1>0, ScanLeaves
<1>2. inventory' = inventory /\ cursor' = cursor /\ Grows /\ op[s].pc = "fetch"
      /\ op[s].walked < MaxPages
    BY DEF Fetch, Grows, At
<1>3. InventoryOK' /\ CursorOK'
    BY <1>1, <1>2, CursorStays DEF InventoryOK, WalkInv
<1>4. PICK items \in Seq(Asset) :
          items = Page(op[s].page, op[s].size) /\ items = PageOf(Found, op[s].page, op[s].size)
  <2>1. Page(op[s].page, op[s].size) = PageOf(Found, op[s].page, op[s].size)
      BY DEF Page, PageOf
  <2> QED BY <1>1, <2>1, PageFacts
<1>5. CASE items = <<>>
  <2>1. PICK m : m = [op[s] EXCEPT !.pc = "complete"]
      OBVIOUS
  <2>2. op' = [op EXCEPT ![s] = m]
      BY <1>4, <1>5, <2>1 DEF Fetch
  <2>3. m \in Local /\ m.pc = "complete" /\ m.size = op[s].size /\ m.gap = op[s].gap
      BY <1>1, <2>1 DEF Local, Scanning
  <2>4. Elements(Found) = Before(Found, op[s].page, op[s].size)
    <3>1. PICK q \in Seq(Asset), n \in Nat \ {0}, k \in Nat \ {0} :
              q = Found /\ n = op[s].page /\ k = op[s].size
        BY <1>1
    <3>2. PageOf(q, n, k) = <<>> => Elements(q) = Before(q, n, k)
        BY PageFacts
    <3> QED BY <1>4, <1>5, <3>1, <3>2
  <2>5. Placed(m, Found, inventory')
      BY <1>1, <1>2, <2>3, <2>4 DEF Placed
  <2>6. TypedSession(m)
      BY <1>1, <2>3 DEF TypedSession
  <2> QED BY <1>1, <1>2, <1>3, <2>2, <2>5, <2>6, SessionGoes DEF WalkInv
<1>6. CASE items # <<>> /\ items[1] = op[s].first
  <2>1. op' = [op EXCEPT ![s] = AfterScan(s)]
      BY <1>4, <1>6 DEF Fetch
  <2> QED BY <1>0, <1>2, <2>1, EndWalks
<1>7. CASE items # <<>> /\ items[1] # op[s].first
  <2>1. PICK n : n = NextPage(op[s].page, op[s].size) /\ n = NextOf(Found, op[s].page, op[s].size)
      BY DEF NextPage, NextOf
  <2>2. n \in PageNo \cup {None}
    <3>1. n # None => n = op[s].page + 1 /\ op[s].page < Len(Found)
        BY <1>1, <2>1, PageFacts
    <3> QED BY <1>1, <3>1, PageNoFacts DEF WalkInv
  <2>3. items[1] \in Asset
      BY <1>1, <1>4, <1>7, PageFacts
  <2>4. PICK m : m = [op[s] EXCEPT !.pc = "record", !.rows = items, !.first = items[1], !.next = n]
      OBVIOUS
  <2>5. op' = [op EXCEPT ![s] = m]
      BY <1>4, <1>7, <2>1, <2>4 DEF Fetch
  <2>6. /\ m \in Local /\ m.pc = "record" /\ m.rows = items /\ m.next = n /\ m.page = op[s].page
        /\ m.size = op[s].size /\ m.gap = op[s].gap /\ m.walked = op[s].walked
      BY <1>1, <2>2, <2>3, <2>4 DEF Local, Scanning
  <2>7. Placed(m, Found, inventory')
      BY <1>1, <1>2, <1>4, <2>1, <2>6 DEF Placed
  <2>8. TypedSession(m)
      BY <1>1, <1>2, <2>6 DEF TypedSession
  <2> QED BY <1>1, <1>2, <1>3, <2>5, <2>7, <2>8, SessionGoes DEF WalkInv
<1> QED BY <1>5, <1>6, <1>7

\* A row that is recorded.
LEMMA ScannedFacts ==
    ASSUME InventoryOK, NEW s \in Session, NEW a \in Asset
    PROVE  /\ Scanned(s, a) \in Row
           /\ a \in Foreign => Scanned(s, a) = inventory[a]
           /\ inventory[a] # NoRow => Scanned(s, a) # NoRow
           /\ a \in Elements(op[s].rows) \ Foreign => Scanned(s, a) # NoRow
<1>1. inventory[a] \in Row /\ inventory[a].queued \in BOOLEAN
  <2>1. inventory[a] \in Row
      BY DEF InventoryOK
  <2>2. CASE inventory[a] = NoRow
      BY <2>1, <2>2 DEF NoRow
  <2>3. CASE inventory[a] \in [verdict : Verdict, queued : BOOLEAN]
      BY <2>1, <2>3
  <2> QED BY <2>1, <2>2, <2>3 DEF Row
<1>2. CASE a \in Foreign \/ ~\E i \in DOMAIN op[s].rows : op[s].rows[i] = a
    BY <1>1, <1>2 DEF Scanned, Elements
<1>3. CASE a \notin Foreign /\ \E i \in DOMAIN op[s].rows : op[s].rows[i] = a
  <2>1. PICK v \in {"none", "guarded"} : v = IF a \in Refused THEN "guarded" ELSE "none"
      OBVIOUS
  <2>2. Scanned(s, a) = [verdict |-> v, queued |-> inventory[a].queued]
      BY <1>3, <2>1 DEF Scanned
  <2>3. Scanned(s, a) \in Row /\ Scanned(s, a).verdict # NoRow.verdict
      BY <1>1, <2>2 DEF Row, Verdict, NoRow
  <2> QED BY <1>3, <2>3
<1> QED BY <1>2, <1>3

\* The page is recorded: now everything up to the next one is.
LEMMA RecordWalks ==
    ASSUME WalkInv, NEW s \in Session, RecordPage(s)
    PROVE  WalkInv'
<1>0. ScanStep(s)
    BY DEF ScanStep
<1>1. /\ UNCHANGED jobs /\ Found' = Found /\ LibraryOK' /\ Found \in Seq(Asset)
      /\ op[s] \in Local /\ TypedSession(op[s]) /\ Placed(op[s], Found, inventory)
      /\ op[s].size \in PageSizes /\ op[s].size \in Nat \ {0} /\ op[s].page \in Nat \ {0}
    BY <1>0, ScanLeaves
<1>2. cursor' = cursor /\ op[s].pc = "record" /\ inventory' = [a \in Asset |-> Scanned(s, a)]
    BY DEF RecordPage, At
<1>3. InventoryOK' /\ Grows
  <2>1. InventoryOK /\ Foreign \subseteq Asset
      BY BackfillAssumption DEF WalkInv, BackfillAssumption
  <2> QED BY <1>1, <1>2, <2>1, ScannedFacts DEF InventoryOK, Grows
<1>4. CursorOK'
    BY <1>1, <1>2, <1>3, CursorStays
<1>5. op[s].walked \in 0..MaxPages /\ op[s].walked < MaxPages /\ MaxPages \in Nat
      /\ op[s].next \in PageNo \cup {None}
    BY <1>1, <1>2, BackfillAssumption DEF TypedSession, Local, BackfillAssumption
<1>6. PICK w \in 0..MaxPages : w = op[s].walked + 1
    BY <1>5
<1>7. PICK p \in {"complete", "save"} : p = IF op[s].next = None THEN "complete" ELSE "save"
    OBVIOUS
<1>8. PICK m : m = [op[s] EXCEPT !.walked = w, !.rows = <<>>, !.pc = p]
    OBVIOUS
<1>9. op' = [op EXCEPT ![s] = m]
    BY <1>6, <1>7, <1>8 DEF RecordPage
<1>10. <<>> \in Seq(Asset)
    OBVIOUS
<1>11. /\ m \in Local /\ m.pc = p /\ m.next = op[s].next /\ m.page = op[s].page
       /\ m.size = op[s].size /\ m.gap = op[s].gap
    BY <1>1, <1>8, <1>10 DEF Local, Scanning
<1>12. TypedSession(m)
    BY <1>1, <1>5, <1>7, <1>11 DEF TypedSession
<1>13. Placed(m, Found, inventory')
  <2>1. CASE op[s].gap
      BY <1>11, <2>1 DEF Placed
  <2>2. CASE ~op[s].gap
    <3>1. /\ Recorded(inventory, Before(Found, op[s].page, op[s].size))
          /\ op[s].rows = PageOf(Found, op[s].page, op[s].size)
          /\ op[s].next = NextOf(Found, op[s].page, op[s].size)
        BY <1>1, <1>2, <2>2 DEF Placed
    <3>2. \A i \in 1..Len(Found) : Found[i] \in Asset
        BY <1>1, ElementOfSeq
    <3>3. /\ Before(Found, op[s].page, op[s].size) \subseteq Asset
          /\ op[s].rows \in Seq(Asset)
      <4>1. PICK q \in Seq(Asset), n \in Nat \ {0}, k \in Nat \ {0} :
                q = Found /\ n = op[s].page /\ k = op[s].size
          BY <1>1
      <4>2. PageOf(q, n, k) \in Seq(Asset)
          BY PageFacts
      <4>3. Before(Found, op[s].page, op[s].size) \subseteq Asset
          BY <3>2 DEF Before
      <4> QED BY <3>1, <4>1, <4>2, <4>3
    <3>4. \A i \in DOMAIN op[s].rows : op[s].rows[i] \in Asset
        BY <3>3, ElementOfSeq
    <3>5. Elements(op[s].rows) \subseteq Asset
        BY <3>4 DEF Elements
    <3>6. Recorded(inventory', Before(Found, op[s].page, op[s].size) \cup Elements(op[s].rows))
        BY <1>2, <1>3, <3>1, <3>3, <3>5, ScannedFacts DEF Recorded, Grows, WalkInv
    <3>7. CASE op[s].next = None
      <4>1. Elements(Found) \subseteq Before(Found, op[s].page, op[s].size) \cup Elements(op[s].rows)
        <5>1. PICK q \in Seq(Asset), n \in Nat \ {0}, k \in Nat \ {0} :
                  q = Found /\ n = op[s].page /\ k = op[s].size
            BY <1>1
        <5>2. NextOf(q, n, k) = None =>
                 Elements(q) \subseteq Before(q, n, k) \cup Elements(PageOf(q, n, k))
            BY PageFacts
        <5> QED BY <3>1, <3>7, <5>1, <5>2
      <4>2. Recorded(inventory', Elements(Found))
          BY <3>6, <4>1 DEF Recorded
      <4> QED BY <1>7, <1>11, <3>7, <4>2 DEF Placed
    <3>8. CASE op[s].next # None
      <4>1. op[s].next = op[s].page + 1
          BY <1>1, <3>1, <3>8, PageFacts
      <4>2. Before(Found, op[s].next, op[s].size)
              \subseteq Before(Found, op[s].page, op[s].size) \cup Elements(op[s].rows)
        <5>1. PICK q \in Seq(Asset), n \in Nat \ {0}, k \in Nat \ {0} :
                  q = Found /\ n = op[s].page /\ k = op[s].size
            BY <1>1
        <5>2. Before(q, n + 1, k) \subseteq Before(q, n, k) \cup Elements(PageOf(q, n, k))
            BY PageFacts
        <5> QED BY <3>1, <4>1, <5>1, <5>2
      <4>3. Recorded(inventory', Before(Found, op[s].next, op[s].size))
          BY <3>6, <4>2 DEF Recorded
      <4> QED BY <1>7, <1>11, <3>8, <4>3 DEF Placed
    <3> QED BY <3>7, <3>8
  <2> QED BY <2>1, <2>2
<1> QED BY <1>1, <1>3, <1>4, <1>9, <1>12, <1>13, SessionGoes DEF WalkInv

\* The place is committed.
LEMMA SaveWalks ==
    ASSUME WalkInv, NEW s \in Session, SaveCursor(s)
    PROVE  WalkInv'
<1>0. ScanStep(s)
    BY DEF ScanStep
<1>1. /\ UNCHANGED jobs /\ Found' = Found /\ LibraryOK' /\ Found \in Seq(Asset)
      /\ op[s] \in Local /\ TypedSession(op[s]) /\ Placed(op[s], Found, inventory)
      /\ op[s].size \in PageSizes
    BY <1>0, ScanLeaves
<1>2. inventory' = inventory /\ Grows /\ op[s].pc = "save" /\ op[s].next \in PageNo
    BY <1>1 DEF SaveCursor, Grows, At, TypedSession
<1>3. InventoryOK'
    BY <1>1, <1>2 DEF InventoryOK, WalkInv
<1>4. op[s].gap \/ Recorded(inventory, Before(Found, op[s].next, op[s].size))
    BY <1>1, <1>2 DEF Placed
<1>5. CursorOK'
  <2>1. cursor' = [page |-> op[s].next, first |-> op[s].first, gap |-> op[s].gap,
                   size |-> op[s].size]
      BY DEF SaveCursor
  <2>2. op[s].first \in Asset \cup {None} /\ op[s].gap \in BOOLEAN
      BY <1>1 DEF Local
  <2>3. /\ cursor' \in Cursors /\ cursor'.page = op[s].next /\ cursor'.size = op[s].size
        /\ cursor'.gap = op[s].gap
      BY <1>1, <1>2, <2>1, <2>2 DEF Cursors
  <2> QED BY <1>1, <1>2, <1>4, <2>3 DEF CursorOK
<1>6. PICK m : m = [op[s] EXCEPT !.pc = "fetch", !.page = op[s].next, !.next = None]
    OBVIOUS
<1>7. op' = [op EXCEPT ![s] = m]
    BY <1>6 DEF SaveCursor
<1>8. /\ m \in Local /\ m.pc = "fetch" /\ m.page = op[s].next /\ m.size = op[s].size
      /\ m.gap = op[s].gap
    BY <1>1, <1>2, <1>6 DEF Local, Scanning
<1>9. TypedSession(m) /\ Placed(m, Found, inventory')
    BY <1>1, <1>2, <1>4, <1>8 DEF TypedSession, Placed
<1> QED BY <1>1, <1>2, <1>3, <1>5, <1>7, <1>9, SessionGoes DEF WalkInv

LEMMA ScanWalks ==
    ASSUME WalkInv, NEW s \in Session, ScanStep(s)
    PROVE  WalkInv'
<1>1. CASE ClearInventory(s) \/ ClearCursor(s) \/ ReadCursor(s) \/ Fetch(s) \/ RecordPage(s)
           \/ SaveCursor(s)
    BY <1>1, RescanWalks, ReadCursorWalks, FetchWalks, RecordWalks, SaveWalks
<1>2. CASE StopAtMaxPages(s) \/ CompleteWalk(s)
    BY <1>2, EndWalks DEF StopAtMaxPages, CompleteWalk
<1> QED BY <1>1, <1>2 DEF ScanStep

\* A session outside of a scan has nothing to be placed.
LEMMA OffTheWalk ==
    ASSUME NEW m \in Local, m.pc \in {"idle", "stats"} \cup Running
    PROVE  TypedSession(m) /\ \A q, inv : Placed(m, q, inv)
BY DEF TypedSession, Placed, Scanning, Running

\* What a run leaves alone.
LEMMA RunLeaves ==
    ASSUME WalkInv, RunInv, RunInv', NEW s \in Session, RunStep(s)
    PROVE  /\ UNCHANGED <<library, status, cursor, left>> /\ Found' = Found /\ LibraryOK'
           /\ op[s] \in Local
           /\ op[s].pc \in AtWork =>
                 op[s].batch \in Seq(Asset) /\ op[s].batch # <<>> /\ Head(op[s].batch) \in Asset
           /\ inventory' \in [Asset -> Row]
<1>1. UNCHANGED <<library, status, cursor, left>>
    BY DEF RunStep, ReadStats, Pick, Verify, Enqueue, Refuse, Mark
<1>2. Found' = Found /\ LibraryOK'
    BY <1>1 DEF Found, WalkInv, LibraryOK, Room
<1>3. op[s] \in Local
    BY DEF WalkInv, WalksOK
<1>4. op[s].pc \in AtWork => op[s].batch \in Seq(Asset) /\ op[s].batch # <<>>
    BY DEF RunInv, Sessions, Sound
<1>5. op[s].pc \in AtWork => Head(op[s].batch) \in Asset
    BY <1>4, HeadTailProperties
<1> QED BY <1>1, <1>2, <1>3, <1>4, <1>5 DEF RunInv

\* From an invariant of the parts to that of the whole.
LEMMA RunGoes ==
    ASSUME WalkInv, RunInv, RunInv', NEW s \in Session, RunStep(s), NEW m,
           op' = [op EXCEPT ![s] = m], TypedSession(m), Placed(m, Found, inventory'),
           jobs' \subseteq Asset, Grows, \A a \in Foreign : inventory'[a] = NoRow
    PROVE  WalkInv'
<1>1. UNCHANGED cursor /\ Found' = Found /\ LibraryOK' /\ inventory' \in [Asset -> Row]
    BY RunLeaves
<1>2. InventoryOK'
    BY <1>1 DEF InventoryOK
<1> QED BY <1>1, <1>2, CursorStays, SessionGoes DEF WalkInv

\* The next candidate of a session that has just dealt with one.
LEMMA NextIsTyped ==
    ASSUME NEW l \in Local, l.batch \in Seq(Asset), l.batch # <<>>
    PROVE  /\ NextCandidate(l) \in Local
           /\ NextCandidate(l).pc \in {"idle", "stats"} \cup Running
<1>1. CASE l.queued >= l.limit
  <2>1. NextCandidate(l) = Quiet /\ Quiet \in Local /\ Quiet.pc = "idle"
      BY <1>1, QuietIsPlaced DEF NextCandidate, TypedSession, Quiet
  <2> QED BY <2>1
<1>2. CASE ~(l.queued >= l.limit) /\ Len(l.batch) > 1
  <2>1. PICK t \in Seq(Asset) : t = Tail(l.batch)
      BY <1>2, TailOfMany
  <2>2. PICK m : m = [l EXCEPT !.pc = "verify", !.batch = t]
      OBVIOUS
  <2>3. m \in Local /\ m.pc = "verify"
      BY <2>2 DEF Local, Running
  <2>4. NextCandidate(l) = m
      BY <1>2, <2>1, <2>2 DEF NextCandidate
  <2> QED BY <2>3, <2>4 DEF Running
<1>3. CASE ~(l.queued >= l.limit) /\ ~(Len(l.batch) > 1)
  <2>1. <<>> \in Seq(Asset)
      OBVIOUS
  <2>2. PICK m : m = [l EXCEPT !.pc = "pick", !.batch = <<>>]
      OBVIOUS
  <2>3. m \in Local /\ m.pc = "pick"
      BY <2>1, <2>2 DEF Local, Running
  <2>4. NextCandidate(l) = m
      BY <1>3, <2>2 DEF NextCandidate
  <2> QED BY <2>3, <2>4 DEF Running
<1> QED BY <1>1, <1>2, <1>3

\* A run that looks for work.
LEMMA StatsAndPickWalk ==
    ASSUME WalkInv, RunInv, RunInv', NEW s \in Session, ReadStats(s) \/ Pick(s)
    PROVE  WalkInv'
<1>1. RunStep(s) /\ op[s] \in Local
    BY RunLeaves DEF RunStep
<1>2. inventory' = inventory /\ jobs' = jobs /\ Grows /\ InventoryOK
    BY DEF ReadStats, Pick, Grows, WalkInv
<1>3. CASE ReadStats(s)
  <2>1. CASE op' = [op EXCEPT ![s] = [@ EXCEPT !.pc = "pick"]]
    <3>1. PICK m : m = [op[s] EXCEPT !.pc = "pick"]
        OBVIOUS
    <3>2. m \in Local /\ m.pc = "pick" /\ op' = [op EXCEPT ![s] = m]
        BY <1>1, <2>1, <3>1 DEF Local, Running
    <3> QED BY <1>1, <1>2, <3>2, OffTheWalk, RunGoes DEF Running, InventoryOK
  <2>2. CASE op' = [op EXCEPT ![s] = [@ EXCEPT !.pc = "resume", !.size = DefaultPageSize]]
    <3>1. PICK m : m = [op[s] EXCEPT !.pc = "resume", !.size = DefaultPageSize]
        OBVIOUS
    <3>2. DefaultPageSize \in PageSizes
        BY BackfillAssumption DEF BackfillAssumption
    <3>3. /\ m \in Local /\ m.pc = "resume" /\ m.size = DefaultPageSize
          /\ op' = [op EXCEPT ![s] = m]
        BY <1>1, <2>2, <3>1, <3>2 DEF Local, Scanning
    <3>4. TypedSession(m) /\ Placed(m, Found, inventory')
        BY <3>2, <3>3 DEF TypedSession, Placed
    <3> QED BY <1>1, <1>2, <3>3, <3>4, RunGoes DEF InventoryOK
  <2> QED BY <1>3, <2>1, <2>2 DEF ReadStats
<1>4. CASE Pick(s)
  <2>1. PICK b \in Batches(PickLimit(s)) :
            op' = [op EXCEPT ![s] = IF b = <<>> THEN Quiet
                                    ELSE [@ EXCEPT !.pc = "verify", !.batch = b]]
      BY <1>4 DEF Pick
  <2>2. b \in Seq(Asset)
      BY BatchesAreSequences
  <2>3. CASE b = <<>>
      BY <1>1, <1>2, <2>1, <2>3, QuietIsPlaced, RunGoes DEF InventoryOK
  <2>4. CASE b # <<>>
    <3>1. PICK m : m = [op[s] EXCEPT !.pc = "verify", !.batch = b]
        OBVIOUS
    <3>2. m \in Local /\ m.pc = "verify"
        BY <1>1, <2>2, <3>1 DEF Local, Running
    <3>3. op' = [op EXCEPT ![s] = m]
        BY <2>1, <2>4, <3>1
    <3> QED BY <1>1, <1>2, <3>2, <3>3, OffTheWalk, RunGoes DEF Running, InventoryOK
  <2> QED BY <2>3, <2>4
<1> QED BY <1>3, <1>4

\* A candidate is checked and gets its job.
LEMMA VerifyAndEnqueueWalk ==
    ASSUME WalkInv, RunInv, RunInv', NEW s \in Session, Verify(s) \/ Enqueue(s)
    PROVE  WalkInv'
<1>1. op[s].pc \in AtWork
    BY DEF Verify, Enqueue, At, AtWork
<1>2. RunStep(s) /\ op[s] \in Local /\ Head(op[s].batch) \in Asset
    BY <1>1, RunLeaves DEF RunStep
<1>3. inventory' = inventory /\ Grows /\ InventoryOK /\ jobs \subseteq Asset
    BY DEF Verify, Enqueue, Grows, WalkInv, InventoryOK
<1>4. CASE Verify(s)
  <2>1. PICK v : v = LiveVerdict(Head(op[s].batch))
      OBVIOUS
  <2>2. v \in Verdict
    <3>1. status[Head(op[s].batch)] \in Statuses
        BY <1>2 DEF RunInv
    <3> QED BY <2>1, <3>1 DEF LiveVerdict, Verdict, Statuses
  <2>3. PICK p \in {"enqueue", "refuse"} : p = IF v = "none" THEN "enqueue" ELSE "refuse"
      OBVIOUS
  <2>4. PICK m : m = [op[s] EXCEPT !.verdict = v, !.pc = p]
      OBVIOUS
  <2>5. m \in Local /\ m.pc = p /\ p \in Running
      BY <1>2, <2>2, <2>3, <2>4 DEF Local, Running
  <2>6. op' = [op EXCEPT ![s] = m] /\ jobs' = jobs
      BY <1>4, <2>1, <2>3, <2>4 DEF Verify
  <2> QED BY <1>2, <1>3, <2>5, <2>6, OffTheWalk, RunGoes DEF InventoryOK
<1>5. CASE Enqueue(s)
  <2>1. jobs' \subseteq Asset
      BY <1>2, <1>3, <1>5 DEF Enqueue
  <2>2. CASE op' = [op EXCEPT ![s] = [@ EXCEPT !.verdict = "already_known", !.pc = "refuse"]]
    <3>1. PICK m : m = [op[s] EXCEPT !.verdict = "already_known", !.pc = "refuse"]
        OBVIOUS
    <3>2. m \in Local /\ m.pc = "refuse" /\ op' = [op EXCEPT ![s] = m]
        BY <1>2, <2>2, <3>1 DEF Local, Running, Verdict
    <3> QED BY <1>2, <1>3, <2>1, <3>2, OffTheWalk, RunGoes DEF InventoryOK, Running
  <2>3. CASE op' = [op EXCEPT ![s] = [@ EXCEPT !.wrote = op[s].wrote + 1, !.pc = "mark"]]
    <3>1. PICK w \in Nat : w = op[s].wrote + 1
        BY <1>2 DEF Local
    <3>2. PICK m : m = [op[s] EXCEPT !.wrote = w, !.pc = "mark"]
        OBVIOUS
    <3>3. m \in Local /\ m.pc = "mark" /\ op' = [op EXCEPT ![s] = m]
        BY <1>2, <2>3, <3>1, <3>2 DEF Local, Running
    <3> QED BY <1>2, <1>3, <2>1, <3>3, OffTheWalk, RunGoes DEF InventoryOK, Running
  <2> QED BY <1>5, <2>2, <2>3 DEF Enqueue
<1> QED BY <1>4, <1>5

\* A row that is there is rewritten, and no other.
LEMMA RewriteGrows ==
    ASSUME WalkInv, inventory' \in [Asset -> Row], NEW a \in Asset, NEW row,
           row = NoRow => inventory' = inventory,
           inventory[a] = NoRow => inventory' = inventory,
           inventory' = inventory \/ inventory' = [inventory EXCEPT ![a] = row]
    PROVE  Grows /\ \A e \in Foreign : inventory'[e] = NoRow
<1>1. /\ inventory \in [Asset -> Row] /\ Foreign \subseteq Asset
      /\ \A e \in Foreign : inventory[e] = NoRow
    BY BackfillAssumption DEF WalkInv, InventoryOK, BackfillAssumption
<1>2. CASE inventory' = inventory
    BY <1>1, <1>2 DEF Grows
<1>3. CASE inventory' = [inventory EXCEPT ![a] = row] /\ inventory' # inventory
    BY <1>1, <1>3 DEF Grows
<1> QED BY <1>2, <1>3

\* A candidate is refused, or marked.
LEMMA RefuseAndMarkWalk ==
    ASSUME WalkInv, RunInv, RunInv', NEW s \in Session, Refuse(s) \/ Mark(s)
    PROVE  WalkInv'
<1>1. op[s].pc \in AtWork
    BY DEF Refuse, Mark, At, AtWork
<1>2. /\ RunStep(s) /\ op[s] \in Local /\ op[s].batch \in Seq(Asset) /\ op[s].batch # <<>>
      /\ inventory' \in [Asset -> Row]
    BY <1>1, RunLeaves DEF RunStep
<1>3. PICK a \in Asset : a = Head(op[s].batch)
    BY <1>1, RunLeaves DEF RunStep
<1>4. jobs' = jobs /\ jobs \subseteq Asset /\ inventory \in [Asset -> Row]
    BY DEF Refuse, Mark, WalkInv, InventoryOK
<1>5. CASE Refuse(s)
  <2>1. op[s].verdict \in Verdict
      BY <1>2 DEF Local
  <2>2. inventory' = IF inventory[a] = NoRow THEN inventory
                     ELSE [inventory EXCEPT ![a].verdict = op[s].verdict]
      BY <1>3, <1>5 DEF Refuse
  <2>3. PICK row : row = [inventory[a] EXCEPT !.verdict = op[s].verdict]
      OBVIOUS
  <2>4. inventory[a] # NoRow => row # NoRow
    <3>1. inventory[a] # NoRow => inventory[a] \in [verdict : Verdict, queued : BOOLEAN]
        BY <1>4 DEF Row
    <3>2. inventory[a] # NoRow => row.verdict = op[s].verdict
        BY <2>3, <3>1
    <3> QED BY <2>1, <3>2 DEF NoRow, Verdict
  <2>5. Grows /\ \A e \in Foreign : inventory'[e] = NoRow
      BY <1>2, <2>2, <2>3, <2>4, RewriteGrows
  <2>6. PICK m : m = [op[s] EXCEPT !.verdict = "none"]
      OBVIOUS
  <2>7. m \in Local /\ m.batch = op[s].batch /\ op' = [op EXCEPT ![s] = NextCandidate(m)]
      BY <1>2, <1>5, <2>6 DEF Local, Verdict, Refuse
  <2>8. TypedSession(NextCandidate(m)) /\ Placed(NextCandidate(m), Found, inventory')
      BY <1>2, <2>7, NextIsTyped, OffTheWalk
  <2> QED BY <1>2, <1>4, <2>5, <2>7, <2>8, RunGoes
<1>6. CASE Mark(s)
  <2>2. inventory' = IF inventory[a] = NoRow THEN inventory
                     ELSE [inventory EXCEPT ![a].queued = TRUE]
      BY <1>3, <1>6 DEF Mark
  <2>3. PICK row : row = [inventory[a] EXCEPT !.queued = TRUE]
      OBVIOUS
  <2>4. inventory[a] # NoRow => row # NoRow
    <3>1. inventory[a] # NoRow => inventory[a] \in [verdict : Verdict, queued : BOOLEAN]
        BY <1>4 DEF Row
    <3>2. inventory[a] # NoRow => row.queued = TRUE
        BY <2>3, <3>1
    <3> QED BY <3>2 DEF NoRow
  <2>5. Grows /\ \A e \in Foreign : inventory'[e] = NoRow
      BY <1>2, <2>2, <2>3, <2>4, RewriteGrows
  <2>6. PICK n \in Nat : n = op[s].queued + 1
      BY <1>2 DEF Local
  <2>7. PICK m : m = [op[s] EXCEPT !.queued = n]
      OBVIOUS
  <2>8. m \in Local /\ m.batch = op[s].batch /\ op' = [op EXCEPT ![s] = NextCandidate(m)]
      BY <1>2, <1>6, <2>6, <2>7 DEF Local, Mark
  <2>9. TypedSession(NextCandidate(m)) /\ Placed(NextCandidate(m), Found, inventory')
      BY <1>2, <2>8, NextIsTyped, OffTheWalk
  <2> QED BY <1>2, <1>4, <2>5, <2>8, <2>9, RunGoes
<1> QED BY <1>5, <1>6

\* The restore command: what it brings back out of the trash moves the pages.
LEMMA RestoreWalks ==
    ASSUME WalkInv, RunInv', StartRestore \/ RestoreRequest \/ Raised
    PROVE  WalkInv'
<1>1. UNCHANGED <<library, jobs, inventory>> /\ Grows
    BY DEF StartRestore, RestoreRequest, Raised, Accepted, Isolated, Halved, Grows
<1>2. InventoryOK'
    BY <1>1 DEF WalkInv, InventoryOK
<1>3. LibraryOK'
  <2>1. left' = left \/ Spend("command") \/ Spend("disturbance")
      BY DEF StartRestore, RestoreRequest, Raised, Accepted, Isolated, Halved
  <2>2. left' \in [Occasion -> Nat] /\ left'["disturbance"] <= left["disturbance"]
        /\ left["disturbance"] \in Nat
      BY <2>1 DEF Spend, Occasion, WalkInv, LibraryOK
  <2>3. Len(Library) \in Nat /\ Budget["disturbance"] \in Nat /\ Len(library) \in Nat
      BY BackfillAssumption DEF BackfillAssumption, Occasion, WalkInv, LibraryOK
  <2>4. left'["disturbance"] \in Nat
      BY <2>2 DEF Occasion
  <2>5. Room
      BY DEF WalkInv, LibraryOK
  <2>6. Room'
      BY <1>1, <2>2, <2>3, <2>4, <2>5 DEF Room
  <2> QED BY <1>1, <2>2, <2>6 DEF WalkInv, LibraryOK, RunInv
<1>4. CASE UNCHANGED <<status, cursor, op>>
  <2>1. Found' = Found
      BY <1>1, <1>4 DEF Found
  <2> QED BY <1>1, <1>2, <1>3, <1>4, <2>1, CursorStays, SessionsStay DEF WalkInv
<1>5. CASE Shift
    BY <1>2, <1>3, <1>5, ShiftStep DEF WalkInv, LibraryOK
<1> QED BY <1>4, <1>5 DEF StartRestore, RestoreRequest, Raised, Accepted, Isolated, Halved

LEMMA WalkStep == RunInv /\ RunInv' /\ WalkInv /\ [RestoreNext]_vars => WalkInv'
<1> SUFFICES ASSUME RunInv, RunInv', WalkInv, [RestoreNext]_vars PROVE WalkInv'
    OBVIOUS
<1>1. CASE Next /\ UNCHANGED rs
    BY <1>1, ServerWalks, StartWalks, ScanWalks, StatsAndPickWalk, VerifyAndEnqueueWalk,
       RefuseAndMarkWalk DEF Next, Server, RunStep
<1>2. CASE StartRestore \/ RestoreRequest \/ Raised
    BY <1>2, RestoreWalks
<1>3. CASE UNCHANGED vars
  <2>1. UNCHANGED <<library, status, jobs, inventory, cursor, op, left>> /\ Grows
      BY <1>3 DEF vars, Grows
  <2>2. Found' = Found /\ LibraryOK' /\ InventoryOK'
      BY <2>1 DEF Found, LibraryOK, Room, InventoryOK, WalkInv
  <2> QED BY <2>1, <2>2, CursorStays, SessionsStay DEF WalkInv
<1> QED BY <1>1, <1>2, <1>3 DEF RestoreNext

LEMMA WalkInit == RestoreInit => WalkInv
<1> SUFFICES ASSUME RestoreInit PROVE WalkInv
    OBVIOUS
<1>1. /\ library = Library /\ jobs = {} /\ inventory = [a \in Asset |-> NoRow]
      /\ cursor = Start /\ op = [s \in Session |-> Quiet] /\ left = Budget
    BY DEF RestoreInit, Init
<1>2. status \in [Asset -> Statuses]
    BY DEF RestoreInit, Init, Statuses
<1>3. LibraryOK
  <2>1. /\ Library \in Seq(Asset) /\ Len(Library) \in Nat
        /\ Budget \in [Occasion -> Nat] /\ Budget["disturbance"] \in Nat
      BY BackfillAssumption DEF BackfillAssumption, Occasion
  <2> QED BY <1>1, <1>2, <2>1 DEF LibraryOK, Room
<1>4. InventoryOK
    BY <1>1, BackfillAssumption DEF InventoryOK, Row, NoRow, BackfillAssumption
<1>5. CursorOK
  <2>1. Found \in Seq(Asset)
      BY <1>3, FoundFacts DEF LibraryOK
  <2> QED BY <1>1, <2>1, QuietIsPlaced DEF CursorOK
<1>6. WalksOK
    BY <1>1, QuietIsPlaced DEF WalksOK, TypedSession
<1> QED BY <1>3, <1>4, <1>5, <1>6 DEF WalkInv

LEMMA WalkAlways == RestoreSafe => []WalkInv
<1>1. RestoreInit => RunInv /\ WalkInv
    BY RunInit, WalkInit
<1>2. (RunInv /\ WalkInv) /\ [RestoreNext]_vars => (RunInv /\ WalkInv)'
    BY RunStepPreserves, WalkStep
<1> QED BY <1>1, <1>2, PTL DEF RestoreSafe

(***************************************************************************)
(* The types of what scan and run keep: a page number never runs past the  *)
(* pages the library can have (backfill.py 172-246), and no asset of       *)
(* another type gets into the inventory (backfill.py 205-211).             *)
(***************************************************************************)
THEOREM BackfillTypes == RestoreSafe => []TypeOK
<1>1. WalkInv => TypeOK
  <2>1. LibraryOK => library \in Seq(Asset) /\ left \in [Occasion -> Nat]
                     /\ status \in [Asset -> {"live", "named", "trashed", "gone"}]
      BY DEF LibraryOK, Statuses
  <2>2. InventoryOK => /\ jobs \in SUBSET Asset /\ inventory \in [Asset -> Row]
                       /\ \A a \in Foreign : inventory[a] = NoRow
      BY DEF InventoryOK
  <2>3. CursorOK => cursor \in [page : PageNo, first : Asset \cup {None}, gap : BOOLEAN,
                                size : PageSizes]
      BY DEF CursorOK, Cursors
  <2>4. WalksOK => op \in [Session -> Local]
      BY DEF WalksOK
  <2> QED BY <2>1, <2>2, <2>3, <2>4 DEF WalkInv, TypeOK
<1> QED BY <1>1, WalkAlways, PTL

(***************************************************************************)
(* A walk leaves nothing behind, wherever it was interrupted and resumed   *)
(* and whatever other sessions do meanwhile, unless the library moved, a   *)
(* rescan dropped the rows or the page size was changed (backfill.py       *)
(* 170-172, 225-229).                                                      *)
(***************************************************************************)
THEOREM WalksCover == RestoreSafe => []WalkCovers
<1>1. WalkInv => WalkCovers
  <2> SUFFICES ASSUME WalkInv, NEW s \in Session, At(s, "fetch") \/ At(s, "complete"),
                      ~op[s].gap, NEW a \in Passed(s) \ Foreign
               PROVE  inventory[a] # NoRow
      BY DEF WalkCovers
  <2>1. Placed(op[s], Found, inventory)
      BY DEF WalkInv, WalksOK
  <2>2. Found \in Seq(Asset) /\ DOMAIN Found = 1..Len(Found)
      BY FoundFacts DEF WalkInv, LibraryOK
  <2>3. CASE At(s, "fetch")
    <3>1. Recorded(inventory, Before(Found, op[s].page, op[s].size))
        BY <2>1, <2>3 DEF Placed, At
    <3>2. Passed(s) \subseteq Before(Found, op[s].page, op[s].size)
        BY <2>2, <2>3 DEF Passed, Before, At
    <3> QED BY <3>1, <3>2 DEF Recorded
  <2>4. CASE At(s, "complete")
    <3>1. Recorded(inventory, Elements(Found))
        BY <2>1, <2>4 DEF Placed, At
    <3>2. Passed(s) \subseteq Elements(Found)
        BY <2>2 DEF Passed, Elements
    <3> QED BY <3>1, <3>2 DEF Recorded
  <2> QED BY <2>3, <2>4
<1> QED BY <1>1, WalkAlways, PTL

=============================================================================
