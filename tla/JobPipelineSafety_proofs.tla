---------------------- MODULE JobPipelineSafety_proofs ----------------------
(***************************************************************************)
(* IInv is inductive, and what follows from it.                            *)
(*                                                                         *)
(* The argument has two halves.  What a task knows about its job is made   *)
(* true by its own steps, in the order of pipeline.py.  It is not made     *)
(* false by anybody else, because everything it knows only grows: see      *)
(* Grows.  So each action is looked at once, for the task that takes it.   *)
(***************************************************************************)
EXTENDS JobPipeline_proofs

Knows(t) == KnowsRow(t) /\ KnowsBytes(t) /\ KnowsReplacement(t) /\ KnowsOriginal(t)

(***************************************************************************)
(* What no step takes back: rows, their ledger and the fact that they have *)
(* a replacement; the bytes, links, fields and marker of a replacement; a  *)
(* replacement somebody relies on; the end of an original.                 *)
(***************************************************************************)
TableGrows ==
    \A a \in Asset :
        /\ HasRow(row[a]) => HasRow(row'[a])
        /\ row[a].ledger => row'[a].ledger
        /\ row[a].new # None => row'[a].new # None

ServerGrows ==
    /\ \A n \in NewAsset :
          /\ srv[n].sum # None => srv'[n].sum = srv[n].sum
          /\ srv[n].links => srv'[n].links
          /\ srv[n].fields => srv'[n].fields
          /\ srv[n].mark => srv'[n].mark
          /\ Relied(n) /\ Stands(n) => srv'[n].st = "live" \/ n \in lateLoss'
    /\ \A a \in Asset : orig[a] = "gone" => orig'[a] = "gone"

Grows == TableGrows /\ ServerGrows

-----------------------------------------------------------------------------
\* The half about the others.

\* What an idle task knows is nothing.
LEMMA IdleKnows ==
    ASSUME NEW t \in Task,
           task'[t].pc \in {"idle", "next"}, task'[t].job = None,
           task'[t].new = None, task'[t].sum = None
    PROVE  Knows(t)'
BY DEF Knows, KnowsRow, KnowsBytes, KnowsReplacement, KnowsOriginal,
       At, Job, Undecided, Unrecorded, Replaced, FinalPC

\* A task that takes no step goes on knowing what it knew.
LEMMA OthersKnow ==
    ASSUME TypeInv, NEW t \in Task, Knows(t), Grows,
           task'[t] = task[t], config' = config
    PROVE  Knows(t)'
<1>1. task[t] \in Local /\ (Job(t) # None => Job(t) \in Asset)
      /\ (task[t].new # None => task[t].new \in NewAsset)
  BY DEF TypeInv, TypeOK, Local, Job
<1>2. KnowsRow(t)'
  <2>1. KnowsRow(t) /\ TableGrows
    BY DEF Knows, Grows
  <2>2. task[t].new # None => Job(t) # None
    BY <2>1 DEF KnowsRow
  <2> QED
    BY <1>1, <2>1, <2>2 DEF KnowsRow, TableGrows, Job
<1>3. KnowsBytes(t)'
  BY DEF Knows, KnowsBytes, Job
<1>4. KnowsReplacement(t)'
  <2>1. KnowsReplacement(t) /\ KnowsBytes(t) /\ KnowsRow(t) /\ ServerGrows
    BY DEF Knows, Grows
  <2>2. task[t].pc \in Unrecorded \cup Replaced => task[t].new \in NewAsset
    BY <1>1, <2>1 DEF KnowsRow
  <2>3. CASE At(t, "read_duplicate")
    BY <2>1, <2>2, <2>3 DEF KnowsReplacement, KnowsBytes, ServerGrows, At, Unrecorded
  <2>4. CASE task[t].pc \in {"fields", "link", "mark_new"}
    BY <2>1, <2>2, <2>4 DEF KnowsReplacement, ServerGrows, At, Replaced
  <2>5. CASE task[t].pc \in {"verify_marker", "delete"}
    <3>1. Relied(task[t].new) /\ Stands(task[t].new)
      BY <2>1, <2>5 DEF Relied, KnowsReplacement
    <3> QED
      BY <2>1, <2>2, <2>5, <3>1 DEF KnowsReplacement, ServerGrows, Stands, At, Replaced, FinalPC
  <2>6. CASE task[t].pc \notin {"read_duplicate", "fields", "link", "mark_new",
                                "verify_marker", "delete"}
    BY <2>6 DEF KnowsReplacement, At
  <2> QED
    BY <2>3, <2>4, <2>5, <2>6 DEF At
<1>5. KnowsOriginal(t)'
  <2>1. KnowsOriginal(t) /\ ServerGrows
    BY DEF Knows, Grows
  <2>2. task[t].pc \in {"free", "finish"} => Job(t) \in Asset
    BY <1>1 DEF TypeInv, HasJob
  <2> QED
    BY <2>1, <2>2 DEF KnowsOriginal, ServerGrows, At, Job
<1> QED
  BY <1>2, <1>3, <1>4, <1>5 DEF Knows

\* When t knows what it must after its step, so does everybody.
LEMMA TaskPart ==
    ASSUME TypeInv, TaskInv, Grows, config' = config, NEW t \in Task, Knows(t)',
           \A s \in Task \ {t} : task'[s] = task[s]
    PROVE  TaskInv'
<1>1. ASSUME NEW s \in Task PROVE Knows(s)'
  <2>1. Knows(s)
    BY DEF TaskInv, Knows
  <2> QED
    BY <2>1, OthersKnow
<1> QED
  BY <1>1 DEF TaskInv, Knows

-----------------------------------------------------------------------------
\* The half about what is shared.

SharedInv == RowInv /\ TodoInv /\ ServerInv /\ BasisInv /\ FreedMeansGone

SafeInv == TypeInv /\ TaskInv /\ SharedInv

\* SafeInv is IInv with its conjuncts grouped as the two halves need them.
LEMMA SafeInvIsIInv == SafeInv <=> IInv
BY DEF SafeInv, SharedInv, TypeInv, IInv

\* q may take the place of the row of a.
Fits(q, a) ==
    /\ HasRow(q)
    /\ q.newSum # None => Encodes(q.newSum, a)
    /\ q.new # None => q.ledger
    /\ q.state = "pending_delete" => q.new # None
    /\ row[a].ledger => q.ledger
    /\ row[a].new # None => q.new # None
    /\ q.freed => row[a].freed \/ orig[a] = "gone"

\* A statement that leaves the replacement, the ledger and freed alone.
Keeps(r, q) ==
    /\ HasRow(q)
    /\ q.new = r.new /\ q.newSum = r.newSum
    /\ q.ledger = r.ledger /\ q.freed = r.freed

\* Every statement but those of steps 2, 5 and 6 and mark_original_freed is such.
LEMMA StatementsKeep ==
    ASSUME NEW r \in Row, HasRow(r)
    PROVE  /\ Keeps(r, Claimed(r)) /\ Keeps(r, MarkedFailed(r))
           /\ Keeps(r, Rescheduled(r)) /\ Keeps(r, Requeued(r))
           /\ \A reason \in SkipReason : Keeps(r, MarkedSkipped(r, reason))
           /\ Keeps(r, [r EXCEPT !.due = TRUE])
           /\ Keeps(r, [r EXCEPT !.state = "linked"])
           /\ Keeps(r, [r EXCEPT !.state = "done"])
           /\ Keeps(r, [r EXCEPT !.state = "pending_delete"])
           /\ Keeps(r, [r EXCEPT !.state = "done", !.del = "null"])
           /\ Keeps(r, [r EXCEPT !.state = "pending_delete", !.del = "ahead"])
           /\ Keeps(r, [r EXCEPT !.del = "ahead"])
           /\ Keeps(r, [r EXCEPT !.del = "due"])
BY DEF Row, Keeps, HasRow, Claimed, MarkedFailed, Rescheduled, Requeued, MarkedSkipped

\* Such a statement leaves a row that fits.
LEMMA KeepsFits ==
    ASSUME RowInv, NEW a \in Asset, HasRow(row[a]), NEW q, Keeps(row[a], q),
           q.state = "pending_delete" => q.new # None
    PROVE  Fits(q, a)
BY DEF RowInv, Keeps, Fits

\* A step that writes the table, and only rows that fit.
LEMMA TableStep ==
    ASSUME TypeInv, SharedInv, row' \in [Asset -> Row],
           \A a \in Asset : row'[a] = row[a] \/ Fits(row'[a], a),
           todo' \subseteq todo, UNCHANGED <<serverVars, histVars>>
    PROVE  Grows /\ SharedInv'
<1>1. UNCHANGED <<orig, srcMark, srv, basis, lateLoss>>
  BY DEF serverVars, histVars
<1>2. TableGrows
  BY DEF TableGrows, Fits
<1>3. ServerGrows
  BY <1>1 DEF ServerGrows, Stands
<1>4. RowInv'
  BY DEF RowInv, SharedInv, Fits
<1>5. TodoInv'
  <2>1. \A j \in todo : j.job \in Asset
    BY DEF TypeInv, TypeOK
  <2> QED
    BY <1>2, <2>1 DEF SharedInv, TodoInv, TableGrows
<1>6. ServerInv'
  BY <1>1 DEF SharedInv, ServerInv
<1>7. BasisInv'
  BY <1>1, <1>2 DEF SharedInv, BasisInv, TableGrows, Stands
<1>8. FreedMeansGone'
  BY <1>1 DEF SharedInv, FreedMeansGone, Fits
<1> QED
  BY <1>2, <1>3, <1>4, <1>5, <1>6, <1>7, <1>8 DEF Grows, SharedInv

\* The common case: one row.
LEMMA RowWrite ==
    ASSUME TypeInv, SharedInv, NEW a \in Asset, NEW q \in Row, SetRow(a, q), Fits(q, a),
           todo' = todo, UNCHANGED <<serverVars, histVars>>
    PROVE  Grows /\ SharedInv'
<1>1. row \in [Asset -> Row] /\ row' = [row EXCEPT ![a] = q]
  BY DEF TypeInv, TypeOK, SetRow
<1>2. row' \in [Asset -> Row] /\ \A e \in Asset : row'[e] = row[e] \/ Fits(row'[e], e)
  BY <1>1
<1> QED
  BY <1>2, TableStep

\* A step that writes neither the table nor the server.
LEMMA NothingWritten ==
    ASSUME TypeInv, SharedInv, todo' = todo, UNCHANGED <<row, serverVars, histVars>>
    PROVE  Grows /\ SharedInv'
<1>1. row' \in [Asset -> Row]
  BY DEF TypeInv, TypeOK
<1> QED
  BY <1>1, TableStep

\* A step that writes the server's side and not the table.
LEMMA ServerStep ==
    ASSUME TypeInv, SharedInv, ServerGrows, ServerInv',
           basis' = basis, UNCHANGED <<row, todo>>
    PROVE  Grows /\ SharedInv'
<1>1. TableGrows
  BY DEF TableGrows
<1>2. RowInv'
  BY DEF SharedInv, RowInv
<1>3. TodoInv'
  BY DEF SharedInv, TodoInv
<1>4. BasisInv'
  <2> SUFFICES ASSUME NEW a \in Asset, basis[a] # None
               PROVE  /\ srv'[basis[a]].sum # None
                      /\ Encodes(srv'[basis[a]].sum, a)
                      /\ srv'[basis[a]].mark
                      /\ srv'[basis[a]].st = "live" \/ basis[a] \in lateLoss'
                      /\ row[a].ledger /\ row[a].new # None
    BY DEF BasisInv, Stands
  <2>1. basis[a] \in NewAsset /\ Relied(basis[a])
    BY DEF TypeInv, TypeOK, Relied
  <2>2. /\ srv[basis[a]].sum # None /\ Encodes(srv[basis[a]].sum, a)
        /\ srv[basis[a]].mark /\ Stands(basis[a])
        /\ row[a].ledger /\ row[a].new # None
    BY DEF SharedInv, BasisInv
  <2> QED
    BY <2>1, <2>2 DEF ServerGrows
<1>5. FreedMeansGone'
  BY DEF SharedInv, FreedMeansGone, ServerGrows
<1> QED
  BY <1>1, <1>2, <1>3, <1>4, <1>5 DEF Grows, SharedInv

\* The marker on a source does not count.
LEMMA ServerUntouched ==
    ASSUME TypeInv, SharedInv, UNCHANGED <<row, todo, orig, srv, basis, lateLoss>>
    PROVE  Grows /\ SharedInv'
<1>1. ServerGrows /\ ServerInv'
  BY DEF ServerGrows, Stands, SharedInv, ServerInv
<1> QED
  BY <1>1, ServerStep

-----------------------------------------------------------------------------
\* Moves of the task that takes the step.

\* t goes to pc, with this idea of its replacement; nobody else moves.
Moves(t, pc, new, sum) ==
    /\ task'[t].pc = pc /\ task'[t].job = Job(t)
    /\ task'[t].new = new /\ task'[t].sum = sum
    /\ \A s \in Task \ {t} : task'[s] = task[s]

\* Goto and SkipFor move t and leave its replacement alone.
LEMMA GotoMoves ==
    ASSUME task \in [Task -> Local], NEW t \in Task, NEW pc, Goto(t, pc)
    PROVE  Moves(t, pc, task[t].new, task[t].sum)
BY DEF Goto, Moves, Local, Job

\* SkipFor, likewise.
LEMMA SkipForMoves ==
    ASSUME task \in [Task -> Local], NEW t \in Task, NEW reason, SkipFor(t, reason)
    PROVE  Moves(t, "skip", task[t].new, task[t].sum)
BY DEF SkipFor, Moves, Local, Job

\* After Return(t), t knows nothing, which is always true.
LEMMA ReturnKnows ==
    ASSUME task \in [Task -> Local], NEW t \in Task, Return(t)
    PROVE  /\ Knows(t)'
           /\ \A s \in Task \ {t} : task'[s] = task[s]
<1>1. /\ task'[t].pc \in {"idle", "next"} /\ task'[t].job = None
      /\ task'[t].new = None /\ task'[t].sum = None
  BY DEF Return, Idle
<1>2. \A s \in Task \ {t} : task'[s] = task[s]
  BY DEF Return
<1> QED
  BY <1>1, <1>2, IdleKnows

\* The steps before there is a replacement, which take nothing more for granted
\* than the ledger.
Plain == (Undecided \ {"claim"}) \cup {"re_upload", "download", "encode", "mark_no_gain"}

\* A move to such a step needs nothing new to be known.
LEMMA SameKnows ==
    ASSUME TypeInv, NEW t \in Task, Knows(t), Grows, task[t].pc \in Working,
           task[t].pc \notin Unrecorded,
           NEW pc \in Plain, pc \in Undecided \/ task[t].pc \notin Undecided,
           Moves(t, pc, task[t].new, task[t].sum)
    PROVE  Knows(t)'
<1>1. Job(t) \in Asset /\ Job(t) # None
  BY WorkingJob, TypeInvTask
<1>2. pc \notin Unrecorded \cup Replaced
  BY DEF Plain, Undecided, Unrecorded, Replaced, FinalPC
<1>3. KnowsRow(t)'
  BY <1>1, <1>2 DEF Knows, KnowsRow, Moves, Job, Grows, TableGrows
<1>4. KnowsBytes(t)'
  BY <1>1 DEF Knows, KnowsBytes, Moves, Job, Plain, Undecided
<1>5. KnowsReplacement(t)' /\ KnowsOriginal(t)'
  BY DEF KnowsReplacement, KnowsOriginal, Moves, At, Plain, Undecided
<1> QED
  BY <1>3, <1>4, <1>5 DEF Knows

\* A step of t that leaves the configuration alone.
LEMMA StepOf ==
    ASSUME SafeInv, TypeInv', Grows /\ SharedInv', config' = config,
           NEW t \in Task, Knows(t)', \A s \in Task \ {t} : task'[s] = task[s]
    PROVE  SafeInv' /\ Grows
BY TaskPart DEF SafeInv

\* A statement of a task on the row of its job that Keeps.
LEMMA KeepingWrite ==
    ASSUME SafeInv, NEW t \in Task, task[t].pc \in Working,
           NEW q \in Row, SetRow(Job(t), q), Keeps(row[Job(t)], q),
           q.state = "pending_delete" => q.new # None,
           todo' = todo, UNCHANGED <<serverVars, histVars>>
    PROVE  Grows /\ SharedInv'
<1>1. Job(t) \in Asset /\ HasRow(row[Job(t)])
  BY WorkingJob, TypeInvTask DEF SafeInv, TaskInv, KnowsRow
<1>2. Fits(q, Job(t))
  BY <1>1, KeepsFits DEF SafeInv, SharedInv
<1> QED
  BY <1>1, <1>2, RowWrite DEF SafeInv

\* What holds of the job of a task at work.
LEMMA AtWork ==
    ASSUME SafeInv, NEW t \in Task, task[t].pc \in Working
    PROVE  /\ Job(t) \in Asset /\ Job(t) # None /\ Knows(t)
           /\ row[Job(t)] \in Row /\ HasRow(row[Job(t)])
           /\ task \in [Task -> Local] /\ task[t] \in Local
<1>1. Job(t) \in Asset /\ Job(t) # None /\ Knows(t) /\ task[t] \in Local
  BY WorkingJob, TypeInvTask DEF SafeInv, TaskInv, Knows
<1>2. row[Job(t)] \in Row /\ task \in [Task -> Local]
  BY <1>1 DEF SafeInv, TypeInv, TypeOK
<1> QED
  BY <1>1, <1>2 DEF Knows, KnowsRow

-----------------------------------------------------------------------------
\* Claiming a job, and steps 1 and 2.

\* The SELECT of claim_next: a claimable row is a row.
LEMMA SafePoll ==
    ASSUME SafeInv, TypeInv', NEW w \in Worker, Poll(w)
    PROVE  SafeInv' /\ Grows
<1>1. w \in Task /\ task[w] \in Local /\ task[w].pc = "idle" /\ Knows(w)
  BY DEF Poll, At, Task, SafeInv, TypeInv, TypeOK, TaskInv, Knows
<1>2. task[w].new = None /\ task[w].sum = None
  BY <1>1 DEF Knows, KnowsRow, SafeInv, TypeInv, HasJob
<1>3. PICK a \in Asset : Claimable(row[a])
                         /\ task' = [task EXCEPT ![w].pc = "claim", ![w].job = a]
  BY DEF Poll
<1>4. /\ task'[w].pc = "claim" /\ task'[w].job = a
      /\ task'[w].new = None /\ task'[w].sum = None
      /\ \A s \in Task \ {w} : task'[s] = task[s]
  BY <1>1, <1>2, <1>3 DEF SafeInv, TypeInv, TypeOK, Local
<1>5. UNCHANGED <<row, todo, config, serverVars, histVars>>
  BY DEF Poll, dbVars
<1>6. Grows /\ SharedInv'
  BY <1>5, NothingWritten DEF SafeInv
<1>7. Knows(w)'
  <2>1. KnowsRow(w)'
    <3>1. HasRow(row'[a])
      BY <1>3, <1>5 DEF Claimable, HasRow, Resumable
    <3> QED
      BY <1>4, <3>1, StoreAssumption
         DEF KnowsRow, Job, Undecided, Unrecorded, Replaced, FinalPC, StoreAssumption
  <2>2. KnowsBytes(w)' /\ KnowsReplacement(w)' /\ KnowsOriginal(w)'
    BY <1>4 DEF KnowsBytes, KnowsReplacement, KnowsOriginal, Job, At
  <2> QED
    BY <2>1, <2>2 DEF Knows
<1> QED
  BY <1>1, <1>4, <1>5, <1>6, <1>7, StepOf

\* Steps 1 and 2: the ledger is written before anything that presupposes it.
LEMMA SafeGuards ==
    ASSUME SafeInv, TypeInv', NEW w \in Worker, Claim(w) \/ Guards(w)
    PROVE  SafeInv' /\ Grows
<1> w \in Task
  BY DEF Task
<1> TypeInv
  BY DEF SafeInv
<1>1. CASE Claim(w)
  <2>1. At(w, "claim") /\ task[w].pc \in Working
    BY <1>1 DEF Claim, At, Working, PC, WorkerPC
  <2>2. Grows /\ SharedInv'
    <3>1. Claimed(row[Job(w)]).state # "pending_delete"
      BY <2>1, AtWork DEF Claimed, Row
    <3> QED
      BY <1>1, <2>1, <3>1, AtWork, RowTypes, StatementsKeep, KeepingWrite DEF Claim
  <2>3. Moves(w, "load", task[w].new, task[w].sum)
    BY <1>1, <2>1, AtWork, GotoMoves DEF Claim
  <2>4. Knows(w)'
    BY <2>1, <2>2, <2>3, AtWork, SameKnows DEF At, Plain, Undecided, Unrecorded
  <2> QED
    BY <1>1, <2>2, <2>3, <2>4, StepOf DEF Claim, Moves
<1>2. CASE Load(w)
  <2>1. At(w, "load") /\ task[w].pc \in Working
    BY <1>2 DEF Load, At, Working, PC, WorkerPC
  <2>2. Grows /\ SharedInv'
    BY <1>2, NothingWritten DEF Load, SafeInv, dbVars
  <2>3. Moves(w, Parsed(row[Job(w)]), row[Job(w)].new, task[w].sum)
    BY <1>2, <2>1, AtWork DEF Load, Moves, Local, Job
  <2>4. Parsed(row[Job(w)]) \in {"marker", "skip", "reject"}
    BY <2>1, AtWork DEF Parsed, Row
  <2>5. row' = row
    BY <1>2 DEF Load, dbVars
  <2>6. KnowsRow(w)'
    BY <2>1, <2>3, <2>4, <2>5, AtWork
       DEF KnowsRow, Moves, Job, Undecided, Unrecorded, Replaced, FinalPC
  <2>7. KnowsBytes(w)'
    BY <2>1, <2>3, <2>4, AtWork DEF Knows, KnowsBytes, Moves, Job
  <2>8. KnowsReplacement(w)' /\ KnowsOriginal(w)'
    BY <2>3, <2>4 DEF KnowsReplacement, KnowsOriginal, Moves, At
  <2> QED
    BY <1>2, <2>2, <2>3, <2>6, <2>7, <2>8, StepOf DEF Load, Moves, Knows
<1>3. CASE Reject(w)
  <2>1. task[w].pc \in Working
    BY <1>3 DEF Reject, At, Working, PC, WorkerPC
  <2>2. Grows /\ SharedInv'
    <3>1. MarkedFailed(row[Job(w)]).state # "pending_delete"
      BY <2>1, AtWork DEF MarkedFailed, Row
    <3> QED
      BY <1>3, <2>1, <3>1, AtWork, RowTypes, StatementsKeep, KeepingWrite DEF Reject
  <2> QED
    BY <1>3, <2>1, <2>2, AtWork, ReturnKnows, StepOf DEF Reject
<1>4. CASE ReadMarker(w)
  <2>1. At(w, "marker") /\ task[w].pc \in Working
    BY <1>4 DEF ReadMarker, At, Working, PC, WorkerPC
  <2>2. Grows /\ SharedInv'
    BY <1>4, NothingWritten DEF ReadMarker, SafeInv, dbVars
  <2>3. PICK pc \in {"skip", "detail"} : Moves(w, pc, task[w].new, task[w].sum)
    BY <1>4, <2>1, AtWork, GotoMoves, SkipForMoves DEF ReadMarker
  <2>4. Knows(w)'
    BY <2>1, <2>2, <2>3, AtWork, SameKnows DEF At, Plain, Undecided, Unrecorded
  <2> QED
    BY <1>4, <2>2, <2>3, <2>4, StepOf DEF ReadMarker, Moves
<1>5. CASE GetDetail(w)
  <2>1. At(w, "detail") /\ task[w].pc \in Working
    BY <1>5 DEF GetDetail, At, Working, PC, WorkerPC
  <2>2. Grows /\ SharedInv'
    BY <1>5, NothingWritten DEF GetDetail, SafeInv, dbVars
  <2>3. PICK pc \in {"skip", "ledger"} : Moves(w, pc, task[w].new, task[w].sum)
    BY <1>5, <2>1, AtWork, GotoMoves, SkipForMoves DEF GetDetail
  <2>4. Knows(w)'
    BY <2>1, <2>2, <2>3, AtWork, SameKnows DEF At, Plain, Undecided, Unrecorded
  <2> QED
    BY <1>5, <2>2, <2>3, <2>4, StepOf DEF GetDetail, Moves
<1>6. CASE WriteLedger(w)
  <2>1. At(w, "ledger") /\ task[w].pc \in Working
    BY <1>6 DEF WriteLedger, At, Working, PC, WorkerPC
  <2> DEFINE q == [row[Job(w)] EXCEPT !.ledger = TRUE]
  <2>2. q \in Row /\ q.ledger /\ q.state = row[Job(w)].state /\ q.new = row[Job(w)].new
        /\ q.newSum = row[Job(w)].newSum /\ q.freed = row[Job(w)].freed
    BY <2>1, AtWork DEF Row
  <2>3. Fits(q, Job(w))
    BY <2>1, <2>2, AtWork DEF Fits, SafeInv, SharedInv, RowInv, HasRow
  <2>4. SetRow(Job(w), q)
    BY <1>6 DEF WriteLedger
  <2> HIDE DEF q
  <2>5. Grows /\ SharedInv'
    BY <1>6, <2>1, <2>2, <2>3, <2>4, AtWork, RowWrite DEF WriteLedger, SafeInv
  <2>6. Moves(w, "re_upload", task[w].new, task[w].sum)
    BY <1>6, <2>1, AtWork, GotoMoves DEF WriteLedger
  <2>7. row'[Job(w)].ledger
    BY <2>1, <2>2, <2>4, AtWork DEF SetRow, SafeInv, TypeInv, TypeOK
  <2>8. KnowsRow(w)'
    BY <2>1, <2>5, <2>6, <2>7, AtWork
       DEF Knows, KnowsRow, Moves, Job, At, Undecided, Unrecorded, Replaced, FinalPC,
           Grows, TableGrows
  <2>9. KnowsBytes(w)'
    BY <2>1, <2>6, AtWork DEF Knows, KnowsBytes, Moves, Job
  <2>10. KnowsReplacement(w)' /\ KnowsOriginal(w)'
    BY <2>6 DEF KnowsReplacement, KnowsOriginal, Moves, At
  <2> QED
    BY <1>6, <2>5, <2>6, <2>8, <2>9, <2>10, StepOf DEF WriteLedger, Moves, Knows
<1>7. CASE CheckReUpload(w)
  <2>1. At(w, "re_upload") /\ task[w].pc \in Working
    BY <1>7 DEF CheckReUpload, At, Working, PC, WorkerPC
  <2>2. Grows /\ SharedInv'
    BY <1>7, NothingWritten DEF CheckReUpload, SafeInv, dbVars
  <2>3. PICK pc \in {"skip", "download"} : Moves(w, pc, task[w].new, task[w].sum)
    BY <1>7, <2>1, AtWork, GotoMoves, SkipForMoves DEF CheckReUpload
  <2>4. Knows(w)'
    BY <2>1, <2>2, <2>3, AtWork, SameKnows DEF At, Plain, Undecided, Unrecorded
  <2> QED
    BY <1>7, <2>2, <2>3, <2>4, StepOf DEF CheckReUpload, Moves
<1> QED
  BY <1>1, <1>2, <1>3, <1>4, <1>5, <1>6, <1>7 DEF Guards

\* The except clauses of run_job keep the row's replacement and ledger.
LEMMA SafeEndRun ==
    ASSUME SafeInv, TypeInv', NEW w \in Worker, EndRun(w)
    PROVE  SafeInv' /\ Grows
<1> w \in Task
  BY DEF Task
<1> TypeInv
  BY DEF SafeInv
<1>1. CASE CallFails(w)
  <2>1. task[w].pc \in Working /\ task[w].pc \notin Unrecorded
    BY <1>1 DEF CallFails, MayFail, Working, PC, WorkerPC, Unrecorded
  <2>2. Grows /\ SharedInv'
    BY <1>1, NothingWritten DEF CallFails, SafeInv, dbVars
  <2>3. Moves(w, "fail", task[w].new, task[w].sum)
    BY <1>1, <2>1, AtWork, GotoMoves DEF CallFails
  <2>4. Knows(w)'
    BY <2>1, <2>2, <2>3, AtWork, SameKnows DEF Plain, Undecided
  <2> QED
    BY <1>1, <2>2, <2>3, <2>4, StepOf DEF CallFails, Moves
<1>2. CASE Skip(w)
  <2>1. task[w].pc \in Working
    BY <1>2 DEF Skip, At, Working, PC, WorkerPC
  <2>2. task[w].why \in SkipReason
    BY <2>1, AtWork DEF Local
  <2>3. Grows /\ SharedInv'
    <3>1. MarkedSkipped(row[Job(w)], task[w].why).state # "pending_delete"
      BY <2>1, AtWork DEF MarkedSkipped, Row
    <3> QED
      BY <1>2, <2>1, <2>2, <3>1, AtWork, RowTypes, StatementsKeep, KeepingWrite DEF Skip
  <2> QED
    BY <1>2, <2>1, <2>3, AtWork, ReturnKnows, StepOf DEF Skip
<1>3. CASE HandleFailure(w)
  <2>1. task[w].pc \in Working
    BY <1>3 DEF HandleFailure, At, Working, PC, WorkerPC
  <2>2. Grows /\ SharedInv'
    <3>1. PICK q \in {MarkedFailed(row[Job(w)]), Rescheduled(row[Job(w)])} : SetRow(Job(w), q)
      BY <1>3 DEF HandleFailure
    <3>2. q \in Row /\ Keeps(row[Job(w)], q)
      BY <2>1, AtWork, RowTypes, StatementsKeep
    <3>3. q.state # "pending_delete"
      BY <2>1, AtWork DEF MarkedFailed, Rescheduled, Row
    <3> QED
      BY <1>3, <2>1, <3>1, <3>2, <3>3, KeepingWrite DEF HandleFailure
  <2> QED
    BY <1>3, <2>1, <2>2, AtWork, ReturnKnows, StepOf DEF HandleFailure
<1> QED
  BY <1>1, <1>2, <1>3 DEF EndRun

-----------------------------------------------------------------------------
\* Steps 3 to 6: from the download to the record of the upload.

\* Both ways of recording an upload write the two columns, and what they write
\* fits the row.
LEMMA RecordFits ==
    ASSUME SafeInv, NEW t \in Task, task[t].pc \in {"record", "record_duplicate"},
           NEW q, q.new = task[t].new, q.newSum = task[t].sum,
           q.ledger = row[Job(t)].ledger, q.freed = row[Job(t)].freed,
           HasRow(q)
    PROVE  Fits(q, Job(t))
<1>1. task[t].pc \in Working
  BY DEF Working, PC, WorkerPC
<1>2. KnowsRow(t) /\ KnowsBytes(t) /\ Job(t) # None
  BY <1>1, AtWork DEF Knows
<1>3. task[t].new # None /\ row[Job(t)].ledger
  BY <1>2 DEF KnowsRow, Unrecorded, Undecided
<1> QED
  BY <1>2, <1>3 DEF Fits, KnowsBytes

\* The upload: a fresh id is no one's replacement yet.
LEMMA SafeUpload ==
    ASSUME SafeInv, TypeInv', NEW w \in Worker, Upload(w)
    PROVE  SafeInv' /\ Grows
<1> w \in Task
  BY DEF Task
<1>1. At(w, "upload") /\ task[w].pc \in Working
  BY DEF Upload, At, Working, PC, WorkerPC
<1> DEFINE up(s) == [NoReplacement EXCEPT !.st = "live", !.sum = s, !.from = Job(w)]
<1>2. PICK n \in NewAsset,
           s \in {b \in Bytes : b = task[w].sum \/ EncodedFrom[b] = None} :
         /\ srv[n].st = "absent"
         /\ srv' = [srv EXCEPT ![n] = up(s)]
         /\ \/ task' = [task EXCEPT ![w].pc = "record", ![w].new = n]
            \/ /\ s = task[w].sum
               /\ task' = [task EXCEPT ![w].pc = "read_duplicate", ![w].new = n]
            \/ Goto(w, "fail")
  BY Zenon DEF Upload
<1>3. s \in Bytes /\ n # None
  BY StoreAssumption DEF StoreAssumption
<1>4. up(s).st = "live" /\ up(s).sum = s /\ ~up(s).links /\ ~up(s).fields /\ ~up(s).mark
  BY DEF NoReplacement
<1>5. srv[n] = NoReplacement
  BY <1>2 DEF SafeInv, SharedInv, ServerInv
<1>6. srv \in [NewAsset -> Replacement]
  BY DEF SafeInv, TypeInv, TypeOK
<1>7. UNCHANGED <<row, config, todo, orig, basis, lateLoss>>
  BY DEF Upload, dbVars, histVars
<1>8. srv'[n] = up(s) /\ \A m \in NewAsset \ {n} : srv'[m] = srv[m]
  BY <1>2, <1>6
<1> HIDE DEF up
<1>9. ServerGrows
  BY <1>4, <1>5, <1>7, <1>8 DEF ServerGrows, Stands, NoReplacement
<1>10. ServerInv'
  BY <1>4, <1>8 DEF SafeInv, SharedInv, ServerInv
<1>11. Grows /\ SharedInv'
  BY <1>7, <1>9, <1>10, ServerStep DEF SafeInv
<1>12. Knows(w) /\ KnowsRow(w) /\ KnowsBytes(w) /\ task[w].sum # None
       /\ task \in [Task -> Local] /\ task[w] \in Local
  BY <1>1, AtWork DEF Knows, KnowsBytes, At
<1>13. CASE Goto(w, "fail")
  <2>1. Moves(w, "fail", task[w].new, task[w].sum)
    BY <1>12, <1>13, GotoMoves
  <2>2. Knows(w)'
    BY <1>1, <1>11, <1>12, <2>1, SameKnows DEF At, Plain, Undecided, Unrecorded, SafeInv
  <2> QED
    BY <1>7, <1>11, <2>1, <2>2, StepOf DEF Moves
<1>14. ASSUME NEW pc \in {"record", "read_duplicate"},
              task' = [task EXCEPT ![w].pc = pc, ![w].new = n],
              pc = "read_duplicate" => s = task[w].sum
       PROVE  SafeInv' /\ Grows
  <2>1. Moves(w, pc, n, task[w].sum)
    BY <1>12, <1>14 DEF Moves, Local, Job
  <2>2. KnowsRow(w)'
    BY <1>1, <1>3, <1>7, <1>12, <2>1, AtWork
       DEF KnowsRow, Moves, Job, At, Undecided, Unrecorded, Replaced, FinalPC
  <2>3. KnowsBytes(w)'
    BY <1>12, <2>1 DEF KnowsBytes, Moves, Job
  <2>4. KnowsReplacement(w)'
    BY <1>4, <1>8, <1>14, <2>1 DEF KnowsReplacement, Moves, At
  <2>5. KnowsOriginal(w)'
    BY <2>1 DEF KnowsOriginal, Moves, At
  <2> QED
    BY <1>7, <1>11, <2>1, <2>2, <2>3, <2>4, <2>5, StepOf DEF Moves, Knows
<1> QED
  BY <1>2, <1>13, <1>14

\* Steps 3 to 6: the checksum is of an encode of the job, and the id gets on record.
LEMMA SafeReplace ==
    ASSUME SafeInv, TypeInv', NEW w \in Worker, Replace(w)
    PROVE  SafeInv' /\ Grows
<1> w \in Task
  BY DEF Task
<1> TypeInv
  BY DEF SafeInv
<1>1. CASE Download(w)
  <2>1. At(w, "download") /\ task[w].pc \in Working
    BY <1>1 DEF Download, At, Working, PC, WorkerPC
  <2>2. Grows /\ SharedInv'
    BY <1>1, NothingWritten DEF Download, SafeInv, dbVars
  <2>3. PICK pc \in {"skip", "encode"} : Moves(w, pc, task[w].new, task[w].sum)
    BY <1>1, <2>1, AtWork, GotoMoves, SkipForMoves DEF Download
  <2>4. Knows(w)'
    BY <2>1, <2>2, <2>3, AtWork, SameKnows DEF At, Plain, Undecided, Unrecorded
  <2> QED
    BY <1>1, <2>2, <2>3, <2>4, StepOf DEF Download, Moves
<1>2. CASE Encode(w)
  <2>1. At(w, "encode") /\ task[w].pc \in Working
    BY <1>2 DEF Encode, At, Working, PC, WorkerPC
  <2>2. Grows /\ SharedInv'
    BY <1>2, NothingWritten DEF Encode, SafeInv, dbVars
  <2>3. CASE Goto(w, "mark_no_gain")
    <3>1. Moves(w, "mark_no_gain", task[w].new, task[w].sum)
      BY <2>1, <2>3, AtWork, GotoMoves
    <3>2. Knows(w)'
      BY <2>1, <2>2, <3>1, AtWork, SameKnows DEF At, Plain, Undecided, Unrecorded
    <3> QED
      BY <1>2, <2>2, <3>1, <3>2, StepOf DEF Encode, Moves
  <2>4. CASE ~Goto(w, "mark_no_gain")
    <3> DEFINE pc == IF task[w].new = None THEN "upload" ELSE "copy"
    <3>1. PICK b \in Bytes : /\ Encodes(b, Job(w))
                             /\ task' = [task EXCEPT ![w].pc = pc, ![w].sum = b]
      BY <1>2, <2>4 DEF Encode
    <3>2. Moves(w, pc, task[w].new, b)
      BY <2>1, <3>1, AtWork DEF Moves, Local, Job
    <3>3. b # None
      BY StoreAssumption DEF StoreAssumption
    <3>4. row' = row
      BY <1>2 DEF Encode, dbVars
    <3>5. KnowsRow(w)'
      BY <2>1, <3>2, <3>4, AtWork
         DEF Knows, KnowsRow, Moves, Job, At, Undecided, Unrecorded, Replaced, FinalPC
    <3>6. KnowsBytes(w)'
      BY <3>1, <3>2, <3>3 DEF KnowsBytes, Moves, Job
    <3>7. KnowsReplacement(w)' /\ KnowsOriginal(w)'
      BY <3>2 DEF KnowsReplacement, KnowsOriginal, Moves, At
    <3> QED
      BY <1>2, <2>2, <3>2, <3>5, <3>6, <3>7, StepOf DEF Encode, Moves, Knows
  <2> QED
    BY <2>3, <2>4
<1>3. CASE MarkNoGain(w)
  <2>1. At(w, "mark_no_gain") /\ task[w].pc \in Working
    BY <1>3 DEF MarkNoGain, At, Working, PC, WorkerPC
  <2>2. Grows /\ SharedInv'
    BY <1>3, ServerUntouched DEF MarkNoGain, SafeInv, dbVars, histVars
  <2>3. Moves(w, "skip", task[w].new, task[w].sum)
    BY <1>3, <2>1, AtWork, SkipForMoves DEF MarkNoGain
  <2>4. Knows(w)'
    BY <2>1, <2>2, <2>3, AtWork, SameKnows DEF At, Plain, Undecided, Unrecorded
  <2> QED
    BY <1>3, <2>2, <2>3, <2>4, StepOf DEF MarkNoGain, Moves
<1>4. CASE UploadDuplicate(w)
  <2>1. At(w, "upload") /\ task[w].pc \in Working
    BY <1>4 DEF UploadDuplicate, At, Working, PC, WorkerPC
  <2>2. Grows /\ SharedInv'
    BY <1>4, NothingWritten DEF UploadDuplicate, SafeInv, dbVars
  <2>3. PICK n \in NewAsset :
           /\ Holds(n, task[w].sum)
           /\ task' = [task EXCEPT ![w].pc = "read_duplicate", ![w].new = n]
    BY <1>4 DEF UploadDuplicate
  <2>4. Moves(w, "read_duplicate", n, task[w].sum)
    BY <2>1, <2>3, AtWork DEF Moves, Local, Job
  <2>5. n # None /\ UNCHANGED <<row, srv>>
    BY <1>4, StoreAssumption DEF UploadDuplicate, StoreAssumption, dbVars, serverVars
  <2>6. KnowsRow(w)'
    BY <2>1, <2>4, <2>5, AtWork
       DEF Knows, KnowsRow, Moves, Job, At, Undecided, Unrecorded, Replaced, FinalPC
  <2>7. KnowsBytes(w)'
    BY <2>1, <2>4, AtWork DEF Knows, KnowsBytes, Moves, Job, At
  <2>8. KnowsReplacement(w)' /\ KnowsOriginal(w)'
    BY <2>3, <2>4, <2>5 DEF KnowsReplacement, KnowsOriginal, Moves, At, Holds
  <2> QED
    BY <1>4, <2>2, <2>4, <2>6, <2>7, <2>8, StepOf DEF UploadDuplicate, Moves, Knows
<1>5. CASE Upload(w)
  BY <1>5, SafeUpload
<1>6. CASE ReadDuplicate(w)
  <2>1. At(w, "read_duplicate") /\ task[w].pc \in Working
    BY <1>6 DEF ReadDuplicate, At, Working, PC, WorkerPC
  <2>2. Grows /\ SharedInv'
    BY <1>6, NothingWritten DEF ReadDuplicate, SafeInv, dbVars
  <2>3. PICK s \in Bytes \cup {None} :
           /\ s = None \/ Holds(task[w].new, s)
           /\ task' = [task EXCEPT ![w].pc = "record_duplicate", ![w].sum = s]
    BY <1>6 DEF ReadDuplicate
  <2>4. Moves(w, "record_duplicate", task[w].new, s)
    BY <2>1, <2>3, AtWork DEF Moves, Local, Job
  <2>5. row' = row
    BY <1>6 DEF ReadDuplicate, dbVars
  <2>6. s # None => Encodes(s, Job(w))
    BY <2>1, <2>3, AtWork DEF Holds, Knows, KnowsReplacement, KnowsBytes, At
  <2>7. KnowsRow(w)'
    BY <2>1, <2>4, <2>5, AtWork
       DEF Knows, KnowsRow, Moves, Job, At, Undecided, Unrecorded, Replaced, FinalPC
  <2>8. KnowsBytes(w)'
    BY <2>4, <2>6 DEF KnowsBytes, Moves, Job
  <2>9. KnowsReplacement(w)' /\ KnowsOriginal(w)'
    BY <2>4 DEF KnowsReplacement, KnowsOriginal, Moves, At
  <2> QED
    BY <1>6, <2>2, <2>4, <2>7, <2>8, <2>9, StepOf DEF ReadDuplicate, Moves, Knows
<1>7. CASE RecordDuplicate(w)
  <2>1. At(w, "record_duplicate") /\ task[w].pc \in Working
    BY <1>7 DEF RecordDuplicate, At, Working, PC, WorkerPC
  <2> DEFINE q == [row[Job(w)] EXCEPT !.new = task[w].new, !.newSum = task[w].sum]
  <2>2. /\ q.new = task[w].new /\ q.newSum = task[w].sum
        /\ q.ledger = row[Job(w)].ledger /\ q.freed = row[Job(w)].freed /\ HasRow(q)
    BY <2>1, AtWork DEF Row, HasRow
  <2>3. q \in Row
    BY <2>1, AtWork, RowEdits DEF Local
  <2>4. SetRow(Job(w), q)
    BY <1>7 DEF RecordDuplicate
  <2> HIDE DEF q
  <2>5. Fits(q, Job(w))
    BY <2>1, <2>2, RecordFits DEF At
  <2>6. Grows /\ SharedInv'
    BY <1>7, <2>1, <2>3, <2>4, <2>5, AtWork, RowWrite DEF RecordDuplicate, SafeInv
  <2>7. Moves(w, "skip", task[w].new, task[w].sum)
    BY <1>7, <2>1, AtWork, SkipForMoves DEF RecordDuplicate
  <2>8. row'[Job(w)] = q
    BY <2>1, <2>4, AtWork DEF SetRow, TypeInv, TypeOK
  <2>9. KnowsRow(w)'
    BY <2>1, <2>2, <2>7, <2>8, AtWork
       DEF Knows, KnowsRow, Moves, Job, At, Undecided, Unrecorded, Replaced, FinalPC
  <2>10. KnowsBytes(w)' /\ KnowsReplacement(w)' /\ KnowsOriginal(w)'
    BY <2>1, <2>7, AtWork DEF Knows, KnowsBytes, KnowsReplacement, KnowsOriginal, Moves, At, Job
  <2> QED
    BY <1>7, <2>6, <2>7, <2>9, <2>10, StepOf DEF RecordDuplicate, Moves, Knows
<1>8. CASE Record(w)
  <2>1. At(w, "record") /\ task[w].pc \in Working
    BY <1>8 DEF Record, At, Working, PC, WorkerPC
  <2> DEFINE q == [row[Job(w)] EXCEPT !.state = "uploaded", !.new = task[w].new,
                                      !.newSum = task[w].sum]
  <2>2. /\ q.new = task[w].new /\ q.newSum = task[w].sum
        /\ q.ledger = row[Job(w)].ledger /\ q.freed = row[Job(w)].freed /\ HasRow(q)
    BY <2>1, AtWork DEF Row, HasRow
  <2>3. q \in Row
    BY <2>1, AtWork, RowEdits DEF Local
  <2>4. SetRow(Job(w), q)
    BY <1>8 DEF Record
  <2> HIDE DEF q
  <2>5. Fits(q, Job(w))
    BY <2>1, <2>2, RecordFits DEF At
  <2>6. Grows /\ SharedInv'
    BY <1>8, <2>1, <2>3, <2>4, <2>5, AtWork, RowWrite DEF Record, SafeInv
  <2>7. Moves(w, "copy", task[w].new, task[w].sum)
    BY <1>8, <2>1, AtWork, GotoMoves DEF Record
  <2>8. row'[Job(w)] = q
    BY <2>1, <2>4, AtWork DEF SetRow, TypeInv, TypeOK
  <2>9. KnowsRow(w)'
    BY <2>1, <2>2, <2>7, <2>8, AtWork
       DEF Knows, KnowsRow, Moves, Job, At, Undecided, Unrecorded, Replaced, FinalPC
  <2>10. KnowsBytes(w)' /\ KnowsReplacement(w)' /\ KnowsOriginal(w)'
    BY <2>1, <2>7, AtWork DEF Knows, KnowsBytes, KnowsReplacement, KnowsOriginal, Moves, At, Job
  <2> QED
    BY <1>8, <2>6, <2>7, <2>9, <2>10, StepOf DEF Record, Moves, Knows
<1> QED
  BY <1>1, <1>2, <1>3, <1>4, <1>5, <1>6, <1>7, <1>8 DEF Replace

-----------------------------------------------------------------------------
\* Steps 7 to 10.

\* A call that adds something to an existing replacement m, and takes nothing away.
LEMMA ReplacementWrite ==
    ASSUME TypeInv, SharedInv, NEW m \in NewAsset, srv[m].st # "absent",
           srv'[m].st = srv[m].st, srv'[m].sum = srv[m].sum,
           srv[m].links => srv'[m].links, srv[m].fields => srv'[m].fields,
           srv[m].mark => srv'[m].mark,
           srv'[m].mark => srv'[m].links /\ srv'[m].fields,
           \A n \in NewAsset \ {m} : srv'[n] = srv[n],
           UNCHANGED <<row, todo, orig, basis, lateLoss>>
    PROVE  Grows /\ SharedInv'
<1>1. ServerGrows
  BY DEF ServerGrows, Stands
<1>2. ServerInv'
  BY DEF SharedInv, ServerInv
<1> QED
  BY <1>1, <1>2, ServerStep

\* Steps 7 to 9: links, then fields, then the marker; then pending_delete.
LEMMA SafeCarryOver ==
    ASSUME SafeInv, TypeInv', NEW w \in Worker, CarryOver(w)
    PROVE  SafeInv' /\ Grows
<1> w \in Task
  BY DEF Task
<1> TypeInv
  BY DEF SafeInv
<1> srv \in [NewAsset -> Replacement]
  BY DEF TypeInv, TypeOK
<1>1. CASE CopyLinks(w)
  <2>1. At(w, "copy") /\ task[w].pc \in Working
    BY <1>1 DEF CopyLinks, At, Working, PC, WorkerPC
  <2> DEFINE m == task[w].new
  <2>2. m \in NewAsset /\ KnowsRow(w) /\ KnowsReplacement(w)
    BY <2>1, AtWork DEF Knows, KnowsRow, At, Replaced, Local
  <2>3. /\ srv[m].st # "absent"
        /\ srv' = [srv EXCEPT ![m].links = TRUE]
        /\ UNCHANGED <<row, todo, config, orig, basis, lateLoss>>
    BY <1>1 DEF CopyLinks, Stored, dbVars, histVars
  <2>4. /\ srv'[m] = [srv[m] EXCEPT !.links = TRUE]
        /\ \A n \in NewAsset \ {m} : srv'[n] = srv[n]
    BY <2>2, <2>3
  <2>5. PICK pc \in {"fields", "fail"} : Moves(w, pc, m, task[w].sum)
    BY <1>1, <2>1, AtWork, GotoMoves DEF CopyLinks
  <2> HIDE DEF m
  <2>6. /\ srv'[m].st = srv[m].st /\ srv'[m].sum = srv[m].sum /\ srv'[m].links
        /\ srv'[m].fields = srv[m].fields /\ srv'[m].mark = srv[m].mark
    BY <2>2, <2>4 DEF Replacement
  <2>7. Grows /\ SharedInv'
    BY <2>2, <2>3, <2>4, <2>6, ReplacementWrite DEF SharedInv, ServerInv, SafeInv
  <2>8. KnowsRow(w)'
    BY <2>1, <2>3, <2>5, AtWork
       DEF Knows, KnowsRow, Moves, Job, At, Undecided, Unrecorded, Replaced, FinalPC, m
  <2>9. KnowsBytes(w)'
    BY <2>1, <2>5, AtWork DEF Knows, KnowsBytes, Moves, Job, m
  <2>10. KnowsReplacement(w)'
    BY <2>6, <2>5 DEF KnowsReplacement, Moves, At, m
  <2>11. KnowsOriginal(w)'
    BY <2>5 DEF KnowsOriginal, Moves, At
  <2> QED
    BY <1>1, <2>3, <2>5, <2>7, <2>8, <2>9, <2>10, <2>11, StepOf DEF CopyLinks, Moves, Knows
<1>2. CASE ApplyFields(w)
  <2>1. At(w, "fields") /\ task[w].pc \in Working
    BY <1>2 DEF ApplyFields, At, Working, PC, WorkerPC
  <2> DEFINE m == task[w].new
  <2>2. m \in NewAsset /\ KnowsRow(w) /\ KnowsReplacement(w)
    BY <2>1, AtWork DEF Knows, KnowsRow, At, Replaced, Local
  <2>3. /\ srv[m].st # "absent"
        /\ srv' = [srv EXCEPT ![m].fields = TRUE]
        /\ UNCHANGED <<row, todo, config, orig, basis, lateLoss>>
    BY <1>2 DEF ApplyFields, Stored, dbVars, histVars
  <2>4. /\ srv'[m] = [srv[m] EXCEPT !.fields = TRUE]
        /\ \A n \in NewAsset \ {m} : srv'[n] = srv[n]
    BY <2>2, <2>3
  <2>5. PICK pc \in {"link", "fail"} : Moves(w, pc, m, task[w].sum)
    BY <1>2, <2>1, AtWork, GotoMoves DEF ApplyFields
  <2> HIDE DEF m
  <2>6. /\ srv'[m].st = srv[m].st /\ srv'[m].sum = srv[m].sum /\ srv'[m].fields
        /\ srv'[m].links = srv[m].links /\ srv'[m].mark = srv[m].mark
    BY <2>2, <2>4 DEF Replacement
  <2>7. Grows /\ SharedInv'
    BY <2>2, <2>3, <2>4, <2>6, ReplacementWrite DEF SharedInv, ServerInv, SafeInv
  <2>8. KnowsRow(w)'
    BY <2>1, <2>3, <2>5, AtWork
       DEF Knows, KnowsRow, Moves, Job, At, Undecided, Unrecorded, Replaced, FinalPC, m
  <2>9. KnowsBytes(w)'
    BY <2>1, <2>5, AtWork DEF Knows, KnowsBytes, Moves, Job, m
  <2>10. KnowsReplacement(w)'
    BY <2>1, <2>2, <2>6, <2>5 DEF KnowsReplacement, Moves, At, m
  <2>11. KnowsOriginal(w)'
    BY <2>5 DEF KnowsOriginal, Moves, At
  <2> QED
    BY <1>2, <2>3, <2>5, <2>7, <2>8, <2>9, <2>10, <2>11, StepOf DEF ApplyFields, Moves, Knows
<1>3. CASE MarkNew(w)
  <2>1. At(w, "mark_new") /\ task[w].pc \in Working
    BY <1>3 DEF MarkNew, At, Working, PC, WorkerPC
  <2> DEFINE m == task[w].new
  <2>2. m \in NewAsset /\ KnowsRow(w) /\ KnowsReplacement(w)
    BY <2>1, AtWork DEF Knows, KnowsRow, At, Replaced, Local
  <2>3. /\ srv[m].st # "absent"
        /\ srv' = [srv EXCEPT ![m].mark = TRUE]
        /\ UNCHANGED <<row, todo, config, orig, basis, lateLoss>>
    BY <1>3 DEF MarkNew, Stored, dbVars, histVars
  <2>4. /\ srv'[m] = [srv[m] EXCEPT !.mark = TRUE]
        /\ \A n \in NewAsset \ {m} : srv'[n] = srv[n]
    BY <2>2, <2>3
  <2>5. PICK pc \in {"mark_source"} : Moves(w, pc, m, task[w].sum)
    BY <1>3, <2>1, AtWork, GotoMoves DEF MarkNew
  <2> HIDE DEF m
  <2>6. /\ srv'[m].st = srv[m].st /\ srv'[m].sum = srv[m].sum /\ srv'[m].mark
        /\ srv'[m].links = srv[m].links /\ srv'[m].fields = srv[m].fields
    BY <2>2, <2>4 DEF Replacement
  <2>7. Grows /\ SharedInv'
    BY <2>2, <2>3, <2>4, <2>6, <2>1, ReplacementWrite DEF SharedInv, ServerInv, SafeInv, KnowsReplacement, At, m
  <2>8. KnowsRow(w)'
    BY <2>1, <2>3, <2>5, AtWork
       DEF Knows, KnowsRow, Moves, Job, At, Undecided, Unrecorded, Replaced, FinalPC, m
  <2>9. KnowsBytes(w)'
    BY <2>1, <2>5, AtWork DEF Knows, KnowsBytes, Moves, Job, m
  <2>10. KnowsReplacement(w)'
    BY <2>5 DEF KnowsReplacement, Moves, At, m
  <2>11. KnowsOriginal(w)'
    BY <2>5 DEF KnowsOriginal, Moves, At
  <2> QED
    BY <1>3, <2>3, <2>5, <2>7, <2>8, <2>9, <2>10, <2>11, StepOf DEF MarkNew, Moves, Knows
<1>4. CASE Link(w)
  <2>1. At(w, "link") /\ task[w].pc \in Working
    BY <1>4 DEF Link, At, Working, PC, WorkerPC
  <2>2. row[Job(w)].new # None
    BY <2>1, AtWork DEF Knows, KnowsRow, At, Replaced, Unrecorded
  <2> DEFINE q == [row[Job(w)] EXCEPT !.state = "linked"]
  <2>3. q \in Row /\ Keeps(row[Job(w)], q)
    BY <2>1, AtWork, RowTypes, RowEdits, StatementsKeep
  <2>4. SetRow(Job(w), q)
    BY <1>4 DEF Link
  <2> HIDE DEF q
  <2>5. q.state = "pending_delete" => q.new # None
    BY <2>2, <2>3 DEF Keeps
  <2>6. Grows /\ SharedInv'
    BY <1>4, <2>1, <2>3, <2>4, <2>5, KeepingWrite DEF Link
  <2>7. Moves(w, "mark_new", task[w].new, task[w].sum)
    BY <1>4, <2>1, AtWork, GotoMoves DEF Link
  <2>8. KnowsRow(w)'
    BY <2>1, <2>6, <2>7, AtWork
       DEF Knows, KnowsRow, Moves, Job, At, Undecided, Unrecorded, Replaced, FinalPC,
           Grows, TableGrows
  <2>9. KnowsBytes(w)'
    BY <2>1, <2>7, AtWork DEF Knows, KnowsBytes, Moves, Job
  <2>10. KnowsReplacement(w)' /\ KnowsOriginal(w)'
    <3>1. KnowsReplacement(w) /\ UNCHANGED srv
      BY <1>4, <2>1, AtWork DEF Link, serverVars, Knows
    <3> QED
      BY <2>1, <2>7, <3>1 DEF KnowsReplacement, KnowsOriginal, Moves, At
  <2> QED
    BY <1>4, <2>6, <2>7, <2>8, <2>9, <2>10, StepOf DEF Link, Moves, Knows
<1>5. CASE MarkSource(w)
  <2>1. At(w, "mark_source") /\ task[w].pc \in Working
    BY <1>5 DEF MarkSource, At, Working, PC, WorkerPC
  <2>2. Grows /\ SharedInv'
    BY <1>5, ServerUntouched DEF MarkSource, dbVars, histVars, SafeInv
  <2>3. row' = row
    BY <1>5 DEF MarkSource, dbVars
  <2>4. Moves(w, "pend", task[w].new, task[w].sum)
    BY <1>5, <2>1, AtWork, GotoMoves DEF MarkSource
  <2>5. KnowsRow(w)'
    BY <2>1, <2>3, <2>4, AtWork
       DEF Knows, KnowsRow, Moves, Job, At, Undecided, Unrecorded, Replaced, FinalPC
  <2>6. KnowsBytes(w)'
    BY <2>1, <2>4, AtWork DEF Knows, KnowsBytes, Moves, Job
  <2>7. KnowsReplacement(w)'
    BY <2>4 DEF KnowsReplacement, Moves, At
  <2>8. KnowsOriginal(w)'
    BY <2>4 DEF KnowsOriginal, Moves, At
  <2> QED
    BY <1>5, <2>2, <2>4, <2>5, <2>6, <2>7, <2>8, StepOf DEF MarkSource, Moves, Knows
<1>6. CASE MarkFails(w)
  <2>1. task[w].pc \in {"mark_no_gain", "mark_new", "mark_source"} /\ task[w].pc \in Working
    BY <1>6 DEF MarkFails, At, Working, PC, WorkerPC
  <2>2. Grows /\ SharedInv'
    BY <1>6, NothingWritten DEF MarkFails, dbVars, SafeInv
  <2>3. row' = row
    BY <1>6 DEF MarkFails, dbVars
  <2>4. PICK pc \in {"skip", "mark_source", "pend"} :
           /\ Moves(w, pc, task[w].new, task[w].sum)
           /\ pc # "skip" => task[w].pc \in {"mark_new", "mark_source"}
    BY <1>6, <2>1, AtWork, GotoMoves, SkipForMoves DEF MarkFails, At
  <2>5. KnowsRow(w)'
    BY <2>1, <2>3, <2>4, AtWork
       DEF Knows, KnowsRow, Moves, Job, At, Undecided, Unrecorded, Replaced, FinalPC
  <2>6. KnowsBytes(w)'
    BY <2>1, <2>4, AtWork DEF Knows, KnowsBytes, Moves, Job
  <2>7. KnowsReplacement(w)'
    BY <2>4 DEF KnowsReplacement, Moves, At
  <2>8. KnowsOriginal(w)'
    BY <2>4 DEF KnowsOriginal, Moves, At
  <2> QED
    BY <1>6, <2>2, <2>4, <2>5, <2>6, <2>7, <2>8, StepOf DEF MarkFails, Moves, Knows
<1>7. CASE Pend(w)
  <2>1. At(w, "pend") /\ task[w].pc \in Working
    BY <1>7 DEF Pend, At, Working, PC, WorkerPC
  <2>2. row[Job(w)].new # None
    BY <2>1, AtWork DEF Knows, KnowsRow, At, Replaced, Unrecorded
  <2>3. PICK q \in {[row[Job(w)] EXCEPT !.state = "pending_delete"],
                    [row[Job(w)] EXCEPT !.state = "done"]} : SetRow(Job(w), q)
    BY <1>7 DEF Pend
  <2>4. q \in Row /\ Keeps(row[Job(w)], q)
    BY <2>1, AtWork, RowEdits, StatementsKeep
  <2>5. q.state = "pending_delete" => q.new # None
    BY <2>2, <2>4 DEF Keeps
  <2>6. Grows /\ SharedInv'
    BY <1>7, <2>1, <2>3, <2>4, <2>5, KeepingWrite DEF Pend
  <2>7. CASE Return(w)
    BY <1>7, <2>1, <2>6, <2>7, AtWork, ReturnKnows, StepOf DEF Pend
  <2>8. CASE ~Return(w)
    <3>1. PICK pc \in {"verify", "schedule"} : Moves(w, pc, task[w].new, task[w].sum)
      BY <1>7, <2>1, <2>8, AtWork, GotoMoves DEF Pend
    <3>2. KnowsRow(w)'
      BY <2>1, <2>6, <3>1, AtWork
         DEF Knows, KnowsRow, Moves, Job, At, Undecided, Unrecorded, Replaced, FinalPC,
             Grows, TableGrows
    <3>3. KnowsBytes(w)'
      BY <2>1, <3>1, AtWork DEF Knows, KnowsBytes, Moves, Job
    <3>4. KnowsReplacement(w)' /\ KnowsOriginal(w)'
      BY <3>1 DEF KnowsReplacement, KnowsOriginal, Moves, At
    <3> QED
      BY <1>7, <2>6, <3>1, <3>2, <3>3, <3>4, StepOf DEF Pend, Moves, Knows
  <2> QED
    BY <2>7, <2>8
<1>8. CASE Schedule(w)
  <2>1. At(w, "schedule") /\ task[w].pc \in Working
    BY <1>8 DEF Schedule, At, Working, PC, WorkerPC
  <2>2. row[Job(w)].new # None
    BY <2>1, AtWork DEF Knows, KnowsRow, At, Replaced, Unrecorded
  <2> DEFINE q == [row[Job(w)] EXCEPT !.del = "ahead"]
  <2>3. q \in Row /\ Keeps(row[Job(w)], q)
    BY <2>1, AtWork, RowTypes, RowEdits, StatementsKeep
  <2>4. SetRow(Job(w), q)
    BY <1>8 DEF Schedule
  <2> HIDE DEF q
  <2>5. q.state = "pending_delete" => q.new # None
    BY <2>2, <2>3 DEF Keeps
  <2>6. Grows /\ SharedInv'
    BY <1>8, <2>1, <2>3, <2>4, <2>5, KeepingWrite DEF Schedule
  <2> QED
    BY <1>8, <2>1, <2>6, AtWork, ReturnKnows, StepOf DEF Schedule
<1> QED
  BY <1>1, <1>2, <1>3, <1>4, <1>5, <1>6, <1>7, <1>8 DEF CarryOver

-----------------------------------------------------------------------------
\* finalize_original.

\* The delete, with everything the verification established still true.
LEMMA SafeDelete ==
    ASSUME SafeInv, TypeInv', NEW t \in Task, Delete(t)
    PROVE  SafeInv' /\ Grows
<1>1. At(t, "delete") /\ task[t].pc \in Working
  BY DEF Delete, At, Working, PC, FinalPC
<1> DEFINE a == Job(t)
           n == task[t].new
<1>2. /\ a \in Asset /\ a # None /\ KnowsRow(t) /\ KnowsBytes(t) /\ KnowsReplacement(t)
      /\ task \in [Task -> Local] /\ n \in NewAsset
  BY <1>1, AtWork DEF Knows, KnowsRow, At, Replaced, FinalPC, Local
<1>3. /\ orig[a] \in Stored
      /\ orig' = [orig EXCEPT ![a] = IF config.permanent THEN "gone" ELSE "trashed"]
      /\ basis' = [basis EXCEPT ![a] = IF basis[a] = None THEN n ELSE basis[a]]
      /\ UNCHANGED <<row, config, todo, srv, lateLoss>>
  BY DEF Delete, dbVars
<1>4. orig \in [Asset -> Presence] /\ basis \in [Asset -> NewAsset \cup {None}]
  BY DEF SafeInv, TypeInv, TypeOK
<1>5. ServerGrows
  BY <1>2, <1>3, <1>4 DEF ServerGrows, Stands, Stored
<1>6. TableGrows
  BY <1>3 DEF TableGrows
<1>7. RowInv' /\ TodoInv' /\ ServerInv'
  BY <1>3 DEF SafeInv, SharedInv, RowInv, TodoInv, ServerInv
<1>8. BasisInv'
  <2>1. /\ srv[n].sum # None /\ Encodes(srv[n].sum, a) /\ srv[n].mark /\ Stands(n)
        /\ row[a].ledger /\ row[a].new # None
    BY <1>1, <1>2 DEF KnowsRow, KnowsBytes, KnowsReplacement, At, Undecided, Unrecorded,
                      Replaced, FinalPC
  <2>2. ASSUME NEW e \in Asset, basis'[e] # None
        PROVE  /\ srv[basis'[e]].sum # None
               /\ Encodes(srv[basis'[e]].sum, e)
               /\ srv[basis'[e]].mark
               /\ Stands(basis'[e])
               /\ row[e].ledger /\ row[e].new # None
    <3>1. CASE e = a /\ basis[a] = None
      BY <1>2, <1>3, <1>4, <2>1, <3>1
    <3>2. CASE ~(e = a /\ basis[a] = None)
      <4>1. basis'[e] = basis[e]
        BY <1>2, <1>3, <1>4, <3>2
      <4> QED
        BY <2>2, <4>1 DEF SafeInv, SharedInv, BasisInv
    <3> QED
      BY <3>1, <3>2
  <2> QED
    BY <1>3, <2>2 DEF BasisInv, Stands
<1>9. FreedMeansGone'
  <2>1. ASSUME NEW e \in Asset, row[e].freed PROVE orig'[e] = "gone"
    <3>1. orig[e] = "gone" /\ e # a
      BY <1>3, <2>1 DEF SafeInv, SharedInv, FreedMeansGone, Stored
    <3> QED
      BY <1>2, <1>3, <1>4, <3>1
  <2> QED
    BY <1>3, <2>1 DEF FreedMeansGone
<1>10. PICK pc \in {"finish", "defer_queue"} : Moves(t, pc, n, task[t].sum)
  BY <1>2, GotoMoves DEF Delete
<1>11. KnowsRow(t)'
  BY <1>1, <1>2, <1>3, <1>10
     DEF KnowsRow, Moves, Job, At, Undecided, Unrecorded, Replaced, FinalPC
<1>12. KnowsBytes(t)' /\ KnowsReplacement(t)'
  BY <1>2, <1>10 DEF KnowsBytes, KnowsReplacement, Moves, Job, At
<1>13. KnowsOriginal(t)'
  <2>1. config.permanent => orig'[a] = "gone"
    BY <1>2, <1>3, <1>4
  <2> QED
    BY <1>3, <1>10, <2>1 DEF KnowsOriginal, Moves, At, Job
<1> QED
  BY <1>3, <1>5, <1>6, <1>7, <1>8, <1>9, <1>10, <1>11, <1>12, <1>13, StepOf
     DEF Grows, SharedInv, Moves, Knows

\* The rest of finalize_original: the verification, the end and the deferral.
LEMMA SafeFinalize ==
    ASSUME SafeInv, TypeInv', NEW t \in Task, Finalize(t)
    PROVE  SafeInv' /\ Grows
<1> TypeInv
  BY DEF SafeInv
<1>1. CASE Verify(t)
  <2>1. At(t, "verify") /\ task[t].pc \in Working
    BY <1>1 DEF Verify, At, Working, PC, FinalPC
  <2>2. Grows /\ SharedInv'
    BY <1>1, NothingWritten DEF Verify, dbVars, SafeInv
  <2>3. UNCHANGED <<row, srv, lateLoss>>
    BY <1>1 DEF Verify, dbVars, serverVars, histVars
  <2>4. Moves(t, "verify_marker", task[t].new, task[t].sum)
    BY <1>1, <2>1, AtWork, GotoMoves DEF Verify
  <2>5. KnowsRow(t)'
    BY <2>1, <2>3, <2>4, AtWork
       DEF Knows, KnowsRow, Moves, Job, At, Undecided, Unrecorded, Replaced, FinalPC
  <2>6. KnowsBytes(t)'
    BY <2>1, <2>4, AtWork DEF Knows, KnowsBytes, Moves, Job
  <2>7. KnowsReplacement(t)'
    BY <1>1, <2>3, <2>4 DEF KnowsReplacement, Moves, At, Verify, Stands
  <2>8. KnowsOriginal(t)'
    BY <2>4 DEF KnowsOriginal, Moves, At
  <2> QED
    BY <1>1, <2>2, <2>4, <2>5, <2>6, <2>7, <2>8, StepOf DEF Verify, Moves, Knows
<1>2. CASE VerifyMarker(t)
  <2>1. At(t, "verify_marker") /\ task[t].pc \in Working
    BY <1>2 DEF VerifyMarker, At, Working, PC, FinalPC
  <2>2. Grows /\ SharedInv'
    BY <1>2, NothingWritten DEF VerifyMarker, dbVars, SafeInv
  <2>3. UNCHANGED <<row, srv, lateLoss>>
    BY <1>2 DEF VerifyMarker, dbVars, serverVars, histVars
  <2>4. Moves(t, "delete", task[t].new, task[t].sum)
    BY <1>2, <2>1, AtWork, GotoMoves DEF VerifyMarker
  <2>5. KnowsRow(t)'
    BY <2>1, <2>3, <2>4, AtWork
       DEF Knows, KnowsRow, Moves, Job, At, Undecided, Unrecorded, Replaced, FinalPC
  <2>6. KnowsBytes(t)'
    BY <2>1, <2>4, AtWork DEF Knows, KnowsBytes, Moves, Job
  <2>7. KnowsReplacement(t)'
    BY <1>2, <2>1, <2>3, <2>4, AtWork DEF KnowsReplacement, Moves, At, VerifyMarker, Stands, Knows
  <2>8. KnowsOriginal(t)'
    BY <2>4 DEF KnowsOriginal, Moves, At
  <2> QED
    BY <1>2, <2>2, <2>4, <2>5, <2>6, <2>7, <2>8, StepOf DEF VerifyMarker, Moves, Knows
<1>3. CASE Delete(t)
  BY <1>3, SafeDelete
<1>4. CASE Refuse(t)
  <2>1. task[t].pc \in {"verify", "verify_marker", "delete"} /\ task[t].pc \in Working
    BY <1>4 DEF Refuse, At, Working, PC, FinalPC
  <2>2. Grows /\ SharedInv'
    BY <1>4, NothingWritten DEF Refuse, dbVars, SafeInv
  <2>3. UNCHANGED <<row, srv, lateLoss>>
    BY <1>4 DEF Refuse, dbVars, serverVars, histVars
  <2>4. Moves(t, "defer_queue", task[t].new, task[t].sum)
    BY <1>4, <2>1, AtWork, GotoMoves DEF Refuse
  <2>5. KnowsRow(t)'
    BY <2>1, <2>3, <2>4, AtWork
       DEF Knows, KnowsRow, Moves, Job, At, Undecided, Unrecorded, Replaced, FinalPC
  <2>6. KnowsBytes(t)'
    BY <2>1, <2>4, AtWork DEF Knows, KnowsBytes, Moves, Job
  <2>7. KnowsReplacement(t)'
    BY <2>4 DEF KnowsReplacement, Moves, At
  <2>8. KnowsOriginal(t)'
    BY <2>4 DEF KnowsOriginal, Moves, At
  <2> QED
    BY <1>4, <2>2, <2>4, <2>5, <2>6, <2>7, <2>8, StepOf DEF Refuse, Moves, Knows
<1>5. CASE Finish(t)
  <2>1. At(t, "finish") /\ task[t].pc \in Working
    BY <1>5 DEF Finish, At, Working, PC, FinalPC
  <2>2. row[Job(t)].new # None
    BY <2>1, AtWork DEF Knows, KnowsRow, At, Replaced, Unrecorded, FinalPC
  <2> DEFINE q == [row[Job(t)] EXCEPT !.state = "done", !.del = "null"]
  <2>3. q \in Row /\ Keeps(row[Job(t)], q)
    BY <2>1, AtWork, RowTypes, RowEdits, StatementsKeep
  <2>4. SetRow(Job(t), q)
    BY <1>5 DEF Finish
  <2> HIDE DEF q
  <2>5. q.state = "pending_delete" => q.new # None
    BY <2>2, <2>3 DEF Keeps
  <2>6. Grows /\ SharedInv'
    BY <1>5, <2>1, <2>3, <2>4, <2>5, KeepingWrite DEF Finish
  <2>7. CASE Return(t)
    BY <1>5, <2>1, <2>6, <2>7, AtWork, ReturnKnows, StepOf DEF Finish
  <2>8. CASE ~Return(t)
    <3>1. Moves(t, "free", task[t].new, task[t].sum) /\ config.permanent
      BY <1>5, <2>1, <2>8, AtWork, GotoMoves DEF Finish
    <3>2. KnowsRow(t)'
      BY <2>1, <2>6, <3>1, AtWork
         DEF Knows, KnowsRow, Moves, Job, At, Undecided, Unrecorded, Replaced, FinalPC,
             Grows, TableGrows
    <3>3. KnowsBytes(t)' /\ KnowsReplacement(t)'
      BY <2>1, <3>1, AtWork DEF Knows, KnowsBytes, KnowsReplacement, Moves, Job, At
    <3>4. KnowsOriginal(t)'
      <4>1. orig[Job(t)] = "gone" /\ UNCHANGED orig
        BY <1>5, <2>1, <3>1, AtWork DEF Finish, serverVars, Knows, KnowsOriginal
      <4> QED
        BY <3>1, <4>1 DEF KnowsOriginal, Moves, At, Job
    <3> QED
      BY <1>5, <2>6, <3>1, <3>2, <3>3, <3>4, StepOf DEF Finish, Moves, Knows
  <2> QED
    BY <2>7, <2>8
<1>6. CASE Free(t)
  <2>1. At(t, "free") /\ task[t].pc \in Working
    BY <1>6 DEF Free, At, Working, PC, FinalPC
  <2>2. orig[Job(t)] = "gone"
    BY <2>1, AtWork DEF Knows, KnowsOriginal
  <2>3. Grows /\ SharedInv'
    <3>1. CASE UNCHANGED row
      BY <1>6, <3>1, NothingWritten DEF Free, SafeInv
    <3>2. CASE ~UNCHANGED row
      <4> DEFINE q == MarkedFreed(row[Job(t)])
      <4>1. /\ q.state = row[Job(t)].state /\ q.new = row[Job(t)].new
            /\ q.newSum = row[Job(t)].newSum /\ q.ledger = row[Job(t)].ledger
        BY <2>1, AtWork DEF MarkedFreed, Row
      <4>2. q \in Row /\ SetRow(Job(t), q)
        BY <1>6, <2>1, <3>2, AtWork, RowTypes DEF Free
      <4> HIDE DEF q
      <4>3. Fits(q, Job(t))
        BY <2>1, <2>2, <4>1, AtWork DEF Fits, SafeInv, SharedInv, RowInv, HasRow
      <4> QED
        BY <1>6, <2>1, <4>2, <4>3, AtWork, RowWrite DEF Free, SafeInv
    <3> QED
      BY <3>1, <3>2
  <2> QED
    BY <1>6, <2>1, <2>3, AtWork, ReturnKnows, StepOf DEF Free
<1>7. CASE DeferQueue(t)
  <2>1. At(t, "defer_queue") /\ task[t].pc \in Working
    BY <1>7 DEF DeferQueue, At, Working, PC, FinalPC
  <2>2. row[Job(t)].new # None
    BY <2>1, AtWork DEF Knows, KnowsRow, At, Replaced, Unrecorded, FinalPC
  <2> DEFINE q == Rescheduled(row[Job(t)])
  <2>3. q \in Row /\ Keeps(row[Job(t)], q)
    BY <2>1, AtWork, RowTypes, RowEdits, StatementsKeep
  <2>4. SetRow(Job(t), q)
    BY <1>7 DEF DeferQueue
  <2> HIDE DEF q
  <2>5. q.state = "pending_delete" => q.new # None
    BY <2>2, <2>3 DEF Keeps
  <2>6. Grows /\ SharedInv'
    BY <1>7, <2>1, <2>3, <2>4, <2>5, KeepingWrite DEF DeferQueue
  <2>7. Moves(t, "defer_pend", task[t].new, task[t].sum)
    BY <1>7, <2>1, AtWork, GotoMoves DEF DeferQueue
  <2>8. KnowsRow(t)'
    BY <2>1, <2>6, <2>7, AtWork
       DEF Knows, KnowsRow, Moves, Job, At, Undecided, Unrecorded, Replaced, FinalPC,
           Grows, TableGrows
  <2>9. KnowsBytes(t)'
    BY <2>1, <2>7, AtWork DEF Knows, KnowsBytes, Moves, Job
  <2>10. KnowsReplacement(t)' /\ KnowsOriginal(t)'
    BY <2>7 DEF KnowsReplacement, KnowsOriginal, Moves, At
  <2> QED
    BY <1>7, <2>6, <2>7, <2>8, <2>9, <2>10, StepOf DEF DeferQueue, Moves, Knows
<1>8. CASE DeferPend(t)
  <2>1. At(t, "defer_pend") /\ task[t].pc \in Working
    BY <1>8 DEF DeferPend, At, Working, PC, FinalPC
  <2>2. row[Job(t)].new # None
    BY <2>1, AtWork DEF Knows, KnowsRow, At, Replaced, Unrecorded, FinalPC
  <2> DEFINE q == [row[Job(t)] EXCEPT !.state = "pending_delete", !.del = "ahead"]
  <2>3. q \in Row /\ Keeps(row[Job(t)], q)
    BY <2>1, AtWork, RowTypes, RowEdits, StatementsKeep
  <2>4. SetRow(Job(t), q)
    BY <1>8 DEF DeferPend
  <2> HIDE DEF q
  <2>5. q.state = "pending_delete" => q.new # None
    BY <2>2, <2>3 DEF Keeps
  <2>6. Grows /\ SharedInv'
    BY <1>8, <2>1, <2>3, <2>4, <2>5, KeepingWrite DEF DeferPend
  <2> QED
    BY <1>8, <2>1, <2>6, AtWork, ReturnKnows, StepOf DEF DeferPend
<1> QED
  BY <1>1, <1>2, <1>3, <1>4, <1>5, <1>6, <1>7, <1>8 DEF Finalize

-----------------------------------------------------------------------------
\* The sweeper.

\* The sweeper: what its list says of a job was true and has stayed true.
LEMMA SafeSweep ==
    ASSUME SafeInv, TypeInv', SweepStart \/ SweepNext
    PROVE  SafeInv' /\ Grows
<1> Sweeper \in Task
  BY DEF Task
<1> TypeInv /\ task \in [Task -> Local] /\ row \in [Asset -> Row]
  BY DEF SafeInv, TypeInv, TypeOK
<1>1. CASE SweepStart
  <2>1. At(Sweeper, "idle") /\ UNCHANGED <<row, config, serverVars, histVars>>
    BY <1>1 DEF SweepStart, dbVars
  <2>2. task[Sweeper].job = None /\ task[Sweeper].new = None /\ task[Sweeper].sum = None
    BY <2>1 DEF SafeInv, TypeInv, TaskInv, HasJob, KnowsRow, At, Job
  <2>3. Moves(Sweeper, "next", None, None) /\ task'[Sweeper].job = None
    BY <1>1, <2>2, GotoMoves DEF SweepStart, Moves, Job
  <2>4. Knows(Sweeper)'
    BY <2>3, IdleKnows DEF Moves
  <2>5. Grows /\ RowInv' /\ ServerInv' /\ BasisInv' /\ FreedMeansGone'
    BY <2>1 DEF Grows, TableGrows, ServerGrows, Stands, SafeInv, SharedInv, RowInv,
                ServerInv, BasisInv, FreedMeansGone, serverVars, histVars
  <2>6. TodoInv'
    <3>1. ASSUME NEW a \in Asset, DueDeletion(row[a])
          PROVE  LET j == Snapshot(a) IN
                 /\ j.new # None
                 /\ j.sum # None => Encodes(j.sum, j.job)
                 /\ HasRow(row[j.job]) /\ row[j.job].ledger /\ row[j.job].new # None
      BY <3>1 DEF DueDeletion, Snapshot, HasRow, SafeInv, SharedInv, RowInv
    <3>2. \A j \in todo' : \E a \in Asset : DueDeletion(row[a]) /\ j = Snapshot(a)
      BY <1>1 DEF SweepStart
    <3> QED
      BY <2>1, <3>1, <3>2 DEF TodoInv
  <2> QED
    BY <2>1, <2>3, <2>4, <2>5, <2>6, StepOf DEF SharedInv, Moves
<1>2. CASE SweepNext /\ todo = {}
  <2>1. task' = [task EXCEPT ![Sweeper] = Idle] /\ UNCHANGED <<row, todo>>
        /\ UNCHANGED <<config, serverVars, histVars>>
    BY <1>2 DEF SweepNext
  <2>2. Grows /\ SharedInv'
    BY <2>1, NothingWritten DEF SafeInv
  <2>3. Knows(Sweeper)'
    BY <2>1, IdleKnows DEF Idle
  <2> QED
    BY <2>1, <2>2, <2>3, StepOf
<1>3. CASE SweepNext /\ todo # {}
  <2> DEFINE l(j) == [Idle EXCEPT !.pc = "verify", !.job = j.job,
                                  !.new = j.new, !.sum = j.sum]
  <2>1. PICK j \in todo :
           /\ todo' = todo \ {j}
           /\ IF j.new = None
                 THEN SetRow(j.job, MarkedFailed(row[j.job])) /\ UNCHANGED task
                 ELSE task' = [task EXCEPT ![Sweeper] = l(j)] /\ UNCHANGED row
    BY <1>3 DEF SweepNext, Idle
  <2>2. /\ j.new # None
        /\ j.sum # None => Encodes(j.sum, j.job)
        /\ HasRow(row[j.job]) /\ row[j.job].ledger /\ row[j.job].new # None
    BY DEF SafeInv, SharedInv, TodoInv
  <2>3. task' = [task EXCEPT ![Sweeper] = l(j)] /\ UNCHANGED row
        /\ UNCHANGED <<config, serverVars, histVars>>
    BY <1>3, <2>1, <2>2 DEF SweepNext
  <2>4. j.job \in Asset /\ j.job # None
    BY StoreAssumption DEF TypeInv, TypeOK, StoreAssumption
  <2>5. Grows /\ SharedInv'
    BY <2>1, <2>3, TableStep DEF SafeInv
  <2>6. /\ task'[Sweeper].pc = "verify" /\ task'[Sweeper].job = j.job
        /\ task'[Sweeper].new = j.new /\ task'[Sweeper].sum = j.sum
        /\ \A s \in Task \ {Sweeper} : task'[s] = task[s]
    BY <2>3 DEF Idle
  <2>7. KnowsRow(Sweeper)'
    BY <2>2, <2>3, <2>4, <2>6
       DEF KnowsRow, Job, Undecided, Unrecorded, Replaced, FinalPC
  <2>8. KnowsBytes(Sweeper)' /\ KnowsReplacement(Sweeper)' /\ KnowsOriginal(Sweeper)'
    BY <2>2, <2>6 DEF KnowsBytes, KnowsReplacement, KnowsOriginal, At, Job
  <2> QED
    BY <2>3, <2>5, <2>6, <2>7, <2>8, StepOf DEF Knows
<1> QED
  BY <1>1, <1>2, <1>3

-----------------------------------------------------------------------------
\* What is not a step of a task.

\* Nobody moves: everybody goes on knowing what he knew.
LEMMA NobodyMoves ==
    ASSUME SafeInv, TypeInv', Grows /\ SharedInv', UNCHANGED <<task, config>>
    PROVE  SafeInv' /\ Grows
<1>1. ASSUME NEW t \in Task PROVE Knows(t)'
  BY OthersKnow DEF SafeInv, TaskInv, Knows
<1> QED
  BY <1>1 DEF SafeInv, TaskInv, Knows

\* The operator's commands and the clock keep what matters of every row.
LEMMA RowsKept ==
    ASSUME SafeInv, TypeInv',
           \A a \in Asset :
              \/ row'[a] = row[a]
              \/ /\ HasRow(row[a]) /\ Keeps(row[a], row'[a])
                 /\ row'[a].state \in {"queued", row[a].state},
           UNCHANGED <<task, todo, config, serverVars, histVars>>
    PROVE  SafeInv' /\ Grows
<1>1. ASSUME NEW a \in Asset PROVE row'[a] = row[a] \/ Fits(row'[a], a)
  BY KeepsFits DEF SafeInv, SharedInv, RowInv, Keeps
<1>2. row' \in [Asset -> Row]
  BY DEF TypeInv, TypeOK
<1>3. Grows /\ SharedInv'
  BY <1>1, <1>2, TableStep DEF SafeInv
<1> QED
  BY <1>3, NobodyMoves

\* Nobody outside the tasks takes back what a task relies on, or is noted in lateLoss.
LEMMA SafeEnvironment ==
    ASSUME SafeInv, TypeInv', Outside \/ Clock \/ Operator \/ Trigger
    PROVE  SafeInv' /\ Grows
<1> TypeInv /\ row \in [Asset -> Row] /\ srv \in [NewAsset -> Replacement]
    /\ orig \in [Asset -> Presence]
  BY DEF SafeInv, TypeInv, TypeOK
<1> USE DEF dbVars, taskVars
<1>1. ASSUME NEW a \in Asset, Arrive(a) \/ OriginalMoved(a) PROVE SafeInv' /\ Grows
  <2>1. /\ orig[a] # "gone" /\ \A e \in Asset \ {a} : orig'[e] = orig[e]
        /\ UNCHANGED <<row, task, config, todo, srv, basis, lateLoss>>
    BY <1>1 DEF Arrive, OriginalMoved, Stored, histVars
  <2>2. ServerGrows /\ ServerInv'
    BY <2>1 DEF ServerGrows, Stands, SafeInv, SharedInv, ServerInv
  <2> QED
    BY <2>1, <2>2, ServerStep, NobodyMoves DEF SafeInv
<1>2. ASSUME NEW n \in NewAsset, ReplacementMoved(n) PROVE SafeInv' /\ Grows
  <2>1. PICK p \in Stored \cup {"gone"} : srv' = [srv EXCEPT ![n].st = p]
    BY <1>2 DEF ReplacementMoved
  <2>2. /\ srv[n].st # "absent" /\ p # "absent"
        /\ lateLoss' = IF Relied(n) THEN lateLoss \cup {n} ELSE lateLoss
        /\ UNCHANGED <<row, task, config, todo, orig, basis>>
    BY <1>2 DEF ReplacementMoved, Stored
  <2>3. /\ srv'[n].sum = srv[n].sum /\ srv'[n].links = srv[n].links
        /\ srv'[n].fields = srv[n].fields /\ srv'[n].mark = srv[n].mark
        /\ srv'[n].st # "absent"
        /\ \A m \in NewAsset \ {n} : srv'[m] = srv[m]
    BY <2>1, <2>2 DEF Replacement
  <2>4. ServerGrows
    BY <2>2, <2>3 DEF ServerGrows, Stands
  <2>5. ServerInv'
    BY <2>3 DEF SafeInv, SharedInv, ServerInv
  <2> QED
    BY <2>2, <2>4, <2>5, ServerStep, NobodyMoves DEF SafeInv
<1>3. ASSUME NEW a \in Asset, RunAfterPasses(a) \/ DeleteAfterPasses(a) PROVE SafeInv' /\ Grows
  <2>1. HasRow(row[a])
    <3>1. row[a] # NoRow
      BY <1>3 DEF RunAfterPasses, DeleteAfterPasses, HasRow, NoRow
    <3> QED
      BY <3>1 DEF SafeInv, SharedInv, RowInv
  <2>2. PICK q \in {[row[a] EXCEPT !.due = TRUE], [row[a] EXCEPT !.del = "due"]} :
           row' = [row EXCEPT ![a] = q]
    BY <1>3 DEF RunAfterPasses, DeleteAfterPasses, SetRow
  <2>3. Keeps(row[a], q)
    BY <2>1, StatementsKeep
  <2>4. q.state = row[a].state
    BY DEF Row
  <2> QED
    BY <1>3, <2>1, <2>2, <2>3, <2>4, RowsKept DEF RunAfterPasses, DeleteAfterPasses
<1>4. CASE Surge \/ Resume
  <2>1. UNCHANGED <<row, task, config, todo, serverVars, histVars>>
    BY <1>4 DEF Surge, Resume
  <2> QED
    BY <2>1, NothingWritten, NobodyMoves DEF SafeInv
<1>5. CASE Restart
  <2>1. /\ task' = [t \in Task |-> Idle] /\ todo' = {}
        /\ UNCHANGED <<row, serverVars, histVars>>
    BY <1>5 DEF Restart
  <2>2. Grows /\ SharedInv'
    <3>1. row' \in [Asset -> Row] /\ \A a \in Asset : row'[a] = row[a]
      BY <2>1 DEF SafeInv, TypeInv, TypeOK
    <3> QED
      BY <2>1, <3>1, TableStep DEF SafeInv
  <2>3. ASSUME NEW t \in Task PROVE Knows(t)'
    BY <2>1, IdleKnows DEF Idle
  <2>4. TypeInv'
    OBVIOUS
  <2> QED
    BY <2>2, <2>3, <2>4 DEF SafeInv, TaskInv, Knows
<1>6. \A r \in Row : HasRow(r) => Keeps(r, Requeued(r)) /\ Requeued(r).state = "queued"
  BY StatementsKeep DEF Requeued, Row
<1>7. ASSUME NEW a \in Asset, Reprocess(a) PROVE SafeInv' /\ Grows
  BY <1>6, <1>7, RowsKept DEF Reprocess, SetRow
<1>8. ASSUME NEW S \in SUBSET Asset, RequeueFailed(S) PROVE SafeInv' /\ Grows
  <2>1. \A a \in S : HasRow(row[a])
    BY <1>8 DEF RequeueFailed, HasRow
  <2> QED
    BY <1>6, <1>8, <2>1, RowsKept DEF RequeueFailed
<1>9. ASSUME NEW reason \in SkipReason, RequeueSkipped(reason) PROVE SafeInv' /\ Grows
  <2>1. \A a \in Asset : row[a].state = "skipped" => HasRow(row[a])
    BY DEF HasRow
  <2> QED
    BY <1>6, <1>9, <2>1, RowsKept DEF RequeueSkipped
<1>10. ASSUME NEW a \in Asset, Enqueue(a) PROVE SafeInv' /\ Grows
  <2>1. PICK p \in Payloads : row' = [row EXCEPT ![a] = Enqueued(p)]
    BY <1>10 DEF Enqueue, SetRow
  <2>2. row[a] = NoRow
    BY <1>10 DEF Enqueue, SafeInv, SharedInv, RowInv
  <2>3. Fits(Enqueued(p), a)
    BY <2>2 DEF Fits, Enqueued, NoRow, HasRow
  <2>4. row' \in [Asset -> Row] /\ \A e \in Asset : row'[e] = row[e] \/ Fits(row'[e], e)
    BY <2>1, <2>3, RowTypes
  <2>5. Grows /\ SharedInv'
    BY <1>10, <2>4, TableStep DEF Enqueue, SafeInv
  <2> QED
    BY <1>10, <2>5, NobodyMoves DEF Enqueue
<1> QED
  BY <1>1, <1>2, <1>3, <1>4, <1>5, <1>7, <1>8, <1>9, <1>10
     DEF Outside, Clock, Operator, Trigger

-----------------------------------------------------------------------------
\* The inductive invariant.

\* Nothing has happened: nobody knows or claims anything.
LEMMA SafeInit == Init => SafeInv
<1> SUFFICES ASSUME Init PROVE SafeInv
  OBVIOUS
<1>1. TypeInv
  BY TypeInit
<1>2. ASSUME NEW t \in Task PROVE Knows(t)
  BY DEF Init, Idle, Knows, KnowsRow, KnowsBytes, KnowsReplacement, KnowsOriginal,
         At, Job, Undecided, Unrecorded, Replaced, FinalPC
<1>3. RowInv /\ TodoInv /\ ServerInv /\ BasisInv /\ FreedMeansGone
  BY DEF Init, RowInv, TodoInv, ServerInv, BasisInv, FreedMeansGone, NoRow, NoReplacement
<1> QED
  BY <1>1, <1>2, <1>3 DEF SafeInv, SharedInv, TaskInv, Knows

\* Every step of Next, one group of actions at a time.
LEMMA SafeStep == SafeInv /\ [Next]_vars => SafeInv' /\ Grows
<1> SUFFICES ASSUME SafeInv, [Next]_vars PROVE SafeInv' /\ Grows
  OBVIOUS
<1>1. TypeInv'
  BY TypeStep DEF SafeInv
<1>2. CASE Outside \/ Clock \/ Operator \/ Trigger
  BY <1>1, <1>2, SafeEnvironment
<1>3. ASSUME NEW w \in Worker, Poll(w) PROVE SafeInv' /\ Grows
  BY <1>1, <1>3, SafePoll
<1>4. ASSUME NEW w \in Worker, Work(w) PROVE SafeInv' /\ Grows
  <2>1. w \in Task
    BY DEF Task
  <2> QED
    BY <1>1, <1>4, <2>1, SafeGuards, SafeReplace, SafeCarryOver, SafeEndRun, SafeFinalize
       DEF Work
<1>5. CASE Sweep
  <2>1. Sweeper \in Task
    BY DEF Task
  <2> QED
    BY <1>1, <1>5, <2>1, SafeSweep, SafeFinalize DEF Sweep
<1>6. CASE UNCHANGED vars
  <2>1. UNCHANGED <<row, task, config, todo, serverVars, histVars>>
    BY <1>6 DEF vars, serverVars, histVars
  <2> QED
    BY <1>1, <2>1, NothingWritten, NobodyMoves DEF SafeInv
<1> QED
  BY <1>2, <1>3, <1>4, <1>5, <1>6 DEF Next

(***************************************************************************)
(* The inductive invariant holds: each step of the pipeline may rely on    *)
(* what the steps before it established about the table and the server,    *)
(* whatever other workers, the sweeper, the operator, the user and crashes *)
(* have done in between.                                                   *)
(***************************************************************************)
THEOREM Inductive == Spec => []IInv
<1>1. Init => SafeInv
  BY SafeInit
<1>2. SafeInv /\ [Next]_vars => SafeInv'
  BY SafeStep
<1>3. SafeInv => IInv
  BY SafeInvIsIInv
<1> QED
  BY <1>1, <1>2, <1>3, PTL DEF Spec

(***************************************************************************)
(* No original is ever deleted by finalize_original but for a replacement  *)
(* that holds bytes encoded from it and was live when last looked at.      *)
(***************************************************************************)
THEOREM OriginalsAreSafe == Spec => []NothingLost
<1>1. IInv => NothingLost
  BY DEF IInv, BasisInv, NothingLost
<1> QED
  BY <1>1, Inductive, PTL

(***************************************************************************)
(* ... nor but for one that has its links, fields and tags: the marker the *)
(* verification asks for is enough evidence of steps 7 and 8.              *)
(***************************************************************************)
THEOREM MetadataIsCarriedOver == Spec => []CarriedOver
<1>1. IInv => CarriedOver
  BY DEF IInv, BasisInv, ServerInv, CarriedOver, TypeOK
<1> QED
  BY <1>1, Inductive, PTL

(***************************************************************************)
(* Whenever an original has been deleted its row recognises the same bytes *)
(* when they come back, through every crash, requeue and race.             *)
(***************************************************************************)
THEOREM RemovalsAreRemembered == Spec => []RemovalIsRemembered
<1>1. IInv => RemovalIsRemembered
  BY DEF IInv, BasisInv, RemovalIsRemembered
<1> QED
  BY <1>1, Inductive, PTL

(***************************************************************************)
(* mark_original_freed is only ever called for an original that no longer  *)
(* occupies its checksum.                                                  *)
(***************************************************************************)
THEOREM FreedAreGone == Spec => []FreedMeansGone
<1>1. IInv => FreedMeansGone
  BY DEF IInv
<1> QED
  BY <1>1, Inductive, PTL

(***************************************************************************)
(* No row pends deletion, and no list of the sweeper names a job, without  *)
(* a replacement: the failing branch of _trash_one is dead code.           *)
(***************************************************************************)
THEOREM PendingIsReplaced == Spec => []PendingHasReplacement
<1>1. IInv => PendingHasReplacement
  BY DEF IInv, RowInv, TodoInv, PendingHasReplacement
<1> QED
  BY <1>1, Inductive, PTL
=============================================================================
