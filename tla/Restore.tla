------------------------------ MODULE Restore ------------------------------
(***************************************************************************)
(* The restore command beside scan and run: restore_assets_best_effort of  *)
(* api.py, which pulls originals back out of the trash through an endpoint *)
(* that refuses a whole request over one unknown id and does not name it.  *)
(* An action is one request with what is done about its answer.            *)
(***************************************************************************)
EXTENDS Backfill

CONSTANTS
    Ids,        \* the ids the command is given
    ChunkSize   \* _RESTORE_CHUNK

ASSUME RestoreAssumption ==
    /\ Ids \in Seq(Asset) /\ Ids # <<>>
    /\ \A i \in DOMAIN Ids : Ids[i] \notin Uploads
    /\ ChunkSize \in Nat \ {0}

VARIABLE rs     \* the restore process

vars == <<library, status, jobs, inventory, cursor, op, left, rs>>

\* todo is the call stack of _restore_batch: the batches still to be sent,
\* the next one first.  lost is the length of the list missing, in which an id
\* that was given twice is counted twice.  back and asked are history: the
\* ids that were in an accepted request, and how many requests there were.
NotStarted == [pc |-> "idle", rest |-> Ids, todo |-> <<>>, chunk |-> ChunkSize,
               missing |-> {}, lost |-> 0, back |-> {}, asked |-> 0]

RestoreTypeOK ==
    rs \in [pc : {"idle", "request", "done", "raised"}, rest : Seq(Asset),
           todo : Seq(Seq(Asset)), chunk : {1, ChunkSize},
           missing : SUBSET Asset, lost : Nat, back : SUBSET Asset, asked : Nat]

Least(m, n) == IF m < n THEN m ELSE n

\* Mutant: the chunk is halved again and again instead of being set to one.
NextChunkHalving(r) ==
    LET index == Len(Ids) - Len(r.rest)
        chunk == IF 2 * r.lost > index THEN r.chunk \div 2 ELSE r.chunk
        n     == Least(chunk, Len(r.rest))
    IN IF r.todo # <<>> THEN r
       ELSE IF r.rest = <<>> THEN [r EXCEPT !.pc = "done", !.chunk = chunk]
       ELSE [r EXCEPT !.pc = "request", !.chunk = chunk,
                      !.todo = <<SubSeq(r.rest, 1, n)>>,
                      !.rest = SubSeq(r.rest, n + 1, Len(r.rest))]

\* Between two chunks, once the stack is empty.
NextChunk(r) ==
    LET index == Len(Ids) - Len(r.rest)
        chunk == IF r.chunk > 1 /\ 2 * r.lost > index THEN 1 ELSE r.chunk
        n     == Least(chunk, Len(r.rest))
    IN IF r.todo # <<>> THEN r
       ELSE IF r.rest = <<>> THEN [r EXCEPT !.pc = "done", !.chunk = chunk]
       ELSE [r EXCEPT !.pc = "request", !.chunk = chunk,
                      !.todo = <<SubSeq(r.rest, 1, n)>>,
                      !.rest = SubSeq(r.rest, n + 1, Len(r.rest))]

StartRestore ==
    /\ rs.pc = "idle"
    /\ Spend("command")
    /\ rs' = NextChunk(NotStarted)
    /\ UNCHANGED <<library, status, jobs, inventory, cursor, op>>

Known(q) == \A a \in Elements(q) : status[a] # "gone"

\* HTTP 200.  Restoring what is not in the trash does nothing.
Accepted ==
    LET batch == Head(rs.todo)
    IN /\ rs.pc = "request"
       /\ Known(batch)
       /\ status' = [a \in Asset |-> IF a \in Elements(batch) /\ status[a] = "trashed"
                                     THEN "live" ELSE status[a]]
       /\ IF status' = status THEN UNCHANGED <<cursor, op>> ELSE Shift
       /\ rs' = NextChunk([rs EXCEPT !.todo = Tail(@), !.asked = @ + 1,
                                     !.back = @ \cup Elements(batch)])
       /\ UNCHANGED <<library, jobs, inventory, left>>

\* HTTP 400 for one id: that id is the unknown one.
Isolated ==
    LET batch == Head(rs.todo)
    IN /\ rs.pc = "request"
       /\ ~Known(batch) /\ Len(batch) = 1
       /\ rs' = NextChunk([rs EXCEPT !.todo = Tail(@), !.asked = @ + 1,
                                     !.missing = @ \cup Elements(batch), !.lost = @ + 1])
       /\ UNCHANGED <<library, status, jobs, inventory, cursor, op, left>>

\* Mutant: the middle id is sent with both halves.
HalvedOverlapping ==
    LET batch  == Head(rs.todo)
        middle == Len(batch) \div 2
    IN /\ rs.pc = "request"
       /\ ~Known(batch) /\ Len(batch) > 1
       /\ rs' = [rs EXCEPT !.asked = @ + 1,
                     !.todo = <<SubSeq(batch, 1, middle + 1), SubSeq(batch, middle + 1, Len(batch))>>
                              \o Tail(@)]
       /\ UNCHANGED <<library, status, jobs, inventory, cursor, op, left>>

\* Mutant: a refused batch is given up with the id that was refused.
HalvedOnce ==
    /\ rs.pc = "request"
    /\ ~Known(Head(rs.todo)) /\ Len(Head(rs.todo)) > 1
    /\ rs' = NextChunk([rs EXCEPT !.todo = Tail(@), !.asked = @ + 1,
                                  !.missing = @ \cup Elements(Head(rs.todo)), !.lost = @ + 1])
    /\ UNCHANGED <<library, status, jobs, inventory, cursor, op, left>>

\* HTTP 400 for several: the two halves are sent one after the other.
Halved ==
    LET batch  == Head(rs.todo)
        middle == Len(batch) \div 2
    IN /\ rs.pc = "request"
       /\ ~Known(batch) /\ Len(batch) > 1
       /\ rs' = [rs EXCEPT !.asked = @ + 1,
                     !.todo = <<SubSeq(batch, 1, middle), SubSeq(batch, middle + 1, Len(batch))>>
                              \o Tail(@)]
       /\ UNCHANGED <<library, status, jobs, inventory, cursor, op, left>>

\* Any other answer says nothing about an id and is raised.
Raised ==
    /\ rs.pc = "request"
    /\ Spend("disturbance")
    /\ rs' = [rs EXCEPT !.pc = "raised"]
    /\ UNCHANGED <<library, status, jobs, inventory, cursor, op>>

RestoreRequest == Accepted \/ Isolated \/ Halved

RestoreNext ==
    \/ Next /\ UNCHANGED rs
    \/ StartRestore
    \/ RestoreRequest
    \/ Raised

RestoreInit == Init /\ rs = NotStarted

RestoreSafe == RestoreInit /\ [][RestoreNext]_vars

RestoreSpec == RestoreSafe /\ Fairness

-----------------------------------------------------------------------------

InBatches(t) == UNION {Elements(t[i]) : i \in DOMAIN t}

Covered(r) == Elements(r.rest) \cup InBatches(r.todo) \cup r.back \cup r.missing

(***************************************************************************)
(* No id is lost between the halves: each is still to be sent, was in an   *)
(* accepted request, or is reported missing; and what is reported missing  *)
(* is what the server no longer has, not what shared a batch with it       *)
(* (api.py 425-430, 454-462).                                              *)
(***************************************************************************)
EveryIdAnswered ==
    /\ Covered(rs) = Elements(Ids)
    /\ \A a \in rs.missing : status[a] = "gone"

(***************************************************************************)
(* Isolating the unknown ids costs less than two requests for every id,    *)
(* however many of them there are (api.py 440-445).                        *)
(***************************************************************************)
RestoreCost == rs.asked < 2 * Len(Ids)

=============================================================================
