------------------------------- MODULE Intake -------------------------------
(***************************************************************************)
(* How a webhook becomes a job: the type and freshness gates and the surge *)
(* breaker of ingest.py, the webhook handler of routes.py, and the pause   *)
(* latch of store.py.  The jobs table is reduced to the set of assets that *)
(* have a row; JobStore and JobPipeline say what happens to a row.         *)
(*                                                                         *)
(* The handler is a coroutine with two awaits on the database, and all     *)
(* handlers share one aiosqlite connection, which runs what it is given in *)
(* the order it was given it.  A statement therefore takes effect where    *)
(* the handler submits it: an action is the code between two awaits with   *)
(* the statement it ends in.  backfill run and resume are other processes  *)
(* with a connection of their own.                                         *)
(***************************************************************************)
EXTENDS Naturals, Sequences, FiniteSets

CONSTANTS
    Asset,          \* the assets a webhook or a backfill may name
    Enabled,        \* those of a type in behavior.enabled_types
    Created,        \* Created[a]: the hour Immich made the row, or None
    Request,        \* webhook handlers that can be open at once
    MaxAge,         \* behavior.max_asset_age_hours, or None
    Thresholds,     \* values an operator gives behavior.surge_threshold
    Window,         \* behavior.surge_window_seconds
    MaxTime,        \* bound: the clock stops here
    MaxRestarts,    \* bound: restarts of the service
    None

ASSUME IntakeAssumption ==
    /\ IsFiniteSet(Request) /\ Request # {}
    /\ Enabled \subseteq Asset
    /\ Thresholds \subseteq Nat \cup {None} /\ Thresholds # {}
    /\ MaxAge \in Nat \cup {None}
    /\ Window \in Nat
    /\ MaxTime \in Nat
    /\ MaxRestarts \in Nat
    /\ Created \in [Asset -> (0..MaxTime) \cup {None}]
    /\ None \notin Nat \cup Asset

VARIABLES
    jobs,       \* assets with a row in the jobs table
    latch,      \* when the pause latch was set, None while it is not
    seen,       \* SurgeDetector._seen, each entry with the asset it is for
    req,        \* the open handlers
    threshold,  \* SurgeDetector._threshold, of this process
    now,        \* the wall clock
    restarts,   \* how often the service has been restarted
    fresh,      \* history: what webhooks queued since the window was last
                \* cleared and was not counted by then, with the time
    late        \* history: assets webhooks queued under the present latch

vars == <<jobs, latch, seen, req, threshold, now, restarts, fresh, late>>

Idle == [pc |-> "idle", asset |-> None]

Entry == [asset : Asset, at : 0..MaxTime]

TypeOK ==
    /\ jobs \in SUBSET Asset
    /\ latch \in (0..MaxTime) \cup {None}
    /\ seen \in Seq(Entry)
    /\ req \in [Request -> [pc : {"enqueue", "record"}, asset : Enabled] \cup {Idle}]
    /\ threshold \in Thresholds
    /\ now \in 0..MaxTime
    /\ restarts \in 0..MaxRestarts
    /\ fresh \in SUBSET Entry
    /\ late \in SUBSET Asset

Init ==
    /\ jobs = {}
    /\ latch = None
    /\ seen = <<>>
    /\ req = [r \in Request |-> Idle]
    /\ threshold \in Thresholds
    /\ now = 0
    /\ restarts = 0
    /\ fresh = {}
    /\ late = {}

-----------------------------------------------------------------------------

\* Mutant: the type is left to check_guards, which runs in a lane.
AgeGuardOnly(a) == MaxAge = None \/ (Created[a] # None /\ now <= Created[a] + MaxAge)

(***************************************************************************)
(* check_ingest_guards: a type no lane claims, a payload without createdAt *)
(* and an asset older than the limit are refused, in that order.           *)
(***************************************************************************)
PassesGuards(a) ==
    /\ a \in Enabled
    /\ \/ MaxAge = None
       \/ Created[a] # None /\ now <= Created[a] + MaxAge

\* Mutant: the latch is not looked at.
DeliverUnlatched(r, a) ==
    /\ req[r] = Idle
    /\ Created[a] # None => Created[a] <= now
    /\ PassesGuards(a)
    /\ req' = [req EXCEPT ![r] = [pc |-> "enqueue", asset |-> a]]
    /\ UNCHANGED <<jobs, latch, seen, threshold, now, restarts, fresh, late>>

(***************************************************************************)
(* A webhook arrives, for an upload or for any asset at all when somebody  *)
(* extracts the metadata of the library again.  The guards run, then the   *)
(* latch is read; a refusal of either kind ends the handler without a row, *)
(* and is no step here because nothing changes.                            *)
(***************************************************************************)
Deliver(r, a) ==
    /\ req[r] = Idle
    /\ Created[a] # None => Created[a] <= now
    /\ PassesGuards(a)
    /\ latch = None
    /\ req' = [req EXCEPT ![r] = [pc |-> "enqueue", asset |-> a]]
    /\ UNCHANGED <<jobs, latch, seen, threshold, now, restarts, fresh, late>>

\* Mutant: a replay is counted like a new row.
CountKnown(r) ==
    /\ req[r].pc = "enqueue"
    /\ req[r].asset \in jobs
    /\ req' = [req EXCEPT ![r].pc = "record"]
    /\ UNCHANGED <<jobs, latch, seen, threshold, now, restarts, fresh, late>>

\* store.enqueue, ON CONFLICT DO NOTHING: a known asset ends the handler.
EnqueueKnown(r) ==
    /\ req[r].pc = "enqueue"
    /\ req[r].asset \in jobs
    /\ req' = [req EXCEPT ![r] = Idle]
    /\ UNCHANGED <<jobs, latch, seen, threshold, now, restarts, fresh, late>>

EnqueueNew(r) ==
    /\ req[r].pc = "enqueue"
    /\ req[r].asset \notin jobs
    /\ jobs' = jobs \cup {req[r].asset}
    /\ req' = [req EXCEPT ![r].pc = "record"]
    /\ fresh' = fresh \cup {[asset |-> req[r].asset, at |-> now]}
    /\ late' = IF latch = None THEN late ELSE late \cup {req[r].asset}
    /\ UNCHANGED <<latch, seen, threshold, now, restarts>>

(***************************************************************************)
(* SurgeDetector.record appends the moment and pops from the left what is  *)
(* older than the window.                                                  *)
(***************************************************************************)
Counted(a, k) == SubSeq(Append(seen, [asset |-> a, at |-> now]), k, Len(seen) + 1)

\* Mutant: the entry on the edge of the window goes as well.
ExpiredAtEdge(e) == e.at + Window <= now

Expired(e) == e.at + Window < now

FirstKept(k) ==
    /\ k \in 1..(Len(seen) + 1)
    /\ \A i \in 1..(k - 1) : Expired(seen[i])
    /\ k <= Len(seen) => ~Expired(seen[k])

\* No breaker is configured: nothing is counted.
RecordOff(r) ==
    /\ req[r].pc = "record"
    /\ threshold = None
    /\ req' = [req EXCEPT ![r] = Idle]
    /\ UNCHANGED <<jobs, latch, seen, threshold, now, restarts, fresh, late>>

RecordCalm(r) ==
    /\ req[r].pc = "record"
    /\ threshold # None
    /\ \E k \in 1..(Len(seen) + 1) :
          /\ FirstKept(k)
          /\ Len(seen) + 2 - k <= threshold
          /\ seen' = Counted(req[r].asset, k)
    /\ req' = [req EXCEPT ![r] = Idle]
    /\ UNCHANGED <<jobs, latch, threshold, now, restarts, fresh, late>>

InRecord(r, a) == req[r] = [pc |-> "record", asset |-> a]

(***************************************************************************)
(* The breaker trips: the window is dropped and store.pause is submitted,  *)
(* which leaves a latch that is already set as it was.                     *)
(***************************************************************************)
RecordTrips(r) ==
    /\ req[r].pc = "record"
    /\ threshold # None
    /\ \E k \in 1..(Len(seen) + 1) :
          FirstKept(k) /\ Len(seen) + 2 - k > threshold
    /\ seen' = <<>>
    /\ latch' = IF latch = None THEN now ELSE latch
    /\ late' = IF latch = None THEN {} ELSE late
    /\ req' = [req EXCEPT ![r] = Idle]
    /\ fresh' = {e \in fresh : \E q \in Request \ {r} : InRecord(q, e.asset)}
    /\ UNCHANGED <<jobs, threshold, now, restarts>>

Webhook(r) ==
    \/ \E a \in Asset : Deliver(r, a)
    \/ EnqueueKnown(r)
    \/ EnqueueNew(r)
    \/ RecordOff(r)
    \/ RecordCalm(r)
    \/ RecordTrips(r)

-----------------------------------------------------------------------------

\* backfill run enqueues without asking the latch and without being counted.
BackfillEnqueue(a) ==
    /\ a \notin jobs
    /\ jobs' = jobs \cup {a}
    /\ UNCHANGED <<latch, seen, req, threshold, now, restarts, fresh, late>>

\* resume, of the command line or POST /resume.
Resume ==
    /\ latch # None
    /\ latch' = None
    /\ UNCHANGED <<jobs, seen, req, threshold, now, restarts, fresh, late>>

(***************************************************************************)
(* The service is restarted: its handlers and the window are gone, the     *)
(* table and the latch are in the database.                                *)
(***************************************************************************)
Restart ==
    /\ restarts < MaxRestarts
    /\ restarts' = restarts + 1
    /\ req' = [r \in Request |-> Idle]
    /\ seen' = <<>>
    /\ threshold' \in Thresholds
    /\ fresh' = {}
    /\ UNCHANGED <<jobs, latch, now, late>>

Tick ==
    /\ now < MaxTime
    /\ now' = now + 1
    /\ UNCHANGED <<jobs, latch, seen, req, threshold, restarts, fresh, late>>

Next ==
    \/ \E r \in Request : Webhook(r)
    \/ \E a \in Asset : BackfillEnqueue(a)
    \/ Resume
    \/ Restart
    \/ Tick

Spec == Init /\ [][Next]_vars

-----------------------------------------------------------------------------

(***************************************************************************)
(* A surge is stopped: within any window, webhooks queue no more assets    *)
(* than the threshold and one for every handler that was open, before the  *)
(* breaker trips (ingest.py 132-152 with the await of routes.py 189        *)
(* between an insert and its being counted).                               *)
(***************************************************************************)
Recent == {e.asset : e \in {f \in fresh : now <= f.at + Window}}

SurgeBounded ==
    threshold # None => Cardinality(Recent) <= threshold + Cardinality(Request)

(***************************************************************************)
(* Under the latch nothing is queued but what handlers that had read it    *)
(* before still bring in, and these are the other handlers that were open  *)
(* when the breaker tripped (routes.py 179-189).                           *)
(***************************************************************************)
LateBounded ==
    latch # None => Cardinality(late) < Cardinality(Request)

(***************************************************************************)
(* The latch is only set after more assets than the threshold got a row    *)
(* from a webhook: a replay of known assets queues no work and does not    *)
(* push the breaker (ingest.py 122-124, routes.py 202-204).                *)
(***************************************************************************)
TripIsDeserved ==
    [][latch = None /\ latch' # None =>
          Cardinality({e.asset : e \in fresh}) > threshold]_vars

=============================================================================
