---------------------------- MODULE Intake_proofs ----------------------------
(***************************************************************************)
(* Proofs about Intake, for any number of assets, handlers and restarts,   *)
(* any threshold, window and age limit.                                    *)
(***************************************************************************)
EXTENDS Intake, FiniteSetTheorems, SequenceTheorems, TLAPS

-----------------------------------------------------------------------------
\* What the steps of a handler do to it.

\* An open handler has an asset of an enabled type.
LEMMA OpenHandler ==
    ASSUME TypeOK, NEW r \in Request, req[r].pc # "idle"
    PROVE  /\ req[r] \in [pc : {"enqueue", "record"}, asset : Enabled]
           /\ req[r].asset \in Asset
           /\ req[r] = [pc |-> req[r].pc, asset |-> req[r].asset]
<1>1. req[r] \in [pc : {"enqueue", "record"}, asset : Enabled]
    BY DEF TypeOK, Idle
<1> QED BY <1>1, IntakeAssumption DEF IntakeAssumption

\* A handler that goes on to be counted.
LEMMA GoesOn ==
    ASSUME TypeOK, NEW r \in Request, req[r].pc = "enqueue",
           req' = [req EXCEPT ![r].pc = "record"]
    PROVE  /\ req' = [req EXCEPT ![r] = [pc |-> "record", asset |-> req[r].asset]]
           /\ req' \in [Request -> [pc : {"enqueue", "record"}, asset : Enabled] \cup {Idle}]
<1>1. /\ req[r] \in [pc : {"enqueue", "record"}, asset : Enabled]
      /\ req[r] = [pc |-> req[r].pc, asset |-> req[r].asset]
    BY OpenHandler
<1>2. [req[r] EXCEPT !.pc = "record"] = [pc |-> "record", asset |-> req[r].asset]
    BY <1>1
<1>3. req' = [req EXCEPT ![r] = [pc |-> "record", asset |-> req[r].asset]]
    BY <1>2
<1>4. [pc |-> "record", asset |-> req[r].asset] \in [pc : {"enqueue", "record"}, asset : Enabled]
    BY <1>1
<1> QED BY <1>3, <1>4 DEF TypeOK

\* What is left of the window, and that the new entry is its last.
LEMMA WindowKept ==
    ASSUME TypeOK, NEW a \in Asset, NEW k \in 1..(Len(seen) + 1)
    PROVE  /\ Counted(a, k) \in Seq(Entry)
           /\ Len(Counted(a, k)) = Len(seen) + 2 - k
           /\ \A i \in 1..(Len(seen) + 1 - k) : Counted(a, k)[i] = seen[i + k - 1]
           /\ Counted(a, k)[Len(seen) + 2 - k] = [asset |-> a, at |-> now]
<1> DEFINE e == [asset |-> a, at |-> now]
           q == Append(seen, e)
           n == Len(seen)
<1>1. e \in Entry /\ seen \in Seq(Entry) /\ n \in Nat /\ k \in Nat /\ k >= 1 /\ k <= n + 1
    BY DEF TypeOK, Entry
<1>2. /\ q \in Seq(Entry) /\ Len(q) = n + 1
      /\ \A i \in 1..n : q[i] = seen[i]
      /\ q[n + 1] = e
    BY <1>1, AppendProperties
<1>3. \A i \in k..(n + 1) : q[i] \in Entry
    BY <1>1, <1>2, ElementOfSeq
<1>4. /\ SubSeq(q, k, n + 1) \in Seq(Entry)
      /\ Len(SubSeq(q, k, n + 1)) = n + 1 - k + 1
      /\ \A i \in 1..(n + 1 - k + 1) : SubSeq(q, k, n + 1)[i] = q[k + i - 1]
  <2> HIDE DEF q
  <2> QED BY <1>1, <1>3, SubSeqProperties
<1>5. Counted(a, k) = SubSeq(q, k, n + 1)
    BY DEF Counted
<1> HIDE DEF q, e
<1>6. \A i \in 1..(n + 1 - k) : k + i - 1 \in 1..n /\ i \in 1..(n + 1 - k + 1) /\ k + i - 1 = i + k - 1
    BY <1>1
<1>7. n + 2 - k \in 1..(n + 1 - k + 1) /\ k + (n + 2 - k) - 1 = n + 1 /\ n + 1 - k + 1 = n + 2 - k
    BY <1>1
<1> QED BY <1>1, <1>2, <1>4, <1>5, <1>6, <1>7 DEF e

-----------------------------------------------------------------------------
(***************************************************************************)
(* Types are kept: in particular an open handler always carries an asset   *)
(* of an enabled type, and the window only ever holds whole entries.       *)
(***************************************************************************)
LEMMA TypeInit == Init => TypeOK
<1> SUFFICES ASSUME Init PROVE TypeOK
    OBVIOUS
<1>1. 0 \in 0..MaxTime /\ 0 \in 0..MaxRestarts
    BY IntakeAssumption DEF IntakeAssumption
<1> QED BY <1>1 DEF Init, TypeOK, Entry

LEMMA TypeStep == TypeOK /\ [Next]_vars => TypeOK'
<1> SUFFICES ASSUME TypeOK, [Next]_vars PROVE TypeOK'
    OBVIOUS
<1> USE DEF TypeOK
<1>1. ASSUME NEW r \in Request, NEW a \in Asset, Deliver(r, a) PROVE TypeOK'
    BY <1>1 DEF Deliver, PassesGuards, Idle
<1>2. ASSUME NEW r \in Request, EnqueueKnown(r) PROVE TypeOK'
    BY <1>2 DEF EnqueueKnown, Idle
<1>3. ASSUME NEW r \in Request, EnqueueNew(r) PROVE TypeOK'
  <2>1. req[r].asset \in Asset
      BY <1>3, OpenHandler DEF EnqueueNew
  <2>2. req' \in [Request -> [pc : {"enqueue", "record"}, asset : Enabled] \cup {Idle}]
      BY <1>3, GoesOn DEF EnqueueNew
  <2>3. [asset |-> req[r].asset, at |-> now] \in Entry
      BY <2>1 DEF Entry
  <2> QED BY <1>3, <2>1, <2>2, <2>3 DEF EnqueueNew
<1>4. ASSUME NEW r \in Request, RecordOff(r) PROVE TypeOK'
    BY <1>4 DEF RecordOff, Idle
<1>5. ASSUME NEW r \in Request, RecordCalm(r) PROVE TypeOK'
  <2>1. req[r].asset \in Asset
      BY <1>5, OpenHandler DEF RecordCalm
  <2>2. PICK k \in 1..(Len(seen) + 1) : seen' = Counted(req[r].asset, k)
      BY <1>5 DEF RecordCalm
  <2>3. seen' \in Seq(Entry)
      BY <2>1, <2>2, WindowKept
  <2> QED BY <1>5, <2>3 DEF RecordCalm, Idle
<1>6. ASSUME NEW r \in Request, RecordTrips(r) PROVE TypeOK'
  <2>1. seen' \in Seq(Entry)
      BY <1>6 DEF RecordTrips
  <2>2. fresh' \in SUBSET Entry
      BY <1>6 DEF RecordTrips
  <2> QED BY <1>6, <2>1, <2>2 DEF RecordTrips, Idle
<1>7. ASSUME NEW a \in Asset, BackfillEnqueue(a) PROVE TypeOK'
    BY <1>7 DEF BackfillEnqueue
<1>8. CASE Resume
    BY <1>8 DEF Resume
<1>9. CASE Restart
  <2>1. restarts' \in 0..MaxRestarts
      BY <1>9, IntakeAssumption DEF Restart, IntakeAssumption
  <2>2. seen' \in Seq(Entry)
      BY <1>9 DEF Restart
  <2> QED BY <1>9, <2>1, <2>2 DEF Restart, Idle
<1>10. CASE Tick
  <2>1. /\ now' \in 0..MaxTime
        /\ UNCHANGED <<jobs, latch, seen, req, threshold, restarts, fresh, late>>
      BY <1>10, IntakeAssumption DEF Tick, IntakeAssumption
  <2> QED BY <2>1
<1>11. CASE UNCHANGED vars
    BY <1>11 DEF vars
<1> QED
    BY <1>1, <1>2, <1>3, <1>4, <1>5, <1>6, <1>7, <1>8, <1>9, <1>10, <1>11 DEF Next, Webhook

THEOREM TypeCorrect == Spec => []TypeOK
BY TypeInit, TypeStep, PTL DEF Spec

-----------------------------------------------------------------------------
(***************************************************************************)
(* What the latch lets through.  While it is set, the assets that got past *)
(* it and the handlers that still may bring one in are, together, fewer    *)
(* than the handlers there are: the one that tripped the breaker is not    *)
(* among them, and none can join them.                                     *)
(***************************************************************************)
PastTheLatch == {r \in Request : req[r].pc = "enqueue"}

LateInv ==
    /\ TypeOK
    /\ IsFiniteSet(late)
    /\ latch # None => Cardinality(late) + Cardinality(PastTheLatch) < Cardinality(Request)

LEMMA RequestFinite ==
    ASSUME NEW S \in SUBSET Request
    PROVE  IsFiniteSet(S) /\ Cardinality(S) \in Nat /\ Cardinality(Request) \in Nat \ {0}
<1>1. IsFiniteSet(Request) /\ Request # {}
    BY IntakeAssumption DEF IntakeAssumption
<1>2. IsFiniteSet(S)
    BY <1>1, FS_Subset
<1> QED BY <1>1, <1>2, FS_CardinalityType, FS_EmptySet

\* Fewer handlers before the enqueue, and nothing more queued, is no harm.
LEMMA LateShrinks ==
    ASSUME LateInv, TypeOK', late' = late, latch' = latch, PastTheLatch' \subseteq PastTheLatch
    PROVE  LateInv'
<1>1. /\ PastTheLatch \in SUBSET Request /\ PastTheLatch' \in SUBSET PastTheLatch
      /\ PastTheLatch' \in SUBSET Request
    BY DEF PastTheLatch
<1>2. IsFiniteSet(PastTheLatch) /\ Cardinality(PastTheLatch) \in Nat
      /\ Cardinality(PastTheLatch') \in Nat /\ Cardinality(Request) \in Nat
    BY <1>1, RequestFinite
<1>3. Cardinality(PastTheLatch') <= Cardinality(PastTheLatch)
    BY <1>1, <1>2, FS_Subset
<1>4. Cardinality(late) \in Nat
    BY FS_CardinalityType DEF LateInv
<1> QED BY <1>2, <1>3, <1>4 DEF LateInv

LEMMA LateStep == LateInv /\ [Next]_vars => LateInv'
<1> SUFFICES ASSUME LateInv, [Next]_vars PROVE LateInv'
    OBVIOUS
<1> TypeOK /\ TypeOK'
    BY TypeStep DEF LateInv
<1>1. ASSUME NEW r \in Request, NEW a \in Asset, Deliver(r, a) PROVE LateInv'
    BY <1>1 DEF Deliver, LateInv
<1>2. ASSUME NEW r \in Request, req[r].pc # "idle", req' = [req EXCEPT ![r] = Idle],
             late' = late, latch' = latch
      PROVE  LateInv'
  <2>1. PastTheLatch' \subseteq PastTheLatch
      BY <1>2 DEF PastTheLatch, Idle, TypeOK
  <2> QED BY <1>2, <2>1, LateShrinks
<1>3. ASSUME NEW r \in Request, EnqueueNew(r) PROVE LateInv'
  <2> DEFINE a == req[r].asset
  <2>1. req' = [req EXCEPT ![r] = [pc |-> "record", asset |-> a]] /\ latch' = latch
      BY <1>3, GoesOn DEF EnqueueNew
  <2>2. PastTheLatch' = PastTheLatch \ {r} /\ r \in PastTheLatch
      BY <1>3, <2>1 DEF EnqueueNew, PastTheLatch, TypeOK
  <2>3. IsFiniteSet(PastTheLatch) /\ Cardinality(PastTheLatch) \in Nat
        /\ Cardinality(Request) \in Nat
      BY RequestFinite DEF PastTheLatch
  <2>4. Cardinality(PastTheLatch') = Cardinality(PastTheLatch) - 1
      BY <2>2, <2>3, FS_RemoveElement
  <2>5. /\ IsFiniteSet(late') /\ Cardinality(late') \in Nat /\ Cardinality(late) \in Nat
        /\ Cardinality(late') <= Cardinality(late) + 1
    <3>1. IsFiniteSet(late) /\ late' \in {late, late \cup {a}}
        BY <1>3 DEF EnqueueNew, LateInv
    <3> HIDE DEF a
    <3>2. /\ IsFiniteSet(late \cup {a}) /\ Cardinality(late) \in Nat
          /\ Cardinality(late \cup {a}) = IF a \in late THEN Cardinality(late) ELSE Cardinality(late) + 1
        BY <3>1, FS_AddElement, FS_CardinalityType
    <3>3. CASE late' = late
        BY <3>1, <3>2, <3>3
    <3>4. CASE late' = late \cup {a}
        BY <3>2, <3>4
    <3> QED BY <3>1, <3>3, <3>4
  <2> QED BY <2>1, <2>3, <2>4, <2>5 DEF LateInv
<1>4. ASSUME NEW r \in Request, RecordTrips(r) PROVE LateInv'
  <2>1. CASE latch = None
    <3>1. late' = {} /\ IsFiniteSet(late') /\ Cardinality(late') = 0
        BY <1>4, <2>1, FS_EmptySet DEF RecordTrips
    <3>2. PastTheLatch' \subseteq Request \ {r}
        BY <1>4 DEF RecordTrips, PastTheLatch, Idle, TypeOK
    <3>3. IsFiniteSet(Request \ {r}) /\ Cardinality(Request \ {r}) = Cardinality(Request) - 1
        BY FS_RemoveElement, RequestFinite
    <3>4. /\ Cardinality(Request) \in Nat /\ Cardinality(PastTheLatch') \in Nat
        BY <3>2, RequestFinite
    <3>5. Cardinality(PastTheLatch') <= Cardinality(Request \ {r})
        BY <3>2, <3>3, FS_Subset
    <3> QED BY <3>1, <3>3, <3>4, <3>5 DEF LateInv
  <2>2. CASE latch # None
      BY <1>2, <1>4, <2>2 DEF RecordTrips
  <2> QED BY <2>1, <2>2
<1>5. CASE Resume
    BY <1>5 DEF Resume, LateInv
<1>6. CASE Restart
  <2>1. PastTheLatch' = {}
      BY <1>6 DEF Restart, PastTheLatch, Idle
  <2> QED BY <1>6, <2>1, LateShrinks DEF Restart
<1>7. ASSUME UNCHANGED <<latch, late, req>> PROVE LateInv'
  <2>1. PastTheLatch' = PastTheLatch
      BY <1>7 DEF PastTheLatch
  <2> QED BY <1>7, <2>1, LateShrinks
<1>8. ASSUME NEW r \in Request, EnqueueKnown(r) PROVE LateInv'
    BY <1>2, <1>8 DEF EnqueueKnown
<1>9. ASSUME NEW r \in Request, RecordOff(r) PROVE LateInv'
    BY <1>2, <1>9 DEF RecordOff
<1>10. ASSUME NEW r \in Request, RecordCalm(r) PROVE LateInv'
    BY <1>2, <1>10 DEF RecordCalm
<1>11. ASSUME NEW a \in Asset, BackfillEnqueue(a) PROVE LateInv'
    BY <1>7, <1>11 DEF BackfillEnqueue
<1>12. CASE Tick
    BY <1>7, <1>12 DEF Tick
<1>13. CASE UNCHANGED vars
    BY <1>7, <1>13 DEF vars
<1> QED
    BY <1>1, <1>3, <1>4, <1>5, <1>6, <1>8, <1>9, <1>10, <1>11, <1>12, <1>13 DEF Next, Webhook

(***************************************************************************)
(* Whatever the order of the handlers, however often the breaker is reset  *)
(* and trips again, and across restarts, a latch is passed by fewer assets *)
(* than there are handlers (routes.py 179-189).                            *)
(***************************************************************************)
THEOREM LatchHolds == Spec => []LateBounded
<1>1. Init => LateInv
    BY TypeInit, FS_EmptySet DEF Init, LateInv
<1>2. LateInv => LateBounded
  <2> SUFFICES ASSUME LateInv PROVE LateBounded
      OBVIOUS
  <2>1. Cardinality(PastTheLatch) \in Nat /\ Cardinality(Request) \in Nat
      BY RequestFinite DEF PastTheLatch
  <2>2. Cardinality(late) \in Nat
      BY FS_CardinalityType DEF LateInv
  <2> QED BY <2>1, <2>2 DEF LateInv, LateBounded
<1> QED BY <1>1, <1>2, LateStep, PTL DEF Spec

-----------------------------------------------------------------------------
(***************************************************************************)
(* What is counted.  An asset is in at most one place, the window or one   *)
(* handler that is about to count it; what is in either was queued by a    *)
(* webhook and has a row; and what a webhook queued within the last window *)
(* is still in one of them.  With no breaker nothing is counted.           *)
(***************************************************************************)
Queued == {e.asset : e \in fresh}

InWindow(a) == \E i \in 1..Len(seen) : seen[i].asset = a

Recording(a) == \E r \in Request : InRecord(r, a)

WindowBounded == Len(seen) <= threshold

Once ==
    /\ \A i, j \in 1..Len(seen) : seen[i].asset = seen[j].asset => i = j
    /\ \A q, r \in Request, a \in Asset : InRecord(q, a) /\ InRecord(r, a) => q = r
    /\ \A a \in Asset : ~(InWindow(a) /\ Recording(a))

Backed == \A a \in Asset : InWindow(a) \/ Recording(a) => a \in Queued /\ a \in jobs

StillCounted ==
    \A e \in fresh :
        /\ e.at <= now
        /\ now <= e.at + Window =>
              \/ Recording(e.asset)
              \/ \E i \in 1..Len(seen) : seen[i].asset = e.asset /\ e.at <= seen[i].at

CountInv ==
    /\ TypeOK
    /\ IsFiniteSet(fresh)
    /\ threshold # None => WindowBounded /\ Once /\ Backed /\ StillCounted

\* A handler that is not counting stays out of it.
LEMMA CountFrame ==
    ASSUME CountInv, TypeOK', UNCHANGED <<seen, fresh, threshold, now>>, jobs \subseteq jobs',
           \A r \in Request, a \in Asset : InRecord(r, a)' <=> InRecord(r, a)
    PROVE  CountInv'
<1>1. \A a \in Asset : (InWindow(a)' <=> InWindow(a)) /\ (Recording(a)' <=> Recording(a))
    BY DEF InWindow, Recording
<1>2. Queued' = Queued
    BY DEF Queued
<1>3. ASSUME threshold # None PROVE Once' /\ Backed'
    BY <1>1, <1>2, <1>3 DEF CountInv, Once, Backed
<1>4. ASSUME threshold # None PROVE StillCounted'
  <2>1. \A e \in fresh : e.asset \in Asset
      BY DEF CountInv, TypeOK, Entry
  <2> QED BY <1>1, <1>4, <2>1 DEF CountInv, StillCounted
<1> QED BY <1>3, <1>4 DEF CountInv, WindowBounded

LEMMA CountNew ==
    ASSUME CountInv, TypeOK', NEW r \in Request, EnqueueNew(r)
    PROVE  CountInv'
<1>1. PICK a \in Asset : a = req[r].asset /\ a \notin jobs /\ req[r].pc = "enqueue"
    BY OpenHandler DEF EnqueueNew, CountInv
<1>e. PICK e : e = [asset |-> a, at |-> now]
    OBVIOUS
<1>2. req' = [req EXCEPT ![r] = [pc |-> "record", asset |-> a]]
    BY <1>1, GoesOn DEF EnqueueNew, CountInv
<1>3. /\ fresh' = fresh \cup {e} /\ jobs' = jobs \cup {a}
      /\ UNCHANGED <<seen, threshold, now>>
    BY <1>e, <1>1 DEF EnqueueNew
<1>4. \A q \in Request, b \in Asset : InRecord(q, b)' <=> InRecord(q, b) \/ (q = r /\ b = a)
    BY <1>1, <1>2 DEF InRecord, CountInv, TypeOK
<1>5. /\ \A b \in Asset : InWindow(b)' <=> InWindow(b)
      /\ \A b \in Asset : Recording(b)' <=> Recording(b) \/ b = a
    BY <1>3, <1>4 DEF InWindow, Recording
<1>6. a \in Queued' /\ Queued \subseteq Queued'
  <2>1. e \in fresh' /\ e.asset = a /\ fresh \subseteq fresh'
      BY <1>e, <1>3
  <2> QED BY <2>1 DEF Queued
<1>7. IsFiniteSet(fresh')
    BY <1>3, FS_AddElement DEF CountInv
<1> SUFFICES ASSUME threshold # None PROVE WindowBounded' /\ Once' /\ Backed' /\ StillCounted'
    BY <1>3, <1>7 DEF CountInv
<1>8. WindowBounded /\ Once /\ Backed /\ StillCounted
    BY DEF CountInv
<1>9. ~InWindow(a) /\ ~Recording(a)
    BY <1>1, <1>8 DEF Backed
<1>10. Once'
  <2>1. \A i, j \in 1..Len(seen') : seen'[i].asset = seen'[j].asset => i = j
      BY <1>3, <1>8 DEF Once
  <2>2. ASSUME NEW p \in Request, NEW q \in Request, NEW b \in Asset, InRecord(p, b)', InRecord(q, b)'
        PROVE  p = q
    <3>1. CASE b = a
        BY <1>4, <1>9, <2>2, <3>1 DEF Recording
    <3>2. CASE b # a
        BY <1>4, <1>8, <2>2, <3>2 DEF Once
    <3> QED BY <3>1, <3>2
  <2>3. \A b \in Asset : ~(InWindow(b)' /\ Recording(b)')
      BY <1>5, <1>8, <1>9 DEF Once
  <2> QED BY <2>1, <2>2, <2>3 DEF Once
<1>11. Backed'
    BY <1>3, <1>5, <1>6, <1>8 DEF Backed
<1>12. StillCounted'
  <2>1. now \in Nat
      BY DEF CountInv, TypeOK
  <2>2. ASSUME NEW g \in fresh' PROVE g.at <= now
      BY <1>e, <1>3, <1>8, <2>1, <2>2 DEF StillCounted
  <2>3. Recording(e.asset)'
    <3>1. e.asset = a
        BY <1>e
    <3> QED BY <1>5, <3>1
  <2>4. ASSUME NEW g \in fresh, now <= g.at + Window
        PROVE  Recording(g.asset)' \/ \E i \in 1..Len(seen) : seen[i].asset = g.asset /\ g.at <= seen[i].at
    <3>1. g.asset \in Asset
        BY DEF CountInv, TypeOK, Entry
    <3>2. Recording(g.asset) \/ \E i \in 1..Len(seen) : seen[i].asset = g.asset /\ g.at <= seen[i].at
        BY <1>8, <2>4 DEF StillCounted
    <3>3. Recording(g.asset) => Recording(g.asset)'
        BY <1>5, <3>1
    <3> QED BY <3>2, <3>3
  <2> QED BY <1>3, <2>2, <2>3, <2>4 DEF StillCounted
<1> QED BY <1>3, <1>8, <1>10, <1>11, <1>12 DEF WindowBounded

LEMMA CountCalm ==
    ASSUME CountInv, TypeOK', NEW r \in Request, RecordCalm(r)
    PROVE  CountInv'
<1> DEFINE a == req[r].asset
           n == Len(seen)
<1>1. a \in Asset /\ InRecord(r, a) /\ n \in Nat /\ now \in Nat /\ Window \in Nat
    BY OpenHandler, IntakeAssumption DEF RecordCalm, CountInv, InRecord, TypeOK, IntakeAssumption
<1>2. PICK k \in 1..(n + 1) :
          FirstKept(k) /\ n + 2 - k <= threshold /\ seen' = Counted(a, k)
    BY DEF RecordCalm
<1>3. /\ Len(seen') = n + 2 - k
      /\ \A i \in 1..(n + 1 - k) : seen'[i] = seen[i + k - 1]
      /\ seen'[n + 2 - k] = [asset |-> a, at |-> now]
    BY <1>1, <1>2, WindowKept DEF CountInv
<1>4. /\ threshold # None /\ UNCHANGED <<jobs, threshold, now, fresh>>
      /\ req' = [req EXCEPT ![r] = Idle]
    BY DEF RecordCalm
<1>5. WindowBounded /\ Once /\ Backed /\ StillCounted
    BY <1>4 DEF CountInv
<1>6. \A q \in Request, b \in Asset : InRecord(q, b)' <=> InRecord(q, b) /\ q # r
    BY <1>4 DEF InRecord, CountInv, TypeOK, Idle
<1>7. \A b \in Asset : Recording(b)' <=> Recording(b) /\ b # a
  <2>1. \A q \in Request, b \in Asset : InRecord(q, b) /\ b = a => q = r
      BY <1>1, <1>5 DEF Once
  <2>2. \A q \in Request, b \in Asset : InRecord(q, b) /\ q = r => b = a
      BY <1>1 DEF InRecord
  <2> QED BY <1>6, <2>1, <2>2 DEF Recording
<1> HIDE DEF a
<1>8. k \in Nat /\ 1 <= k /\ k <= n + 1 /\ n + 2 - k \in Nat
    BY <1>1, <1>2
<1>9. \A i \in 1..Len(seen') :
          \/ i \in 1..(n + 1 - k) /\ seen'[i] = seen[i + k - 1] /\ i + k - 1 \in 1..n
          \/ i = n + 2 - k /\ seen'[i].asset = a
    BY <1>1, <1>3, <1>8
<1>10. \A b \in Asset : InWindow(b)' => InWindow(b) \/ b = a
    BY <1>9 DEF InWindow
<1>11. ~InWindow(a)
    BY <1>1, <1>5 DEF Once, Recording
<1>12. Once'
  <2>1. ASSUME NEW i \in 1..Len(seen'), NEW j \in 1..Len(seen'), seen'[i].asset = seen'[j].asset
        PROVE  i = j
    <3>1. CASE i = n + 2 - k \/ j = n + 2 - k
      <4>1. seen'[i].asset = a /\ seen'[j].asset = a
          BY <1>3, <2>1, <3>1
      <4>2. \A h \in 1..n : seen[h].asset # a
          BY <1>11 DEF InWindow
      <4> QED BY <1>9, <4>1, <4>2
    <3>2. CASE i # n + 2 - k /\ j # n + 2 - k
      <4>1. i + k - 1 = j + k - 1
          BY <1>5, <1>9, <2>1, <3>2 DEF Once
      <4>2. i \in Nat /\ j \in Nat
          BY <1>3, <1>8
      <4> QED BY <1>8, <4>1, <4>2
    <3> QED BY <3>1, <3>2
  <2>2. \A p, q \in Request, b \in Asset : InRecord(p, b)' /\ InRecord(q, b)' => p = q
      BY <1>5, <1>6 DEF Once
  <2>3. \A b \in Asset : ~(InWindow(b)' /\ Recording(b)')
      BY <1>5, <1>7, <1>10 DEF Once
  <2> QED BY <2>1, <2>2, <2>3 DEF Once
<1>13. Backed'
  <2>1. Queued' = Queued
      BY <1>4 DEF Queued
  <2>2. a \in Queued /\ a \in jobs
      BY <1>1, <1>5 DEF Backed, Recording
  <2> QED BY <1>4, <1>5, <1>7, <1>10, <2>1, <2>2 DEF Backed
<1>14. StillCounted'
  <2>1. ASSUME NEW e \in fresh, now <= e.at + Window
        PROVE  Recording(e.asset)' \/ \E i \in 1..Len(seen') : seen'[i].asset = e.asset /\ e.at <= seen'[i].at
    <3>1. e.asset \in Asset /\ e.at \in Nat /\ e.at <= now
        BY <1>5 DEF CountInv, TypeOK, Entry, StillCounted
    <3>2. CASE e.asset = a
      <4>1. n + 2 - k \in 1..Len(seen') /\ seen'[n + 2 - k].asset = e.asset /\ e.at <= seen'[n + 2 - k].at
          BY <1>3, <1>8, <3>1, <3>2
      <4> QED BY <4>1
    <3>3. CASE e.asset # a /\ Recording(e.asset)
        BY <1>7, <3>1, <3>3
    <3>4. CASE ~Recording(e.asset)
      <4>1. PICK i \in 1..n : seen[i].asset = e.asset /\ e.at <= seen[i].at
          BY <1>5, <2>1, <3>4 DEF StillCounted
      <4>2. seen[i].at \in Nat
        <5>1. seen \in Seq(Entry) /\ i \in 1..Len(seen)
            BY DEF CountInv, TypeOK
        <5>2. seen[i] \in Entry
            BY <5>1, ElementOfSeq
        <5> QED BY <5>2 DEF Entry
      <4>3. ~Expired(seen[i])
          BY <1>1, <2>1, <3>1, <4>1, <4>2 DEF Expired
      <4>4. i >= k
          BY <1>2, <1>8, <4>3 DEF FirstKept
      <4> DEFINE j == i - k + 1
      <4>5. j \in 1..(n + 1 - k) /\ j \in 1..(n + 2 - k) /\ j + k - 1 = i
          BY <1>1, <1>8, <4>4
      <4> QED BY <1>3, <4>1, <4>5
    <3> QED BY <3>2, <3>3, <3>4
  <2>2. \A e \in fresh : e.at <= now
      BY <1>5 DEF StillCounted
  <2> QED BY <1>4, <2>1, <2>2 DEF StillCounted
<1> QED BY <1>2, <1>3, <1>4, <1>12, <1>13, <1>14 DEF CountInv, WindowBounded

LEMMA CountTrips ==
    ASSUME CountInv, TypeOK', NEW r \in Request, RecordTrips(r)
    PROVE  CountInv'
<1>1. /\ threshold # None /\ UNCHANGED <<jobs, threshold, now>>
      /\ req' = [req EXCEPT ![r] = Idle] /\ seen' = <<>>
      /\ fresh' = {e \in fresh : \E q \in Request \ {r} : InRecord(q, e.asset)}
    BY DEF RecordTrips
<1>2. WindowBounded /\ Once /\ Backed /\ StillCounted
    BY <1>1 DEF CountInv
<1>3. \A q \in Request, b \in Asset : InRecord(q, b)' <=> InRecord(q, b) /\ q # r
    BY <1>1 DEF InRecord, CountInv, TypeOK, Idle
<1>4. /\ \A b \in Asset : ~InWindow(b)'
      /\ \A b \in Asset : Recording(b)' => Recording(b)
    BY <1>1, <1>3 DEF InWindow, Recording
<1>5. IsFiniteSet(fresh')
    BY <1>1, FS_Subset DEF CountInv
<1>6. Once'
  <2>1. \A p, q \in Request, b \in Asset : InRecord(p, b)' /\ InRecord(q, b)' => p = q
      BY <1>2, <1>3 DEF Once
  <2>2. \A h, i \in 1..Len(seen') : seen'[h].asset = seen'[i].asset => h = i
      BY <1>1
  <2> QED BY <1>4, <2>1, <2>2 DEF Once
<1>7. \A e \in fresh : e.asset \in Asset
    BY DEF CountInv, TypeOK, Entry
<1>8. Backed'
  <2>1. ASSUME NEW b \in Asset, Recording(b)' PROVE b \in Queued'
    <3>1. PICK q \in Request : InRecord(q, b) /\ q # r
        BY <1>3, <2>1 DEF Recording
    <3>2. PICK e \in fresh : e.asset = b
        BY <1>2, <1>4, <2>1 DEF Backed, Queued
    <3>3. e \in fresh'
        BY <1>1, <3>1, <3>2
    <3> QED BY <3>2, <3>3 DEF Queued
  <2> QED BY <1>1, <1>2, <1>4, <2>1 DEF Backed
<1>9. StillCounted'
  <2>1. ASSUME NEW e \in fresh' PROVE e \in fresh /\ Recording(e.asset)'
    <3>1. PICK q \in Request \ {r} : InRecord(q, e.asset)
        BY <1>1, <2>1
    <3>2. e \in fresh /\ e.asset \in Asset
        BY <1>1, <1>7, <2>1
    <3>3. InRecord(q, e.asset)'
        BY <1>3, <3>1, <3>2
    <3> QED BY <3>2, <3>3 DEF Recording
  <2>2. \A e \in fresh : e.at <= now
      BY <1>2 DEF StillCounted
  <2> QED BY <1>1, <2>1, <2>2 DEF StillCounted
<1>10. WindowBounded'
  <2>1. threshold \in Nat
      BY <1>1, IntakeAssumption DEF CountInv, TypeOK, IntakeAssumption
  <2> QED BY <1>1, <2>1 DEF WindowBounded
<1> QED BY <1>1, <1>5, <1>6, <1>8, <1>9, <1>10 DEF CountInv

LEMMA CountTick ==
    ASSUME CountInv, TypeOK', Tick
    PROVE  CountInv'
<1>1. now' = now + 1 /\ UNCHANGED <<jobs, latch, seen, req, threshold, restarts, fresh, late>>
    BY DEF Tick
<1>2. /\ \A a \in Asset : (InWindow(a)' <=> InWindow(a)) /\ (Recording(a)' <=> Recording(a))
      /\ Queued' = Queued
    BY <1>1 DEF InWindow, Recording, InRecord, Queued
<1>3. \A q \in Request, b \in Asset : InRecord(q, b)' <=> InRecord(q, b)
    BY <1>1 DEF InRecord
<1> SUFFICES ASSUME threshold # None PROVE WindowBounded' /\ Once' /\ Backed' /\ StillCounted'
    BY <1>1 DEF CountInv
<1>4. WindowBounded /\ Once /\ Backed /\ StillCounted
    BY DEF CountInv
<1>5. Once' /\ Backed' /\ WindowBounded'
    BY <1>1, <1>2, <1>3, <1>4 DEF Once, Backed, WindowBounded
<1>6. StillCounted'
  <2>1. ASSUME NEW e \in fresh
        PROVE  /\ e.at <= now'
               /\ now' <= e.at + Window =>
                     \/ Recording(e.asset)'
                     \/ \E i \in 1..Len(seen) : seen[i].asset = e.asset /\ e.at <= seen[i].at
    <3>1. now \in Nat /\ e.at \in Nat /\ Window \in Nat /\ e.asset \in Asset
        BY IntakeAssumption DEF CountInv, TypeOK, Entry, IntakeAssumption
    <3>2. /\ e.at <= now
          /\ now <= e.at + Window =>
                \/ Recording(e.asset)
                \/ \E i \in 1..Len(seen) : seen[i].asset = e.asset /\ e.at <= seen[i].at
        BY <1>4 DEF StillCounted
    <3>3. Recording(e.asset)' <=> Recording(e.asset)
        BY <1>2, <3>1
    <3>4. e.at <= now' /\ (now' <= e.at + Window => now <= e.at + Window)
        BY <1>1, <3>1, <3>2
    <3> QED BY <3>2, <3>3, <3>4
  <2> QED BY <1>1, <2>1 DEF StillCounted
<1> QED BY <1>5, <1>6

LEMMA CountStep == CountInv /\ [Next]_vars => CountInv'
<1> SUFFICES ASSUME CountInv, [Next]_vars PROVE CountInv'
    OBVIOUS
<1> TypeOK /\ TypeOK'
    BY TypeStep DEF CountInv
<1>1. ASSUME NEW r \in Request, NEW l, l.pc # "record", req[r].pc # "record",
             req' = [req EXCEPT ![r] = l], UNCHANGED <<jobs, seen, fresh, threshold, now>>
      PROVE  CountInv'
  <2>1. \A q \in Request, a \in Asset : InRecord(q, a)' <=> InRecord(q, a)
      BY <1>1 DEF InRecord, TypeOK
  <2> QED BY <1>1, <2>1, CountFrame
<1>2. ASSUME UNCHANGED <<req, seen, fresh, threshold, now>>, jobs \subseteq jobs' PROVE CountInv'
  <2>1. \A q \in Request, a \in Asset : InRecord(q, a)' <=> InRecord(q, a)
      BY <1>2 DEF InRecord
  <2> QED BY <1>2, <2>1, CountFrame
<1>3. ASSUME NEW r \in Request, NEW a \in Asset, Deliver(r, a) PROVE CountInv'
  <2>1. PICK l : l = [pc |-> "enqueue", asset |-> a]
      OBVIOUS
  <2>2. l.pc # "record" /\ req[r].pc # "record"
      BY <1>3, <2>1 DEF Deliver, Idle
  <2> QED BY <1>1, <1>3, <2>1, <2>2 DEF Deliver
<1>4. ASSUME NEW r \in Request, EnqueueKnown(r) PROVE CountInv'
    BY <1>1, <1>4 DEF EnqueueKnown, Idle
<1>5. ASSUME NEW r \in Request, RecordOff(r) PROVE CountInv'
    BY <1>5 DEF RecordOff, CountInv
<1>6. ASSUME NEW a \in Asset, BackfillEnqueue(a) PROVE CountInv'
    BY <1>2, <1>6 DEF BackfillEnqueue
<1>7. CASE Resume
    BY <1>2, <1>7 DEF Resume
<1>8. CASE Restart
  <2>1. /\ req' = [q \in Request |-> Idle] /\ seen' = <<>> /\ fresh' = {}
      BY <1>8 DEF Restart
  <2>2. \A q \in Request, a \in Asset : ~InRecord(q, a)'
      BY <2>1 DEF InRecord, Idle
  <2>3. \A a \in Asset : ~InWindow(a)' /\ ~Recording(a)'
      BY <2>1, <2>2 DEF InWindow, Recording
  <2>4. Once' /\ Backed' /\ StillCounted'
      BY <2>1, <2>2, <2>3 DEF Once, Backed, StillCounted
  <2>5. threshold' # None => WindowBounded'
      BY <2>1, IntakeAssumption DEF TypeOK, WindowBounded, IntakeAssumption
  <2>6. IsFiniteSet(fresh')
      BY <2>1, FS_EmptySet
  <2> QED BY <2>4, <2>5, <2>6 DEF CountInv
<1>9. CASE UNCHANGED vars
    BY <1>2, <1>9 DEF vars
<1> QED
    BY <1>3, <1>4, <1>5, <1>6, <1>7, <1>8, <1>9, CountNew, CountCalm, CountTrips, CountTick
       DEF Next, Webhook

LEMMA CountAlways == Spec => []CountInv
<1>1. ASSUME Init PROVE CountInv
  <2>1. seen = <<>> /\ fresh = {} /\ \A r \in Request : req[r] = Idle
      BY <1>1 DEF Init
  <2>2. \A q \in Request, a \in Asset : ~InRecord(q, a)
      BY <2>1 DEF InRecord, Idle
  <2>3. Once /\ Backed /\ StillCounted
      BY <2>1, <2>2 DEF Once, Backed, StillCounted, InWindow, Recording
  <2>4. threshold # None => WindowBounded
      BY <1>1, <2>1, IntakeAssumption DEF Init, WindowBounded, IntakeAssumption
  <2> QED BY <1>1, <2>1, <2>3, <2>4, TypeInit, FS_EmptySet DEF CountInv
<1> QED BY <1>1, CountStep, PTL DEF Spec

-----------------------------------------------------------------------------
\* There are no more entries than positions, nor assets than handlers.
LEMMA FewInWindow ==
    ASSUME TypeOK
    PROVE  /\ IsFiniteSet({seen[i].asset : i \in 1..Len(seen)})
           /\ Cardinality({seen[i].asset : i \in 1..Len(seen)}) <= Len(seen)
           /\ Cardinality({seen[i].asset : i \in 1..Len(seen)}) \in Nat
<1> DEFINE n == Len(seen)
           W == {seen[i].asset : i \in 1..n}
           f == [i \in 1..n |-> seen[i].asset]
<1>1. n \in Nat
    BY DEF TypeOK
<1>2. IsFiniteSet(1..n) /\ Cardinality(1..n) = n
    BY <1>1, FS_Interval
<1>3. f \in Surjection(1..n, W)
    BY DEF Surjection
<1> HIDE DEF W, f, n
<1>4. IsFiniteSet(W) /\ Cardinality(W) <= n
    BY <1>2, <1>3, FS_Surjection
<1>5. Cardinality(W) \in Nat
    BY <1>4, FS_CardinalityType
<1> QED BY <1>4, <1>5 DEF W, n

LEMMA FewRecording ==
    /\ IsFiniteSet({req[r].asset : r \in Request})
    /\ Cardinality({req[r].asset : r \in Request}) <= Cardinality(Request)
    /\ Cardinality({req[r].asset : r \in Request}) \in Nat
<1> DEFINE R == {req[r].asset : r \in Request}
           f == [r \in Request |-> req[r].asset]
<1>1. IsFiniteSet(Request)
    BY IntakeAssumption DEF IntakeAssumption
<1>2. f \in Surjection(Request, R)
    BY DEF Surjection
<1> HIDE DEF R, f
<1>3. IsFiniteSet(R) /\ Cardinality(R) <= Cardinality(Request)
    BY <1>1, <1>2, FS_Surjection
<1>4. Cardinality(R) \in Nat
    BY <1>3, FS_CardinalityType
<1> QED BY <1>3, <1>4 DEF R

(***************************************************************************)
(* The breaker bounds what webhooks queue within a window, for any number  *)
(* of handlers and however they interleave (ingest.py 132-152).            *)
(***************************************************************************)
THEOREM SurgesAreBounded == Spec => []SurgeBounded
<1>1. ASSUME CountInv PROVE SurgeBounded
  <2> SUFFICES ASSUME threshold # None
               PROVE  Cardinality(Recent) <= threshold + Cardinality(Request)
      BY DEF SurgeBounded
  <2> DEFINE W == {seen[i].asset : i \in 1..Len(seen)}
             R == {req[r].asset : r \in Request}
  <2>1. IsFiniteSet(W) /\ Cardinality(W) <= Len(seen) /\ Cardinality(W) \in Nat
      BY <1>1, FewInWindow DEF CountInv
  <2>2. IsFiniteSet(R) /\ Cardinality(R) <= Cardinality(Request) /\ Cardinality(R) \in Nat
      BY FewRecording
  <2>3. Recent \subseteq W \cup R
    <3> SUFFICES ASSUME NEW e \in fresh, now <= e.at + Window PROVE e.asset \in W \cup R
        BY DEF Recent
    <3>1. \/ Recording(e.asset)
          \/ \E i \in 1..Len(seen) : seen[i].asset = e.asset
        BY <1>1 DEF CountInv, StillCounted
    <3>2. CASE Recording(e.asset)
      <4>1. PICK r \in Request : req[r].asset = e.asset
          BY <3>2 DEF Recording, InRecord
      <4> QED BY <4>1
    <3>3. CASE \E i \in 1..Len(seen) : seen[i].asset = e.asset
      <4>1. PICK i \in 1..Len(seen) : seen[i].asset = e.asset
          BY <3>3
      <4> QED BY <4>1
    <3> QED BY <3>1, <3>2, <3>3
  <2>4. threshold \in Nat /\ Len(seen) \in Nat /\ Len(seen) <= threshold
      BY <1>1, IntakeAssumption DEF CountInv, TypeOK, WindowBounded, IntakeAssumption
  <2>5. Cardinality(Request) \in Nat
      BY RequestFinite
  <2> HIDE DEF W, R
  <2>6. /\ IsFiniteSet(W \cup R)
        /\ Cardinality(W \cup R) = Cardinality(W) + Cardinality(R) - Cardinality(W \cap R)
      BY <2>1, <2>2, FS_Union
  <2>7. Cardinality(W \cap R) \in Nat
      BY <2>1, FS_Intersection, FS_CardinalityType
  <2>8. Cardinality(Recent) <= Cardinality(W \cup R) /\ Cardinality(Recent) \in Nat
      BY <2>3, <2>6, FS_Subset, FS_CardinalityType
  <2> QED BY <2>1, <2>2, <2>4, <2>5, <2>6, <2>7, <2>8
<1> QED BY <1>1, CountAlways, PTL

(***************************************************************************)
(* The latch is never set for less than the threshold: whatever replays,   *)
(* restarts and backfills come between, more assets than that were queued  *)
(* by webhooks and not counted before (ingest.py 122-124).                 *)
(***************************************************************************)
THEOREM TripsAreDeserved == Spec => TripIsDeserved
<1>1. ASSUME CountInv, [Next]_vars, latch = None, latch' # None
      PROVE  Cardinality(Queued) > threshold
  <2>1. PICK r \in Request : RecordTrips(r)
      BY <1>1 DEF Next, Webhook, Deliver, EnqueueKnown, EnqueueNew, RecordOff, RecordCalm,
                  BackfillEnqueue, Resume, Restart, Tick, vars
  <2>2. PICK a \in Asset : InRecord(r, a)
      BY <1>1, <2>1, OpenHandler DEF CountInv, RecordTrips, InRecord
  <2> DEFINE n == Len(seen)
             f == [i \in 1..(n + 1) |-> IF i <= n THEN seen[i].asset ELSE a]
  <2>3. Once /\ Backed /\ threshold # None
      BY <1>1, <2>1 DEF CountInv, RecordTrips
  <2>4. n \in Nat /\ threshold \in Nat /\ n + 1 > threshold
    <3>1. n \in Nat /\ threshold \in Nat
        BY <1>1, <2>3, IntakeAssumption DEF CountInv, TypeOK, IntakeAssumption
    <3>2. PICK k \in 1..(n + 1) : n + 2 - k > threshold
        BY <2>1 DEF RecordTrips
    <3> QED BY <3>1, <3>2
  <2>5. /\ a \in Queued /\ ~InWindow(a)
        /\ \A i \in 1..n : seen[i].asset \in Queued /\ seen[i].asset # a
    <3>1. a \in Queued /\ ~InWindow(a)
        BY <2>2, <2>3 DEF Once, Backed, Recording
    <3>2. ASSUME NEW i \in 1..n PROVE seen[i].asset \in Asset /\ InWindow(seen[i].asset)
      <4>1. seen \in Seq(Entry)
          BY <1>1 DEF CountInv, TypeOK
      <4>2. seen[i] \in Entry
          BY <4>1, ElementOfSeq
      <4> QED BY <4>2 DEF Entry, InWindow
    <3> QED BY <2>3, <3>1, <3>2 DEF Backed, InWindow
  <2>6. f \in Injection(1..(n + 1), Queued)
    <3>1. f \in [1..(n + 1) -> Queued]
        BY <2>4, <2>5
    <3>2. ASSUME NEW i \in 1..(n + 1), NEW j \in 1..(n + 1), f[i] = f[j] PROVE i = j
        BY <2>3, <2>4, <2>5, <3>2 DEF Once
    <3> QED BY <3>1, <3>2 DEF Injection, IsInjective
  <2>7. IsFiniteSet(Queued)
    <3> DEFINE g == [e \in fresh |-> e.asset]
    <3>1. g \in Surjection(fresh, Queued)
        BY DEF Surjection, Queued
    <3> QED BY <1>1, <3>1, FS_Surjection DEF CountInv
  <2>8. Cardinality(1..(n + 1)) = n + 1 /\ Cardinality(Queued) \in Nat
      BY <2>4, <2>7, FS_Interval, FS_CardinalityType
  <2> HIDE DEF f
  <2>9. Cardinality(1..(n + 1)) <= Cardinality(Queued)
      BY <2>6, <2>7, FS_Injection
  <2> QED BY <2>4, <2>8, <2>9
<1>2. CountInv /\ [Next]_vars =>
          [latch = None /\ latch' # None => Cardinality({e.asset : e \in fresh}) > threshold]_vars
    BY <1>1 DEF Queued
<1> QED BY <1>2, CountAlways, PTL DEF Spec, TripIsDeserved

=============================================================================
