-------------------------- MODULE ChecksumShim_proofs --------------------------
(***************************************************************************)
(* ShimInv is inductive, so a translation is never handed out while the    *)
(* original exists, and no response arms what a sighting says is taken.    *)
(* The queues of upserts come last: only their types are needed.           *)
(***************************************************************************)
EXTENDS ChecksumShimProps, Filter_proofs

USE DEF Original, Copy, Replacing, Item

\* A replacement is an item, and its id is no asset and no checksum of one.
LEMMA ReplacementFacts ==
    ASSUME NEW a \in Original
    PROVE  /\ ReplacedBy[a] \in Replacing
           /\ ReplacedBy[a] \in NewAsset
           /\ ReplacedBy[a] \in Item
           /\ ReplacedBy[a] \notin Asset
           /\ ReplacedBy[a] # None
           /\ Sum(ReplacedBy[a]) = ReplacedBy[a]
           /\ \A e \in Asset : ReplacedBy[a] # Content[e]
BY ShimAssumption DEF Sum

\* What rewrite_sync_line makes of a line is a checksum; it is the original's
\* only for the replacement of an armed original.
LEMMA RewrittenFacts ==
    ASSUME NEW s, s.maps \in Maps, NEW x \in Item
    PROVE  /\ Rewritten(s, x) \in Checksum
           /\ \A a \in Original :
                 x = ReplacedBy[a] /\ Rewritten(s, x) = Content[a] => a \in s.maps.armed
<1> DEFINE T == Translations(s, x)
<1>1. T \subseteq {Content[a] : a \in Asset}
  BY DEF Translations, Maps
<1>2. Rewritten(s, x) \in Checksum
  <2>1. CASE T = {}
    BY <2>1 DEF Rewritten, Sum, Checksum
  <2>2. CASE T # {}
    <3>1. (CHOOSE k \in T : TRUE) \in T
      BY <2>2
    <3> QED BY <3>1, <1>1, <2>2 DEF Rewritten, Checksum
  <2> QED BY <2>1, <2>2
<1>3. ASSUME NEW a \in Original, x = ReplacedBy[a], Rewritten(s, x) = Content[a]
      PROVE  a \in s.maps.armed
  <2>1. T # {}
    BY <1>3, ReplacementFacts DEF Rewritten
  <2>2. PICK e \in s.maps.armed : ReplacedBy[e] = x
    BY <2>1 DEF Translations
  <2>3. e \in Original
    BY <2>2 DEF Maps
  <2> QED BY <2>2, <2>3, <1>3, ShimAssumption
<1> QED BY <1>2, <1>3

\* The row of an asset that has no job.
LEMMA NoRowType == NoRow \in Row
BY StoreAssumption DEF NoRow, Row, JobState, SkipReason

\* TranslationMaps.build arms what is open and unclaimed, and nothing else.
LEMMA BuildFacts ==
    ASSUME row \in [Asset -> Row], RowsAreKept, NEW returned \in SUBSET Asset
    PROVE  LET m == Build(Entries, returned)
           IN  /\ m \in Maps
               /\ \A a \in m.armed : row[a].freed
               /\ \A a \in m.armed, c \in returned : Content[a] # Content[c]
BY DEF RowsAreKept, Build, Entries, Maps

-----------------------------------------------------------------------------
\* ShimInv by what the steps change together: the table with the pipeline's
\* jobs, the server, the mirrors, the ledger, and the local state of requests.

TableOK ==
    /\ row \in [Asset -> Row]
    /\ job \in [Asset -> {"none", "free", "touch"}]
    /\ RowsAreKept
    /\ \A a \in Original : Gone(a) \/ (~row[a].freed /\ job[a] = "none")

ServerOK ==
    /\ server \in [Item -> Presence]
    /\ dels \in [Device -> SUBSET Item]
    /\ \A d \in Device : \A x \in dels[d] : Gone(x)
    /\ used \subseteq Occasion

MirrorsOK ==
    /\ mirror \in [Device -> [Item -> Checksum \cup {None}]]
    /\ \A d \in Device, a \in Original : Gone(a) \/ mirror[d][ReplacedBy[a]] # Content[a]

LedgerOK ==
    /\ maps \in Maps
    /\ fresh \in BOOLEAN
    /\ observed \subseteq Asset
    /\ held \subseteq Replacing
    /\ owed \subseteq held
    /\ \A a \in Original : Gone(a) \/ a \notin maps.armed
    /\ FreshMapsRespect

LocalOK(l) ==
    /\ l \in Local
    /\ \A x \in l.dels \cup l.opens \cup l.releases : Gone(x)
    /\ \A a \in Original : Gone(a) \/ a \notin l.maps.armed
    /\ l.at \in {"route", "stream"} => l.dev \in Device
    /\ l.pc = "send" => l.at = "route"
    /\ l.pc \in {"deletes", "upserts"} => l.at = "stream"

RequestsOK ==
    /\ stream \in [Request -> Local]
    /\ \A r \in Request : LocalOK(stream[r])

Parts == TableOK /\ ServerOK /\ MirrorsOK /\ LedgerOK /\ RequestsOK

\* The two ways of writing the invariant agree.
LEMMA Regrouped == ShimInv <=> Parts
<1>1. ASSUME ShimInv PROVE Parts
  <2> USE <1>1 DEF ShimInv
  <2>1. TableOK
    BY DEF TableOK, Typed, GatesAreTrue
  <2>2. ServerOK
    BY DEF ServerOK, Typed, DeletesAreTrue
  <2>3. MirrorsOK
    BY DEF MirrorsOK, Typed, TranslatedOnlyAfterPurge, Gone
  <2>4. LedgerOK
    BY DEF LedgerOK, Typed, GatesAreTrue
  <2>5. RequestsOK
    BY DEF RequestsOK, LocalOK, Typed, GatesAreTrue, DeletesAreTrue, StreamsAreAddressed
  <2> QED BY <2>1, <2>2, <2>3, <2>4, <2>5 DEF Parts
<1>2. ASSUME Parts PROVE ShimInv
  <2> USE <1>2 DEF Parts
  <2>1. Typed
    BY DEF TableOK, ServerOK, MirrorsOK, LedgerOK, RequestsOK, Typed
  <2>2. RowsAreKept /\ FreshMapsRespect
    BY DEF TableOK, LedgerOK
  <2>3. DeletesAreTrue
    BY DEF ServerOK, RequestsOK, LocalOK, DeletesAreTrue
  <2>4. GatesAreTrue
    BY DEF TableOK, LedgerOK, RequestsOK, LocalOK, GatesAreTrue
  <2>5. StreamsAreAddressed
    BY DEF RequestsOK, LocalOK, StreamsAreAddressed
  <2>6. TranslatedOnlyAfterPurge
    <3>1. ASSUME NEW a \in Original, ~Gone(a), NEW r \in Request
          PROVE  Rewritten(stream[r], ReplacedBy[a]) # Content[a]
      <4>1. stream[r].maps \in Maps /\ a \notin stream[r].maps.armed
        BY <3>1 DEF RequestsOK, LocalOK, Local
      <4> QED BY <4>1, ReplacementFacts, RewrittenFacts
    <3> QED BY <3>1 DEF TranslatedOnlyAfterPurge, MirrorsOK, Gone
  <2> QED BY <2>1, <2>2, <2>3, <2>4, <2>5, <2>6 DEF ShimInv
<1> QED BY <1>1, <1>2

-----------------------------------------------------------------------------
\* The initial states.
LEMMA InitShim == Init => ShimInv
<1> SUFFICES ASSUME Init PROVE ShimInv
  OBVIOUS
<1> USE DEF Init
<1>1. Typed
  <2>1. row \in [Asset -> Row]
    <3>1. ASSUME NEW a \in Original
          PROVE  [NoRow EXCEPT !.state = "done", !.ledger = TRUE,
                               !.new = ReplacedBy[a]] \in Row
      BY <3>1, NoRowType, ReplacementFacts DEF Row, JobState
    <3> QED BY <3>1, NoRowType
  <2>2. mirror \in [Device -> [Item -> Checksum \cup {None}]]
    BY DEF Checksum, Sum
  <2>3. stream \in [Request -> Local]
    BY DEF Local, Idle, Maps, NoMaps
  <2> QED BY <2>1, <2>2, <2>3 DEF Typed, Presence, Maps, NoMaps
<1>2. RowsAreKept
  BY DEF RowsAreKept, NoRow
<1>3. DeletesAreTrue
  BY DEF DeletesAreTrue, Idle
<1>4. GatesAreTrue
  BY DEF GatesAreTrue, NoRow, Idle, NoMaps
<1>5. StreamsAreAddressed /\ FreshMapsRespect
  BY DEF StreamsAreAddressed, FreshMapsRespect, Idle
<1>6. TranslatedOnlyAfterPurge
  <2>1. ASSUME NEW a \in Original
        PROVE  /\ \A d \in Device : mirror[d][ReplacedBy[a]] # Content[a]
               /\ \A r \in Request : Rewritten(stream[r], ReplacedBy[a]) # Content[a]
    BY <2>1, ReplacementFacts, ShimAssumption
    DEF Rewritten, Translations, Idle, NoMaps
  <2> QED BY <2>1 DEF TranslatedOnlyAfterPurge
<1> QED BY <1>1, <1>2, <1>3, <1>4, <1>5, <1>6 DEF ShimInv

-----------------------------------------------------------------------------
\* What every step of the server respects.

Kept(x) == Gone(x) => Gone(x)'

\* A purge or a delete: what is gone stays gone, and every delete is true.
LEMMA DeleteStep ==
    ASSUME ServerOK, NEW x \in Item, Delete(x), used' = used
    PROVE  ServerOK' /\ Gone(x)' /\ \A y \in Item : Kept(y)
BY DEF ServerOK, Delete, Gone, Kept, Presence

\* A new upload: no asset that is gone comes back.
LEMMA ArriveStep ==
    ASSUME ServerOK, NEW c \in Asset, Arrive(c)
    PROVE  ServerOK' /\ \A y \in Item : Kept(y)
BY DEF ServerOK, Arrive, Gone, Kept, Presence

\* Nothing moves on the server, and deletes are at most forgotten.
LEMMA ServerSame ==
    ASSUME ServerOK, server' = server, dels' = dels, used' \subseteq Occasion
    PROVE  ServerOK' /\ \A y \in Item : Kept(y)
BY DEF ServerOK, Gone, Kept

\* An occasion that arises is one of the occasions, and is remembered.
LEMMA SpendFacts ==
    ASSUME ServerOK, NEW o \in Occasion, Spend(o)
    PROVE  used' \subseteq Occasion /\ used \subseteq used' /\ o \in used'
BY DEF ServerOK, Spend

-----------------------------------------------------------------------------
\* The parts that a step leaves alone.

\* The table, if the step does not write to it.
LEMMA TableSame ==
    ASSUME TableOK, UNCHANGED <<row, job>>, \A y \in Item : Kept(y)
    PROVE  TableOK'
BY DEF TableOK, RowsAreKept, Kept

\* The mirrors, if the device applies nothing.
LEMMA MirrorsSame ==
    ASSUME MirrorsOK, UNCHANGED mirror, \A y \in Item : Kept(y)
    PROVE  MirrorsOK'
BY DEF MirrorsOK, Kept

\* The ledger, if at most the cache is dropped and something is forgotten.
LEMMA LedgerShrinks ==
    ASSUME LedgerOK, UNCHANGED <<maps, held>>, \A y \in Item : Kept(y),
           fresh' \in BOOLEAN, fresh' => fresh, used \subseteq used',
           fresh' => observed' \subseteq observed,
           observed' \subseteq Asset, owed' \subseteq owed
    PROVE  LedgerOK'
<1>1. FreshMapsRespect'
  BY DEF LedgerOK, FreshMapsRespect
<1> QED BY <1>1 DEF LedgerOK, Kept

\* The requests, if none of them is served.
LEMMA RequestsSame ==
    ASSUME RequestsOK, UNCHANGED stream, \A y \in Item : Kept(y)
    PROVE  RequestsOK'
<1>1. ASSUME NEW r \in Request
      PROVE  stream[r] \in Local /\ stream[r].dels \cup stream[r].opens \cup stream[r].releases \subseteq Item
  BY DEF RequestsOK, Local
<1> QED BY <1>1 DEF RequestsOK, LocalOK, Kept

\* The requests, if one of them goes on to the local state l.
LEMMA RequestStep ==
    ASSUME RequestsOK, NEW r \in Request, NEW l, LocalOK(l),
           stream' = [stream EXCEPT ![r] = l], UNCHANGED server
    PROVE  RequestsOK'
<1>1. ASSUME NEW q \in Request
      PROVE  LocalOK(stream[q])' /\ stream'[q] \in Local
  BY DEF RequestsOK, LocalOK, Gone
<1> QED BY <1>1 DEF RequestsOK

\* What is known of the local state of a request.
LEMMA LocalFacts ==
    ASSUME RequestsOK, NEW r \in Request
    PROVE  LocalOK(stream[r]) /\ stream[r] \in Local /\ stream[r].maps \in Maps
BY DEF RequestsOK, LocalOK, Local

\* An idle request.
LEMMA IdleOK == LocalOK(Idle)
BY DEF LocalOK, Local, Idle, Maps, NoMaps

-----------------------------------------------------------------------------
\* The server and the pipeline.

\* The statements of the pipeline yield rows with the same replacement.
LEMMA RowFacts ==
    ASSUME NEW r \in Row
    PROVE  /\ [r EXCEPT !.state = "running", !.ledger = TRUE] \in Row
           /\ MarkedSkipped(r, "re_uploaded") \in Row
           /\ Requeued(r) \in Row
           /\ MarkedFreed(r) \in Row
           /\ [r EXCEPT !.state = "running", !.ledger = TRUE].new = r.new
           /\ MarkedSkipped(r, "re_uploaded").new = r.new
           /\ Requeued(r).new = r.new
           /\ MarkedFreed(r).new = r.new
           /\ [r EXCEPT !.state = "running", !.ledger = TRUE].freed = r.freed
           /\ MarkedSkipped(r, "re_uploaded").freed = r.freed
           /\ Requeued(r).freed = r.freed
<1>1. 0 \in 0..MaxAttempts /\ "queued" \in JobState /\ "none" \in SkipReason
  BY StoreAssumption DEF JobState, SkipReason
<1>2. Requeued(r) \in Row /\ Requeued(r).new = r.new /\ Requeued(r).freed = r.freed
  BY <1>1 DEF Requeued, Row
<1>3. /\ MarkedSkipped(r, "re_uploaded") \in Row
      /\ MarkedSkipped(r, "re_uploaded").new = r.new
      /\ MarkedSkipped(r, "re_uploaded").freed = r.freed
  BY DEF MarkedSkipped, Row, JobState, SkipReason
<1>4. MarkedFreed(r) \in Row /\ MarkedFreed(r).new = r.new
  BY DEF MarkedFreed, Row
<1>5. /\ [r EXCEPT !.state = "running", !.ledger = TRUE] \in Row
      /\ [r EXCEPT !.state = "running", !.ledger = TRUE].new = r.new
      /\ [r EXCEPT !.state = "running", !.ledger = TRUE].freed = r.freed
  BY DEF Row, JobState
<1> QED BY <1>2, <1>3, <1>4, <1>5

\* The row of a new upload.
LEMMA EnqueuedType == Enqueued("ok") \in Row /\ Enqueued("ok").new = None
<1>1. Enqueued("ok") = [NoRow EXCEPT !.state = "queued", !.payload = "ok"]
  BY DEF Enqueued
<1>2. "queued" \in JobState /\ "ok" \in {"ok", "guarded", "bad"}
  BY DEF JobState
<1>3. NoRow.new = None
  BY DEF NoRow
<1> QED BY <1>1, <1>2, <1>3, NoRowType DEF Row

\* One row is rewritten, with the same replacement, and freed only if the asset is gone.
LEMMA TableStep ==
    ASSUME TableOK, NEW a \in Asset, NEW l \in Row, \A y \in Item : Kept(y),
           row' = [row EXCEPT ![a] = l], l.new = ReplacedBy[a],
           a \in Original => Gone(a)' \/ (l.freed = row[a].freed),
           job' \in [Asset -> {"none", "free", "touch"}],
           \A e \in Original : Gone(e)' \/ job'[e] = job[e]
    PROVE  TableOK'
<1>1. row' \in [Asset -> Row] /\ RowsAreKept'
  BY DEF TableOK, RowsAreKept
<1>2. ASSUME NEW e \in Original
      PROVE  Gone(e)' \/ (~row'[e].freed /\ job'[e] = "none")
  BY DEF TableOK, Kept
<1> QED BY <1>1, <1>2 DEF TableOK

\* What happens to the library, whoever did it.
LEMMA ServerParts ==
    ASSUME Parts, NEW x \in Item, Purge(x) \/ Edit(x) \/ Arrive(x)
    PROVE  Parts'
<1> USE DEF Parts
<1> SUFFICES ASSUME TRUE PROVE TableOK' /\ ServerOK' /\ MirrorsOK' /\ LedgerOK' /\ RequestsOK'
  OBVIOUS
<1>1. CASE Purge(x)
  <2>1. ServerOK' /\ \A y \in Item : Kept(y)
    BY <1>1, DeleteStep DEF Purge
  <2> QED
    BY <1>1, <2>1, TableSame, MirrorsSame, LedgerShrinks, RequestsSame
    DEF Purge, ledgerVars, LedgerOK
<1>2. CASE Edit(x)
  <2>1. used' \subseteq Occasion /\ used \subseteq used'
    BY <1>2, SpendFacts DEF Edit, Occasion
  <2>2. ServerOK' /\ \A y \in Item : Kept(y)
    BY <1>2, <2>1, ServerSame DEF Edit
  <2> QED
    BY <1>2, <2>1, <2>2, TableSame, MirrorsSame, LedgerShrinks, RequestsSame
    DEF Edit, ledgerVars, LedgerOK
<1>3. CASE Arrive(x)
  <2>1. ServerOK' /\ \A y \in Item : Kept(y)
    BY <1>3, ArriveStep DEF Arrive
  <2>2. TableOK'
    <3>1. x \in Copy /\ ReplacedBy[x] = None /\ row' = [row EXCEPT ![x] = Enqueued("ok")]
          /\ job' = job
      BY <1>3 DEF Arrive
    <3> QED BY <3>1, <2>1, EnqueuedType, TableStep DEF TableOK
  <2> QED
    BY <1>3, <2>1, <2>2, MirrorsSame, LedgerShrinks, RequestsSame
    DEF Arrive, ledgerVars, LedgerOK
<1> QED BY <1>1, <1>2, <1>3

\* What the pipeline and its operator do about an asset.
LEMMA PipelineParts ==
    ASSUME Parts, NEW a \in Asset,
           \/ Load(a) \/ Classify(a) \/ Requeue(a) \/ DeletePermanently(a)
           \/ FreeOriginalChecksum(a) \/ TouchReplacement(a)
    PROVE  Parts'
<1> USE DEF Parts
<1> SUFFICES ASSUME TRUE PROVE TableOK' /\ ServerOK' /\ MirrorsOK' /\ LedgerOK' /\ RequestsOK'
  OBVIOUS
<1>1. row[a] \in Row /\ row[a].new = ReplacedBy[a]
  BY DEF TableOK, RowsAreKept
<1>2. CASE Load(a) \/ Classify(a) \/ Requeue(a)
  <2>1. used' \subseteq Occasion /\ used \subseteq used'
    BY <1>2, SpendFacts DEF Load, Classify, Requeue, Occasion, ServerOK
  <2>2. ServerOK' /\ \A y \in Item : Kept(y)
    BY <1>2, <2>1, ServerSame DEF Load, Classify, Requeue, serverVars
  <2>3. TableOK'
    <3>1. job' = job
      BY <1>2 DEF Load, Classify, Requeue
    <3>2. CASE Load(a)
      <4>1. row' = [row EXCEPT ![a] = [row[a] EXCEPT !.state = "running", !.ledger = TRUE]]
        BY <3>2 DEF Load, TableOK
      <4> QED BY <4>1, <3>1, <1>1, <2>2, RowFacts, TableStep DEF TableOK
    <3>3. CASE Classify(a)
      <4>1. row' = [row EXCEPT ![a] = MarkedSkipped(row[a], "re_uploaded")]
        BY <3>3 DEF Classify
      <4> QED BY <4>1, <3>1, <1>1, <2>2, RowFacts, TableStep DEF TableOK
    <3>4. CASE Requeue(a)
      <4>1. row' = [row EXCEPT ![a] = Requeued(row[a])]
        BY <3>4 DEF Requeue
      <4> QED BY <4>1, <3>1, <1>1, <2>2, RowFacts, TableStep DEF TableOK
    <3> QED BY <1>2, <3>2, <3>3, <3>4
  <2> QED
    BY <1>2, <2>1, <2>2, <2>3, MirrorsSame, LedgerShrinks, RequestsSame
    DEF Load, Classify, Requeue, ledgerVars, LedgerOK
<1>3. CASE DeletePermanently(a)
  <2>1. ServerOK' /\ Gone(a)' /\ \A y \in Item : Kept(y)
    BY <1>3, DeleteStep DEF DeletePermanently
  <2>2. TableOK'
    BY <1>3, <2>1 DEF DeletePermanently, TableOK, RowsAreKept, Kept
  <2> QED
    BY <1>3, <2>1, <2>2, MirrorsSame, LedgerShrinks, RequestsSame
    DEF DeletePermanently, ledgerVars, LedgerOK
<1>4. CASE FreeOriginalChecksum(a)
  <2>1. ServerOK' /\ \A y \in Item : Kept(y)
    BY <1>4, ServerSame DEF FreeOriginalChecksum, serverVars, ServerOK
  <2>2. TableOK'
    <3>1. a \in Original => Gone(a)'
      BY <1>4, <2>1 DEF FreeOriginalChecksum, TableOK, Kept
    <3>2. \A e \in Original : Gone(e)' \/ job'[e] = job[e]
      BY <1>4, <3>1 DEF FreeOriginalChecksum, TableOK
    <3>3. job' \in [Asset -> {"none", "free", "touch"}]
      BY <1>4 DEF FreeOriginalChecksum, TableOK
    <3> QED
      BY <1>4, <1>1, <2>1, <3>1, <3>2, <3>3, RowFacts, TableStep DEF FreeOriginalChecksum
  <2> QED
    BY <1>4, <2>1, <2>2, MirrorsSame, LedgerShrinks, RequestsSame
    DEF FreeOriginalChecksum, ledgerVars, LedgerOK
<1>5. CASE TouchReplacement(a)
  <2>1. used' \subseteq Occasion /\ used \subseteq used'
    BY <1>5, SpendFacts DEF TouchReplacement, Occasion, ServerOK
  <2>2. ServerOK' /\ \A y \in Item : Kept(y)
    BY <1>5, <2>1, ServerSame DEF TouchReplacement, Touch, serverVars
  <2>3. TableOK'
    BY <1>5, <2>2 DEF TouchReplacement, TableOK, RowsAreKept, Kept
  <2> QED
    BY <1>5, <2>1, <2>2, <2>3, MirrorsSame, LedgerShrinks, RequestsSame
    DEF TouchReplacement, ledgerVars, LedgerOK
<1> QED BY <1>2, <1>3, <1>4, <1>5

-----------------------------------------------------------------------------
\* The ledger.

\* The caller of maps() goes on with the maps it is given.
LEMMA ReturnsStep ==
    ASSUME RequestsOK, NEW r \in Request, NEW m \in Maps, NEW due \in SUBSET Replacing,
           stream[r].pc \in {"call", "build"},
           \A a \in Original : Gone(a) \/ a \notin m.armed,
           Returns(r, m, due), UNCHANGED server
    PROVE  RequestsOK' /\ owed' \subseteq due
<1> DEFINE s  == [stream[r] EXCEPT !.read = {}]
           on == CASE s.at = "check"  -> Idle
                   [] s.at = "stream" -> [s EXCEPT !.pc = "deletes", !.maps = m]
                   [] s.at \in {"route", "settle"} /\ due # {} ->
                          [s EXCEPT !.pc = "touch", !.touches = due]
                   [] s.at = "route"  /\ due = {} -> [s EXCEPT !.pc = "send"]
                   [] s.at = "settle" /\ due = {} -> Idle
<1>1. stream' = [stream EXCEPT ![r] = on] /\ owed' = IF s.at \in {"route", "settle"} THEN {} ELSE due
  BY DEF Returns
<1>2. LocalOK(stream[r]) /\ stream[r] \in Local
  BY LocalFacts
<1>3. LocalOK(s) /\ s.at \in {"check", "stream", "route", "settle"}
  BY <1>2 DEF LocalOK, Local
<1> HIDE DEF s
<1>4. LocalOK([s EXCEPT !.pc = "touch", !.touches = due])
  BY <1>3 DEF LocalOK, Local
<1>5. s.at = "route" => LocalOK([s EXCEPT !.pc = "send"])
  BY <1>3 DEF LocalOK, Local
<1>6. s.at = "stream" => LocalOK([s EXCEPT !.pc = "deletes", !.maps = m])
  BY <1>3 DEF LocalOK, Local
<1>7. LocalOK(on)
  BY <1>3, <1>4, <1>5, <1>6, IdleOK
<1> HIDE DEF on
<1> QED BY <1>1, <1>7, RequestStep

\* A rebuild of the maps, and the calls that need none.
LEMMA LedgerParts ==
    ASSUME Parts,
           \/ \E r \in Request : MapsCached(r) \/ MapsRead(r) \/ MapsBuild(r) \/ MapsFail(r)
           \/ Expire
    PROVE  Parts'
<1> USE DEF Parts
<1> SUFFICES ASSUME TRUE PROVE TableOK' /\ ServerOK' /\ MirrorsOK' /\ LedgerOK' /\ RequestsOK'
  OBVIOUS
<1>1. used' \subseteq Occasion /\ used \subseteq used'
      /\ (\A r \in Request : MapsFail(r) => "read_fails" \in used')
  BY SpendFacts DEF MapsCached, MapsRead, MapsBuild, MapsFail, Expire, Occasion, ServerOK
<1>2. ServerOK' /\ \A y \in Item : Kept(y)
  BY <1>1, ServerSame DEF MapsCached, MapsRead, MapsBuild, MapsFail, Expire, serverVars
<1>3. TableOK' /\ MirrorsOK'
  BY <1>2, TableSame, MirrorsSame DEF MapsCached, MapsRead, MapsBuild, MapsFail, Expire
<1>4. server' = server
  BY DEF MapsCached, MapsRead, MapsBuild, MapsFail, Expire, serverVars
<1>5. owed \in SUBSET Replacing /\ maps \in Maps
  BY DEF LedgerOK
<1>6. ASSUME NEW r \in Request, MapsCached(r) PROVE Parts'
  <2>1. RequestsOK' /\ owed' \subseteq owed
    BY <1>6, <1>4, <1>5, ReturnsStep DEF MapsCached, LedgerOK
  <2>2. LedgerOK'
    BY <1>6, <1>1, <1>2, <2>1, LedgerShrinks DEF MapsCached, LedgerOK
  <2> QED BY <1>2, <1>3, <2>1, <2>2
<1>7. ASSUME NEW r \in Request, MapsRead(r) PROVE Parts'
  <2>1. LocalOK([stream[r] EXCEPT !.pc = "build", !.read = Returned])
    <3>1. Returned \in SUBSET Asset
      BY DEF Returned
    <3> QED BY <3>1, LocalFacts DEF LocalOK, Local
  <2>2. stream' = [stream EXCEPT ![r] = [stream[r] EXCEPT !.pc = "build", !.read = Returned]]
    BY <1>7 DEF MapsRead
  <2>3. RequestsOK'
    BY <1>4, <2>1, <2>2, RequestStep
  <2>4. LedgerOK'
    BY <1>7, <1>1, <1>2, LedgerShrinks DEF MapsRead, LedgerOK
  <2> QED BY <1>2, <1>3, <2>3, <2>4
<1>8. ASSUME NEW r \in Request, MapsBuild(r) PROVE Parts'
  <2> DEFINE m == Build(Entries, stream[r].read \cup observed)
             h == {ReplacedBy[a] : a \in m.blocked}
  <2>1. stream[r].read \cup observed \in SUBSET Asset
    BY LocalFacts DEF Local, LedgerOK
  <2>2. /\ m \in Maps
        /\ \A a \in m.armed : row[a].freed
        /\ \A a \in m.armed, c \in stream[r].read \cup observed : Content[a] # Content[c]
    BY <2>1, BuildFacts DEF TableOK
  <2>3. maps' = m /\ fresh' = TRUE /\ held' = h /\ Returns(r, m, Due(h)) /\ observed' = observed
    BY <1>8 DEF MapsBuild
  <2> HIDE DEF m
  <2>4. h \subseteq Replacing /\ Due(h) \subseteq h
    BY <2>2 DEF Maps, Due
  <2>5. \A a \in Original : Gone(a) \/ a \notin m.armed
    BY <2>2 DEF TableOK
  <2>6. RequestsOK' /\ owed' \subseteq Due(h)
    BY <1>8, <1>4, <2>2, <2>3, <2>4, <2>5, ReturnsStep DEF MapsBuild
  <2>7. FreshMapsRespect'
    BY <2>2, <2>3 DEF FreshMapsRespect
  <2>8. LedgerOK'
    BY <1>2, <2>2, <2>3, <2>4, <2>5, <2>6, <2>7 DEF LedgerOK, Kept, Maps
  <2> QED BY <1>2, <1>3, <2>6, <2>8
<1>9. ASSUME NEW r \in Request, MapsFail(r) PROVE Parts'
  <2>1. RequestsOK' /\ owed' \subseteq owed
    BY <1>9, <1>4, <1>5, ReturnsStep DEF MapsFail, LedgerOK
  <2>2. FreshMapsRespect'
    BY <1>1, <1>9 DEF FreshMapsRespect
  <2>3. LedgerOK'
    BY <1>9, <1>2, <2>1, <2>2 DEF MapsFail, LedgerOK, Kept
  <2> QED BY <1>2, <1>3, <2>1, <2>3
<1>10. CASE Expire
  <2>1. LedgerOK'
    BY <1>10, <1>1, <1>2, LedgerShrinks DEF Expire, LedgerOK
  <2>2. RequestsOK'
    BY <1>10, <1>2, RequestsSame DEF Expire
  <2> QED BY <1>2, <1>3, <2>1, <2>2
<1> QED BY <1>6, <1>7, <1>8, <1>9, <1>10

-----------------------------------------------------------------------------
\* The requests.

\* A request goes on, and nothing else happens but what Immich has sent or has
\* to send again.
LEMMA QuietStep ==
    ASSUME Parts, UNCHANGED <<row, job, server, mirror, ledgerVars>>,
           used' \subseteq Occasion, used \subseteq used',
           dels' \in [Device -> SUBSET Item],
           \A d \in Device : \A x \in dels'[d] : Gone(x),
           RequestsOK'
    PROVE  Parts'
<1> USE DEF Parts
<1>1. ServerOK' /\ \A y \in Item : Kept(y)
  BY DEF ServerOK, Gone, Kept
<1>2. TableOK' /\ MirrorsOK'
  BY <1>1, TableSame, MirrorsSame
<1>3. LedgerOK'
  BY <1>1, LedgerShrinks DEF ledgerVars, LedgerOK
<1> QED BY <1>1, <1>2, <1>3

\* The same, for one request that goes on to l and a server that sends nothing.
LEMMA QuietLocalStep ==
    ASSUME Parts, UNCHANGED <<row, job, server, dels, mirror, ledgerVars>>,
           used' \subseteq Occasion, used \subseteq used',
           NEW r \in Request, NEW l, LocalOK(l), stream' = [stream EXCEPT ![r] = l]
    PROVE  Parts'
<1>1. RequestsOK'
  BY RequestStep DEF Parts
<1> QED BY <1>1, QuietStep DEF Parts, ServerOK

\* What is left of a response once it is over.
LEMMA ToSettleOK ==
    ASSUME NEW l, LocalOK(l)
    PROVE  LocalOK(ToSettle(l))
<1>1. l \in Local /\ l.maps \in Maps
  BY DEF LocalOK, Local
<1>2. [NoMaps EXCEPT !.blocked = l.maps.blocked] \in Maps
      /\ [NoMaps EXCEPT !.blocked = l.maps.blocked].armed = {}
  BY <1>1 DEF Maps, NoMaps
<1> DEFINE m == [NoMaps EXCEPT !.blocked = l.maps.blocked]
<1> HIDE DEF m
<1>3. ToSettle(l) = [l EXCEPT !.pc = "settle", !.at = "settle", !.read = {}, !.dels = {},
                              !.maps = m]
  BY DEF ToSettle, m
<1>4. m \in Maps /\ m.armed = {}
  BY <1>2 DEF m
<1> DEFINE t == [l EXCEPT !.pc = "settle", !.at = "settle", !.read = {}, !.dels = {},
                          !.maps = m]
<1>5. t \in Local
  BY <1>1, <1>4 DEF Local
<1>6. /\ t.dels = {} /\ t.opens = l.opens /\ t.releases = l.releases /\ t.maps = m
      /\ t.pc = "settle" /\ t.at = "settle"
  BY <1>1 DEF Local
<1> HIDE DEF t
<1>7. LocalOK(t)
  BY <1>4, <1>5, <1>6 DEF LocalOK
<1> QED BY <1>3, <1>7 DEF t

\* A sighting is noted.
LEMMA SeenOK ==
    ASSUME NEW l, LocalOK(l), NEW seen \in SUBSET Asset
    PROVE  LocalOK([l EXCEPT !.seen = seen])
BY DEF LocalOK, Local

\* What is given back to the server are deletes that took place.
LEMMA GivenBackStep ==
    ASSUME Parts, NEW r \in Request, GivenBack(r)
    PROVE  /\ dels' \in [Device -> SUBSET Item]
           /\ \A d \in Device : \A x \in dels'[d] : Gone(x)
<1>1. LocalOK(stream[r]) /\ stream[r] \in Local
  BY LocalFacts DEF Parts
<1> QED BY <1>1 DEF GivenBack, Parts, ServerOK, LocalOK, Local

\* A request arrives or is forwarded, and its response begins, or it fails.
LEMMA ForwardParts ==
    ASSUME Parts, NEW r \in Request,
           \/ \E d \in Device : SyncStream(r, d)
           \/ BulkUploadCheck(r) \/ Send(r) \/ Unreachable(r) \/ BeginUpserts(r)
    PROVE  Parts'
<1>1. LocalOK(stream[r]) /\ stream[r] \in Local
  BY LocalFacts DEF Parts
<1>2. ServerOK /\ used \subseteq Occasion
  BY DEF Parts, ServerOK
<1>3. ASSUME NEW d \in Device, SyncStream(r, d) PROVE Parts'
  <2>1. LocalOK([Idle EXCEPT !.pc = "call", !.at = "route", !.dev = d])
    BY DEF LocalOK, Local, Idle, Maps, NoMaps
  <2> QED BY <1>2, <1>3, <2>1, QuietLocalStep DEF SyncStream, serverVars
<1>4. CASE BulkUploadCheck(r)
  <2>1. LocalOK([Idle EXCEPT !.pc = "call"])
    BY DEF LocalOK, Local, Idle, Maps, NoMaps
  <2> QED BY <1>2, <1>4, <2>1, QuietLocalStep DEF BulkUploadCheck, serverVars
<1>5. CASE Send(r)
  <2> DEFINE e == stream[r].dev
             l == [stream[r] EXCEPT !.pc = "call", !.at = "stream", !.dels = dels[e]]
  <2>1. e \in Device
    BY <1>1, <1>5 DEF Send, LocalOK
  <2>2. LocalOK(l)
    BY <1>1, <1>2, <2>1 DEF LocalOK, Local, ServerOK
  <2>3. stream' = [stream EXCEPT ![r] = l] /\ dels' = [dels EXCEPT ![e] = {}]
        /\ UNCHANGED <<row, job, server, mirror, ledgerVars, used>>
    BY <1>5 DEF Send
  <2> HIDE DEF l
  <2>4. RequestsOK'
    BY <2>2, <2>3, RequestStep DEF Parts
  <2>5. dels' \in [Device -> SUBSET Item] /\ \A f \in Device : \A x \in dels'[f] : Gone(x)
    BY <1>2, <2>3 DEF ServerOK
  <2> QED BY <1>2, <2>3, <2>4, <2>5, QuietStep
<1>6. CASE Unreachable(r)
  <2>1. used' \subseteq Occasion /\ used \subseteq used'
    BY <1>2, <1>6, SpendFacts DEF Unreachable, Occasion
  <2> QED BY <1>6, <2>1, IdleOK, QuietLocalStep DEF Unreachable, serverVars
<1>7. CASE BeginUpserts(r)
  <2>1. LocalOK([stream[r] EXCEPT !.pc = "upserts"])
    BY <1>1, <1>7 DEF LocalOK, Local, BeginUpserts
  <2>2. stream' = [stream EXCEPT ![r] = [stream[r] EXCEPT !.pc = "upserts"]]
    BY <1>7 DEF BeginUpserts
  <2> QED BY <1>2, <1>7, <2>1, <2>2, QuietLocalStep DEF BeginUpserts
<1> QED BY <1>3, <1>4, <1>5, <1>6, <1>7

\* The device applies a delete: gates it opens are those of assets that are gone.
LEMMA DeleteLineParts ==
    ASSUME Parts, NEW r \in Request, NEW x \in Item, DeleteLine(r, x)
    PROVE  Parts'
<1> DEFINE s == stream[r]
           opens == s.opens \cup ({x} \cap s.maps.closed)
           releases == s.releases \cup ({x} \cap s.maps.claims)
           l == [s EXCEPT !.dels = s.dels \ {x}, !.opens = opens, !.releases = releases]
<1>1. LocalOK(s) /\ s \in Local /\ s.maps \in Maps
  BY LocalFacts DEF Parts
<1>2. Gone(x) /\ opens \in SUBSET Original /\ releases \in SUBSET Asset
  BY <1>1 DEF DeleteLine, LocalOK, Local, Maps
<1>3. \A y \in opens \cup releases : Gone(y)
  BY <1>1, <1>2 DEF LocalOK
<1>4. stream' = [stream EXCEPT ![r] = l]
  BY DEF DeleteLine
<1> HIDE DEF opens, releases
<1>5. LocalOK(l)
  BY <1>1, <1>2, <1>3 DEF LocalOK, Local
<1> HIDE DEF l
<1>6. server' = server /\ dels' = dels /\ used' = used /\ UNCHANGED <<row, job, ledgerVars>>
  BY DEF DeleteLine, serverVars
<1>7. RequestsOK'
  BY <1>4, <1>5, <1>6, RequestStep DEF Parts
<1>8. ServerOK' /\ \A y \in Item : Kept(y)
  BY <1>6, ServerSame DEF Parts, ServerOK
<1>9. MirrorsOK'
  <2>1. mirror' = [mirror EXCEPT ![s.dev] = [mirror[s.dev] EXCEPT ![x] = None]]
    BY DEF DeleteLine, Parts, MirrorsOK
  <2>2. \A a \in Original : Content[a] # None
    BY StoreAssumption
  <2> QED BY <2>1, <2>2, <1>8 DEF Parts, MirrorsOK, Kept
<1>10. TableOK' /\ LedgerOK'
  BY <1>6, <1>8, TableSame, LedgerShrinks DEF Parts, ledgerVars, LedgerOK
<1> QED BY <1>7, <1>8, <1>9, <1>10 DEF Parts

\* The device applies an upsert: what it writes is no translation before its time.
LEMMA UpsertLineParts ==
    ASSUME Parts, NEW r \in Request, NEW x \in Item, UpsertLine(r, x)
    PROVE  Parts'
<1> DEFINE s == stream[r]
           k == Rewritten(s, x)
           seen == s.seen \cup {y \in {x} : IsClaim(s, y)}
<1>1. LocalOK(s) /\ s \in Local /\ s.maps \in Maps
  BY LocalFacts DEF Parts
<1>2. seen \in SUBSET Asset
  BY <1>1 DEF IsClaim, Local
<1>3. stream' = [stream EXCEPT ![r] = [s EXCEPT !.seen = seen]]
  BY DEF UpsertLine
<1>4. LocalOK([s EXCEPT !.seen = seen])
  BY <1>1, <1>2, SeenOK
<1>5. server' = server /\ dels' = dels /\ used' = used /\ UNCHANGED <<row, job, ledgerVars>>
  BY DEF UpsertLine
<1>6. RequestsOK'
  BY <1>3, <1>4, <1>5, RequestStep DEF Parts
<1>7. ServerOK' /\ \A y \in Item : Kept(y)
  BY <1>5, ServerSame DEF Parts, ServerOK
<1>8. MirrorsOK'
  <2> DEFINE column == [y \in Item |-> IF y = x THEN k
                                       ELSE IF y \in Holders(s.dev, x, k) THEN None
                                       ELSE mirror[s.dev][y]]
  <2>1. mirror' = [mirror EXCEPT ![s.dev] = column]
    BY DEF UpsertLine, Parts, MirrorsOK
  <2>2. k \in Checksum
    BY <1>1, RewrittenFacts
  <2>3. ASSUME NEW a \in Original, ~Gone(a) PROVE x = ReplacedBy[a] => k # Content[a]
    BY <1>1, <2>3, RewrittenFacts DEF LocalOK
  <2> HIDE DEF k
  <2>4. s.dev \in Device => column \in [Item -> Checksum \cup {None}]
    BY <2>2 DEF Parts, MirrorsOK
  <2>5. ASSUME NEW a \in Original, ~Gone(a), s.dev \in Device
        PROVE  column[ReplacedBy[a]] # Content[a]
    BY <2>3, <2>5, StoreAssumption, ReplacementFacts DEF Parts, MirrorsOK
  <2> HIDE DEF column
  <2> QED BY <2>1, <2>4, <2>5, <1>5 DEF Parts, MirrorsOK, Gone
<1>9. TableOK' /\ LedgerOK'
  BY <1>5, <1>7, TableSame, LedgerShrinks DEF Parts, ledgerVars, LedgerOK
<1> QED BY <1>6, <1>7, <1>8, <1>9 DEF Parts

\* The response ends, one way or another.
LEMMA EndParts ==
    ASSUME Parts, NEW r \in Request,
           (\E x \in Item : BatchFails(r, x)) \/ EndOfStream(r) \/ Drop(r)
    PROVE  Parts'
<1>1. LocalOK(stream[r]) /\ stream[r] \in Local
  BY LocalFacts DEF Parts
<1>2. ServerOK
  BY DEF Parts
<1>3. ASSUME NEW x \in Item, BatchFails(r, x) PROVE Parts'
  <2> DEFINE seen == stream[r].seen \cup {y \in {x} : IsClaim(stream[r], y)}
             l == [stream[r] EXCEPT !.seen = seen]
  <2>1. LocalOK(l)
    <3>1. seen \in SUBSET Asset
      BY <1>1 DEF IsClaim, Local
    <3> QED BY <3>1, <1>1, SeenOK
  <2>2. stream' = [stream EXCEPT ![r] = ToSettle(l)]
    BY <1>3 DEF BatchFails
  <2> HIDE DEF l
  <2>3. RequestsOK'
    BY <1>3, <2>1, <2>2, ToSettleOK, RequestStep DEF Parts, BatchFails
  <2> QED BY <1>2, <1>3, <2>3, GivenBackStep, QuietStep DEF BatchFails, ServerOK
<1>4. CASE EndOfStream(r)
  BY <1>1, <1>2, <1>4, ToSettleOK, QuietLocalStep DEF EndOfStream, serverVars, ServerOK
<1>5. CASE Drop(r)
  <2>1. used' \subseteq Occasion /\ used \subseteq used'
    BY <1>2, <1>5, SpendFacts DEF Drop, Occasion
  <2>2. RequestsOK'
    BY <1>1, <1>5, ToSettleOK, RequestStep DEF Parts, Drop
  <2> QED BY <1>2, <1>5, <2>1, <2>2, GivenBackStep, QuietStep DEF Drop
<1> QED BY <1>3, <1>4, <1>5

\* The response settles what it has neither to remember nor to record.
LEMMA SettleParts ==
    ASSUME Parts, NEW r \in Request,
           \/ Settled(r) \/ CutShort(r)
           \/ \E n \in Replacing : TouchHeld(r, n) \/ TouchFails(r, n)
    PROVE  Parts'
<1> DEFINE s == stream[r]
<1>1. LocalOK(s) /\ s \in Local
  BY LocalFacts DEF Parts
<1>2. used' \subseteq Occasion /\ used \subseteq used'
  BY SpendFacts DEF Settled, TouchHeld, TouchFails, CutShort, Parts, ServerOK, Occasion
<1>3. CASE Settled(r)
  <2>1. LocalOK([s EXCEPT !.pc = "call", !.maps = NoMaps])
    BY <1>1 DEF LocalOK, Local, Maps, NoMaps
  <2>2. stream' = [stream EXCEPT ![r] = [s EXCEPT !.pc = "call", !.maps = NoMaps]]
    BY <1>3 DEF Settled
  <2> QED BY <1>2, <1>3, <2>1, <2>2, QuietLocalStep DEF Settled, serverVars
<1>4. ASSUME NEW n \in Replacing, TouchHeld(r, n) \/ TouchFails(r, n) PROVE Parts'
  <2>1. LocalOK([s EXCEPT !.touches = s.touches \ {n}])
    BY <1>1 DEF LocalOK, Local
  <2>2. s.at = "route" => LocalOK([s EXCEPT !.pc = "send", !.touches = {}])
    BY <1>1 DEF LocalOK, Local
  <2>3. LocalOK(Touched(s, n))
    BY <2>1, <2>2, IdleOK DEF Touched
  <2>4. stream' = [stream EXCEPT ![r] = Touched(s, n)]
    BY <1>4 DEF TouchHeld, TouchFails
  <2> QED
    BY <1>2, <1>4, <2>3, <2>4, QuietLocalStep DEF TouchHeld, TouchFails, Touch, serverVars
<1>5. CASE CutShort(r)
  BY <1>2, <1>5, IdleOK, QuietLocalStep DEF CutShort, serverVars
<1> QED BY <1>3, <1>4, <1>5

\* ChecksumLedger.observe: a sighting that is new drops the cached maps.
LEMMA ObserveParts ==
    ASSUME Parts, NEW r \in Request, Observe(r)
    PROVE  Parts'
<1>1. LocalOK(stream[r]) /\ stream[r] \in Local
  BY LocalFacts DEF Parts
<1>2. ServerOK' /\ \A y \in Item : Kept(y)
  BY ServerSame DEF Observe, serverVars, Parts, ServerOK
<1>3. TableOK' /\ MirrorsOK'
  BY <1>2, TableSame, MirrorsSame DEF Observe, Parts
<1>4. LedgerOK'
  <2>1. stream[r].seen \in SUBSET Asset
    BY <1>1 DEF Local
  <2>2. fresh' => fresh /\ observed' = observed
    BY DEF Observe
  <2> QED BY <1>2, <2>1, <2>2, LedgerShrinks DEF Observe, Parts, LedgerOK
<1>5. RequestsOK'
  <2>1. LocalOK([stream[r] EXCEPT !.seen = {}])
    BY <1>1, SeenOK
  <2>2. stream' = [stream EXCEPT ![r] = [stream[r] EXCEPT !.seen = {}]]
    BY DEF Observe
  <2> QED BY <2>1, <2>2, RequestStep DEF Parts, Observe, serverVars
<1> QED BY <1>2, <1>3, <1>4, <1>5 DEF Parts

\* One round of _open_gates: the gate is that of an asset that is gone.
LEMMA OpenGateParts ==
    ASSUME Parts, NEW r \in Request, NEW a \in Asset, OpenGate(r, a)
    PROVE  Parts'
<1> DEFINE s == stream[r]
           touches == IF row[a].freed THEN {} ELSE {row[a].new}
           l == [s EXCEPT !.opens = s.opens \ {a}, !.touches = touches]
<1>1. LocalOK(s) /\ s \in Local
  BY LocalFacts DEF Parts
<1>2. a \in Original /\ Gone(a)
  BY <1>1 DEF OpenGate, LocalOK, Local
<1>3. row[a] \in Row /\ row[a].new = ReplacedBy[a]
  BY DEF Parts, TableOK, RowsAreKept
<1>4. ServerOK' /\ \A y \in Item : Kept(y)
  BY ServerSame DEF OpenGate, serverVars, Parts, ServerOK
<1>5. TableOK'
  BY <1>2, <1>3, <1>4, RowFacts, TableStep DEF OpenGate, Parts, TableOK, Kept
<1>6. MirrorsOK'
  BY <1>4, MirrorsSame DEF OpenGate, Parts
<1>7. LedgerOK'
  <2>1. row[a].freed \in BOOLEAN
    BY <1>3 DEF Row
  <2> QED BY <1>4, <2>1, LedgerShrinks DEF OpenGate, Parts, LedgerOK
<1>8. RequestsOK'
  <2>1. touches \in SUBSET Replacing
    BY <1>2, <1>3, ReplacementFacts
  <2>2. stream' = [stream EXCEPT ![r] = l]
    BY DEF OpenGate
  <2> HIDE DEF touches
  <2>3. LocalOK(l)
    BY <1>1, <2>1 DEF LocalOK, Local
  <2> HIDE DEF l
  <2> QED BY <2>2, <2>3, RequestStep DEF Parts, OpenGate, serverVars
<1> QED BY <1>4, <1>5, <1>6, <1>7, <1>8 DEF Parts

\* One round of _release_claims: the copy is gone.
LEMMA ReleaseParts ==
    ASSUME Parts, NEW r \in Request, NEW c \in Asset, Release(r, c)
    PROVE  Parts'
<1> DEFINE s == stream[r]
           known == Unfreed(c) \/ c \in observed
           touches ==
               IF known
               THEN {ReplacedBy[a] : a \in {e \in s.maps.blocked : Content[e] = Content[c]}}
               ELSE {}
           l == [s EXCEPT !.releases = s.releases \ {c}, !.touches = touches]
<1>1. LocalOK(s) /\ s \in Local /\ s.maps \in Maps
  BY LocalFacts DEF Parts
<1>2. Gone(c)
  BY <1>1 DEF Release, LocalOK
<1>3. row[c] \in Row /\ row[c].new = ReplacedBy[c]
  BY DEF Parts, TableOK, RowsAreKept
<1>4. ServerOK' /\ \A y \in Item : Kept(y)
  BY ServerSame DEF Release, serverVars, Parts, ServerOK
<1>5. TableOK'
  <2>1. CASE Unfreed(c)
    <3>1. row' = [row EXCEPT ![c] = MarkedFreed(row[c])] /\ job' = job
      BY <2>1 DEF Release
    <3> QED
      BY <3>1, <1>2, <1>3, <1>4, RowFacts, TableStep DEF Parts, TableOK, Kept
  <2>2. CASE ~Unfreed(c)
    <3>1. row' = row /\ job' = job
      BY <2>2 DEF Release
    <3> QED BY <3>1, <1>4, TableSame DEF Parts
  <2> QED BY <2>1, <2>2
<1>6. MirrorsOK'
  BY <1>4, MirrorsSame DEF Release, Parts
<1>7. LedgerOK'
  <2>1. fresh' \in BOOLEAN /\ (fresh' => fresh) /\ observed' \subseteq observed
        /\ UNCHANGED <<maps, held, owed, used>>
    BY DEF Release, Parts, LedgerOK
  <2> QED BY <1>4, <2>1, LedgerShrinks DEF Parts, LedgerOK
<1>8. RequestsOK'
  <2>1. touches \in SUBSET Replacing
    BY <1>1 DEF Maps
  <2>2. stream' = [stream EXCEPT ![r] = l]
    BY DEF Release
  <2> HIDE DEF touches
  <2>3. LocalOK(l)
    BY <1>1, <2>1 DEF LocalOK, Local
  <2> HIDE DEF l
  <2> QED BY <2>2, <2>3, RequestStep DEF Parts, Release, serverVars
<1> QED BY <1>4, <1>5, <1>6, <1>7, <1>8 DEF Parts

\* A restart forgets what was not recorded, and Immich sends again what a device
\* has not acknowledged.
LEMMA RestartParts ==
    ASSUME Parts, Restart
    PROVE  Parts'
<1>1. used' \subseteq Occasion /\ used \subseteq used' /\ server' = server
  BY SpendFacts DEF Restart, Parts, Occasion
<1>2. ServerOK' /\ \A y \in Item : Kept(y)
  <2> DEFINE to(d) == {r \in Request : stream[r].dev = d /\ stream[r].at = "stream"}
  <2>1. dels' = [d \in Device |-> dels[d] \cup UNION {stream[r].dels : r \in to(d)}]
    BY DEF Restart
  <2>2. \A r \in Request : stream[r].dels \in SUBSET Item /\ \A x \in stream[r].dels : Gone(x)
    BY LocalFacts DEF Parts, LocalOK, Local
  <2> QED BY <1>1, <2>1, <2>2 DEF Parts, ServerOK, Gone, Kept
<1>3. TableOK'
  BY <1>2 DEF Restart, Parts, TableOK, RowsAreKept, Kept
<1>4. MirrorsOK'
  BY <1>2, MirrorsSame DEF Restart, Parts
<1>5. LedgerOK'
  BY DEF Restart, LedgerOK, FreshMapsRespect, Maps, NoMaps
<1>6. RequestsOK'
  <2>1. LocalOK(Idle)'
    BY DEF LocalOK, Local, Idle, Maps, NoMaps
  <2> QED BY <2>1 DEF Restart, RequestsOK, LocalOK
<1> QED BY <1>2, <1>3, <1>4, <1>5, <1>6 DEF Parts

\* If nothing happens, nothing changes.
LEMMA StutterParts == Parts /\ UNCHANGED vars => Parts'
<1> SUFFICES ASSUME Parts, UNCHANGED vars PROVE Parts'
  OBVIOUS
<1>1. used' \subseteq Occasion /\ used \subseteq used'
  BY DEF Parts, ServerOK, vars
<1>2. ServerOK' /\ \A y \in Item : Kept(y)
  BY <1>1, ServerSame DEF Parts, vars, serverVars
<1> QED
  BY <1>1, <1>2, TableSame, MirrorsSame, LedgerShrinks, RequestsSame
  DEF Parts, vars, serverVars, ledgerVars, LedgerOK

\* ShimInv is inductive.
LEMMA ShimStep == ShimInv /\ [Next]_vars => ShimInv'
<1> SUFFICES ASSUME Parts, [Next]_vars PROVE Parts'
  <2>1. ShimInv' <=> Parts'
    BY Regrouped, PTL
  <2> QED BY <2>1, Regrouped
<1>1. ASSUME NEW x \in Item, Purge(x) \/ Edit(x) PROVE Parts'
  BY <1>1, ServerParts
<1>2. ASSUME NEW a \in Asset, Arrive(a) PROVE Parts'
  BY <1>2, ServerParts
<1>3. ASSUME NEW a \in Asset, Requeue(a) \/ DeletePermanently(a) PROVE Parts'
  BY <1>3, PipelineParts
<1>4. CASE Pipeline
  BY <1>4, PipelineParts DEF Pipeline
<1>5. CASE Expire \/ Restart
  BY <1>5, LedgerParts, RestartParts
<1>6. ASSUME NEW r \in Request, (\E d \in Device : SyncStream(r, d)) \/ BulkUploadCheck(r)
      PROVE  Parts'
  BY <1>6, ForwardParts
<1>7. ASSUME NEW r \in Request, Serve(r) PROVE Parts'
  <2>1. CASE MapsCached(r) \/ MapsRead(r) \/ MapsBuild(r)
    BY <2>1, LedgerParts
  <2>2. CASE Send(r) \/ BeginUpserts(r)
    BY <2>2, ForwardParts
  <2>3. ASSUME NEW x \in Item, DeleteLine(r, x) \/ UpsertLine(r, x) \/ BatchFails(r, x)
        PROVE  Parts'
    BY <2>3, DeleteLineParts, UpsertLineParts, EndParts
  <2>4. CASE EndOfStream(r)
    BY <2>4, EndParts
  <2>5. CASE Observe(r) \/ Settled(r)
    BY <2>5, ObserveParts, SettleParts
  <2>6. ASSUME NEW a \in Asset, OpenGate(r, a) \/ Release(r, a) PROVE Parts'
    BY <2>6, OpenGateParts, ReleaseParts
  <2>7. ASSUME NEW n \in Replacing, TouchHeld(r, n) PROVE Parts'
    BY <2>7, SettleParts
  <2> QED BY <1>7, <2>1, <2>2, <2>3, <2>4, <2>5, <2>6, <2>7 DEF Serve
<1>8. ASSUME NEW r \in Request, Misfortune(r) PROVE Parts'
  BY <1>8, LedgerParts, ForwardParts, EndParts, SettleParts DEF Misfortune
<1>9. CASE UNCHANGED vars
  BY <1>9, StutterParts
<1> QED BY <1>1, <1>2, <1>3, <1>4, <1>5, <1>6, <1>7, <1>8, <1>9 DEF Next

-----------------------------------------------------------------------------
\* Whatever the requests, failures and restarts, every gate that is thought open
\* is that of an original that is gone, and fresh maps respect every sighting.
THEOREM ShimInductive == Spec => []ShimInv
BY InitShim, ShimStep, PTL DEF Spec

\* No device ever mirrors a replacement under the checksum of an original that
\* still exists, and no response is about to make it do so.
THEOREM TranslatedAfterPurge == Spec => []TranslatedOnlyAfterPurge
<1>1. ShimInv => TranslatedOnlyAfterPurge
  BY DEF ShimInv
<1> QED BY <1>1, ShimInductive, PTL

\* A request's step leaves the others where they are.
LEMMA OneRequest ==
    ASSUME stream \in [Request -> Local], NEW q \in Request, NEW r \in Request \ {q},
           (\E d \in Device : SyncStream(q, d)) \/ BulkUploadCheck(q) \/ Serve(q) \/ Misfortune(q)
    PROVE  stream'[r] = stream[r]
<1>1. CASE (\E d \in Device : SyncStream(q, d)) \/ BulkUploadCheck(q)
  BY <1>1 DEF SyncStream, BulkUploadCheck
<1>2. CASE MapsCached(q) \/ MapsRead(q) \/ MapsBuild(q) \/ MapsFail(q)
  BY <1>2 DEF MapsCached, MapsRead, MapsBuild, MapsFail, Returns
<1>3. CASE Send(q) \/ BeginUpserts(q) \/ EndOfStream(q) \/ Unreachable(q) \/ Drop(q)
  BY <1>3 DEF Send, BeginUpserts, EndOfStream, Unreachable, Drop
<1>4. ASSUME NEW x \in Item, DeleteLine(q, x) \/ UpsertLine(q, x) \/ BatchFails(q, x)
      PROVE  stream'[r] = stream[r]
  BY <1>4 DEF DeleteLine, UpsertLine, BatchFails
<1>5. CASE Observe(q) \/ Settled(q) \/ CutShort(q)
  BY <1>5 DEF Observe, Settled, CutShort
<1>6. ASSUME NEW a \in Asset, OpenGate(q, a) \/ Release(q, a)
      PROVE  stream'[r] = stream[r]
  BY <1>6 DEF OpenGate, Release
<1>7. ASSUME NEW n \in Replacing, TouchHeld(q, n) \/ TouchFails(q, n)
      PROVE  stream'[r] = stream[r]
  BY <1>7 DEF TouchHeld, TouchFails
<1> QED BY <1>1, <1>2, <1>3, <1>4, <1>5, <1>6, <1>7 DEF Serve, Misfortune

\* A response is bound to maps by a call of maps() that returns, and by nothing else.
LEMMA BoundByMaps ==
    ASSUME Parts, Next, NEW r \in Request, Binds(r)
    PROVE  MapsCached(r) \/ MapsBuild(r) \/ MapsFail(r)
<1> USE DEF Binds
<1>1. stream \in [Request -> Local] /\ stream[r] \in Local
  BY DEF Parts, RequestsOK
<1>2. stream'[r] # stream[r] /\ stream' # stream
  BY <1>1
<1>3. ~ (\E x \in Item : Purge(x) \/ Edit(x))
  BY <1>2 DEF Purge, Edit
<1>4. ~ (\E a \in Asset : Arrive(a) \/ Requeue(a) \/ DeletePermanently(a))
  BY <1>2 DEF Arrive, Requeue, DeletePermanently
<1>5. ~ Pipeline
  BY <1>2 DEF Pipeline, Load, Classify, FreeOriginalChecksum, TouchReplacement
<1>6. ~ Expire /\ ~ Restart
  BY <1>2 DEF Expire, Restart, Idle
<1>7. (\E d \in Device : SyncStream(r, d)) \/ BulkUploadCheck(r) \/ Serve(r) \/ Misfortune(r)
  BY <1>1, <1>2, <1>3, <1>4, <1>5, <1>6, OneRequest DEF Next
<1>8. ~ ((\E d \in Device : SyncStream(r, d)) \/ BulkUploadCheck(r))
  BY DEF SyncStream, BulkUploadCheck
<1>9. ~ (Send(r) \/ BeginUpserts(r) \/ EndOfStream(r) \/ Unreachable(r))
  BY DEF Send, BeginUpserts, EndOfStream, Unreachable
<1>10. ~ (\E x \in Item : DeleteLine(r, x) \/ UpsertLine(r, x) \/ BatchFails(r, x))
  BY DEF DeleteLine, UpsertLine, BatchFails
<1>11. ~ (Observe(r) \/ Settled(r) \/ CutShort(r))
  BY DEF Observe, Settled, CutShort
<1>12. ~ (\E a \in Asset : OpenGate(r, a) \/ Release(r, a))
  BY DEF OpenGate, Release
<1>13. ~ (\E n \in Replacing : TouchHeld(r, n) \/ TouchFails(r, n))
  BY DEF TouchHeld, TouchFails
<1>14. ~ MapsRead(r)
  BY <1>1 DEF MapsRead, Local
<1>15. ~ Drop(r)
  <2>1. ASSUME NEW l \in Local PROVE ToSettle(l).pc = "settle"
    BY <2>1 DEF ToSettle, Local
  <2> QED BY <1>1, <2>1 DEF Drop
<1> QED
  BY <1>7, <1>8, <1>9, <1>10, <1>11, <1>12, <1>13, <1>14, <1>15 DEF Serve, Misfortune

\* The maps that a step binds to a response disarm what has been sighted.
LEMMA BindStep ==
    ASSUME ShimInv, Next, NEW r \in Request, Binds(r), "read_fails" \notin used'
    PROVE  \A a \in stream'[r].maps.armed, c \in observed' : Content[a] # Content[c]
<1>1. Parts /\ stream \in [Request -> Local] /\ stream[r].at = "stream"
  BY Regrouped DEF Parts, RequestsOK, Binds
<1>2. ASSUME NEW m, NEW due, Returns(r, m, due) PROVE stream'[r].maps = m
  BY <1>1, <1>2 DEF Returns, Local
<1>3. CASE MapsCached(r)
  BY <1>1, <1>2, <1>3 DEF MapsCached, Parts, LedgerOK, FreshMapsRespect
<1>4. CASE MapsBuild(r)
  <2> DEFINE m == Build(Entries, stream[r].read \cup observed)
  <2>1. stream'[r].maps = m /\ observed' = observed
    BY <1>2, <1>4 DEF MapsBuild
  <2>2. stream[r].read \cup observed \in SUBSET Asset
    BY <1>1 DEF Local, Parts, LedgerOK
  <2>3. \A a \in m.armed, c \in stream[r].read \cup observed : Content[a] # Content[c]
    BY <1>1, <2>2, BuildFacts DEF Parts, TableOK
  <2> QED BY <2>1, <2>3
<1>5. ~ MapsFail(r)
  BY <1>1, SpendFacts DEF MapsFail, Occasion, Parts
<1> QED BY <1>1, <1>3, <1>4, <1>5, BoundByMaps

\* No response is bound to maps that arm what had been sighted when they were
\* handed out, whichever rebuild was then on its way.
THEOREM SightingsRespected == Spec => SightingsAreRespected
<1>1. ShimInv /\ [Next]_vars =>
          [\A r \in Request :
              Binds(r) /\ "read_fails" \notin used'
                  => \A a \in stream'[r].maps.armed, c \in observed' :
                         Content[a] # Content[c]]_vars
  BY BindStep
<1> QED BY <1>1, ShimInductive, PTL DEF Spec, SightingsAreRespected
-----------------------------------------------------------------------------
\* The queues of upserts.

QueuesOK ==
    /\ news \in [Device -> Seq(Item)]
    /\ lines \in [Request -> Seq(Item)]

\* A queue without an item, or with one more, is a queue.
LEMMA QueueFacts ==
    ASSUME NEW S, NEW s \in Seq(S), NEW x \in S, NEW T
    PROVE  Only(s, T) \in Seq(S) /\ Append(Only(s, T), x) \in Seq(S)
BY OnlyType

\* What the steps of the server do to the queues.
LEMMA ServerQueues ==
    ASSUME QueuesOK, NEW x,
           \/ x \in Item /\ Updated(x) /\ UNCHANGED lines
           \/ x \in Item /\ Delete(x)
           \/ Touch(x)
    PROVE  QueuesOK'
<1>1. CASE x \in Item /\ Updated(x) /\ UNCHANGED lines
  <2>1. \A d \in Device : Append(Without(news[d], x), x) \in Seq(Item)
    BY <1>1, QueueFacts DEF QueuesOK, Without
  <2> HIDE DEF Item
  <2> QED BY <1>1, <2>1 DEF QueuesOK, Updated
<1>2. CASE x \in Item /\ Delete(x)
  <2>1. \A d \in Device : Without(news[d], x) \in Seq(Item)
    BY <1>2, QueueFacts DEF QueuesOK, Without
  <2> HIDE DEF Item
  <2> QED BY <1>2, <2>1 DEF QueuesOK, Delete
<1>3. CASE Touch(x) /\ x \notin Here
  BY <1>3 DEF QueuesOK, Touch
<1>4. CASE Touch(x) /\ x \in Here
  BY <1>1, <1>4 DEF Touch, Here
<1> QED BY <1>1, <1>2, <1>3, <1>4

\* What is sent again is in front of what is due anyway.
LEMMA UnsentType ==
    ASSUME QueuesOK, NEW r \in Request
    PROVE  Unsent(r) \in Seq(Item)
BY OnlyType DEF QueuesOK, Unsent

LEMMA GivenBackQueues ==
    ASSUME QueuesOK, NEW r \in Request, stream[r].dev \in Device, GivenBack(r)
    PROVE  QueuesOK'
<1>1. Unsent(r) \o news[stream[r].dev] \in Seq(Item)
  BY UnsentType, ConcatProperties DEF QueuesOK
<1>2. news' = [news EXCEPT ![stream[r].dev] = Unsent(r) \o news[stream[r].dev]]
      /\ lines' = [lines EXCEPT ![r] = <<>>]
  BY DEF GivenBack, QueuesOK
<1> HIDE DEF Item
<1> QED BY <1>1, <1>2 DEF QueuesOK

\* A restart gives back what every response still held.
LEMMA RestartQueues ==
    ASSUME QueuesOK, Restart
    PROVE  QueuesOK'
<1> DEFINE to(d) == {r \in Request : stream[r].dev = d /\ stream[r].at = "stream"}
           back(d) == IF to(d) = {} THEN news[d]
                      ELSE Unsent(CHOOSE r \in to(d) : TRUE) \o news[d]
<1>1. ASSUME NEW d \in Device PROVE back(d) \in Seq(Item)
  <2>1. CASE to(d) = {}
    BY <2>1 DEF QueuesOK
  <2>2. CASE to(d) # {}
    <3>1. (CHOOSE r \in to(d) : TRUE) \in Request
      BY <2>2
    <3> QED BY <2>2, <3>1, UnsentType, ConcatProperties DEF QueuesOK
  <2> QED BY <2>1, <2>2
<1>2. news' = [d \in Device |-> back(d)] /\ lines' = [r \in Request |-> <<>>]
  BY DEF Restart
<1> HIDE DEF back, Item
<1> QED BY <1>1, <1>2 DEF QueuesOK

\* The steps of a request.
LEMMA RequestQueues ==
    ASSUME Parts, QueuesOK, NEW r \in Request, Serve(r) \/ Misfortune(r)
    PROVE  QueuesOK'
<1>1. stream[r].at \in {"route", "stream"} => stream[r].dev \in Device
  BY LocalFacts DEF Parts, LocalOK
<1>2. stream[r].pc \in {"deletes", "upserts"} => stream[r].dev \in Device
  BY <1>1, LocalFacts DEF Parts, LocalOK
<1>3. CASE MapsCached(r) \/ MapsRead(r) \/ MapsBuild(r) \/ MapsFail(r)
  BY <1>3 DEF MapsCached, MapsRead, MapsBuild, MapsFail, serverVars, QueuesOK
<1>4. CASE Send(r) \/ EndOfStream(r) \/ Unreachable(r) \/ Observe(r) \/ Settled(r) \/ CutShort(r)
  BY <1>4 DEF Send, EndOfStream, Unreachable, Observe, Settled, CutShort, serverVars, QueuesOK
<1>5. CASE BeginUpserts(r)
  BY <1>2, <1>5 DEF BeginUpserts, QueuesOK
<1>6. ASSUME NEW x \in Item, DeleteLine(r, x) PROVE QueuesOK'
  BY <1>6 DEF DeleteLine, serverVars, QueuesOK
<1>7. ASSUME NEW x \in Item, UpsertLine(r, x) PROVE QueuesOK'
  <2>1. lines[r] \in Seq(Item) /\ lines[r] # <<>>
    BY <1>7 DEF UpsertLine, IsNext, QueuesOK
  <2>2. lines' = [lines EXCEPT ![r] = Tail(lines[r])] /\ news' = news
    BY <1>7 DEF UpsertLine, QueuesOK
  <2> QED BY <2>1, <2>2 DEF QueuesOK
<1>8. ASSUME NEW x \in Item, BatchFails(r, x) PROVE QueuesOK'
  BY <1>2, <1>8, GivenBackQueues DEF BatchFails
<1>9. CASE Drop(r)
  BY <1>1, <1>9, GivenBackQueues DEF Drop
<1>10. ASSUME NEW a \in Asset, OpenGate(r, a) \/ Release(r, a) PROVE QueuesOK'
  BY <1>10 DEF OpenGate, Release, serverVars, QueuesOK
<1>11. ASSUME NEW n \in Replacing, TouchHeld(r, n) PROVE QueuesOK'
  BY <1>11, ServerQueues DEF TouchHeld
<1>12. ASSUME NEW n \in Replacing, TouchFails(r, n) PROVE QueuesOK'
  BY <1>12 DEF TouchFails, serverVars, QueuesOK
<1> QED
  BY <1>3, <1>4, <1>5, <1>6, <1>7, <1>8, <1>9, <1>10, <1>11, <1>12 DEF Serve, Misfortune

\* The queues keep their type.
LEMMA QueuesStep == ShimInv /\ QueuesOK /\ [Next]_vars => QueuesOK'
<1> SUFFICES ASSUME Parts, QueuesOK, [Next]_vars PROVE QueuesOK'
  BY Regrouped
<1>1. ASSUME NEW x \in Item, Purge(x) \/ Edit(x) PROVE QueuesOK'
  BY <1>1, ServerQueues DEF Purge, Edit
<1>2. ASSUME NEW a \in Asset, Arrive(a) PROVE QueuesOK'
  BY <1>2, ServerQueues DEF Arrive
<1>3. ASSUME NEW a \in Asset, DeletePermanently(a) PROVE QueuesOK'
  BY <1>3, ServerQueues DEF DeletePermanently
<1>4. ASSUME NEW a \in Asset, Requeue(a) \/ Load(a) \/ Classify(a) \/ FreeOriginalChecksum(a)
      PROVE  QueuesOK'
  BY <1>4 DEF Requeue, Load, Classify, FreeOriginalChecksum, serverVars, QueuesOK
<1>5. ASSUME NEW a \in Asset, TouchReplacement(a) PROVE QueuesOK'
  BY <1>5, ServerQueues DEF TouchReplacement, serverVars, QueuesOK
<1>6. CASE Expire
  BY <1>6 DEF Expire, serverVars, QueuesOK
<1>7. CASE Restart
  BY <1>7, RestartQueues
<1>8. ASSUME NEW r \in Request, (\E d \in Device : SyncStream(r, d)) \/ BulkUploadCheck(r)
      PROVE  QueuesOK'
  BY <1>8 DEF SyncStream, BulkUploadCheck, serverVars, QueuesOK
<1>9. ASSUME NEW r \in Request, Serve(r) \/ Misfortune(r) PROVE QueuesOK'
  BY <1>9, RequestQueues
<1>10. CASE UNCHANGED vars
  BY <1>10 DEF vars, serverVars, QueuesOK
<1> QED
  BY <1>1, <1>2, <1>3, <1>4, <1>5, <1>6, <1>7, <1>8, <1>9, <1>10 DEF Next, Pipeline

\* Every variable of the translation keeps its type, the queues of upserts
\* included, and what is owed a re-offer is held back.
THEOREM ShimTypes == Spec => []TypeOK
<1>1. Init => QueuesOK
  <2>1. Init => news = [d \in Device |-> <<>>] /\ lines = [r \in Request |-> <<>>]
    BY DEF Init
  <2>2. <<>> \in Seq(Item)
    OBVIOUS
  <2> HIDE DEF Item
  <2> QED BY <2>1, <2>2 DEF QueuesOK
<1>2. ShimInv /\ QueuesOK => TypeOK
  BY DEF ShimInv, QueuesOK, TypeOK
<1> QED BY <1>1, <1>2, ShimInductive, QueuesStep, PTL DEF Spec
=============================================================================
