----------------------------- MODULE ChecksumShim -----------------------------
(***************************************************************************)
(* The checksum translation of shim.py, between the jobs table, the sync   *)
(* stream of the Immich server and the mirrors of the user's devices.      *)
(*                                                                         *)
(* A replacement is mirrored under its original's checksum once the        *)
(* original is gone for good (its gate is open) and no other asset is      *)
(* known to hold that checksum.  A copy of the original that came back is  *)
(* known from the jobs table when the pipeline has classified it, and from *)
(* the sync stream itself before that.                                     *)
(*                                                                         *)
(* A step is what a task does between two awaits.  All assets of the       *)
(* instance have one owner, whose devices sync through the service; a line *)
(* is applied and acknowledged in one step, a batch being one line.        *)
(* log_only is off, rewrite_sync_stream and watch_deletes are on.          *)
(***************************************************************************)
EXTENDS JobStore, Filter, FiniteSets

CONSTANTS
    Device,      \* the devices of the owner
    Request,     \* requests the service may be handling at a time
    ReplacedBy,  \* ReplacedBy[a]: the replacement of a, None if a is a copy
    Permanent,   \* whether delete_mode has ever been permanent
    Allowed,     \* the occasions of an instance, each of which arises once at most
    Limit        \* how many of them in one behaviour: both bound the model only

\* What happens an unbounded number of times in reality.
Occasion == {"cut", "drop", "edit", "read_fails", "requeue", "restart", "touch_fails"}

Original    == {a \in Asset : ReplacedBy[a] # None}
Copy        == Asset \ Original
Replacing   == {ReplacedBy[a] : a \in Original}
Item        == Asset \cup Replacing

ASSUME ShimAssumption ==
    /\ ReplacedBy \in [Asset -> NewAsset \cup {None}]
    /\ \A a, e \in Original : ReplacedBy[a] = ReplacedBy[e] => a = e
    /\ Asset \cap NewAsset = {}
    /\ {Content[a] : a \in Asset} \cap (NewAsset \cup {None}) = {}
    /\ Permanent \in BOOLEAN
    /\ Allowed \subseteq Occasion
    /\ Limit \in Nat

VARIABLES
    row,       \* the jobs table
    job,       \* what the pipeline is doing about an asset
    server,    \* where each asset is on the server
    dels,      \* deletes a device has not acknowledged
    news,      \* upserts it has not acknowledged, in the order of their updates
    lines,     \* what is left of the upserts each response consists of
    mirror,    \* the checksum each device holds of each asset
    maps,      \* ChecksumLedger._maps
    fresh,     \* whether _loaded_at is set and recent
    observed,  \* _observed: copies seen on a stream
    held,      \* _held: replacements held back by the last rebuild
    owed,      \* _reoffer: those of them still to be touched
    stream,    \* local state of every request
    used       \* bound: the occasions that have arisen

serverVars == <<server, dels, news, lines>>
ledgerVars == <<maps, fresh, observed, held, owed>>
vars == <<row, job, serverVars, mirror, ledgerVars, stream, used>>

-----------------------------------------------------------------------------
\* A replacement's own checksum is written as its id: it is no one else's.
Checksum == {Content[a] : a \in Asset} \cup Replacing
Sum(x)   == IF x \in Asset THEN Content[x] ELSE x

\* closed: delete_watch; armed: the originals in sync_rewrite; blocked: the
\* originals in the values of claim_watch; claims: its keys.
Maps == [closed : SUBSET Original, armed : SUBSET Original,
         blocked : SUBSET Original, claims : SUBSET Asset]

NoMaps == [closed |-> {}, armed |-> {}, blocked |-> {}, claims |-> {}]

(***************************************************************************)
(* at: the call of maps() a request is in or last came back from, and so   *)
(* what it does next.  opens, releases, seen: gate_opens, claims_released  *)
(* and observed of _stream_sync; touches: replacements to be touched.      *)
(***************************************************************************)
Local == [pc       : {"idle", "call", "build", "touch", "send", "deletes",
                      "upserts", "settle"},
          at       : {"route", "stream", "settle", "check"},
          dev      : Device \cup {None},
          read     : SUBSET Asset,
          maps     : Maps,
          dels     : SUBSET Item,
          seen     : SUBSET Asset,
          opens    : SUBSET Original,
          releases : SUBSET Asset,
          touches  : SUBSET Replacing]

Idle == [pc |-> "idle", at |-> "check", dev |-> None, read |-> {},
         maps |-> NoMaps, dels |-> {}, seen |-> {}, opens |-> {},
         releases |-> {}, touches |-> {}]

Presence == {"absent", "here", "gone"}

Here == {x \in Item : server[x] = "here"}

Spend(o) ==
    /\ o \in Allowed \ used
    /\ Cardinality(used) < Limit
    /\ used' = used \cup {o}

\* Every original is replaced and still on the server, and every device has seen
\* that.  The state of an original's row is not followed: nothing here reads it.
Init ==
    /\ row = [a \in Asset |->
                 IF a \in Original
                 THEN [NoRow EXCEPT !.state = "done", !.ledger = TRUE,
                                    !.new = ReplacedBy[a]]
                 ELSE NoRow]
    /\ job = [a \in Asset |-> "none"]
    /\ server = [x \in Item |-> IF x \in Copy THEN "absent" ELSE "here"]
    /\ dels = [d \in Device |-> {}]
    /\ news = [d \in Device |-> <<>>]
    /\ lines = [r \in Request |-> <<>>]
    /\ mirror = [d \in Device |-> [x \in Item |->
                                      IF x \in Copy THEN None ELSE Sum(x)]]
    /\ maps = NoMaps
    /\ fresh = FALSE
    /\ observed = {} /\ held = {} /\ owed = {}
    /\ stream = [r \in Request |-> Idle]
    /\ used = {}

-----------------------------------------------------------------------------
\* The server.

Without(s, x) == Only(s, Item \ {x})

\* x gets a new updateId: every device is due its line again, after the others.
Updated(x) == news' = [d \in Device |-> Append(Without(news[d], x), x)]

Delete(x) ==
    /\ server' = [server EXCEPT ![x] = "gone"]
    /\ dels' = [d \in Device |-> dels[d] \cup {x}]
    /\ news' = [d \in Device |-> Without(news[d], x)]
    /\ UNCHANGED lines

\* touch_asset, which fails for an asset that is not there.
Touch(x) ==
    /\ IF x \in Here THEN Updated(x) ELSE UNCHANGED news
    /\ UNCHANGED <<server, dels, lines>>

\* The trash's retention ends, or a user deletes an asset for good.
Purge(x) ==
    /\ x \in Here
    /\ Delete(x)
    /\ UNCHANGED <<row, job, mirror, ledgerVars, stream, used>>

\* Anything else about an asset changes.
Edit(x) ==
    /\ Spend("edit")
    /\ x \in Here
    /\ Updated(x)
    /\ UNCHANGED <<row, job, server, dels, lines, mirror, ledgerVars, stream>>

\* A device that kept the file uploads it again; the webhook enqueues it.
\* The server holds one asset per checksum and owner.
Arrive(c) ==
    /\ c \in Copy /\ server[c] = "absent"
    /\ \A a \in Asset : Content[a] = Content[c] => a \notin Here
    /\ server' = [server EXCEPT ![c] = "here"]
    /\ Updated(c)
    /\ row' = [row EXCEPT ![c] = Enqueued("ok")]
    /\ UNCHANGED <<job, dels, lines, mirror, ledgerVars, stream, used>>

-----------------------------------------------------------------------------
\* The pipeline, as far as it concerns the shim.

\* Step 2: load the asset and write the ledger columns.
Load(c) ==
    /\ c \in Copy \cap Here
    /\ row[c].state = "queued"
    /\ row' = [row EXCEPT ![c].state = "running", ![c].ledger = TRUE]
    /\ UNCHANGED <<job, serverVars, mirror, ledgerVars, stream, used>>

\* _check_re_upload.
Classify(c) ==
    /\ row[c].state = "running"
    /\ ReplacedOriginal(row, c)
    /\ row' = [row EXCEPT ![c] = MarkedSkipped(row[c], "re_uploaded")]
    /\ UNCHANGED <<job, serverVars, mirror, ledgerVars, stream, used>>

\* The operator has a classified copy processed again.
Requeue(c) ==
    /\ Spend("requeue")
    /\ row[c].state = "skipped"
    /\ row' = [row EXCEPT ![c] = Requeued(row[c])]
    /\ UNCHANGED <<job, serverVars, mirror, ledgerVars, stream>>

\* Mutant: the original is taken to be gone before it is.
DeletePermanentlyLater(a) ==
    /\ Permanent
    /\ a \in Original \cap Here
    /\ job' = [job EXCEPT ![a] = "free"]
    /\ UNCHANGED <<row, serverVars, mirror, ledgerVars, stream, used>>

\* finalize_original with delete_mode permanent.
DeletePermanently(a) ==
    /\ Permanent
    /\ a \in Original \cap Here
    /\ Delete(a)
    /\ job' = [job EXCEPT ![a] = "free"]
    /\ UNCHANGED <<row, mirror, ledgerVars, stream, used>>

\* _free_original_checksum, before its touch.
FreeOriginalChecksum(a) ==
    /\ job[a] = "free"
    /\ job' = [job EXCEPT ![a] = IF row[a].freed THEN "none" ELSE "touch"]
    /\ row' = [row EXCEPT ![a] = MarkedFreed(row[a])]
    /\ UNCHANGED <<serverVars, mirror, ledgerVars, stream, used>>

TouchReplacement(a) ==
    /\ job[a] = "touch"
    /\ job' = [job EXCEPT ![a] = "none"]
    /\ \/ Touch(ReplacedBy[a]) /\ UNCHANGED used
       \/ Spend("touch_fails") /\ UNCHANGED serverVars
    /\ UNCHANGED <<row, mirror, ledgerVars, stream>>

-----------------------------------------------------------------------------
\* ChecksumLedger.

\* Mutant: the copies that are gone instead of those that are there.
ReturnedGone == {c \in Asset : /\ row[c].skip = "re_uploaded"
                               /\ row[c].ledger
                               /\ row[c].freed}

\* returned_originals.
Returned == {c \in Asset : /\ row[c].skip = "re_uploaded"
                           /\ row[c].ledger
                           /\ ~row[c].freed}

\* ledger_entries.
Entries == {a \in Asset : row[a].ledger /\ row[a].new # None}

\* Mutant: the gate is not consulted.
BuildUngated(entries, returned) ==
    LET live == {a \in entries : \E c \in returned : Content[c] = Content[a]}
    IN  [closed  |-> entries,
         armed   |-> entries \ live,
         blocked |-> live,
         claims  |-> returned]

\* TranslationMaps.build.
Build(entries, returned) ==
    LET open == {a \in entries : row[a].freed}
        live == {a \in open : \E c \in returned : Content[c] = Content[a]}
    IN  [closed  |-> entries \ open,
         armed   |-> open \ live,
         blocked |-> live,
         claims  |-> returned]

\* The caller of maps() goes on with m.  _reoffer_held_back takes the due
\* re-offers at once; with none to make it is over.
Returns(r, m, due) ==
    LET s == [stream[r] EXCEPT !.read = {}]
        on == CASE s.at = "check"  -> Idle
                [] s.at = "stream" -> [s EXCEPT !.pc = "deletes", !.maps = m]
                [] s.at \in {"route", "settle"} /\ due # {} ->
                       [s EXCEPT !.pc = "touch", !.touches = due]
                [] s.at = "route"  /\ due = {} -> [s EXCEPT !.pc = "send"]
                [] s.at = "settle" /\ due = {} -> Idle
    IN  /\ stream' = [stream EXCEPT ![r] = on]
        /\ owed' = IF s.at \in {"route", "settle"} THEN {} ELSE due

\* Mutant: what a rebuild finds held back for the first time is not noticed.
DueUnnoticed(h) == owed \cap h

\* Mutant: what has been released meanwhile stays due.
DueReleased(h) == owed \cup (h \ held)

\* Newly held back and still held back.
Due(h) == (owed \cup (h \ held)) \cap h

\* The cached maps are recent enough.
MapsCached(r) ==
    /\ stream[r].pc = "call"
    /\ fresh
    /\ Returns(r, maps, owed)
    /\ UNCHANGED <<row, job, serverVars, mirror, maps, fresh, observed, held, used>>

\* A rebuild begins: read the claims in the store, which replace the sightings.
MapsRead(r) ==
    /\ stream[r].pc = "call"
    /\ ~fresh
    /\ stream' = [stream EXCEPT ![r].pc = "build", ![r].read = Returned]
    /\ observed' = observed \ Returned
    /\ UNCHANGED <<row, job, serverVars, mirror, maps, fresh, held, owed, used>>

\* The second read and what follows it, up to the assignment of _loaded_at.
MapsBuild(r) ==
    LET m == Build(Entries, stream[r].read \cup observed)
        h == {ReplacedBy[a] : a \in m.blocked}
    IN  /\ stream[r].pc = "build"
        /\ maps' = m
        /\ fresh' = TRUE
        /\ held' = h
        /\ Returns(r, m, Due(h))
        /\ UNCHANGED <<row, job, serverVars, mirror, observed, used>>

\* The store cannot be read: the previous maps stay, and count as recent.
MapsFail(r) ==
    /\ Spend("read_fails")
    /\ stream[r].pc = "build"
    /\ fresh' = TRUE
    /\ Returns(r, maps, owed)
    /\ UNCHANGED <<row, job, serverVars, mirror, maps, observed, held>>

\* refresh_seconds have passed.
Expire ==
    /\ fresh
    /\ fresh' = FALSE
    /\ UNCHANGED <<row, job, serverVars, mirror, maps, observed, held, owed,
                   stream, used>>

-----------------------------------------------------------------------------
\* Requests.

\* Whether the device still listens to what the request answers.
Listening(r) ==
    \/ stream[r].pc \in {"send", "deletes", "upserts"}
    \/ stream[r].pc # "idle" /\ stream[r].at \in {"route", "stream"}

\* POST /api/sync/stream, up to _reoffer_held_back.
SyncStream(r, d) ==
    /\ stream[r].pc = "idle"
    /\ \A q \in Request : stream[q].dev = d => ~Listening(q)
    /\ stream' = [stream EXCEPT ![r] = [Idle EXCEPT !.pc = "call", !.at = "route",
                                                    !.dev = d]]
    /\ UNCHANGED <<row, job, serverVars, mirror, ledgerVars, used>>

\* POST /api/assets/bulk-upload-check, which asks for the maps as well.
BulkUploadCheck(r) ==
    /\ stream[r].pc = "idle"
    /\ stream' = [stream EXCEPT ![r] = [Idle EXCEPT !.pc = "call"]]
    /\ UNCHANGED <<row, job, serverVars, mirror, ledgerVars, used>>

\* The request is forwarded; Immich answers with the deletes first.
Send(r) ==
    LET d == stream[r].dev
    IN  /\ stream[r].pc = "send"
        /\ stream' = [stream EXCEPT ![r].pc = "call", ![r].at = "stream",
                                    ![r].dels = dels[d]]
        /\ dels' = [dels EXCEPT ![d] = {}]
        /\ UNCHANGED <<row, job, server, news, lines, mirror, ledgerVars, used>>

\* The upstream cannot be reached: the client gets a 502.
Unreachable(r) ==
    /\ Spend("drop")
    /\ stream[r].pc = "send"
    /\ stream' = [stream EXCEPT ![r] = Idle]
    /\ UNCHANGED <<row, job, serverVars, mirror, ledgerVars>>

-----------------------------------------------------------------------------
\* rewrite_sync_line, and the device that applies the line.

\* The checksums seen in this response to be some other asset's.
TakenSums(s) == {Content[c] : c \in s.seen}

\* claims_observed: x holds what the shim is armed to hand to a replacement.
IsClaim(s, x) == x \in Asset /\ \E a \in s.maps.armed : Content[a] = Content[x]

\* sync_rewrite.
Translations(s, x) ==
    {Content[a] : a \in {e \in s.maps.armed : ReplacedBy[e] = x}} \ TakenSums(s)

Rewritten(s, x) ==
    IF Translations(s, x) = {} THEN Sum(x) ELSE CHOOSE k \in Translations(s, x) : TRUE

DeleteLine(r, x) ==
    LET s == stream[r]
    IN  /\ s.pc = "deletes"
        /\ x \in s.dels
        /\ mirror' = [mirror EXCEPT ![s.dev][x] = None]
        /\ stream' = [stream EXCEPT
               ![r].dels = @ \ {x},
               ![r].opens = @ \cup ({x} \cap s.maps.closed),
               ![r].releases = @ \cup ({x} \cap s.maps.claims)]
        /\ UNCHANGED <<row, job, serverVars, ledgerVars, used>>

\* Immich goes on to the upserts, which it queries only now.
BeginUpserts(r) ==
    LET d == stream[r].dev
    IN  /\ stream[r].pc = "deletes"
        /\ stream[r].dels = {}
        /\ stream' = [stream EXCEPT ![r].pc = "upserts"]
        /\ lines' = [lines EXCEPT ![r] = news[d]]
        /\ news' = [news EXCEPT ![d] = <<>>]
        /\ UNCHANGED <<row, job, server, dels, mirror, ledgerVars, used>>

\* The lines of r that are still true, and not due again anyway.
Unsent(r) ==
    Only(lines[r], Here \ Elements(news[stream[r].dev]))

\* What the device still had to acknowledge is sent again another time.
GivenBack(r) ==
    LET s == stream[r]
    IN  /\ dels' = [dels EXCEPT ![s.dev] = @ \cup s.dels]
        /\ news' = [news EXCEPT ![s.dev] = Unsent(r) \o @]
        /\ lines' = [lines EXCEPT ![r] = <<>>]

\* Of its maps the response still needs what its claims hold back.
ToSettle(s) == [s EXCEPT !.pc = "settle", !.at = "settle", !.read = {}, !.dels = {},
                         !.maps = [NoMaps EXCEPT !.blocked = s.maps.blocked]]

\* The other rows of the mirror that hold the checksum k.
Holders(d, x, k) == {y \in Item \ {x} : mirror[d][y] = k}

IsNext(r, x) == lines[r] # <<>> /\ x = Head(lines[r])

\* A new row replaces the one that holds its checksum.
UpsertLine(r, x) ==
    LET s == stream[r]
        k == Rewritten(s, x)
    IN  /\ s.pc = "upserts"
        /\ IsNext(r, x)
        /\ mirror[s.dev][x] = None \/ Holders(s.dev, x, k) = {}
        /\ mirror' = [mirror EXCEPT ![s.dev] =
               [y \in Item |-> IF y = x THEN k
                               ELSE IF y \in Holders(s.dev, x, k) THEN None
                               ELSE @[y]]]
        /\ lines' = [lines EXCEPT ![r] = Tail(@)]
        /\ stream' = [stream EXCEPT ![r].seen = @ \cup {y \in {x} : IsClaim(s, y)}]
        /\ UNCHANGED <<row, job, server, dels, news, ledgerVars, used>>

\* Updating a row to a checksum another one holds fails the whole batch, and
\* the device hangs up.
BatchFails(r, x) ==
    LET s == stream[r]
    IN  /\ s.pc = "upserts"
        /\ IsNext(r, x)
        /\ mirror[s.dev][x] # None
        /\ Holders(s.dev, x, Rewritten(s, x)) # {}
        /\ stream' = [stream EXCEPT ![r] =
               ToSettle([s EXCEPT !.seen = @ \cup {y \in {x} : IsClaim(s, y)}])]
        /\ GivenBack(r)
        /\ UNCHANGED <<row, job, server, mirror, ledgerVars, used>>

EndOfStream(r) ==
    /\ stream[r].pc = "upserts"
    /\ lines[r] = <<>>
    /\ stream' = [stream EXCEPT ![r] = ToSettle(stream[r])]
    /\ UNCHANGED <<row, job, serverVars, mirror, ledgerVars, used>>

\* The device hangs up, or the upstream ends early.
Drop(r) ==
    /\ Spend("drop")
    /\ stream[r].at = "stream"
    /\ stream' = [stream EXCEPT ![r] = ToSettle(stream[r])]
    /\ GivenBack(r)
    /\ UNCHANGED <<row, job, server, mirror, ledgerVars>>

-----------------------------------------------------------------------------
\* The finally of _stream_sync.

\* Mutant: a new sighting does not force a rebuild.
ObserveKeepsMaps(r) ==
    LET s == stream[r]
    IN  /\ s.pc = "settle"
        /\ s.seen # {}
        /\ observed' = observed \cup s.seen
        /\ fresh' = fresh
        /\ stream' = [stream EXCEPT ![r].seen = {}]
        /\ UNCHANGED <<row, job, serverVars, mirror, maps, held, owed, used>>

\* ChecksumLedger.observe.
Observe(r) ==
    LET s == stream[r]
    IN  /\ s.pc = "settle"
        /\ s.seen # {}
        /\ observed' = observed \cup s.seen
        /\ fresh' = (fresh /\ s.seen \subseteq observed)
        /\ stream' = [stream EXCEPT ![r].seen = {}]
        /\ UNCHANGED <<row, job, serverVars, mirror, maps, held, owed, used>>

\* Mutant: the maps are not invalidated.
OpenGateKeepsMaps(r, a) ==
    LET s == stream[r]
    IN  /\ s.pc = "settle"
        /\ s.seen = {} /\ s.touches = {}
        /\ a \in s.opens
        /\ row' = [row EXCEPT ![a] = MarkedFreed(row[a])]
        /\ fresh' = fresh
        /\ stream' = [stream EXCEPT
               ![r].opens = @ \ {a},
               ![r].touches = IF row[a].freed THEN {} ELSE {row[a].new}]
        /\ UNCHANGED <<job, serverVars, mirror, maps, observed, held, owed, used>>

\* One round of _open_gates, before its touch.
OpenGate(r, a) ==
    LET s == stream[r]
    IN  /\ s.pc = "settle"
        /\ s.seen = {} /\ s.touches = {}
        /\ a \in s.opens
        /\ row' = [row EXCEPT ![a] = MarkedFreed(row[a])]
        /\ fresh' = (fresh /\ row[a].freed)
        /\ stream' = [stream EXCEPT
               ![r].opens = @ \ {a},
               ![r].touches = IF row[a].freed THEN {} ELSE {row[a].new}]
        /\ UNCHANGED <<job, serverVars, mirror, maps, observed, held, owed, used>>

\* mark_original_freed would change the row of c.
Unfreed(c) == HasRow(row[c]) /\ ~row[c].freed

\* One round of _release_claims, before its touches.
Release(r, c) ==
    LET s == stream[r]
        known == Unfreed(c) \/ c \in observed
    IN  /\ s.pc = "settle"
        /\ s.seen = {} /\ s.opens = {} /\ s.touches = {}
        /\ c \in s.releases
        /\ observed' = observed \ {c}
        /\ row' = IF Unfreed(c) THEN [row EXCEPT ![c] = MarkedFreed(row[c])] ELSE row
        /\ fresh' = (fresh /\ ~known)
        /\ stream' = [stream EXCEPT
               ![r].releases = @ \ {c},
               ![r].touches =
                   IF known
                   THEN {ReplacedBy[a] : a \in {e \in s.maps.blocked : Content[e] = Content[c]}}
                   ELSE {}]
        /\ UNCHANGED <<job, serverVars, mirror, maps, held, owed, used>>

\* On to _reoffer_held_back.
Settled(r) ==
    LET s == stream[r]
    IN  /\ s.pc = "settle"
        /\ s.seen = {} /\ s.opens = {} /\ s.releases = {} /\ s.touches = {}
        /\ stream' = [stream EXCEPT ![r].pc = "call", ![r].maps = NoMaps]
        /\ UNCHANGED <<row, job, serverVars, mirror, ledgerVars, used>>

\* The last re-offer ends _reoffer_held_back.
Touched(s, n) ==
    CASE s.pc = "settle" \/ s.touches # {n} -> [s EXCEPT !.touches = @ \ {n}]
      [] s.at = "route" -> [s EXCEPT !.pc = "send", !.touches = {}]
      [] OTHER -> Idle

TouchHeld(r, n) ==
    /\ stream[r].pc \in {"settle", "touch"}
    /\ n \in stream[r].touches
    /\ stream' = [stream EXCEPT ![r] = Touched(@, n)]
    /\ Touch(n)
    /\ UNCHANGED <<row, job, mirror, ledgerVars, used>>

\* A failed touch is logged and not repeated.
TouchFails(r, n) ==
    /\ Spend("touch_fails")
    /\ stream[r].pc \in {"settle", "touch"}
    /\ n \in stream[r].touches
    /\ stream' = [stream EXCEPT ![r] = Touched(@, n)]
    /\ UNCHANGED <<row, job, serverVars, mirror, ledgerVars>>

\* _SETTLE_BUDGET_S is over.
CutShort(r) ==
    /\ Spend("cut")
    /\ stream[r].pc # "idle" /\ stream[r].at = "settle"
    /\ stream' = [stream EXCEPT ![r] = Idle]
    /\ UNCHANGED <<row, job, serverVars, mirror, ledgerVars>>

\* The process dies and starts again.  At most one request streams to a device.
Restart ==
    LET to(d) == {r \in Request : stream[r].dev = d /\ stream[r].at = "stream"}
    IN  /\ Spend("restart")
        /\ stream' = [r \in Request |-> Idle]
        /\ dels' = [d \in Device |-> dels[d] \cup UNION {stream[r].dels : r \in to(d)}]
        /\ news' = [d \in Device |->
               IF to(d) = {} THEN news[d]
               ELSE Unsent(CHOOSE r \in to(d) : TRUE) \o news[d]]
        /\ lines' = [r \in Request |-> <<>>]
        /\ job' = [a \in Asset |-> "none"]
        /\ maps' = NoMaps
        /\ fresh' = FALSE
        /\ observed' = {} /\ held' = {} /\ owed' = {}
        /\ UNCHANGED <<row, server, mirror>>

-----------------------------------------------------------------------------
Pipeline ==
    \E a \in Asset :
        \/ Load(a) \/ Classify(a)
        \/ FreeOriginalChecksum(a) \/ TouchReplacement(a)

Serve(r) ==
    \/ MapsCached(r) \/ MapsRead(r) \/ MapsBuild(r)
    \/ Send(r) \/ BeginUpserts(r) \/ EndOfStream(r)
    \/ \E x \in Item : DeleteLine(r, x) \/ UpsertLine(r, x) \/ BatchFails(r, x)
    \/ Observe(r) \/ Settled(r)
    \/ \E a \in Asset : OpenGate(r, a) \/ Release(r, a)
    \/ \E n \in Replacing : TouchHeld(r, n)

Misfortune(r) ==
    \/ MapsFail(r) \/ Unreachable(r) \/ Drop(r) \/ CutShort(r)
    \/ \E n \in Replacing : TouchFails(r, n)

Next ==
    \/ \E x \in Item : Purge(x) \/ Edit(x)
    \/ \E a \in Asset : Arrive(a) \/ Requeue(a) \/ DeletePermanently(a)
    \/ Pipeline
    \/ Expire
    \/ Restart
    \/ \E r \in Request : \/ \E d \in Device : SyncStream(r, d)
                           \/ BulkUploadCheck(r)
                           \/ Serve(r)
                           \/ Misfortune(r)

Spec == Init /\ [][Next]_vars

\* The tasks of the process run, and every device syncs again and again, however
\* often the requests the model has room for are taken by others.
ServiceRuns ==
    /\ \A r \in Request : WF_vars(Serve(r))
    /\ \A d \in Device : SF_vars(\E r \in Request : SyncStream(r, d))
    /\ WF_vars(Expire)

\* A worker reaches every job.
PipelineRuns ==
    \A a \in Asset : /\ WF_vars(Load(a))
                     /\ WF_vars(Classify(a))
                     /\ WF_vars(FreeOriginalChecksum(a))
                     /\ WF_vars(TouchReplacement(a))

FairSpec == Spec /\ ServiceRuns /\ PipelineRuns
=============================================================================
