--------------------------- MODULE ChecksumShimProps ---------------------------
(***************************************************************************)
(* What the checksum translation is to guarantee.  The invariants and the  *)
(* action property are properties of Spec, the others of FairSpec.         *)
(***************************************************************************)
EXTENDS ChecksumShim

\* The types of everything but the two queues of upserts, which nothing that is
\* proved below depends on.
Typed ==
    /\ row \in [Asset -> Row]
    /\ job \in [Asset -> {"none", "free", "touch"}]
    /\ server \in [Item -> Presence]
    /\ dels \in [Device -> SUBSET Item]
    /\ mirror \in [Device -> [Item -> Checksum \cup {None}]]
    /\ maps \in Maps
    /\ fresh \in BOOLEAN
    /\ observed \subseteq Asset
    /\ held \subseteq Replacing
    /\ owed \subseteq held
    /\ stream \in [Request -> Local]
    /\ used \subseteq Occasion

\* Every variable keeps its type, and what is owed a re-offer is held back.
TypeOK ==
    /\ Typed
    /\ news \in [Device -> Seq(Item)]
    /\ lines \in [Request -> Seq(Item)]

(***************************************************************************)
(* The gate of LedgerEntry: no line offers a replacement under its         *)
(* original's checksum, and no device mirrors it so, as long as the        *)
(* original exists, be it in the trash, whatever the requests, restarts    *)
(* and failures in between.                                                *)
(***************************************************************************)
TranslatedOnlyAfterPurge ==
    \A a \in Original :
        \/ server[a] = "gone"
        \/ /\ \A d \in Device : mirror[d][ReplacedBy[a]] # Content[a]
           /\ \A r \in Request : Rewritten(stream[r], ReplacedBy[a]) # Content[a]

\* r gets the maps it will translate its response with.
Binds(r) ==
    /\ stream[r].at = "stream"
    /\ stream[r].pc \in {"call", "build"}
    /\ stream'[r].pc = "deletes"

(***************************************************************************)
(* ChecksumLedger.observe: "the maps the next request is served from have  *)
(* to have stopped arming that checksum before the first line goes out",   *)
(* also if a rebuild was on its way when the claim was seen.  The previous *)
(* maps are deliberately kept if the store cannot be read.                 *)
(***************************************************************************)
SightingsAreRespected ==
    [][\A r \in Request :
          Binds(r) /\ "read_fails" \notin used'
              => \A a \in stream'[r].maps.armed, c \in observed' :
                     Content[a] # Content[c]]_vars

-----------------------------------------------------------------------------
\* The inductive invariant behind the two properties above.

Gone(x) == server[x] = "gone"

\* Replacements are never re-assigned, and copies have none.
RowsAreKept == \A a \in Asset : row[a].new = ReplacedBy[a]

\* Whoever has heard of a delete has heard of one that took place.
DeletesAreTrue ==
    /\ \A d \in Device : \A x \in dels[d] : Gone(x)
    /\ \A r \in Request :
           \A x \in stream[r].dels \cup stream[r].opens \cup stream[r].releases : Gone(x)

\* So a gate that is open, or thought open, is that of an original that is gone.
GatesAreTrue ==
    \A a \in Original :
        \/ Gone(a)
        \/ /\ ~row[a].freed
           /\ job[a] = "none"
           /\ a \notin maps.armed
           /\ \A r \in Request : a \notin stream[r].maps.armed

\* A request that streams knows its device.
StreamsAreAddressed ==
    \A r \in Request :
        /\ stream[r].at \in {"route", "stream"} => stream[r].dev \in Device
        /\ stream[r].pc = "send" => stream[r].at = "route"
        /\ stream[r].pc \in {"deletes", "upserts"} => stream[r].at = "stream"

\* Recent maps arm nothing that a sighting says is taken.
FreshMapsRespect ==
    fresh /\ "read_fails" \notin used =>
        \A a \in maps.armed, c \in observed : Content[a] # Content[c]

ShimInv ==
    /\ Typed
    /\ RowsAreKept
    /\ DeletesAreTrue
    /\ GatesAreTrue
    /\ StreamsAreAddressed
    /\ FreshMapsRespect
    /\ TranslatedOnlyAfterPurge

-----------------------------------------------------------------------------
(***************************************************************************)
(* _reoffer_held_back: an asset whose row a device has lost, to the line   *)
(* of a copy or otherwise, gets it back while it is on the server.         *)
(***************************************************************************)
RowComesBack ==
    \A d \in Device, x \in Item :
        (x \in Here /\ mirror[d][x] = None) ~> (x \notin Here \/ mirror[d][x] # None)

\* d has acknowledged everything there is.
Synced(d) ==
    /\ dels[d] = {}
    /\ news[d] = <<>>
    /\ \A r \in Request :
           stream[r].dev = d => stream[r].dels = {} /\ lines[r] = <<>>

\* No device's sync is stuck for ever behind a batch that its mirror refuses.
SyncProgresses == \A d \in Device : []<>Synced(d)

(***************************************************************************)
(* _open_gates: once a gate is open, its one touch delivers the            *)
(* translation to every device, unless the replacement is deleted or a     *)
(* copy of the original turns up.                                          *)
(***************************************************************************)
GateDelivers ==
    \A d \in Device, a \in Original :
        row[a].freed
          ~> (\/ ReplacedBy[a] \notin Here
              \/ \E c \in Copy : Content[c] = Content[a] /\ server[c] # "absent"
              \/ mirror[d][ReplacedBy[a]] = Content[a])
=============================================================================
