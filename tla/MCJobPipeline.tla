--------------------------- MODULE MCJobPipeline ---------------------------
(***************************************************************************)
(* Instances of JobPipeline for TLC.  All assets of an instance have the   *)
(* same content "c": a second asset is the first one's original coming     *)
(* back.  b1 and b2 are two encodes of it (an encoder need not be          *)
(* deterministic), bad is an upload damaged on its way.                    *)
(***************************************************************************)
EXTENDS JobPipelineInv, JobPipelineClaims, TLC

CONSTANTS b1, b2, bad

MCContent == [a \in Asset |-> "c"]
MCEncodedFrom == [b \in Bytes |-> IF b = bad THEN None ELSE "c"]

Setting(d, t, i, p) == [dryRun |-> d, trash |-> t, inline |-> i, permanent |-> p]

Keep         == Setting(FALSE, FALSE, FALSE, FALSE)
DryRun       == Setting(TRUE,  FALSE, FALSE, FALSE)
TrashLater   == Setting(FALSE, TRUE,  FALSE, FALSE)
DeleteLater  == Setting(FALSE, TRUE,  FALSE, TRUE)
DeleteNow    == Setting(FALSE, TRUE,  TRUE,  TRUE)

Deleting    == {TrashLater, DeleteNow}
AllModes    == {Keep, DryRun, TrashLater, DeleteNow}
LaterOnly   == {TrashLater}
ForeverOnly == {DeleteLater, DeleteNow}

Times(restart, operator, outside, surge, reclaim) ==
    [o \in Occasion |-> CASE o = "restart"  -> restart
                          [] o = "operator" -> operator
                          [] o = "outside"  -> outside
                          [] o = "surge"    -> surge
                          [] o = "reclaim"  -> reclaim]

OneRestart      == Times(1, 0, 0, 0, 1)
OneReclaim      == Times(0, 0, 0, 0, 1)
RestartSurge    == Times(1, 0, 0, 1, 1)
RestartOperator == Times(1, 1, 0, 0, 1)
ReclaimOutside  == Times(0, 0, 1, 0, 1)
OneOutside      == Times(0, 0, 1, 0, 0)

\* Sound for invariants and for properties of single steps, which treat all ids
\* and all workers alike; the liveness run does without.
ReplacementSymmetry == Permutations(NewAsset)
Symmetry == Permutations(Worker) \cup ReplacementSymmetry
=============================================================================
