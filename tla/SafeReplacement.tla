--------------------------- MODULE SafeReplacement ---------------------------
(***************************************************************************)
(* What immich-compressor promises about an original: it is taken away     *)
(* only for a complete stand-in, only once the removal will be remembered, *)
(* and what it was taken away for is not withdrawn afterwards.             *)
(*                                                                         *)
(* How stand-ins come about, in which order, by how many workers and       *)
(* across which crashes is left to the implementation, JobPipeline.        *)
(***************************************************************************)
CONSTANTS Asset, NewAsset, None

VARIABLES
    standIn,     \* standIn[a]: the complete replacements there are for a
    remembered,  \* the originals that would be recognised if they came back
    by           \* by[a]: the stand-in a was first taken away for

vars == <<standIn, remembered, by>>

Init ==
    /\ standIn = [a \in Asset |-> {}]
    /\ remembered = {}
    /\ by = [a \in Asset |-> None]

\* n becomes a stand-in for every original with the content it encodes.
Complete(n) ==
    /\ standIn' \in [Asset -> SUBSET NewAsset]
    /\ \A a \in Asset : standIn'[a] \in {standIn[a], standIn[a] \cup {n}}
    /\ UNCHANGED <<remembered, by>>

\* A user, or the server, takes n away while nothing rests on it.
Withdraw(n) ==
    /\ \A a \in Asset : by[a] # n
    /\ standIn' = [a \in Asset |-> standIn[a] \ {n}]
    /\ UNCHANGED <<remembered, by>>

Remember(a) ==
    /\ remembered' = remembered \cup {a}
    /\ UNCHANGED <<standIn, by>>

TakeAway(a) ==
    /\ by[a] = None
    /\ a \in remembered
    /\ \E n \in standIn[a] : by' = [by EXCEPT ![a] = n]
    /\ UNCHANGED <<standIn, remembered>>

Next ==
    \/ \E n \in NewAsset : Complete(n) \/ Withdraw(n)
    \/ \E a \in Asset : Remember(a) \/ TakeAway(a)

Spec == Init /\ [][Next]_vars
=============================================================================
