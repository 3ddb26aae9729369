--------------------------- MODULE MCMaintenance ---------------------------
(***************************************************************************)
(* An instance of Restore, and with it of Backfill, for TLC: a picture,    *)
(* one in the trash, one of another type, two ids the server no longer     *)
(* has, and one that the guards refuse, which may be uploaded.             *)
(***************************************************************************)
EXTENDS Restore, TLC

CONSTANTS live, binned, film, lost1, lost2, refused

MCLibrary == <<live, film, binned>>
MCIds     == <<binned, lost2, lost1, live>>
MCOrder   == <<binned, live, refused, film, lost1, lost2>>
MCRank    == [x \in Asset |-> CHOOSE i \in 1..Len(MCOrder) : MCOrder[i] = x]
MCBudget  == [o \in Occasion |-> 1]

=============================================================================
