------------------------------ MODULE MCIntake ------------------------------
(***************************************************************************)
(* An instance of Intake for TLC: new uploads, one asset that was old when *)
(* the clock starts to matter, one whose payload has no createdAt, and one *)
(* of a type that no lane works on.                                        *)
(***************************************************************************)
EXTENDS Intake, TLC

CONSTANTS u1, u2, u3, u4, undated, foreign

MCCreated == [a \in Asset |-> CASE a = undated -> None
                                [] a = u4 -> 1
                                [] OTHER -> 0]

UploadSymmetry == Permutations({u1, u2, u3}) \cup Permutations(Request)

=============================================================================
