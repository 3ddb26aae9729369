---------------------------- MODULE MCChecksumShim ----------------------------
(***************************************************************************)
(* Instances of ChecksumShim for TLC: o has been replaced by n, and any    *)
(* other asset is a copy of o that comes back.                             *)
(***************************************************************************)
EXTENDS ChecksumShimProps

CONSTANTS o, n

MCReplacedBy == [a \in Asset |-> IF a = o THEN n ELSE None]
MCContent == [a \in Asset |-> "c"]
MCEncodedFrom == [b \in Bytes |-> "c"]
=============================================================================
