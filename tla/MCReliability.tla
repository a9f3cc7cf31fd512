--------------------------- MODULE MCReliability ---------------------------
(***************************************************************************)
(* Instances of Reliability for TLC.  Units are interchangeable.           *)
(***************************************************************************)
EXTENDS Reliability, TLC

Units == Permutations(Unit)
=============================================================================
