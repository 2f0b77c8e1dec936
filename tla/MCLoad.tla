------------------------------- MODULE MCLoad -------------------------------
(***************************************************************************)
(* Load on small instances: two runs of one partition, so that runs        *)
(* overlap, crash and follow each other.                                   *)
(***************************************************************************)
EXTENDS LoadInv, TLC

\* Runs are interchangeable: nothing tells one from another but what it did.
RunSymmetry == Permutations(Runs)
=============================================================================
