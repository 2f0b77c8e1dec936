-------------------------------- MODULE MCFiles --------------------------------
(***************************************************************************)
(* Instances of Files: two runs of a pipeline, one after another or at     *)
(* once.                                                                   *)
(***************************************************************************)
EXTENDS Files, TLC

CONSTANTS s1, s2

Interchangeable == Permutations(Sessions)
=============================================================================
