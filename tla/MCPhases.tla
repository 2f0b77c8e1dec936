------------------------------ MODULE MCPhases ------------------------------
(***************************************************************************)
(* Phases on two partitions: a first phase of one of them, and a second of *)
(* both.                                                                   *)
(***************************************************************************)
EXTENDS Phases
=============================================================================
