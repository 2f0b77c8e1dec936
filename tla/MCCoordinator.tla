----------------------------- MODULE MCCoordinator -----------------------------
(***************************************************************************)
(* Instances of Coordinator: a partition that checkpoints when asked, and  *)
(* one whose cursors take the whole share.                                 *)
(***************************************************************************)
EXTENDS Coordinator, TLC

CONSTANTS asked, free

\* The first partition checkpoints before, at and after its one row; the second
\* only moves, and its cursor leaves no room for another.
MCRowsAt == (asked :> {1}) @@ (free :> {})
MCLast == (asked :> 1) @@ (free :> 0)
MCSize == (asked :> 1) @@ (free :> 4)
=============================================================================
