------------------------------- MODULE MCBudget -----------------------------
(***************************************************************************)
(* Budget of 64 bytes: pushes take 25 of them, lowering 41 together with   *)
(* pushes and 16 at once, reads 16, answers 4, tables' records 2 and       *)
(* cursors 1.                                                              *)
(***************************************************************************)
EXTENDS Budget

CONSTANTS a, b, c

\* Two pushes, each lowered.
TwoPushes == {a, b} \X {"intake", "work"}

\* A share three requests wait for, another, admitted before it, that two do, and
\* a read beside them.
TwoQueues ==
  ({a, b, c} \X {"tables"}) \cup ({a, b} \X {"cursor"}) \cup {<<a, "read">>}
=============================================================================
