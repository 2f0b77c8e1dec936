------------------------------- MODULE MCDrive ------------------------------
(***************************************************************************)
(* Drive with every kind of plan and policy: three attempts in a row, two  *)
(* commits that move the load on.                                          *)
(***************************************************************************)
EXTENDS Drive
=============================================================================
