------------------------------ MODULE Delivery ------------------------------
(***************************************************************************)
(* What a pipeline promises whoever reads its tables and its source: rows  *)
(* appear in whole commits, each row once and in its partition's order,    *)
(* positions never move back, and a source is told only of rows that are   *)
(* published. Module Load implements it.                                   *)
(***************************************************************************)
EXTENDS Naturals

CONSTANTS Partitions, Rows

VARIABLES position,  \* committed position of each partition
          table,     \* how often each row is in the destination's tables
          told       \* highest position each partition's source was told of

Init == /\ position = [p \in Partitions |-> 0]
        /\ table = [w \in Partitions \X (1..Rows) |-> 0]
        /\ told = [p \in Partitions |-> 0]

\* A commit lands: in one step positions move on, and exactly the rows between
\* the old and the new are published.
Land ==
  /\ position' \in [Partitions -> 0..Rows]
  /\ \A p \in Partitions : position[p] <= position'[p]
  /\ table' = [w \in Partitions \X (1..Rows) |->
                 IF position[w[1]] < w[2] /\ w[2] <= position'[w[1]]
                 THEN table[w] + 1 ELSE table[w]]
  /\ UNCHANGED told

\* The source is told of rows that are published.
Tell ==
  /\ told' \in [Partitions -> 0..Rows]
  /\ \A p \in Partitions : told[p] <= told'[p] /\ told'[p] <= position[p]
  /\ UNCHANGED <<position, table>>

Next == Land \/ Tell

Spec == Init /\ [][Next]_<<position, table, told>>
=============================================================================
