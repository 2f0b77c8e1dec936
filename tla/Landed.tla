------------------------------- MODULE Landed -------------------------------
(***************************************************************************)
(* How a destination answers a commit by its fence row: the epoch of the   *)
(* pipeline's newest session and the key of the last commit that landed    *)
(* (rdlt-connector/src/landed.rs and commit.rs).                           *)
(***************************************************************************)
EXTENDS Naturals

\* Stands for the absent key, `None`: real keys count epochs and places from 1.
NoKey == [epoch |-> 0, seq |-> 0]

\* The keys of every session: CommitKey.
Keys == [epoch : Nat \ {0}, seq : Nat \ {0}]

OptKeys == Keys \cup {NoKey}

\* The order of keys: by epoch, then by place (derive(Ord) on CommitKey).
Before(j, k) == \/ j.epoch < k.epoch
                \/ j.epoch = k.epoch /\ j.seq < k.seq

\* The fence row: the newest session's epoch, the key landed last.
Fences == [epoch : Nat, landed : OptKeys]

\* Mutation: the key a commit expects landed is not compared.
AnswerIgnoringAfter(fence, key, after) ==
  IF fence.landed = key THEN "landed"
  ELSE IF fence.epoch # key.epoch THEN "fenced"
  ELSE "apply"

\* Mutation: a commit of an older epoch is not fenced.
AnswerUnfenced(fence, key, after) ==
  IF fence.landed = key THEN "landed"
  ELSE IF fence.landed # after THEN "stale"
  ELSE "apply"

\* How a destination whose row is `fence` answers the commit `key` that expects
\* `after` landed: the landed key first, whichever session sends it.
Answer(fence, key, after) ==
  IF fence.landed = key THEN "landed"
  ELSE IF fence.epoch # key.epoch THEN "fenced"
  ELSE IF fence.landed # after THEN "stale"
  ELSE "apply"

\* A commit as the destination's session at `session` answers it: what the row
\* says, and a session applies no other epoch's commit.
Decide(fence, session, meta) ==
  LET answer == Answer(fence, meta.key, meta.after)
  IN  IF answer = "apply" /\ meta.key.epoch # session THEN "fenced" ELSE answer
=============================================================================
