------------------------------ MODULE LoadInv -------------------------------
(***************************************************************************)
(* The inductive invariant behind Load's safety properties: what each run, *)
(* each commit under way, each commit applied and the fence row know of one*)
(* another.                                                                *)
(***************************************************************************)
EXTENDS Load

Sent == {"committing", "resending"}

AtMost(f, g) == \A p \in Partitions : f[p] <= g[p]

\* The epochs a run opened are its own, and none is past the fence row's.
RunEpochs(r) ==
  /\ stage[r] \in Open => epoch[r] \in 1..fence.epoch /\ r \in openers[epoch[r]]
  /\ unresolved[r] # NoKey =>
       /\ unresolved[r].epoch \in 1..fence.epoch
       /\ r \in openers[unresolved[r].epoch]
       /\ stage[r] \in Open => unresolved[r].epoch < epoch[r]

\* What an open attempt has read, sealed, flushed and taken; the key it expects
\* landed is its own last commit's, or an older session's.
Progress(r) ==
  stage[r] \in Open =>
    /\ AtMost(taken[r], sealed[r]) /\ AtMost(sealed[r], read[r])
    /\ AtMost(taken[r], flushed[r])
    /\ AtMost(taken[r], state)
    /\ seq[r] > 1 => after[r] = [epoch |-> epoch[r], seq |-> seq[r] - 1]
    /\ seq[r] = 1 => after[r].epoch < epoch[r]

\* The commit in flight is the attempt's next; once sent, its rows are flushed.
Pending(r) ==
  /\ stage[r] \in InFlight =>
       /\ pending[r] \in Metas
       /\ pending[r].key = Key(r)
       /\ pending[r].after = after[r]
       /\ pending[r].from = taken[r]
       /\ AtMost(taken[r], pending[r].to)
       /\ AtMost(pending[r].to, sealed[r])
  /\ stage[r] \in Sent => AtMost(pending[r].to, flushed[r]) /\ tries[r] >= 1
  /\ stage[r] = "resending" => tries[r] < Attempts

\* Where the key that landed last stands to an open attempt's commits.
Lands(r) ==
  stage[r] \in Open =>
    /\ ~Before(fence.landed, after[r])
    /\ fence.landed.epoch = epoch[r] =>
         \/ fence.landed.seq < seq[r]
         \/ fence.landed.seq = seq[r] /\ stage[r] \in Sent
    /\ stage[r] \in InFlight /\ fence.landed = pending[r].key => state = pending[r].to

\* The session of the newest epoch knows where the destination stands, but for a
\* commit of its own that landed unanswered; what it flushed past there is staged.
Holds(r) ==
  stage[r] \in Open /\ epoch[r] = fence.epoch =>
    /\ fence.landed = after[r] => taken[r] = state
    /\ fence.landed # after[r] => stage[r] \in Sent /\ fence.landed = pending[r].key
    /\ \A w \in RowIds :
         state[w[1]] < w[2] /\ w[2] <= flushed[r][w[1]] => <<epoch[r], w>> \in staged

\* A receipt tells of a commit that landed.
Receipt(r) ==
  stage[r] = "committing" /\ answer[r] = "receipt" =>
    /\ [key |-> pending[r].key, run |-> r] \in applied
    /\ AtMost(pending[r].to, state)
    /\ epoch[r] = fence.epoch => fence.landed = pending[r].key

\* What the report counts.
Counts(r) ==
  /\ IsFiniteSet(counted[r])
  /\ commits[r] = Cardinality(counted[r])
  /\ unresolved[r] \notin counted[r]
  /\ \A k \in counted[r] : /\ [key |-> k, run |-> r] \in applied
                           /\ stage[r] \in Open => Before(k, Key(r))

\* What an open found landed is the last that landed before its epoch.
Found(r) ==
  stage[r] \in Open =>
    /\ found[r].epoch < epoch[r]
    /\ found[r] # NoKey => \E s \in Runs : [key |-> found[r], run |-> s] \in applied
    /\ \A a \in applied : a.key.epoch < epoch[r] => ~Before(found[r], a.key)

\* No commit of a run landed past the one it left unresolved, but for those of the
\* attempt that opened since.
Unresolved(r) ==
  /\ stage[r] = "crashed" => unresolved[r] = NoKey
  /\ unresolved[r] # NoKey =>
       \A a \in applied : a.run = r /\ Before(unresolved[r], a.key) =>
         stage[r] \in Open /\ a.key.epoch = epoch[r]

RunInv(r) ==
  /\ RunEpochs(r) /\ Progress(r) /\ Pending(r) /\ Lands(r) /\ Holds(r) /\ Receipt(r)
  /\ Counts(r) /\ Found(r) /\ Unresolved(r)
  /\ AtMost(owed[r], state)
  /\ stage[r] = "succeeded" => \A p \in Partitions : state[p] = Rows

\* A commit under way that would apply moves the destination on from where it
\* stands, with every row of its segments staged, and its run answers for it yet.
CopyInv(c) ==
  /\ c.session = c.meta.key.epoch /\ c.session <= fence.epoch /\ c.run \in openers[c.session]
  /\ Before(c.meta.after, c.meta.key)
  /\ ~Before(fence.landed, c.meta.after)
  /\ AtMost(c.meta.from, c.meta.to)
  /\ c.meta.key = fence.landed => c.meta.to = state
  /\ c.session = fence.epoch /\ c.meta.after = fence.landed =>
       /\ c.meta.from = state
       /\ \A w \in SegmentRows(c.meta) : <<c.session, w>> \in staged
  /\ c.session = fence.epoch /\ Before(fence.landed, c.meta.key) =>
       \/ stage[c.run] = "crashed"
       \/ stage[c.run] \in InFlight /\ pending[c.run].key = c.meta.key
       \/ stage[c.run] \notin Open /\ unresolved[c.run] = c.meta.key
  /\ stage[c.run] \in Open =>
       \/ Before(c.meta.key, Key(c.run))
       \/ c.meta.key = Key(c.run) /\ stage[c.run] \in Sent /\ c.meta = pending[c.run]

\* A commit applied is none past the landed key, and counted or yet to be counted
\* or landed over.
AppliedInv(a) ==
  /\ a.key.epoch <= fence.epoch /\ a.run \in openers[a.key.epoch]
  /\ ~Before(fence.landed, a.key)
  /\ stage[a.run] \in Open =>
       \/ Before(a.key, Key(a.run))
       \/ a.key = Key(a.run) /\ stage[a.run] \in Sent
  /\ \/ stage[a.run] = "crashed"
     \/ a.key \in counted[a.run]
     \/ stage[a.run] \in InFlight /\ pending[a.run].key = a.key
     \/ unresolved[a.run] = a.key
     \/ \E b \in applied : b.run # a.run /\ Before(a.key, b.key)

\* The fence row, the history of opens, the tables and the source.
DestInv ==
  /\ fence.epoch <= MaxEpoch
  /\ fence.landed.epoch <= fence.epoch
  /\ \A e \in 1..MaxEpoch : /\ \A r, s \in openers[e] : r = s
                            /\ e > fence.epoch => openers[e] = {}
  /\ fence.landed # NoKey => \E r \in Runs : [key |-> fence.landed, run |-> r] \in applied
  /\ ExactlyOnce
  /\ \A told \in telling : AtMost(told, state)
  /\ AtMost(kept, state)

\* Copies of one commit carry the same.
SameCopies == \A c, d \in running : c.meta.key = d.meta.key => c.meta = d.meta

Inv ==
  /\ TypeOK
  /\ DestInv
  /\ \A r \in Runs : RunInv(r)
  /\ \A c \in running : CopyInv(c)
  /\ \A a \in applied : AppliedInv(a)
  /\ SameCopies
=============================================================================
