---------------------------- MODULE LoadCommits -----------------------------
(***************************************************************************)
(* Sending a commit and recording its receipt keep the inductive invariant.*)
(***************************************************************************)
EXTENDS LoadAttempts

-----------------------------------------------------------------------------
(***************************************************************************)
(* A receipt, and commits sent.                                            *)
(***************************************************************************)

LEMMA RecordStep ==
  ASSUME Inv, TypeOK', NEW r \in Runs, Record(r) PROVE Inv'
<1>u. /\ UNCHANGED <<unresolved, read, sealed, flushed, pending, tries, answer, epoch, found>>
      /\ UNCHANGED <<fence, state, published, staged, applied, openers, running, telling, kept>>
  BY DEF Record, readVars, tryVars, destVars, srcVars
<1>0. /\ stage \in [Runs -> Stages] /\ counted \in [Runs -> SUBSET Keys]
      /\ commits \in [Runs -> Nat] /\ seq \in [Runs -> Nat \ {0}]
      /\ after \in [Runs -> OptKeys] /\ taken \in [Runs -> Positions]
      /\ owed \in [Runs -> Positions] /\ TypeOK /\ RunInv(r)
  BY Zenon DEF Inv, TypeOK
<1>1. /\ stage[r] = "committing" /\ answer[r] = "receipt"
      /\ stage[r] \in Open /\ stage[r] \in InFlight /\ stage[r] \in Sent
  BY DEF Record, Open, InFlight, Sent
<1>2. /\ stage'[r] = "reporting" /\ stage'[r] \in Open /\ stage'[r] \notin InFlight
      /\ stage'[r] \notin Sent
      /\ after'[r] = pending[r].key /\ seq'[r] = seq[r] + 1 /\ taken'[r] = pending[r].to
      /\ counted'[r] = counted[r] \cup {pending[r].key} /\ commits'[r] = commits[r] + 1
      /\ stage'[r] # "crashed" /\ stage'[r] # "succeeded"
      /\ stage'[r] # "committing" /\ stage'[r] # "resending"
  BY <1>0 DEF Record, Takes, Open, InFlight, Sent
<1>3. \A s \in Runs \ {r} : UNCHANGED Local(s)
  <2>1. \A s \in Runs \ {r} :
          /\ stage'[s] = stage[s] /\ counted'[s] = counted[s] /\ commits'[s] = commits[s]
          /\ seq'[s] = seq[s] /\ after'[s] = after[s] /\ taken'[s] = taken[s] /\ owed'[s] = owed[s]
    BY <1>0 DEF Record
  <2> QED BY <1>u, <2>1 DEF Local
<1>4. /\ pending[r] \in Metas /\ pending[r].key = Key(r) /\ pending[r].to \in Positions
      /\ Key(r) \in Keys /\ Key(r) \in OptKeys
      /\ [key |-> Key(r), run |-> r] \in applied
      /\ AtMost(pending[r].to, state)
  BY <1>0, <1>1, NextKey, KeyOrder DEF RunInv, Pending, Receipt, Metas
<1>5. epoch[r] \in 1..fence.epoch /\ seq[r] \in Nat \ {0} /\ epoch[r] \in Nat /\ fence.epoch \in Nat
      /\ fence.landed \in OptKeys
  BY <1>0, <1>1, RunTypes DEF RunInv, RunEpochs
<1>6. /\ Key(r).epoch = epoch[r] /\ Key(r).seq = seq[r]
      /\ Key(r)'.epoch = epoch[r] /\ Key(r)'.seq = seq[r] + 1 /\ Key(r)' \in OptKeys
  <2>1. Key(r) = [epoch |-> epoch[r], seq |-> seq[r]] /\ Key(r)' = [epoch |-> epoch[r], seq |-> seq[r] + 1]
    BY <1>u, <1>2 DEF Key
  <2>2. epoch[r] \in Nat \ {0} /\ seq[r] + 1 \in Nat \ {0}
    BY <1>5
  <2> QED BY <2>1, <2>2 DEF OptKeys, Keys
<1>7. Before(Key(r), Key(r)')
  BY <1>5, <1>6 DEF Before
<1>8. RunInv(r)'
  <2>1. RunEpochs(r)'
    BY <1>0, <1>u, <1>1, <1>2 DEF RunInv, RunEpochs
  <2>2. Progress(r)'
    <3>1. AtMost(pending[r].to, sealed[r]) /\ AtMost(sealed[r], read[r])
          /\ AtMost(pending[r].to, flushed[r])
      BY <1>0, <1>1 DEF RunInv, Pending, Progress
    <3>2. seq'[r] > 1 /\ after'[r] = [epoch |-> epoch'[r], seq |-> seq'[r] - 1]
      <4>1. seq[r] + 1 > 1 /\ (seq[r] + 1) - 1 = seq[r]
        BY <1>5
      <4>2. after'[r] = [epoch |-> epoch[r], seq |-> seq[r]]
        BY <1>2, <1>4 DEF Key
      <4> QED BY <1>u, <1>2, <4>1, <4>2
    <3>3. ~(seq'[r] = 1)
      BY <1>2, <1>5
    <3>4. (AtMost(taken[r], sealed[r]) /\ AtMost(sealed[r], read[r]))'
      BY <1>u, <1>2, <3>1 DEF AtMost
    <3>5. (AtMost(taken[r], flushed[r]) /\ AtMost(taken[r], state))'
      BY <1>u, <1>2, <1>4, <3>1 DEF AtMost
    <3> QED BY <3>2, <3>3, <3>4, <3>5 DEF Progress
  <2>3. Pending(r)' /\ Receipt(r)'
    BY <1>2 DEF Pending, Receipt
  <2>4. Lands(r)'
    <3>1. ~Before(fence.landed, Key(r))
      BY <1>4 DEF Inv, AppliedInv
    <3>2. fence.landed.epoch = epoch[r] => fence.landed.seq < seq[r] + 1
      <4>1. fence.landed.epoch = epoch[r] => fence.landed.seq < seq[r] \/ fence.landed.seq = seq[r]
        BY <1>0, <1>1 DEF RunInv, Lands
      <4>2. fence.landed.seq \in Nat
        BY <1>5, KeyOrder
      <4> QED BY <1>5, <4>1, <4>2
    <3> QED BY <1>u, <1>2, <1>4, <3>1, <3>2 DEF Lands
  <2>5. Holds(r)'
    <3> SUFFICES ASSUME epoch[r] = fence.epoch PROVE Holds(r)'
      BY <1>u, <1>2 DEF Holds
    <3>1. fence.landed = pending[r].key
      BY <1>0, <1>1 DEF RunInv, Receipt
    <3>2. pending[r].to = state
      BY <1>0, <1>1, <3>1 DEF RunInv, Lands
    <3> QED BY <1>0, <1>u, <1>1, <1>2, <3>1, <3>2 DEF RunInv, Holds
  <2>6. Counts(r)'
    <3>1. Key(r) \notin counted[r] /\ unresolved[r] # Key(r)
      <4>1. \A k \in counted[r] : Before(k, Key(r))
        BY Zenon, <1>0, <1>1 DEF RunInv, Counts
      <4>2. Key(r) \notin counted[r]
        BY <1>4, <4>1, KeyTotal
      <4>3. unresolved[r] # NoKey => unresolved[r].epoch < epoch[r]
        BY <1>0, <1>1 DEF RunInv, RunEpochs
      <4>4. Key(r) # NoKey
        BY <1>4, KeyOrder
      <4>5. unresolved[r] # Key(r)
        BY <1>5, <1>6, <4>3, <4>4
      <4> QED BY <4>2, <4>5
    <3>2. IsFiniteSet(counted'[r]) /\ commits'[r] = Cardinality(counted'[r])
      <4>1. IsFiniteSet(counted[r]) /\ commits[r] = Cardinality(counted[r])
        BY <1>0 DEF RunInv, Counts
      <4>2. /\ IsFiniteSet(counted[r] \cup {Key(r)})
            /\ Cardinality(counted[r] \cup {Key(r)}) = Cardinality(counted[r]) + 1
        BY <3>1, <4>1, FS_AddElement
      <4> QED BY <1>2, <1>4, <4>1, <4>2
    <3>3. unresolved'[r] \notin counted'[r]
      BY <1>0, <1>u, <1>2, <1>4, <3>1 DEF RunInv, Counts
    <3>4. \A k \in counted[r] : Before(k, Key(r)')
      <4> TAKE k \in counted[r]
      <4>1. k \in OptKeys /\ Before(k, Key(r))
        BY Zenon, <1>0, <1>1, KeyOrder DEF RunInv, Counts
      <4> QED BY <4>1, <1>4, <1>6, <1>7, KeyTotal
    <3>5. \A k \in counted'[r] : [key |-> k, run |-> r] \in applied /\ Before(k, Key(r)')
      BY <1>0, <1>2, <1>4, <1>7, <3>4 DEF RunInv, Counts
    <3> QED BY <1>u, <3>2, <3>3, <3>5 DEF Counts
  <2>7. Found(r)' /\ Unresolved(r)'
    BY Zenon, <1>0, <1>u, <1>1, <1>2 DEF RunInv, Found, Unresolved
  <2>8. AtMost(owed'[r], state)
    <3>1. AtMost(owed[r], state)
      BY <1>0 DEF RunInv
    <3>2. PICK told \in Owes(r) : owed' = [owed EXCEPT ![r] = told]
      BY Zenon DEF Record
    <3>3. AtMost(told, state)
      <4> SUFFICES ASSUME NEW p \in Partitions PROVE told[p] <= state[p]
        BY DEF AtMost
      <4>1. /\ told[p] = owed[r][p] \/ told[p] = pending[r].to[p]
               \/ told[p] \in pending[r].from[p]..pending[r].to[p]
        BY DEF Owes
      <4>2. owed[r][p] <= state[p] /\ pending[r].to[p] <= state[p]
        BY <3>1, <1>4 DEF AtMost
      <4>3. pending[r].from[p] \in Int /\ pending[r].to[p] \in Int /\ state[p] \in Int
        <5>1. pending[r].from \in Positions /\ state \in Positions
          BY <1>0, <1>4 DEF Metas, TypeOK
        <5> QED BY <5>1, <1>4, PositionTypes
      <4>4. told[p] \in pending[r].from[p]..pending[r].to[p] => told[p] \in Int /\ told[p] <= pending[r].to[p]
        BY <4>3
      <4>5. \A i \in Int : i <= pending[r].to[p] => i <= state[p]
        BY <4>2, <4>3
      <4> QED BY <4>1, <4>2, <4>4, <4>5
    <3> QED BY <1>0, <3>2, <3>3
  <2>9. AtMost(owed[r], state)'
    BY <1>u, <2>8 DEF AtMost
  <2> QED BY <1>2, <2>1, <2>2, <2>3, <2>4, <2>5, <2>6, <2>7, <2>9 DEF RunInv
<1>9. \A c \in running : c.run = r => CopyInv(c)'
  <2> SUFFICES ASSUME NEW c \in running, c.run = r PROVE CopyInv(c)'
    OBVIOUS
  <2>1. CopyInv(c) /\ c.meta.key \in OptKeys
    BY <1>0, CopyTypes, KeyOrder DEF Inv
  <2>2. Before(c.meta.key, Key(r)')
    BY <2>1, <1>1, <1>4, <1>6, <1>7, KeyTotal DEF CopyInv
  <2>3. ~(c.session = fence.epoch /\ Before(fence.landed, c.meta.key))
    <3> SUFFICES ASSUME c.session = fence.epoch, Before(fence.landed, c.meta.key) PROVE FALSE
      OBVIOUS
    <3>1. pending[r].key = c.meta.key
      BY <1>1, <2>1 DEF CopyInv
    <3>2. epoch[r] = fence.epoch
      BY <3>1, <2>1, <1>4, <1>6 DEF CopyInv
    <3>3. fence.landed = c.meta.key
      BY <3>1, <3>2, <1>0, <1>1 DEF RunInv, Receipt
    <3> QED BY <3>3, <2>1, KeyTotal
  <2> QED BY <1>u, <1>2, <2>1, <2>2, <2>3 DEF CopyInv, SegmentRows, AtMost
<1>10. \A a \in applied : a.run = r => AppliedInv(a)'
  <2> SUFFICES ASSUME NEW a \in applied, a.run = r PROVE AppliedInv(a)'
    OBVIOUS
  <2>1. AppliedInv(a) /\ a.key \in OptKeys
    BY <1>0, AppliedTypes, KeyOrder DEF Inv
  <2>2. Before(a.key, Key(r)')
    BY <2>1, <1>1, <1>4, <1>6, <1>7, KeyTotal DEF AppliedInv
  <2> QED BY <1>u, <1>1, <1>2, <2>1, <2>2 DEF AppliedInv
<1> QED BY <1>u, <1>3, <1>8, <1>9, <1>10, LocalStep DEF Inv, DestInv

\* Sending a commit whose rows are flushed, the first time or again, keeps the
\* invariant.
LEMMA SendStep ==
  ASSUME Inv, TypeOK', NEW r \in Runs, stage[r] \in {"flushing", "resending"},
         NEW try \in 1..Attempts, Sends(r, try),
         \A s \in Runs \ {r} : flushed'[s] = flushed[s],
         AtMost(flushed[r], flushed'[r]), AtMost(pending[r].to, flushed'[r]),
         UNCHANGED <<runVars, read, sealed, pending, sessVars, owed, srcVars>>,
         UNCHANGED <<fence, state, published, applied, openers>>,
         staged \subseteq staged',
         Holding(r, flushed'[r], staged')
  PROVE  Inv'
<1> DEFINE n == [run |-> r, try |-> try, session |-> epoch[r], meta |-> pending[r]]
<1>u. /\ UNCHANGED <<unresolved, counted, commits, read, sealed, pending, epoch, found, seq, after>>
      /\ UNCHANGED <<taken, owed, fence, state, published, applied, openers, telling, kept>>
  BY DEF runVars, sessVars, srcVars
<1>0. /\ stage \in [Runs -> Stages] /\ tries \in [Runs -> 0..Attempts]
      /\ answer \in [Runs -> {"none", "receipt", "refused"}] /\ TypeOK /\ RunInv(r)
  BY Zenon DEF Inv, TypeOK
<1>1. /\ stage[r] \in Open /\ stage[r] \in InFlight /\ stage[r] # "crashed"
      /\ stage'[r] = "committing" /\ stage'[r] \in Open /\ stage'[r] \in InFlight /\ stage'[r] \in Sent
      /\ tries'[r] = try /\ answer'[r] = "none"
      /\ stage'[r] # "crashed" /\ stage'[r] # "succeeded"
      /\ running' = running \cup {n}
  BY <1>0 DEF Sends, Open, InFlight, Sent
<1> HIDE DEF n
<1>2. \A s \in Runs \ {r} : UNCHANGED Local(s)
  <2>1. \A s \in Runs \ {r} : stage'[s] = stage[s] /\ tries'[s] = tries[s] /\ answer'[s] = answer[s]
    BY <1>0 DEF Sends
  <2> QED BY Zenon, <1>u, <2>1 DEF Local
<1>3. Key(r)' = Key(r)
  BY <1>u DEF Key
<1>4. /\ pending[r] \in Metas /\ pending[r].key = Key(r) /\ pending[r].after = after[r]
      /\ pending[r].from = taken[r] /\ AtMost(taken[r], pending[r].to)
      /\ pending[r].to \in Positions
      /\ Key(r) \in Keys /\ Before(after[r], Key(r))
  BY <1>0, <1>1, NextKey DEF RunInv, Pending, Metas
<1>6. RunInv(r)'
  <2>1. RunEpochs(r)'
    BY <1>0, <1>u, <1>1 DEF RunInv, RunEpochs
  <2>2. flushed[r] \in Positions /\ flushed'[r] \in Positions /\ taken[r] \in Positions
    BY <1>0 DEF TypeOK
  <2>3. Progress(r)'
    <3>1. AtMost(taken[r], flushed'[r])
      <4>1. AtMost(taken[r], flushed[r])
        BY <1>0, <1>1 DEF RunInv, Progress
      <4> QED BY <4>1, <2>2, AtMostOrder
    <3>2. AtMost(taken[r], flushed[r])'
      BY <1>u, <3>1 DEF AtMost
    <3> QED BY <1>0, <1>u, <1>1, <3>2 DEF RunInv, Progress, AtMost
  <2>4. Pending(r)'
    <3>1. AtMost(pending[r].to, flushed[r])'
      BY <1>u DEF AtMost
    <3>2. AtMost(taken[r], pending[r].to)' /\ AtMost(pending[r].to, sealed[r])'
      BY <1>0, <1>u, <1>1 DEF RunInv, Pending, AtMost
    <3>3. tries'[r] >= 1
      BY Zenon, <1>1, ConstantsAssumption, IntOrder
    <3>4. stage'[r] # "resending"
      BY <1>1
    <3> QED BY <1>u, <1>3, <1>4, <3>1, <3>2, <3>3, <3>4 DEF Pending
  <2>5. Lands(r)' /\ Receipt(r)'
    <3>1. Lands(r)
      BY <1>0 DEF RunInv
    <3>2. answer'[r] # "receipt"
      BY <1>1
    <3> QED BY <1>u, <1>1, <3>1, <3>2 DEF Lands, Receipt
  <2>6. Holds(r)'
    <3>1. Holds(r)
      BY <1>0 DEF RunInv
    <3>2. Holding(r, flushed[r], staged)'
      BY <1>u DEF Holding
    <3>3. fence.landed = after[r] \/ fence.landed = pending[r].key \/ epoch[r] # fence.epoch
      BY <1>1, <3>1 DEF Holds
    <3>4. epoch[r] = fence.epoch /\ fence.landed = after[r] => taken[r] = state
      BY <1>1, <3>1 DEF Holds
    <3> QED BY Zenon, <1>u, <1>1, <3>2, <3>3, <3>4 DEF Holds, Holding
  <2>7. Counts(r)' /\ Found(r)' /\ Unresolved(r)'
    BY Zenon, <1>0, <1>u, <1>1, <1>3 DEF RunInv, Counts, Found, Unresolved
  <2>8. AtMost(owed[r], state)'
    BY <1>0, <1>u DEF RunInv, AtMost
  <2> QED BY Zenon, <1>1, <2>1, <2>3, <2>4, <2>5, <2>6, <2>7, <2>8 DEF RunInv
<1>7. \A s \in Runs : RunInv(s)'
  BY <1>u, <1>2, <1>6, RunFrame DEF Inv
<1>8. \A c \in running : CopyInv(c)'
  <2> SUFFICES ASSUME NEW c \in running PROVE CopyInv(c)'
    OBVIOUS
  <2>1. CASE c.run = r
    <3>1. CopyInv(c)
      BY DEF Inv
    <3> QED BY <2>1, <3>1, <1>u, <1>1, <1>3 DEF CopyInv, SegmentRows, AtMost
  <2>2. CASE c.run # r
    <3>1. c.run \in Runs \ {r}
      BY <1>0, <2>2, CopyTypes
    <3>2. UNCHANGED CopyLocal(c.run)
      BY Zenon, <1>2, <3>1 DEF Local, CopyLocal
    <3> QED BY <1>u, <3>2, CopyFrame DEF Inv
  <2> QED BY <2>1, <2>2
<1>9. ASSUME NEW c, c = n PROVE CopyInv(c)'
  <2>0. c.run = r /\ c.session = epoch[r] /\ c.meta = pending[r]
    BY Zenon, <1>9 DEF n
  <2>1. /\ epoch[r] = Key(r).epoch /\ epoch[r] <= fence.epoch /\ r \in openers[epoch[r]]
    <3>1. epoch[r] \in 1..fence.epoch /\ r \in openers[epoch[r]] /\ fence.epoch \in Nat
      BY <1>0, <1>1, RunTypes DEF RunInv, RunEpochs
    <3>2. epoch[r] = Key(r).epoch
      BY DEF Key
    <3>3. \A m \in Nat : \A e \in 1..m : e <= m
      OBVIOUS
    <3> QED BY Zenon, <3>1, <3>2, <3>3
  <2>2. ~Before(fence.landed, after[r])
    BY <1>0, <1>1 DEF RunInv, Lands
  <2>3. Key(r) = fence.landed => pending[r].to = state
    BY <1>0, <1>1, <1>4 DEF RunInv, Lands
  <2>4. ASSUME epoch[r] = fence.epoch, after[r] = fence.landed
        PROVE  taken[r] = state /\ \A w \in SegmentRows(pending[r]) : <<epoch[r], w>> \in staged'
    <3>1. taken[r] = state
      BY Zenon, <2>4, <1>0, <1>1 DEF RunInv, Holds
    <3> SUFFICES ASSUME NEW w \in RowIds, pending[r].from[w[1]] < w[2], w[2] <= pending[r].to[w[1]]
                 PROVE  <<epoch[r], w>> \in staged'
      BY Zenon, <3>1 DEF SegmentRows
    <3>2. w[1] \in Partitions /\ w[2] \in Int
      BY RowTypes
    <3>3. flushed'[r][w[1]] \in Int /\ pending[r].to[w[1]] \in Int
      <4>1. flushed' \in [Runs -> Positions]
        BY DEF TypeOK
      <4> QED BY <4>1, <3>2, <1>4, PositionTypes
    <3>4. pending[r].to[w[1]] <= flushed'[r][w[1]]
      BY <3>2 DEF AtMost
    <3>5. w[2] <= flushed'[r][w[1]]
      BY <3>2, <3>3, <3>4
    <3> QED BY <2>4, <3>1, <3>5, <1>4 DEF Holding
  <2>5. SegmentRows(pending[r])' = SegmentRows(pending[r])
    BY <1>u DEF SegmentRows
  <2> QED BY Zenon, <1>u, <1>1, <1>3, <1>4, <2>0, <2>1, <2>2, <2>3, <2>4, <2>5
          DEF CopyInv, AtMost, SegmentRows
<1>10. \A a \in applied' : AppliedInv(a)'
  <2> SUFFICES ASSUME NEW a \in applied PROVE AppliedInv(a)'
    BY <1>u
  <2>1. CASE a.run = r
    <3>1. AppliedInv(a)
      BY DEF Inv
    <3> QED BY <2>1, <3>1, <1>u, <1>1, <1>3 DEF AppliedInv
  <2>2. CASE a.run # r
    <3>1. a.run \in Runs \ {r}
      BY <1>0, <2>2, AppliedTypes
    <3>2. UNCHANGED AppliedLocal(a.run)
      BY Zenon, <1>2, <3>1 DEF Local, AppliedLocal
    <3> QED BY Zenon, <1>u, <3>2, AppliedFrame DEF Inv
  <2> QED BY <2>1, <2>2
<1>11. DestInv'
  BY Zenon, <1>u DEF Inv, DestInv, ExactlyOnce, AtMost
<1>12. SameCopies'
  <2>1. ASSUME NEW c \in running, c.meta.key = Key(r) PROVE c.meta = pending[r]
    <3>1. c.run = r
      <4>1. c.session = epoch[r] /\ c.run \in openers[epoch[r]] /\ c.run \in Runs
        <5>1. c.session = c.meta.key.epoch /\ c.run \in openers[c.session] /\ c.run \in Runs
          BY <2>1, <1>0, CopyTypes DEF Inv, CopyInv
        <5>2. Key(r).epoch = epoch[r]
          BY DEF Key
        <5> QED BY <2>1, <5>1, <5>2
      <4>2. epoch[r] \in 1..fence.epoch /\ r \in openers[epoch[r]]
        BY <1>0, <1>1 DEF RunInv, RunEpochs
      <4> QED BY <4>1, <4>2, OneOpener
    <3>2. ~Before(c.meta.key, Key(r))
      BY <2>1, <1>4, KeyTotal, KeyOrder
    <3> QED BY <3>1, <3>2, <1>1 DEF Inv, CopyInv
  <2>2. n.meta = pending[r]
    BY DEF n
  <2>3. \A c, d \in running : c.meta.key = d.meta.key => c.meta = d.meta
    BY DEF Inv, SameCopies
  <2>4. \A c \in running : c.meta.key = n.meta.key => c.meta = n.meta
    BY <1>4, <2>1, <2>2
  <2> QED BY <1>1, <2>3, <2>4 DEF SameCopies
<1>13. \A c \in running' : CopyInv(c)'
  BY <1>1, <1>8, <1>9
<1> QED BY <1>7, <1>10, <1>11, <1>12, <1>13 DEF Inv

LEMMA ResendStep ==
  ASSUME Inv, TypeOK', NEW r \in Runs, Resend(r) PROVE Inv'
<1>0. tries[r] \in 0..Attempts /\ flushed[r] \in Positions /\ RunInv(r)
  BY DEF Inv, TypeOK
<1>1. stage[r] = "resending" /\ stage[r] \in Open /\ stage[r] \in InFlight /\ stage[r] \in Sent
  BY DEF Resend, Open, InFlight, Sent
<1>2. tries[r] + 1 \in 1..Attempts
  <2>1. tries[r] < Attempts
    BY <1>0, <1>1 DEF RunInv, Pending
  <2> QED BY <1>0, <2>1, ConstantsAssumption
<1>3. /\ UNCHANGED <<runVars, read, sealed, pending, sessVars, owed, srcVars>>
      /\ UNCHANGED <<fence, state, published, applied, openers>>
      /\ UNCHANGED flushed /\ UNCHANGED staged
      /\ Sends(r, tries[r] + 1)
  BY DEF Resend, readVars, destVars
<1>4. AtMost(flushed[r], flushed'[r]) /\ AtMost(pending[r].to, flushed'[r])
  <2>1. AtMost(flushed[r], flushed[r])
    BY <1>0, AtMostOrder
  <2>2. AtMost(pending[r].to, flushed[r])
    BY <1>0, <1>1 DEF RunInv, Pending
  <2> QED BY <1>3, <2>1, <2>2
<1>5. Holding(r, flushed'[r], staged')
  BY <1>0, <1>1, <1>3 DEF RunInv, Holds, Holding
<1> QED BY <1>1, <1>2, <1>3, <1>4, <1>5, SendStep

LEMMA FlushThenSendStep ==
  ASSUME Inv, TypeOK', NEW r \in Runs, FlushThenSend(r) PROVE Inv'
<1> DEFINE unflushed == {w \in SegmentRows(pending[r]) : w[2] > flushed[r][w[1]]}
<1>0. flushed \in [Runs -> Positions] /\ flushed[r] \in Positions /\ flushed'[r] \in Positions
      /\ RunInv(r) /\ 1 \in 1..Attempts
  BY ConstantsAssumption DEF Inv, TypeOK
<1>1. stage[r] = "flushing" /\ stage[r] \in Open /\ stage[r] \in InFlight
  BY DEF FlushThenSend, Open, InFlight
<1>2. CASE unflushed # {} /\ fence.epoch # epoch[r]
  <2>1. Fails(r, FALSE) /\ UNCHANGED <<destVars, running, srcVars>>
    BY Zenon, <1>2 DEF FlushThenSend
  <2> QED BY Zenon, <2>1, <1>1, FailsStep
<1>3. CASE ~(unflushed # {} /\ fence.epoch # epoch[r])
  <2>1. /\ staged' = staged \cup {<<epoch[r], w>> : w \in unflushed}
        /\ flushed' = [flushed EXCEPT ![r] =
             [p \in Partitions |-> Max2(flushed[r][p], pending[r].to[p])]]
        /\ Sends(r, 1)
        /\ UNCHANGED <<runVars, read, sealed, pending, sessVars, owed, srcVars>>
        /\ UNCHANGED <<fence, state, published, applied, openers>>
    BY Zenon, <1>3 DEF FlushThenSend
  <2>2. pending[r].to \in Positions /\ pending[r].from = taken[r]
    BY <1>0, <1>1 DEF RunInv, Pending, Metas
  <2>3. /\ \A s \in Runs \ {r} : flushed'[s] = flushed[s]
        /\ flushed'[r] = [p \in Partitions |-> Max2(flushed[r][p], pending[r].to[p])]
    BY Zenon, <1>0, <2>1
  <2>4. \A p \in Partitions : flushed[r][p] \in Int /\ pending[r].to[p] \in Int /\ taken[r][p] \in Int
                              /\ state[p] \in Int
    <3>1. state \in Positions /\ taken[r] \in Positions
      BY DEF Inv, TypeOK
    <3> QED BY <1>0, <2>2, <3>1, PositionTypes
  <2>5. AtMost(flushed[r], flushed'[r]) /\ AtMost(pending[r].to, flushed'[r])
    <3>1. \A i, j \in Int : i <= Max2(i, j) /\ j <= Max2(i, j)
      BY DEF Max2
    <3>2. \A p \in Partitions : flushed'[r][p] = Max2(flushed[r][p], pending[r].to[p])
      BY <2>3
    <3> QED BY <2>4, <3>1, <3>2 DEF AtMost
  <2>6. ASSUME epoch[r] = fence.epoch, NEW w \in RowIds, state[w[1]] < w[2],
               w[2] <= flushed'[r][w[1]]
        PROVE  <<epoch[r], w>> \in staged'
    <3>1. w[1] \in Partitions /\ w[2] \in Int
      BY RowTypes
    <3>2. CASE w[2] <= flushed[r][w[1]]
      BY <2>6, <3>2, <2>1, <1>0, <1>1 DEF RunInv, Holds
    <3>3. CASE ~(w[2] <= flushed[r][w[1]])
      <4>1. w[2] <= pending[r].to[w[1]] /\ w[2] > flushed[r][w[1]]
        <5>1. flushed'[r][w[1]] = Max2(flushed[r][w[1]], pending[r].to[w[1]])
          BY <2>3, <3>1
        <5>2. flushed[r][w[1]] \in Int /\ pending[r].to[w[1]] \in Int
          BY <2>4, <3>1
        <5>3. \A i, j, k \in Int : k <= Max2(i, j) /\ ~(k <= i) => k <= j /\ k > i
          BY DEF Max2
        <5> QED BY <2>6, <3>1, <3>3, <5>1, <5>2, <5>3
      <4>2. pending[r].from[w[1]] < w[2]
        <5>1. AtMost(taken[r], state)
          BY <1>0, <1>1 DEF RunInv, Progress
        <5> QED BY <5>1, <2>2, <2>4, <2>6, <3>1 DEF AtMost
      <4>3. w \in unflushed
        BY <4>1, <4>2 DEF SegmentRows
      <4> QED BY <4>3, <2>1
    <3> QED BY <3>2, <3>3
  <2>7. staged \subseteq staged'
    BY <2>1
  <2>8. Holding(r, flushed'[r], staged')
    BY <2>6 DEF Holding
  <2> QED BY <1>0, <1>1, <2>1, <2>3, <2>5, <2>7, <2>8, SendStep
<1> QED BY <1>2, <1>3
=============================================================================
