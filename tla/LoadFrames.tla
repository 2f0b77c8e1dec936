----------------------------- MODULE LoadFrames -----------------------------
(***************************************************************************)
(* Toward the proof that module Load keeps the inductive invariant of      *)
(* LoadInv: the order of positions and of keys, what a step that leaves a  *)
(* run alone keeps of it, and the steps that read, seal and stage.         *)
(***************************************************************************)
EXTENDS LoadInv, TLAPS

-----------------------------------------------------------------------------
(***************************************************************************)
(* Positions and rows.                                                     *)
(***************************************************************************)

\* Order and intervals of integers, for the steps where the rest is not arithmetic.
LEMMA IntOrder ==
  /\ \A i \in Int : ~(i < i)
  /\ \A i, j \in Int : (i < j => ~(j <= i)) /\ (i <= j => ~(j < i))
  /\ \A i, j \in Int : i <= j /\ j <= i => i = j
  /\ \A i, j \in Int : ~(j - 1 < i /\ i < j)
  /\ \A i, j \in Int : i <= j => i < j + 1
  /\ \A n \in Nat : \A i \in 1..n : i \in Int /\ i >= 1 /\ i <= n /\ i \in 1..(n + 1)
  OBVIOUS

\* Positions are compared partition by partition, as integers.
LEMMA PositionTypes ==
  \A f \in Positions : \A p \in Partitions : f[p] \in Int /\ 0 <= f[p] /\ f[p] <= Rows
  BY ConstantsAssumption DEF Positions

LEMMA RowTypes ==
  \A w \in RowIds : w = <<w[1], w[2]>> /\ w[1] \in Partitions /\ w[2] \in Int
  BY ConstantsAssumption DEF RowIds

\* AtMost orders positions, the start of the stream first.
LEMMA AtMostOrder ==
  /\ \A f \in Positions : AtMost(f, f) /\ AtMost(Zero, f)
  /\ \A f, g, h \in Positions : AtMost(f, g) /\ AtMost(g, h) => AtMost(f, h)
<1>1. \A f \in Positions : AtMost(f, f) /\ AtMost(Zero, f)
  BY PositionTypes DEF AtMost, Zero
<1>2. \A f, g, h \in Positions : AtMost(f, g) /\ AtMost(g, h) => AtMost(f, h)
  <2> SUFFICES ASSUME NEW f \in Positions, NEW g \in Positions, NEW h \in Positions,
                      AtMost(f, g), AtMost(g, h), NEW p \in Partitions
               PROVE  f[p] <= h[p]
    BY DEF AtMost
  <2>1. f[p] \in Int /\ g[p] \in Int /\ h[p] \in Int
    BY PositionTypes
  <2>2. f[p] <= g[p] /\ g[p] <= h[p]
    BY DEF AtMost
  <2> QED BY <2>1, <2>2
<1> QED BY <1>1, <1>2

\* What is at most the committed position is at most a later one.
LEMMA AtMostLater ==
  ASSUME NEW g \in Positions, NEW h \in Positions, AtMost(g, h)
  PROVE  \A f \in Positions : AtMost(f, g) => AtMost(f, h)
  BY AtMostOrder

\* Where the run's session is the newest, rows past the committed position and up to
\* `f` are in `rows`, staged by it.
Holding(r, f, rows) ==
  epoch[r] = fence.epoch =>
    \A w \in RowIds : state[w[1]] < w[2] /\ w[2] <= f[w[1]] => <<epoch[r], w>> \in rows
-----------------------------------------------------------------------------
(***************************************************************************)
(* Frames: what a step that leaves a run alone keeps of it.                *)
(***************************************************************************)

\* What a commit under way is compared with of its run.
CopyLocal(r) == <<stage[r], unresolved[r], epoch[r], seq[r], pending[r]>>

\* What a commit applied is compared with of its run.
AppliedLocal(r) == <<stage[r], unresolved[r], counted[r], epoch[r], seq[r], pending[r]>>

Local(r) == <<stage[r], unresolved[r], counted[r], commits[r], epoch[r], found[r], seq[r],
              after[r], read[r], sealed[r], flushed[r], taken[r], pending[r], tries[r],
              answer[r], owed[r]>>

\* A step that leaves a run and the destination alone, but for more staged, keeps
\* what is known of the run.
LEMMA RunFrame ==
  ASSUME NEW r \in Runs, RunInv(r), UNCHANGED Local(r), staged \subseteq staged',
         UNCHANGED <<fence, state, applied, openers>>
  PROVE  RunInv(r)'
<1> USE DEF Local
<1>1. RunEpochs(r)' /\ Progress(r)'
  BY DEF RunInv, RunEpochs, Progress, AtMost
<1>2. Pending(r)' /\ Lands(r)'
  BY DEF RunInv, Pending, Lands, Key, AtMost
<1>3. Holds(r)' /\ Receipt(r)'
  BY DEF RunInv, Holds, Receipt, AtMost
<1>4. Counts(r)' /\ Found(r)' /\ Unresolved(r)'
  BY DEF RunInv, Counts, Found, Unresolved, Key
<1> QED BY <1>1, <1>2, <1>3, <1>4 DEF RunInv, AtMost

\* As RunFrame, for a commit under way.
LEMMA CopyFrame ==
  ASSUME NEW c \in running, CopyInv(c), UNCHANGED CopyLocal(c.run), staged \subseteq staged',
         UNCHANGED <<fence, state, openers>>
  PROVE  CopyInv(c)'
  BY DEF CopyInv, CopyLocal, AtMost, SegmentRows, Key

\* As RunFrame, for a commit applied.
LEMMA AppliedFrame ==
  ASSUME NEW a \in applied, AppliedInv(a), UNCHANGED AppliedLocal(a.run),
         UNCHANGED <<fence, applied, openers>>
  PROVE  AppliedInv(a)'
  BY DEF AppliedInv, AppliedLocal, Key

\* A step of one run that leaves the destination alone, but for more staged, and
\* sends no commit, keeps the invariant where it keeps what is known of that run.
LEMMA LocalStep ==
  ASSUME Inv, TypeOK', NEW r \in Runs,
         \A s \in Runs \ {r} : UNCHANGED Local(s),
         UNCHANGED <<fence, state, published, applied, openers, running>>,
         staged \subseteq staged',
         RunInv(r)',
         \A c \in running : c.run = r => CopyInv(c)',
         \A a \in applied : a.run = r => AppliedInv(a)',
         \A told \in telling' : AtMost(told, state),
         AtMost(kept', state)
  PROVE  Inv'
<1>1. \A s \in Runs : RunInv(s)'
  BY RunFrame DEF Inv
<1>2. \A c \in running' : CopyInv(c)'
  <2> SUFFICES ASSUME NEW c \in running, c.run # r PROVE CopyInv(c)'
    OBVIOUS
  <2>1. c.run \in Runs \ {r}
    BY DEF Inv, TypeOK, Copies
  <2>2. UNCHANGED CopyLocal(c.run)
    BY <2>1 DEF Local, CopyLocal
  <2> QED BY <2>2, CopyFrame DEF Inv
<1>3. \A a \in applied' : AppliedInv(a)'
  <2> SUFFICES ASSUME NEW a \in applied, a.run # r PROVE AppliedInv(a)'
    OBVIOUS
  <2>1. a.run \in Runs \ {r}
    BY DEF Inv, TypeOK
  <2>2. UNCHANGED AppliedLocal(a.run)
    BY <2>1 DEF Local, AppliedLocal
  <2> QED BY <2>2, AppliedFrame DEF Inv
<1>4. DestInv'
  BY Zenon DEF Inv, DestInv, ExactlyOnce, AtMost
<1>5. SameCopies'
  BY DEF Inv, SameCopies
<1> QED BY <1>1, <1>2, <1>3, <1>4, <1>5 DEF Inv
-----------------------------------------------------------------------------
(***************************************************************************)
(* Keys and their order.                                                   *)
(***************************************************************************)

\* Keys order by epoch, then by place: a strict total order, none before the absent
\* key.
LEMMA KeyOrder ==
  /\ \A k \in OptKeys : k.epoch \in Nat /\ k.seq \in Nat
  /\ \A k \in Keys : k.epoch \in Nat \ {0} /\ k.seq \in Nat \ {0} /\ k \in OptKeys
  /\ \A j, k \in OptKeys : j.epoch = k.epoch /\ j.seq = k.seq => j = k
  /\ NoKey.epoch = 0 /\ NoKey.seq = 0
  BY DEF OptKeys, Keys, NoKey

\* What TypeOK says of one run.
LEMMA RunTypes ==
  ASSUME TypeOK, NEW r \in Runs
  PROVE  /\ epoch[r] \in Nat /\ seq[r] \in Nat \ {0} /\ after[r] \in OptKeys
         /\ found[r] \in OptKeys /\ unresolved[r] \in OptKeys /\ fence.landed \in OptKeys
         /\ fence.epoch \in Nat
         /\ read[r] \in Positions /\ sealed[r] \in Positions /\ flushed[r] \in Positions
         /\ taken[r] \in Positions /\ owed[r] \in Positions /\ state \in Positions
         /\ counted[r] \subseteq Keys
  BY DEF TypeOK, Fences

\* The next commit of an open attempt is keyed past the key it expects landed.
LEMMA NextKey ==
  ASSUME TypeOK, NEW r \in Runs, RunInv(r), stage[r] \in Open
  PROVE  Key(r) \in Keys /\ Before(after[r], Key(r))
<1>1. Key(r) \in Keys
  BY RunTypes DEF RunInv, RunEpochs, Key, Keys
<1>2. Before(after[r], Key(r))
  BY RunTypes, KeyOrder DEF RunInv, Progress, Key, Before
<1> QED BY <1>1, <1>2

\* Past its first commit, an attempt expects landed the one before.
LEMMA AfterFirst ==
  ASSUME NEW r \in Runs, RunInv(r), stage[r] \in Open, seq[r] > 1
  PROVE  after[r].epoch = epoch[r] /\ after[r].seq = seq[r] - 1
  BY DEF RunInv, Progress

\* Within a session the order is that of places.
LEMMA SameEpoch ==
  \A j, k \in OptKeys : Before(j, k) /\ j.epoch = k.epoch => j.seq < k.seq
  BY KeyOrder DEF Before

\* The order is strict and total.
LEMMA KeyTotal ==
  /\ \A k \in OptKeys : ~Before(k, k)
  /\ \A j, k, l \in OptKeys : Before(j, k) /\ Before(k, l) => Before(j, l)
  /\ \A j, k, l \in OptKeys : ~Before(k, j) /\ Before(k, l) => Before(j, l)
  /\ \A j, k \in OptKeys : j # k /\ ~Before(j, k) => Before(k, j)
<1>1. \A k \in OptKeys : ~Before(k, k)
  BY KeyOrder DEF Before
<1>2. \A j, k, l \in OptKeys : Before(j, k) /\ Before(k, l) => Before(j, l)
  BY KeyOrder DEF Before
<1>3. \A j, k \in OptKeys : j # k /\ ~Before(j, k) => Before(k, j)
  BY KeyOrder DEF Before
<1> QED BY <1>1, <1>2, <1>3

\* What TypeOK says of a commit under way and of one applied.
LEMMA CopyTypes ==
  ASSUME TypeOK, NEW c \in running
  PROVE  /\ c.run \in Runs /\ c.session \in Nat \ {0} /\ c.meta \in Metas
         /\ c.meta.key \in Keys /\ c.meta.after \in OptKeys
         /\ c.meta.from \in Positions /\ c.meta.to \in Positions
  BY DEF TypeOK, Copies, Metas

LEMMA AppliedTypes ==
  ASSUME TypeOK, NEW a \in applied PROVE a.run \in Runs /\ a.key \in Keys
  BY DEF TypeOK

\* No two runs opened one epoch.
LEMMA OneOpener ==
  ASSUME Inv, NEW r \in Runs, NEW s \in Runs, NEW e \in 1..fence.epoch,
         r \in openers[e], s \in openers[e]
  PROVE  r = s
<1>1. fence.epoch \in Nat /\ fence.epoch <= MaxEpoch
  <2>1. fence \in Fences
    BY DEF Inv, TypeOK
  <2>2. fence.epoch <= MaxEpoch
    BY DEF Inv, DestInv
  <2> QED BY <2>1, <2>2 DEF Fences
<1>2. e \in 1..MaxEpoch
  BY <1>1, ConstantsAssumption
<1> QED BY <1>2 DEF Inv, DestInv
-----------------------------------------------------------------------------
(***************************************************************************)
(* Reading, sealing and staging.                                           *)
(***************************************************************************)

\* A step that only moves what a run has read, sealed or flushed keeps what is
\* known of its commits.
LEMMA ReadingStep ==
  ASSUME Inv, TypeOK', NEW r \in Runs, stage[r] \in Open,
         \A s \in Runs \ {r} : read'[s] = read[s] /\ sealed'[s] = sealed[s] /\ flushed'[s] = flushed[s],
         UNCHANGED <<stage, runVars, tryVars, sessVars, owed, running, srcVars>>,
         UNCHANGED <<fence, state, published, applied, openers>>,
         staged \subseteq staged',
         AtMost(sealed[r], sealed'[r]), AtMost(sealed'[r], read'[r]), AtMost(flushed[r], flushed'[r]),
         epoch[r] = fence.epoch =>
           \A w \in RowIds : state[w[1]] < w[2] /\ w[2] <= flushed'[r][w[1]] => <<epoch[r], w>> \in staged'
  PROVE  Inv'
<1> USE DEF runVars, tryVars, sessVars, srcVars
<1>1. \A s \in Runs \ {r} : UNCHANGED Local(s)
  BY DEF Local
<1>0. \A f, g, h \in Positions : AtMost(f, g) /\ AtMost(g, h) => AtMost(f, h)
  BY ConstantsAssumption DEF AtMost, Positions
<1>2. RunInv(r)'
  <2>1. RunEpochs(r)' /\ Lands(r)' /\ Receipt(r)' /\ Counts(r)' /\ Found(r)' /\ Unresolved(r)'
    BY DEF Inv, RunInv, RunEpochs, Lands, Receipt, Counts, Found, Unresolved, Key, AtMost
  <2>2. /\ taken[r] \in Positions /\ sealed[r] \in Positions /\ sealed'[r] \in Positions
        /\ flushed[r] \in Positions /\ flushed'[r] \in Positions
    BY DEF Inv, TypeOK
  <2>3. Progress(r)'
    <3>1. AtMost(taken[r], sealed'[r]) /\ AtMost(taken[r], flushed'[r])
      BY Zenon, <2>2, <1>0 DEF Inv, RunInv, Progress
    <3> QED BY <3>1 DEF Inv, RunInv, Progress, AtMost
  <2>4. Pending(r)'
    <3>1. stage[r] \in InFlight => pending[r].to \in Positions
      BY Zenon DEF Inv, RunInv, Pending, Metas
    <3>2. stage[r] \in InFlight => AtMost(pending[r].to, sealed'[r])
      BY <2>2, <3>1, <1>0 DEF Inv, RunInv, Pending
    <3>3. stage[r] \in Sent => AtMost(pending[r].to, flushed'[r])
      BY <2>2, <3>1, <1>0 DEF Inv, RunInv, Pending, Sent, InFlight
    <3> QED BY <3>2, <3>3 DEF Inv, RunInv, Pending, Key, AtMost
  <2>5. Holds(r)'
    BY DEF Inv, RunInv, Holds
  <2> QED BY <2>1, <2>3, <2>4, <2>5 DEF Inv, RunInv, AtMost
<1>3. \A c \in running : c.run = r => CopyInv(c)'
  BY CopyFrame DEF Inv, CopyLocal
<1>4. \A a \in applied : a.run = r => AppliedInv(a)'
  BY AppliedFrame DEF Inv, AppliedLocal
<1> QED BY <1>1, <1>2, <1>3, <1>4, LocalStep DEF Inv, DestInv

LEMMA ReadStep ==
  ASSUME Inv, TypeOK', NEW r \in Runs, NEW p \in Partitions, Read(r, p) PROVE Inv'
<1>1. /\ read' \in [Runs -> Positions] /\ read \in [Runs -> Positions]
      /\ sealed \in [Runs -> Positions] /\ flushed \in [Runs -> Positions]
  BY DEF Inv, TypeOK
<1>2. \A q \in Partitions : read[r][q] <= read'[r][q]
  BY <1>1, ConstantsAssumption DEF Read, Positions
<1>3. \A q \in Partitions : sealed[r][q] <= read[r][q]
  BY Zenon DEF Inv, RunInv, Progress, Read, AtMost
<1>4. AtMost(sealed[r], read'[r]) /\ AtMost(sealed[r], sealed[r]) /\ AtMost(flushed[r], flushed[r])
  BY <1>1, <1>2, <1>3, ConstantsAssumption DEF AtMost, Positions
<1>5. \A s \in Runs \ {r} : read'[s] = read[s]
  BY <1>1 DEF Read
<1>6. epoch[r] = fence.epoch =>
        \A w \in RowIds : state[w[1]] < w[2] /\ w[2] <= flushed[r][w[1]] => <<epoch[r], w>> \in staged
  BY DEF Inv, RunInv, Holds, Read
<1> QED BY <1>4, <1>5, <1>6, ReadingStep DEF Read, destVars

LEMMA SealStep ==
  ASSUME Inv, TypeOK', NEW r \in Runs, NEW p \in Partitions, Seal(r, p) PROVE Inv'
<1>1. /\ sealed' \in [Runs -> Positions] /\ read \in [Runs -> Positions]
      /\ sealed \in [Runs -> Positions] /\ flushed \in [Runs -> Positions]
  BY DEF Inv, TypeOK
<1>2. \A q \in Partitions : sealed[r][q] <= read[r][q]
  BY Zenon DEF Inv, RunInv, Progress, Seal, AtMost
<1>3. \A q \in Partitions : sealed'[r][q] = IF q = p THEN read[r][p] ELSE sealed[r][q]
  BY <1>1 DEF Seal, Positions
<1>4. AtMost(sealed[r], sealed'[r]) /\ AtMost(sealed'[r], read[r]) /\ AtMost(flushed[r], flushed[r])
  <2>1. \A q \in Partitions : sealed[r][q] \in Int /\ read[r][q] \in Int /\ flushed[r][q] \in Int
    BY <1>1, ConstantsAssumption DEF Positions
  <2> QED BY <2>1, <1>2, <1>3 DEF AtMost
<1>5. \A s \in Runs \ {r} : sealed'[s] = sealed[s]
  BY <1>1 DEF Seal
<1>6. epoch[r] = fence.epoch =>
        \A w \in RowIds : state[w[1]] < w[2] /\ w[2] <= flushed[r][w[1]] => <<epoch[r], w>> \in staged
  BY DEF Inv, RunInv, Holds, Seal
<1> QED BY <1>4, <1>5, <1>6, ReadingStep DEF Seal, destVars

\* A lane that flushes stages what it holds, or finds its session fenced.
LEMMA FlushLaneStep ==
  ASSUME Inv, TypeOK', NEW r \in Runs, NEW p \in Partitions, FlushLane(r, p),
         fence.epoch = epoch[r]
  PROVE  Inv'
<1>0. /\ flushed' \in [Runs -> Positions] /\ read \in [Runs -> Positions]
      /\ sealed \in [Runs -> Positions] /\ flushed \in [Runs -> Positions]
  BY DEF Inv, TypeOK
<1>1. PICK upto \in (flushed[r][p] + 1)..read[r][p] :
        /\ staged' = staged \cup {<<epoch[r], <<p, i>>>> : i \in (flushed[r][p] + 1)..upto}
        /\ flushed' = [flushed EXCEPT ![r][p] = upto]
        /\ UNCHANGED <<stage, runVars, read, sealed, tryVars, sessVars, owed, fence, state,
                       published, applied, openers, running, srcVars>>
  BY DEF FlushLane
<1>2. \A q \in Partitions :
        /\ sealed[r][q] \in Int /\ read[r][q] \in Int /\ flushed[r][q] \in Int
        /\ flushed'[r][q] = IF q = p THEN upto ELSE flushed[r][q]
  <2>1. \A q \in Partitions : sealed[r][q] \in Int /\ read[r][q] \in Int /\ flushed[r][q] \in Int
    BY Zenon, <1>0, PositionTypes
  <2>2. \A q \in Partitions : flushed'[r][q] = IF q = p THEN upto ELSE flushed[r][q]
    BY <1>0, <1>1 DEF Positions
  <2> QED BY Zenon, <2>1, <2>2
<1>3. AtMost(flushed[r], flushed'[r]) /\ AtMost(sealed[r], sealed[r])
  BY <1>1, <1>2 DEF AtMost
<1>4. AtMost(sealed[r], read[r])
  BY Zenon DEF Inv, RunInv, Progress, FlushLane
<1>5. \A w \in RowIds : state[w[1]] < w[2] /\ w[2] <= flushed'[r][w[1]] => <<epoch[r], w>> \in staged'
  <2> SUFFICES ASSUME NEW w \in RowIds, state[w[1]] < w[2], w[2] <= flushed'[r][w[1]]
               PROVE  <<epoch[r], w>> \in staged'
    OBVIOUS
  <2>1. w = <<w[1], w[2]>> /\ w[1] \in Partitions /\ w[2] \in Int
    BY DEF RowIds
  <2>2. CASE w[2] <= flushed[r][w[1]]
    BY <2>2, <1>1 DEF Inv, RunInv, Holds, FlushLane
  <2>3. CASE ~(w[2] <= flushed[r][w[1]])
    <3>1. w[1] = p /\ w[2] \in (flushed[r][p] + 1)..upto
      BY <2>1, <2>3, <1>2
    <3> QED BY <3>1, <2>1, <1>1
  <2> QED BY <2>2, <2>3
<1>6. \A s \in Runs \ {r} : flushed'[s] = flushed[s]
  BY <1>0, <1>1
<1> QED BY <1>1, <1>3, <1>4, <1>5, <1>6, ReadingStep DEF FlushLane
=============================================================================
