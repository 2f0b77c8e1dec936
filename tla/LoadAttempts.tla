---------------------------- MODULE LoadAttempts ----------------------------
(***************************************************************************)
(* The steps of an attempt between its commits, and those that end it,     *)
(* keep the inductive invariant.                                           *)
(***************************************************************************)
EXTENDS LoadFrames, FiniteSetTheorems

-----------------------------------------------------------------------------
(***************************************************************************)
(* Steps of a run between its commits.                                     *)
(***************************************************************************)

LEMMA CollectStep ==
  ASSUME Inv, TypeOK', NEW r \in Runs, Collect(r) PROVE Inv'
<1>0. stage \in [Runs -> Stages] /\ pending \in [Runs -> Metas \cup {NoMeta}] /\ TypeOK /\ RunInv(r)
  BY Zenon DEF Inv, TypeOK
<1>u. /\ UNCHANGED <<unresolved, counted, commits, read, sealed, flushed, tries, answer>>
      /\ UNCHANGED <<epoch, found, seq, after, taken, owed>>
      /\ UNCHANGED <<fence, state, published, staged, applied, openers, running, telling, kept>>
  BY DEF Collect, runVars, readVars, sessVars, destVars, srcVars
<1>1. /\ stage[r] = "loading" /\ stage'[r] = "flushing"
      /\ pending'[r] = [key |-> Key(r), after |-> after[r], from |-> taken[r], to |-> sealed[r]]
  BY <1>0 DEF Collect
<1>s. /\ stage[r] \in Open /\ stage'[r] \in Open /\ stage'[r] # "crashed" /\ stage'[r] # "succeeded"
      /\ stage[r] \notin InFlight /\ stage[r] \notin Sent /\ stage'[r] \in InFlight /\ stage'[r] \notin Sent
      /\ stage'[r] # "resending" /\ stage'[r] # "committing" /\ stage[r] # "crashed"
  BY <1>1 DEF Open, InFlight, Sent
<1>p. /\ pending'[r].key = Key(r) /\ pending'[r].after = after[r]
      /\ pending'[r].from = taken[r] /\ pending'[r].to = sealed[r]
  BY <1>1
<1>2. \A s \in Runs \ {r} : UNCHANGED Local(s)
  <2>1. \A s \in Runs \ {r} : stage'[s] = stage[s] /\ pending'[s] = pending[s]
    BY <1>0 DEF Collect
  <2> QED BY <1>u, <2>1 DEF Local
<1>3. Key(r)' = Key(r)
  BY <1>u DEF Key
<1>4. RunInv(r)'
  <2>1. RunEpochs(r)'
    BY <1>0, <1>u, <1>s DEF RunInv, RunEpochs
  <2>2. Progress(r)'
    BY <1>0, <1>u, <1>s DEF RunInv, Progress, AtMost
  <2>3. Pending(r)'
    <3>1. pending'[r] \in Metas
      <4>1. Key(r) \in Keys
        BY <1>0, <1>s, NextKey
      <4> QED BY <1>0, <1>1, <4>1, RunTypes DEF Metas
    <3>2. AtMost(taken[r], sealed[r])
      BY <1>0, <1>s DEF RunInv, Progress
    <3>3. AtMost(sealed[r], sealed[r])
      BY <1>0, RunTypes, ConstantsAssumption DEF AtMost, Positions
    <3>4. AtMost(taken[r], pending[r].to)' /\ AtMost(pending[r].to, sealed[r])'
      BY <1>u, <1>p, <3>2, <3>3 DEF AtMost
    <3> QED BY <1>u, <1>p, <1>s, <1>3, <3>1, <3>4 DEF Pending
  <2>4. fence.landed # Key(r)
    BY <1>0, <1>s, RunTypes DEF RunInv, Lands, Key
  <2>5. Lands(r)'
    BY <1>0, <1>u, <1>p, <1>s, <2>4 DEF RunInv, Lands
  <2>6. Holds(r)'
    BY <1>0, <1>u, <1>s DEF RunInv, Holds
  <2>7. Receipt(r)'
    BY <1>s DEF Receipt
  <2>8. Counts(r)' /\ Found(r)' /\ Unresolved(r)'
    BY <1>0, <1>u, <1>s, <1>3 DEF RunInv, Counts, Found, Unresolved
  <2> QED BY <1>0, <1>u, <1>s, <2>1, <2>2, <2>3, <2>5, <2>6, <2>7, <2>8 DEF RunInv, AtMost
<1>5. \A c \in running : c.run = r => CopyInv(c)'
  BY <1>u, <1>s, <1>3 DEF Inv, CopyInv, SegmentRows, AtMost
<1>6. \A a \in applied : a.run = r => AppliedInv(a)'
  BY <1>u, <1>s, <1>3 DEF Inv, AppliedInv
<1> QED BY <1>u, <1>2, <1>4, <1>5, <1>6, LocalStep DEF Inv, DestInv

\* A step that moves a run to another stage of the same standing, and the rest of
\* it not at all but for what it owes, keeps the invariant.
LEMMA RestageStep ==
  ASSUME Inv, TypeOK', NEW r \in Runs, NEW new \in Stages,
         stage' = [stage EXCEPT ![r] = new],
         new \in Open <=> stage[r] \in Open,
         new \in InFlight <=> stage[r] \in InFlight,
         new \in Sent <=> stage[r] \in Sent,
         new \notin {"committing", "crashed", "succeeded"}, stage[r] # "crashed",
         new = "resending" => tries[r] < Attempts,
         AtMost(owed'[r], state),
         \A s \in Runs \ {r} : owed'[s] = owed[s],
         UNCHANGED <<runVars, readVars, tryVars, sessVars, destVars, running>>,
         \A told \in telling' : AtMost(told, state),
         AtMost(kept', state)
  PROVE  Inv'
<1> USE DEF runVars, readVars, tryVars, sessVars, destVars
<1>0. stage \in [Runs -> Stages]
  BY DEF Inv, TypeOK
<1>1. stage'[r] = new /\ Key(r)' = Key(r)
  BY <1>0 DEF Key
<1>2. \A s \in Runs \ {r} : UNCHANGED Local(s)
  BY <1>0 DEF Local
<1>3. RunInv(r)'
  <2>0. RunInv(r)
    BY DEF Inv
  <2>1. RunEpochs(r)' /\ Progress(r)'
    BY <2>0, <1>1 DEF RunInv, RunEpochs, Progress, AtMost
  <2>2. Pending(r)'
    BY <2>0, <1>1 DEF RunInv, Pending, AtMost
  <2>3. Lands(r)' /\ Holds(r)' /\ Receipt(r)'
    BY <2>0, <1>1 DEF RunInv, Lands, Holds, Receipt
  <2>4. Counts(r)' /\ Found(r)' /\ Unresolved(r)'
    BY <2>0, <1>1 DEF RunInv, Counts, Found, Unresolved
  <2> QED BY <1>1, <2>1, <2>2, <2>3, <2>4 DEF RunInv, AtMost
<1>4. \A c \in running : c.run = r => CopyInv(c)'
  <2> SUFFICES ASSUME NEW c \in running, c.run = r PROVE CopyInv(c)'
    OBVIOUS
  <2> QED BY <1>1 DEF Inv, CopyInv, SegmentRows, AtMost
<1>5. \A a \in applied : a.run = r => AppliedInv(a)'
  BY <1>1 DEF Inv, AppliedInv
<1> QED BY <1>2, <1>3, <1>4, <1>5, LocalStep

\* What the source is told of, now or late, is committed.
LEMMA HearsKept ==
  ASSUME Inv, NEW told \in Positions, AtMost(told, state), Hears(told)
  PROVE  AtMost(kept', state)
<1>1. kept \in Positions /\ state \in Positions /\ AtMost(kept, state)
  BY DEF Inv, TypeOK, DestInv
<1>2. \A p \in Partitions : kept[p] \in Int /\ state[p] \in Int /\ told[p] \in Int
  BY <1>1, ConstantsAssumption DEF Positions
<1> QED BY <1>1, <1>2 DEF AtMost, Hears, Max2

LEMMA ReportedStep ==
  ASSUME Inv, TypeOK', NEW r \in Runs, Reported(r) PROVE Inv'
<1>1. stage[r] = "reporting" /\ owed \in [Runs -> Positions] /\ owed[r] \in Positions
      /\ state \in Positions /\ AtMost(owed[r], state)
  BY DEF Reported, Inv, TypeOK, RunInv
<1>2. owed'[r] = Zero /\ \A s \in Runs \ {r} : owed'[s] = owed[s]
  BY <1>1 DEF Reported
<1>3. AtMost(Zero, state)
  BY <1>1, ConstantsAssumption DEF AtMost, Zero, Positions
<1>4. AtMost(kept', state)
  BY <1>1, HearsKept DEF Reported
<1>5. \A told \in telling' : AtMost(told, state)
  BY DEF Reported, Inv, DestInv
<1>6. stage' = [stage EXCEPT ![r] = "loading"]
      /\ UNCHANGED <<runVars, readVars, tryVars, sessVars, destVars, running>>
  BY DEF Reported
<1>7. "loading" \in Stages
  BY DEF Stages, Open
<1> QED BY Zenon, <1>1, <1>2, <1>3, <1>4, <1>5, <1>6, <1>7, RestageStep DEF Open, InFlight, Sent

LEMMA ReportFailsStep ==
  ASSUME Inv, TypeOK', NEW r \in Runs, ReportFails(r) PROVE Inv'
<1>0. owed \in [Runs -> Positions] /\ state \in Positions
  BY DEF Inv, TypeOK
<1>1. stage[r] = "reporting" /\ AtMost(owed[r], state)
  BY DEF ReportFails, Inv, RunInv
<1>2. PICK dropped \in SUBSET Partitions :
        owed' = [owed EXCEPT ![r] =
          [p \in Partitions |-> IF p \in dropped THEN 0 ELSE owed[r][p]]]
  BY Zenon DEF ReportFails
<1>3. AtMost(owed'[r], state) /\ \A s \in Runs \ {r} : owed'[s] = owed[s]
  BY <1>0, <1>1, <1>2, ConstantsAssumption DEF AtMost, Positions
<1>4. /\ \A told \in telling' : AtMost(told, state)
      /\ AtMost(kept', state)
  BY <1>1 DEF ReportFails, Inv, DestInv
<1>5. stage' = [stage EXCEPT ![r] = "loading"]
      /\ UNCHANGED <<runVars, readVars, tryVars, sessVars, destVars, running>>
  BY DEF ReportFails
<1>6. "loading" \in Stages
  BY DEF Stages, Open
<1> QED BY Zenon, <1>1, <1>3, <1>4, <1>5, <1>6, RestageStep DEF Open, InFlight, Sent

LEMMA ReportAgainStep ==
  ASSUME Inv, TypeOK', NEW r \in Runs, ReportAgain(r) PROVE Inv'
<1>1. stage[r] = "loading" /\ UNCHANGED owed /\ AtMost(owed[r], state)
  BY DEF ReportAgain, Inv, RunInv
<1>2. /\ \A told \in telling' : AtMost(told, state)
      /\ AtMost(kept', state)
  BY <1>1 DEF ReportAgain, Inv, DestInv, srcVars
<1>3. stage' = [stage EXCEPT ![r] = "reporting"]
      /\ UNCHANGED <<runVars, readVars, tryVars, sessVars, destVars, running>>
  BY DEF ReportAgain
<1>4. "reporting" \in Stages
  BY DEF Stages, Open
<1> QED BY Zenon, <1>1, <1>2, <1>3, <1>4, RestageStep DEF Open, InFlight, Sent

LEMMA OpenRefusedStep ==
  ASSUME Inv, TypeOK', NEW r \in Runs, OpenRefused(r) PROVE Inv'
<1>1. stage[r] = "idle" /\ UNCHANGED owed /\ AtMost(owed[r], state)
  BY DEF OpenRefused, Inv, RunInv
<1>2. /\ \A told \in telling' : AtMost(told, state)
      /\ AtMost(kept', state)
  BY <1>1 DEF OpenRefused, Inv, DestInv, srcVars
<1>3. stage' = [stage EXCEPT ![r] = "failed"]
      /\ UNCHANGED <<runVars, readVars, tryVars, sessVars, destVars, running>>
  BY DEF OpenRefused
<1>4. "failed" \in Stages
  BY DEF Stages, Ended
<1> QED BY Zenon, <1>1, <1>2, <1>3, <1>4, RestageStep DEF Open, InFlight, Sent

\* A transient answer with tries left.
LEMMA ResendsStep ==
  ASSUME Inv, TypeOK', NEW r \in Runs, AnswersTransiently(r), tries[r] < Attempts
  PROVE  Inv'
<1>1. stage[r] = "committing" /\ UNCHANGED owed /\ AtMost(owed[r], state)
  BY DEF AnswersTransiently, TriesLeft, Inv, RunInv
<1>2. /\ \A told \in telling' : AtMost(told, state)
      /\ AtMost(kept', state)
  BY <1>1 DEF AnswersTransiently, TriesLeft, Inv, DestInv, srcVars
<1>3. stage' = [stage EXCEPT ![r] = "resending"]
      /\ UNCHANGED <<runVars, readVars, tryVars, sessVars, destVars, running>>
  BY DEF AnswersTransiently, TriesLeft
<1>4. "resending" \in Stages
  BY DEF Stages, Open, InFlight
<1> QED BY Zenon, <1>1, <1>2, <1>3, <1>4, RestageStep DEF Open, InFlight, Sent

LEMMA HearsLateStep ==
  ASSUME Inv, TypeOK', NEW told \in telling, HearsLate(told) PROVE Inv'
<1>1. told \in Positions /\ AtMost(told, state)
  BY DEF Inv, TypeOK, DestInv
<1>2. AtMost(kept', state)
  BY <1>1, HearsKept DEF HearsLate
<1>3. \A late \in telling' : AtMost(late, state)
  BY DEF HearsLate, Inv, DestInv
<1>4. UNCHANGED <<stage, runVars, readVars, tryVars, sessVars, owed, destVars, running>>
  BY DEF HearsLate
<1>5. \A r \in Runs : RunInv(r)'
  BY <1>4, RunFrame DEF Inv, Local, runVars, readVars, tryVars, sessVars, destVars
<1>6. \A c \in running' : CopyInv(c)'
  BY <1>4, CopyFrame DEF Inv, CopyLocal, runVars, tryVars, sessVars, destVars
<1>7. \A a \in applied' : AppliedInv(a)'
  BY <1>4, AppliedFrame DEF Inv, AppliedLocal, runVars, tryVars, sessVars, destVars
<1>8. DestInv'
  BY Zenon, <1>2, <1>3, <1>4 DEF Inv, DestInv, ExactlyOnce, AtMost, destVars
<1> QED BY <1>4, <1>5, <1>6, <1>7, <1>8 DEF Inv, SameCopies
-----------------------------------------------------------------------------
(***************************************************************************)
(* Steps that end an attempt.                                              *)
(***************************************************************************)

\* What an attempt that ends leaves of its run.
LEMMA DropFacts ==
  ASSUME TypeOK, NEW r \in Runs, Drop(r)
  PROVE  /\ owed'[r] = Zero
         /\ \A s \in Runs \ {r} :
              /\ epoch'[s] = epoch[s] /\ found'[s] = found[s] /\ seq'[s] = seq[s]
              /\ after'[s] = after[s] /\ read'[s] = read[s] /\ sealed'[s] = sealed[s]
              /\ flushed'[s] = flushed[s] /\ taken'[s] = taken[s] /\ pending'[s] = pending[s]
              /\ tries'[s] = tries[s] /\ answer'[s] = answer[s] /\ owed'[s] = owed[s]
  BY DEF TypeOK, Drop

\* The commit found landed that a run left unresolved is the run's own.
LEMMA CreditsOwn ==
  ASSUME Inv, NEW r \in Runs, stage[r] \in Open, Credits(r)
  PROVE  [key |-> unresolved[r], run |-> r] \in applied
<1>1. PICK s \in Runs : [key |-> unresolved[r], run |-> s] \in applied
  BY DEF Credits, Inv, RunInv, Found
<1>2. s \in openers[unresolved[r].epoch]
  BY <1>1 DEF Inv, AppliedInv
<1>3. unresolved[r].epoch \in 1..fence.epoch /\ r \in openers[unresolved[r].epoch]
  BY DEF Credits, Inv, RunInv, RunEpochs
<1> QED BY <1>1, <1>2, <1>3, OneOpener

\* A commit left unresolved that the open did not find landed, though it had, was
\* landed over by another run.
LEMMA LandedOver ==
  ASSUME Inv, NEW r \in Runs, stage[r] \in Open, ~Credits(r),
         NEW a \in applied, a.run = r, unresolved[r] = a.key
  PROVE  \E b \in applied : b.run # r /\ Before(a.key, b.key)
<1>0. a.key \in Keys /\ a.key \in OptKeys /\ a.key # NoKey /\ found[r] \in OptKeys
  BY AppliedTypes, RunTypes, KeyOrder DEF Inv
<1>1. a.key.epoch < epoch[r]
  BY <1>0 DEF Inv, RunInv, RunEpochs
<1>2. Before(a.key, found[r])
  <2>1. found[r] # a.key /\ ~Before(found[r], a.key)
    BY <1>0, <1>1 DEF Credits, Inv, RunInv, Found
  <2> QED BY <2>1, <1>0, KeyTotal
<1>3. found[r] # NoKey
  BY <1>0, <1>2, KeyOrder DEF Before
<1>4. PICK s \in Runs : [key |-> found[r], run |-> s] \in applied
  BY <1>3 DEF Inv, RunInv, Found
<1>5. s # r
  <2> SUFFICES ASSUME s = r PROVE FALSE
    OBVIOUS
  <2>1. found[r].epoch = epoch[r]
    BY <1>0, <1>2, <1>4 DEF Inv, RunInv, Unresolved
  <2>2. found[r].epoch < epoch[r] /\ epoch[r] \in Nat
    BY RunTypes DEF Inv, RunInv, Found
  <2> QED BY <2>1, <2>2
<1> QED BY <1>2, <1>4, <1>5

\* An attempt that ends, having opened, keeps the invariant.
LEMMA EndStep ==
  ASSUME Inv, TypeOK', NEW r \in Runs, stage[r] \in Open,
         NEW new \in Stages, new \notin Open, new # "crashed",
         stage' = [stage EXCEPT ![r] = new],
         Credit(r),
         unresolved' = [unresolved EXCEPT ![r] =
           IF stage[r] \in InFlight THEN pending[r].key ELSE NoKey],
         Drop(r),
         new = "succeeded" => \A p \in Partitions : state[p] = Rows,
         UNCHANGED <<destVars, running, srcVars>>
  PROVE  Inv'
<1>u. UNCHANGED <<fence, state, published, staged, applied, openers, running, telling, kept>>
  BY DEF destVars, srcVars
<1>0. /\ stage \in [Runs -> Stages] /\ unresolved \in [Runs -> OptKeys]
      /\ counted \in [Runs -> SUBSET Keys] /\ commits \in [Runs -> Nat]
      /\ TypeOK /\ RunInv(r)
  BY Zenon DEF Inv, TypeOK
<1>1. /\ stage'[r] = new
      /\ unresolved'[r] = IF stage[r] \in InFlight THEN pending[r].key ELSE NoKey
      /\ counted'[r] = IF Credits(r) THEN counted[r] \cup {unresolved[r]} ELSE counted[r]
      /\ commits'[r] = IF Credits(r) THEN commits[r] + 1 ELSE commits[r]
      /\ owed'[r] = Zero
  BY Zenon, <1>0, DropFacts DEF Credit
<1>2. \A s \in Runs \ {r} : UNCHANGED Local(s)
  <2>1. SUFFICES ASSUME NEW s \in Runs \ {r} PROVE UNCHANGED Local(s)
    OBVIOUS
  <2>2. s \in Runs /\ s # r
    OBVIOUS
  <2>3. /\ stage'[s] = stage[s] /\ unresolved'[s] = unresolved[s]
        /\ counted'[s] = counted[s] /\ commits'[s] = commits[s]
    BY Zenon, <1>0, <2>2 DEF Credit
  <2>4. /\ epoch'[s] = epoch[s] /\ found'[s] = found[s] /\ seq'[s] = seq[s]
        /\ after'[s] = after[s] /\ read'[s] = read[s] /\ sealed'[s] = sealed[s]
        /\ flushed'[s] = flushed[s] /\ taken'[s] = taken[s] /\ pending'[s] = pending[s]
        /\ tries'[s] = tries[s] /\ answer'[s] = answer[s] /\ owed'[s] = owed[s]
    BY Zenon, <1>0, <2>1, DropFacts
  <2> QED BY Zenon, <2>3, <2>4 DEF Local
<1>3. new \notin InFlight /\ new \notin Sent /\ new # "committing" /\ new # "resending"
  BY DEF Open, InFlight, Sent
<1>4. stage[r] \in InFlight =>
        pending[r].key = Key(r) /\ Key(r) \in Keys /\ pending[r].key \in OptKeys
  BY <1>0, NextKey, KeyOrder DEF RunInv, Pending
<1>5. RunInv(r)'
  <2>1. RunEpochs(r)'
    <3>1. epoch[r] \in 1..fence.epoch /\ r \in openers[epoch[r]]
      BY <1>0 DEF RunInv, RunEpochs
    <3>2. Key(r).epoch = epoch[r]
      BY DEF Key
    <3>3. stage'[r] \notin Open
      BY <1>1
    <3>4. unresolved'[r] # NoKey => unresolved'[r].epoch = epoch[r]
      BY <1>1, <1>4, <3>2
    <3> QED BY <1>u, <3>1, <3>3, <3>4 DEF RunEpochs
  <2>2. Progress(r)' /\ Pending(r)' /\ Lands(r)' /\ Holds(r)' /\ Receipt(r)' /\ Found(r)'
    BY <1>1, <1>3 DEF Progress, Pending, Lands, Holds, Receipt, Found
  <2>3. Counts(r)'
    <3>1. IsFiniteSet(counted[r]) /\ commits[r] = Cardinality(counted[r])
          /\ unresolved[r] \notin counted[r]
      BY <1>0 DEF RunInv, Counts
    <3>2. IsFiniteSet(counted'[r]) /\ commits'[r] = Cardinality(counted'[r])
      <4>1. /\ IsFiniteSet(counted[r] \cup {unresolved[r]})
            /\ Cardinality(counted[r] \cup {unresolved[r]}) = Cardinality(counted[r]) + 1
        BY Zenon, <3>1, FS_AddElement
      <4> QED BY <1>1, <3>1, <4>1
    <3>3. NoKey \notin Keys
      BY KeyOrder
    <3>4. unresolved'[r] \notin counted'[r]
      <4>1. CASE stage[r] \in InFlight
        <5>1. Key(r) \notin counted[r]
          BY Zenon, <1>0, <1>4, <4>1, KeyTotal, KeyOrder DEF RunInv, Counts
        <5>2. unresolved[r] # Key(r)
          <6>1. unresolved[r] # NoKey => unresolved[r].epoch < epoch[r]
            BY <1>0 DEF RunInv, RunEpochs
          <6>2. epoch[r] \in Nat /\ Key(r).epoch = epoch[r]
            BY <1>0, RunTypes DEF Key
          <6>3. Key(r) # NoKey
            BY <1>4, <4>1, <3>3
          <6>4. epoch[r] \in Int
            BY <6>2
          <6> QED BY Zenon, <6>1, <6>2, <6>3, <6>4, IntOrder
        <5> QED BY <1>1, <1>4, <4>1, <5>1, <5>2
      <4>2. CASE stage[r] \notin InFlight
        BY <1>0, <1>1, <4>2, <3>3 DEF Credits
      <4> QED BY <4>1, <4>2
    <3>5. \A k \in counted'[r] : [key |-> k, run |-> r] \in applied
      BY <1>0, <1>1, CreditsOwn DEF RunInv, Counts
    <3> QED BY <1>u, <1>1, <3>2, <3>4, <3>5 DEF Counts
  <2>4. Unresolved(r)'
    <3> SUFFICES ASSUME stage[r] \in InFlight, NEW a \in applied, a.run = r,
                        Before(Key(r), a.key)
                 PROVE  FALSE
      BY Zenon, <1>u, <1>1, <1>4 DEF Unresolved
    <3>1. a.key \in OptKeys /\ Key(r) \in OptKeys
      BY <1>0, <1>4, AppliedTypes, KeyOrder
    <3>2. Before(a.key, Key(r)) \/ a.key = Key(r)
      BY DEF Inv, AppliedInv
    <3> QED BY <3>1, <3>2, KeyTotal
  <2>5. AtMost(Zero, state)
    BY <1>0, RunTypes, AtMostOrder
  <2>6. AtMost(owed[r], state)'
    BY <1>u, <1>1, <2>5 DEF AtMost
  <2>7. (stage[r] = "succeeded" => \A p \in Partitions : state[p] = Rows)'
    BY <1>u, <1>1
  <2> QED BY <2>1, <2>2, <2>3, <2>4, <2>6, <2>7 DEF RunInv
<1>6. \A c \in running : c.run = r => CopyInv(c)'
  <2> SUFFICES ASSUME NEW c \in running, c.run = r PROVE CopyInv(c)'
    OBVIOUS
  <2>1. CopyInv(c) /\ stage[r] # "crashed"
    BY DEF Inv, Open, InFlight
  <2>2. c.session = fence.epoch /\ Before(fence.landed, c.meta.key) =>
          stage'[r] \notin Open /\ unresolved'[r] = c.meta.key
    BY <1>1, <2>1 DEF CopyInv
  <2> QED BY <1>u, <1>1, <2>1, <2>2 DEF CopyInv, SegmentRows, AtMost
<1>7. \A a \in applied : a.run = r => AppliedInv(a)'
  <2> SUFFICES ASSUME NEW a \in applied, a.run = r PROVE AppliedInv(a)'
    OBVIOUS
  <2>1. AppliedInv(a) /\ stage[r] # "crashed"
    BY DEF Inv, Open, InFlight
  <2>2. \/ a.key \in counted'[r]
        \/ unresolved'[r] = a.key
        \/ \E b \in applied : b.run # r /\ Before(a.key, b.key)
    <3>1. CASE unresolved[r] = a.key /\ ~Credits(r)
      BY <3>1, LandedOver
    <3>2. CASE ~(unresolved[r] = a.key /\ ~Credits(r))
      BY <3>2, <1>1, <2>1 DEF AppliedInv
    <3> QED BY <3>1, <3>2
  <2> QED BY <1>u, <1>1, <2>1, <2>2 DEF AppliedInv
<1> QED BY <1>u, <1>2, <1>5, <1>6, <1>7, LocalStep DEF Inv, DestInv

LEMMA FailsStep ==
  ASSUME Inv, TypeOK', NEW r \in Runs, stage[r] \in Open, NEW b \in BOOLEAN, Fails(r, b),
         UNCHANGED <<destVars, running, srcVars>>
  PROVE  Inv'
<1>1. (IF b THEN "idle" ELSE "failed") \in Stages \ Open
  BY DEF Stages, Ended, Open, InFlight
<1> QED BY Zenon, <1>1, EndStep DEF Fails, LeftInFlight

LEMMA FinishStep ==
  ASSUME Inv, TypeOK', NEW r \in Runs, Finish(r) PROVE Inv'
<1> PICK stopping \in BOOLEAN : /\ stopping \/ \A p \in Partitions : taken[r][p] = Rows
                              /\ Finishes(r, stopping)
  BY DEF Finish
<1> DEFINE new == IF stopping THEN "stopped" ELSE "succeeded"
<1>1. stage[r] \in Open /\ stage[r] \notin InFlight
  BY DEF Finish, Open, InFlight
<1>2. new \in Stages \ Open
  BY DEF Stages, Ended, Open, InFlight
<1>3. new = "succeeded" => \A p \in Partitions : state[p] = Rows
  <2>1. AtMost(taken[r], state) /\ state \in Positions
    BY <1>1 DEF Inv, TypeOK, RunInv, Progress
  <2> QED BY <2>1, ConstantsAssumption DEF AtMost, Positions
<1>4. new # "crashed"
  OBVIOUS
<1> HIDE DEF new
<1>5. stage' = [stage EXCEPT ![r] = new] /\ Credit(r) /\ Drop(r)
      /\ unresolved' = [unresolved EXCEPT ![r] = NoKey]
      /\ UNCHANGED <<destVars, running, srcVars>>
  BY Zenon DEF Finish, Finishes, new
<1> QED BY Zenon, <1>1, <1>2, <1>3, <1>4, <1>5, EndStep

LEMMA CrashStep ==
  ASSUME Inv, TypeOK', NEW r \in Runs, Crash(r) PROVE Inv'
<1>u. UNCHANGED <<fence, state, published, staged, applied, openers, running, telling, kept>>
  BY DEF Crash, destVars, srcVars
<1>0. /\ stage \in [Runs -> Stages] /\ unresolved \in [Runs -> OptKeys]
      /\ counted \in [Runs -> SUBSET Keys] /\ commits \in [Runs -> Nat] /\ TypeOK
  BY Zenon DEF Inv, TypeOK
<1>1. /\ stage'[r] = "crashed" /\ unresolved'[r] = NoKey
      /\ counted'[r] = {} /\ commits'[r] = 0 /\ owed'[r] = Zero
  BY Zenon, <1>0, DropFacts DEF Crash
<1>2. \A s \in Runs \ {r} : UNCHANGED Local(s)
  <2>1. SUFFICES ASSUME NEW s \in Runs \ {r} PROVE UNCHANGED Local(s)
    OBVIOUS
  <2>2. s \in Runs /\ s # r
    OBVIOUS
  <2>3. /\ stage'[s] = stage[s] /\ unresolved'[s] = unresolved[s]
        /\ counted'[s] = counted[s] /\ commits'[s] = commits[s]
    BY Zenon, <1>0, <2>2 DEF Crash
  <2>4. /\ epoch'[s] = epoch[s] /\ found'[s] = found[s] /\ seq'[s] = seq[s]
        /\ after'[s] = after[s] /\ read'[s] = read[s] /\ sealed'[s] = sealed[s]
        /\ flushed'[s] = flushed[s] /\ taken'[s] = taken[s] /\ pending'[s] = pending[s]
        /\ tries'[s] = tries[s] /\ answer'[s] = answer[s] /\ owed'[s] = owed[s]
    BY Zenon, <1>0, <2>1, DropFacts DEF Crash
  <2> QED BY Zenon, <2>3, <2>4 DEF Local
<1>3. "crashed" \notin Open /\ "crashed" \notin InFlight /\ "crashed" \notin Sent
  BY DEF Open, InFlight, Sent
<1>4. RunInv(r)'
  <2>1. RunEpochs(r)' /\ Progress(r)' /\ Pending(r)' /\ Lands(r)' /\ Holds(r)' /\ Receipt(r)'
        /\ Found(r)' /\ Unresolved(r)'
    BY <1>1, <1>3 DEF RunEpochs, Progress, Pending, Lands, Holds, Receipt, Found, Unresolved
  <2>2. Counts(r)'
    BY <1>1, FS_EmptySet DEF Counts
  <2>3. AtMost(Zero, state)
    BY <1>0, RunTypes, AtMostOrder
  <2>4. AtMost(owed[r], state)'
    BY <1>u, <1>1, <2>3 DEF AtMost
  <2> QED BY <1>1, <2>1, <2>2, <2>4 DEF RunInv
<1>5. \A c \in running : c.run = r => CopyInv(c)'
  <2> SUFFICES ASSUME NEW c \in running, c.run = r PROVE CopyInv(c)'
    OBVIOUS
  <2>1. CopyInv(c)
    BY DEF Inv
  <2> QED BY <1>u, <1>1, <1>3, <2>1 DEF CopyInv, SegmentRows, AtMost
<1>6. \A a \in applied : a.run = r => AppliedInv(a)'
  <2> SUFFICES ASSUME NEW a \in applied, a.run = r PROVE AppliedInv(a)'
    OBVIOUS
  <2>1. AppliedInv(a)
    BY DEF Inv
  <2> QED BY <1>u, <1>1, <1>3, <2>1 DEF AppliedInv
<1> QED BY <1>2, <1>4, <1>5, <1>6, <1>u, LocalStep DEF Inv, DestInv
=============================================================================
