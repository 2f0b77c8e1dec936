-------------------------- MODULE LoadDestination ---------------------------
(***************************************************************************)
(* The steps that move the destination, opening a session and executing a  *)
(* commit, keep the inductive invariant.                                   *)
(***************************************************************************)
EXTENDS LoadFrames

-----------------------------------------------------------------------------
(***************************************************************************)
(* Opening: the fence moves, and everything under way is of an older epoch.*)
(***************************************************************************)

\* What a run knows holds past an open of another's, or of its own that was lost.
LEMMA OpenFrame ==
  ASSUME Inv, NEW s \in Runs, UNCHANGED Local(s),
         fence' = [epoch |-> fence.epoch + 1, landed |-> fence.landed],
         \A e \in 1..fence.epoch : openers'[e] = openers[e],
         UNCHANGED <<state, applied>>
  PROVE  RunInv(s)'
<1> USE DEF Local
<1>0. RunInv(s) /\ TypeOK /\ fence.epoch \in Nat /\ fence'.epoch = fence.epoch + 1
      /\ fence'.landed = fence.landed
  BY RunTypes DEF Inv
<1>1. RunEpochs(s)'
  BY <1>0 DEF RunInv, RunEpochs
<1>2. Progress(s)' /\ Pending(s)'
  BY <1>0 DEF RunInv, Progress, Pending, AtMost, Key
<1>3. stage[s] \in Open => epoch[s] # fence'.epoch
  BY <1>0 DEF RunInv, RunEpochs
<1>4. Lands(s)' /\ Holds(s)'
  BY <1>0, <1>3 DEF RunInv, Lands, Holds
<1>5. Receipt(s)'
  <2>1. "committing" \in Open
    BY DEF Open, InFlight
  <2> QED BY <1>0, <1>3, <2>1 DEF RunInv, Receipt, AtMost
<1>6. Counts(s)' /\ Found(s)' /\ Unresolved(s)'
  BY <1>0 DEF RunInv, Counts, Found, Unresolved, Key
<1> QED BY <1>0, <1>1, <1>2, <1>4, <1>5, <1>6 DEF RunInv, AtMost

\* Opening keeps what is known of the destination.
LEMMA OpenDest ==
  ASSUME Inv, NEW r \in Runs, fence.epoch < MaxEpoch,
         fence' = [epoch |-> fence.epoch + 1, landed |-> fence.landed],
         openers' = [openers EXCEPT ![fence.epoch + 1] = {r}],
         UNCHANGED <<state, published, applied, telling, kept>>
  PROVE  DestInv' /\ \A e \in 1..fence.epoch : openers'[e] = openers[e]
<1>0. fence.epoch \in Nat /\ openers \in [1..MaxEpoch -> SUBSET Runs] /\ DestInv
      /\ fence.landed \in OptKeys
  BY DEF Inv, TypeOK, Fences
<1>1. fence'.epoch = fence.epoch + 1 /\ fence'.landed = fence.landed
  OBVIOUS
<1>2. \A e \in 1..MaxEpoch : openers'[e] = IF e = fence.epoch + 1 THEN {r} ELSE openers[e]
  BY <1>0
<1>3. fence'.epoch <= MaxEpoch /\ fence'.landed.epoch <= fence'.epoch
  BY <1>0, <1>1, KeyOrder, ConstantsAssumption DEF DestInv
<1>4. \A e \in 1..MaxEpoch : /\ \A q, s \in openers'[e] : q = s
                             /\ e > fence'.epoch => openers'[e] = {}
  BY <1>0, <1>1, <1>2, ConstantsAssumption DEF DestInv
<1>5. \A e \in 1..fence.epoch : openers'[e] = openers[e]
  BY <1>0, <1>2, ConstantsAssumption
<1> QED BY Zenon, <1>0, <1>1, <1>3, <1>4, <1>5 DEF DestInv, ExactlyOnce, AtMost

\* Commits under way and commits applied, past an open: none is the new epoch's.
LEMMA OpenCalls ==
  ASSUME Inv, NEW r \in Runs, stage[r] = "idle",
         stage'[r] = "idle" \/ (stage'[r] = "loading" /\ epoch'[r] = fence.epoch + 1),
         \A s \in Runs \ {r} : UNCHANGED <<CopyLocal(s), AppliedLocal(s)>>,
         UNCHANGED <<unresolved, counted, pending>>,
         fence' = [epoch |-> fence.epoch + 1, landed |-> fence.landed],
         \A e \in 1..fence.epoch : openers'[e] = openers[e],
         UNCHANGED <<state, applied, running>>
  PROVE  /\ \A c \in running' : CopyInv(c)'
         /\ \A a \in applied' : AppliedInv(a)'
         /\ SameCopies'
<1>0. TypeOK /\ fence.epoch \in Nat /\ fence'.epoch = fence.epoch + 1
      /\ fence'.landed = fence.landed
  BY Zenon DEF Inv, TypeOK, Fences
<1>1. /\ stage[r] \notin Open /\ stage[r] \notin InFlight /\ stage[r] # "crashed"
      /\ stage'[r] \notin InFlight /\ stage'[r] # "crashed"
      /\ stage'[r] \in Open => epoch'[r] = fence.epoch + 1
  BY DEF Open, InFlight
<1>2. ASSUME NEW k \in Keys, k.epoch <= fence.epoch, stage'[r] \in Open
      PROVE  Before(k, Key(r)')
  <2>1. Key(r)'.epoch = fence.epoch + 1
    BY <1>1, <1>2 DEF Key
  <2> QED BY <2>1, <1>0, <1>2, KeyOrder DEF Before
<1>3. ASSUME NEW c \in running PROVE CopyInv(c)'
  <2>1. CopyInv(c) /\ c.run \in Runs /\ c.meta.key \in Keys /\ c.session \in 1..fence.epoch
        /\ c.meta.key.epoch <= fence.epoch
    BY <1>0, CopyTypes DEF Inv, CopyInv
  <2>2. c.session # fence'.epoch /\ c.session <= fence'.epoch /\ c.run \in openers'[c.session]
    BY <1>0, <2>1 DEF CopyInv
  <2>3. stage'[c.run] \in Open =>
          \/ Before(c.meta.key, Key(c.run)')
          \/ /\ c.meta.key = Key(c.run)' /\ stage'[c.run] \in Sent
             /\ c.meta = pending'[c.run]
    <3>1. CASE c.run = r
      BY <3>1, <2>1, <1>2
    <3>2. CASE c.run # r
      BY <3>2, <2>1 DEF CopyInv, CopyLocal, Key
    <3> QED BY <3>1, <3>2
  <2> QED BY <1>0, <2>1, <2>2, <2>3 DEF CopyInv, SegmentRows, AtMost
<1>4. ASSUME NEW a \in applied PROVE AppliedInv(a)'
  <2>1. AppliedInv(a) /\ a.run \in Runs /\ a.key \in Keys /\ a.key.epoch \in 1..fence.epoch
    BY <1>0, AppliedTypes, KeyOrder DEF Inv, AppliedInv
  <2>2. a.key.epoch <= fence'.epoch /\ a.run \in openers'[a.key.epoch]
    BY <1>0, <2>1 DEF AppliedInv
  <2>3. CASE a.run = r
    <3>1. stage'[r] \in Open => Before(a.key, Key(r)')
      BY <2>1, <1>0, <1>2
    <3> QED BY <1>0, <1>1, <2>1, <2>2, <2>3, <3>1 DEF AppliedInv
  <2>4. CASE a.run # r
    BY <1>0, <2>1, <2>2, <2>4 DEF AppliedInv, AppliedLocal, Key
  <2> QED BY <2>3, <2>4
<1> QED BY <1>3, <1>4 DEF Inv, SameCopies

LEMMA OpenLostStep ==
  ASSUME Inv, TypeOK', NEW r \in Runs, OpenLost(r) PROVE Inv'
<1>1. UNCHANGED <<stage, runVars, readVars, tryVars, sessVars, owed, state, published, staged,
                  applied, running, srcVars>>
  BY DEF OpenLost
<1>2. DestInv' /\ \A e \in 1..fence.epoch : openers'[e] = openers[e]
  BY Zenon, <1>1, OpenDest DEF OpenLost, srcVars
<1>3. \A s \in Runs : UNCHANGED Local(s)
  BY <1>1 DEF Local, runVars, readVars, tryVars, sessVars
<1>4. \A s \in Runs : RunInv(s)'
  BY <1>1, <1>2, <1>3, OpenFrame DEF OpenLost
<1>5. /\ \A s \in Runs \ {r} : UNCHANGED <<CopyLocal(s), AppliedLocal(s)>>
      /\ UNCHANGED <<unresolved, counted, pending>>
  BY <1>1 DEF CopyLocal, AppliedLocal, runVars, tryVars, sessVars
<1>6. stage[r] = "idle" /\ stage'[r] = "idle"
  BY <1>1 DEF OpenLost
<1>7. /\ \A c \in running' : CopyInv(c)'
      /\ \A a \in applied' : AppliedInv(a)'
      /\ SameCopies'
  <2>1. fence' = [epoch |-> fence.epoch + 1, landed |-> fence.landed]
    BY DEF OpenLost
  <2>2. UNCHANGED <<state, applied, running>>
    BY <1>1
  <2> QED BY <1>2, <1>5, <1>6, <2>1, <2>2, OpenCalls
<1> QED BY <1>2, <1>4, <1>7 DEF Inv

LEMMA OpenSessionStep ==
  ASSUME Inv, TypeOK', NEW r \in Runs, OpenSession(r) PROVE Inv'
<1>0. /\ stage \in [Runs -> Stages] /\ epoch \in [Runs -> Nat] /\ found \in [Runs -> OptKeys]
      /\ seq \in [Runs -> Nat \ {0}] /\ after \in [Runs -> OptKeys]
      /\ taken \in [Runs -> Positions] /\ read \in [Runs -> Positions]
      /\ sealed \in [Runs -> Positions] /\ flushed \in [Runs -> Positions]
      /\ owed \in [Runs -> Positions] /\ TypeOK /\ RunInv(r)
      /\ fence.epoch \in Nat /\ fence.landed \in OptKeys /\ state \in Positions
  BY Zenon DEF Inv, TypeOK, Fences
<1>1. /\ stage[r] = "idle" /\ stage'[r] = "loading" /\ epoch'[r] = fence.epoch + 1
      /\ found'[r] = fence.landed /\ after'[r] = fence.landed /\ seq'[r] = 1
      /\ taken'[r] = state /\ read'[r] = state /\ sealed'[r] = state /\ flushed'[r] = state
      /\ owed'[r] = Zero
      /\ fence' = [epoch |-> fence.epoch + 1, landed |-> fence.landed]
      /\ UNCHANGED <<unresolved, counted, commits, pending, tries, answer, state, published,
                     applied, running, telling, kept>>
  BY <1>0 DEF OpenSession, runVars, tryVars, srcVars
<1>2. \A s \in Runs \ {r} : UNCHANGED Local(s)
  BY <1>0 DEF OpenSession, Local, runVars, tryVars
<1>3. DestInv' /\ \A e \in 1..fence.epoch : openers'[e] = openers[e]
  BY Zenon, <1>1, OpenDest DEF OpenSession
<1>4. r \in openers'[fence.epoch + 1]
  <2>1. fence.epoch + 1 \in 1..MaxEpoch /\ openers \in [1..MaxEpoch -> SUBSET Runs]
    BY <1>0, ConstantsAssumption DEF OpenSession, TypeOK
  <2> QED BY <2>1 DEF OpenSession
<1>5. /\ stage[r] \notin Open /\ stage'[r] \in Open /\ stage'[r] \notin InFlight
      /\ stage'[r] \notin Sent /\ stage'[r] # "crashed"
  BY <1>1 DEF Open, InFlight, Sent
<1>6. \A a \in applied : a.key.epoch <= fence.epoch /\ ~Before(fence.landed, a.key)
  BY DEF Inv, AppliedInv
<1>7. fence.landed.epoch <= fence.epoch
  BY DEF Inv, DestInv
<1>8. /\ fence'.epoch = fence.epoch + 1 /\ fence'.landed = fence.landed
      /\ Key(r)'.epoch = fence.epoch + 1
  BY <1>1 DEF Key
<1>9. fence.landed.epoch < fence.epoch + 1
  <2>1. fence.landed.epoch \in Nat /\ fence.epoch \in Nat
    BY <1>0, KeyOrder
  <2> QED BY <1>7, <2>1
<1>10. RunInv(r)'
  <2>1. RunEpochs(r)'
    <3>1. fence.epoch + 1 \in 1..(fence.epoch + 1)
      BY <1>0
    <3>2. unresolved[r] # NoKey =>
            unresolved[r].epoch \in 1..fence.epoch /\ r \in openers[unresolved[r].epoch]
      BY <1>0 DEF RunInv, RunEpochs
    <3>3. \A e \in 1..fence.epoch : e \in 1..(fence.epoch + 1) /\ e < fence.epoch + 1
      BY <1>0
    <3> QED BY <1>1, <1>3, <1>4, <1>8, <3>1, <3>2, <3>3 DEF RunEpochs
  <2>2. AtMost(state, state) /\ AtMost(Zero, state)
    BY <1>0, AtMostOrder
  <2>3. Progress(r)'
    <3>1. after'[r].epoch < epoch'[r]
      BY <1>1, <1>9
    <3>2. (AtMost(taken[r], sealed[r]) /\ AtMost(sealed[r], read[r]))'
      BY <1>1, <2>2 DEF AtMost
    <3>3. (AtMost(taken[r], flushed[r]) /\ AtMost(taken[r], state))'
      BY <1>1, <2>2 DEF AtMost
    <3>4. ~(seq'[r] > 1)
      BY <1>1
    <3> QED BY <3>1, <3>2, <3>3, <3>4 DEF Progress
  <2>4. Pending(r)' /\ Receipt(r)'
    BY <1>1, <1>5 DEF Pending, Receipt, Sent
  <2>5. Lands(r)'
    BY <1>0, <1>1, <1>5, <1>7, <1>8, KeyTotal, KeyOrder DEF Lands
  <2>6. Holds(r)'
    <3>1. \A w \in RowIds : ~(state[w[1]] < w[2] /\ w[2] <= state[w[1]])
      <4> TAKE w \in RowIds
      <4>1. w[2] \in Int /\ state[w[1]] \in Int
        BY <1>0, RowTypes, PositionTypes
      <4> QED BY <4>1
    <3> QED BY <1>1, <1>8, <3>1 DEF Holds
  <2>7. Counts(r)'
    <3>1. \A k \in counted[r] : k \in Keys /\ [key |-> k, run |-> r] \in applied
      BY <1>0, RunTypes DEF RunInv, Counts
    <3>2. \A k \in counted[r] : k.epoch <= fence.epoch
      BY Zenon, <3>1, <1>6
    <3>3. \A k \in counted[r] : Before(k, Key(r)')
      <4> TAKE k \in counted[r]
      <4>1. k.epoch \in Nat /\ fence.epoch \in Nat /\ k.epoch <= fence.epoch
        BY Zenon, <3>1, <3>2, <1>0, KeyOrder
      <4> QED BY <4>1, <1>8 DEF Before
    <3> QED BY <1>0, <1>1, <3>3 DEF RunInv, Counts
  <2>8. Found(r)'
    <3>1. fence.landed.epoch < epoch'[r]
      BY <1>1, <1>9
    <3>2. fence.landed # NoKey => \E s \in Runs : [key |-> fence.landed, run |-> s] \in applied
      BY Zenon DEF Inv, DestInv
    <3> QED BY Zenon, <1>1, <1>6, <3>1, <3>2 DEF Found
  <2>9. Unresolved(r)'
    BY <1>0, <1>1, <1>5 DEF RunInv, Unresolved
  <2> QED BY <1>1, <2>1, <2>2, <2>3, <2>4, <2>5, <2>6, <2>7, <2>8, <2>9 DEF RunInv, AtMost
<1>11. \A s \in Runs : RunInv(s)'
  BY <1>1, <1>2, <1>3, <1>10, OpenFrame
<1>12. \A s \in Runs \ {r} : UNCHANGED <<CopyLocal(s), AppliedLocal(s)>>
  BY <1>2 DEF Local, CopyLocal, AppliedLocal
<1>13. /\ \A c \in running' : CopyInv(c)'
       /\ \A a \in applied' : AppliedInv(a)'
       /\ SameCopies'
  BY Zenon, <1>1, <1>3, <1>12, OpenCalls
<1> QED BY <1>3, <1>11, <1>13 DEF Inv
-----------------------------------------------------------------------------
(***************************************************************************)
(* Executing a commit.                                                     *)
(***************************************************************************)

Awaited(c) == /\ stage[c.run] = "committing"
              /\ epoch[c.run] = c.session
              /\ seq[c.run] = c.meta.key.seq
              /\ tries[c.run] = c.try

\* Every call's answer goes to the run that waits for it, and leaves every other
\* part of every run alone.
LEMMA ExecuteFacts ==
  ASSUME Inv, NEW c \in running, Execute(c)
  PROVE  /\ running' = running \ {c}
         /\ UNCHANGED <<stage, unresolved, counted, commits, epoch, found, seq, after, read,
                        sealed, flushed, taken, pending, tries, owed, openers, telling, kept>>
         /\ \A s \in Runs : answer'[s] = "receipt" =>
              \/ answer[s] = "receipt"
              \/ /\ s = c.run /\ Awaited(c)
                 /\ Decide(fence, c.session, c.meta) \in {"landed", "apply"}
         /\ \A s \in Runs \ {c.run} : UNCHANGED Local(s)
<1>0. answer \in [Runs -> {"none", "receipt", "refused"}] /\ c.run \in Runs
  BY CopyTypes DEF Inv, TypeOK
<1>1. /\ running' = running \ {c}
      /\ UNCHANGED <<stage, unresolved, counted, commits, epoch, found, seq, after, read,
                     sealed, flushed, taken, pending, tries, owed, openers, telling, kept>>
  BY DEF Execute, runVars, readVars, sessVars, srcVars
<1>2. answer' = [answer EXCEPT ![c.run] =
        IF Awaited(c)
        THEN IF Decide(fence, c.session, c.meta) \in {"landed", "apply"}
             THEN "receipt" ELSE "refused"
        ELSE @]
  BY DEF Execute, Awaited
<1>3. \A s \in Runs : answer'[s] = "receipt" =>
        \/ answer[s] = "receipt"
        \/ /\ s = c.run /\ Awaited(c)
           /\ Decide(fence, c.session, c.meta) \in {"landed", "apply"}
  BY <1>0, <1>2
<1>4. \A s \in Runs \ {c.run} : answer'[s] = answer[s]
  BY <1>0, <1>2
<1> QED BY <1>1, <1>3, <1>4 DEF Local

\* The commit a run awaits the answer of is the one it has in flight.
LEMMA AwaitedPending ==
  ASSUME Inv, NEW c \in running, Awaited(c)
  PROVE  c.meta = pending[c.run] /\ c.meta.key = Key(c.run)
<1>1. CopyInv(c) /\ c.meta.key \in Keys /\ c.meta.key \in OptKeys /\ stage[c.run] \in Open
  BY CopyTypes, KeyOrder DEF Inv, Awaited, Open, InFlight
<1>2. Key(c.run).epoch = c.meta.key.epoch /\ Key(c.run).seq = c.meta.key.seq
  BY <1>1 DEF Awaited, Key, CopyInv
<1>3. ~Before(c.meta.key, Key(c.run))
  BY <1>1, <1>2, KeyOrder DEF Before
<1> QED BY Zenon, <1>1, <1>3 DEF CopyInv

\* What a commit that lands was decided by.
LEMMA Decided ==
  ASSUME Inv, NEW c \in running
  PROVE  /\ Decide(fence, c.session, c.meta) = "landed" => fence.landed = c.meta.key
         /\ Decide(fence, c.session, c.meta) = "apply" =>
              /\ fence.landed = c.meta.after
              /\ fence.epoch = c.session
  BY DEF Decide, Answer, Inv, CopyInv

\* A commit executed to no effect keeps the invariant.
LEMMA ExecuteInert ==
  ASSUME Inv, TypeOK', NEW c \in running, Execute(c),
         Decide(fence, c.session, c.meta) # "apply"
  PROVE  Inv'
<1>0. TypeOK /\ c.run \in Runs /\ CopyInv(c)
  BY CopyTypes DEF Inv
<1>1. UNCHANGED <<published, staged, fence, state, applied, openers, telling, kept>>
  BY Zenon, ExecuteFacts DEF Execute
<1>2. RunInv(c.run)'
  <2> DEFINE r == c.run
  <2>0. RunInv(r)
    BY <1>0 DEF Inv
  <2>1. UNCHANGED <<stage, unresolved, counted, commits, epoch, found, seq, after, read,
                    sealed, flushed, taken, pending, tries, owed>>
    BY ExecuteFacts
  <2>2. RunEpochs(r)' /\ Progress(r)' /\ Pending(r)' /\ Lands(r)' /\ Holds(r)'
    BY Zenon, <1>1, <2>0, <2>1 DEF RunInv, RunEpochs, Progress, Pending, Lands, Holds, Key, AtMost
  <2>3. Counts(r)' /\ Found(r)' /\ Unresolved(r)'
    BY Zenon, <1>1, <2>0, <2>1 DEF RunInv, Counts, Found, Unresolved, Key
  <2>4. Receipt(r)'
    <3> SUFFICES ASSUME stage[r] = "committing", answer'[r] = "receipt", answer[r] # "receipt"
                 PROVE  Receipt(r)'
      BY <1>1, <2>0, <2>1 DEF RunInv, Receipt, AtMost
    <3>1. Awaited(c) /\ Decide(fence, c.session, c.meta) = "landed"
      BY <1>0, ExecuteFacts
    <3>2. fence.landed = pending[r].key /\ c.meta.key = pending[r].key
      BY <3>1, AwaitedPending, Decided
    <3>3. stage[r] \in Open /\ stage[r] \in InFlight
      BY DEF Open, InFlight
    <3>4. state = pending[r].to /\ state \in Positions
      BY <1>0, <2>0, <3>2, <3>3 DEF RunInv, Lands, TypeOK
    <3>5. [key |-> pending[r].key, run |-> r] \in applied
      <4>1. PICK s \in Runs : [key |-> fence.landed, run |-> s] \in applied
        BY <1>0, <3>2, CopyTypes, KeyOrder DEF Inv, DestInv
      <4>2. s \in openers[c.session]
        <5>1. c.session = fence.landed.epoch
          BY <1>0, <3>2 DEF CopyInv
        <5>2. \A a \in applied : a.run \in openers[a.key.epoch]
          BY DEF Inv, AppliedInv
        <5> QED BY <4>1, <5>1, <5>2
      <4>3. r \in openers[c.session] /\ c.session \in 1..fence.epoch
        <5>1. r \in openers[c.session] /\ c.session <= fence.epoch
          BY <1>0 DEF CopyInv
        <5>2. c.session \in Nat \ {0} /\ fence.epoch \in Nat
          BY <1>0, CopyTypes, RunTypes
        <5> QED BY <5>1, <5>2
      <4>4. s = r
        BY <1>0, <4>2, <4>3, OneOpener
      <4> QED BY <3>2, <4>1, <4>4
    <3>6. AtMost(state, state)
      BY <3>4, AtMostOrder
    <3> QED BY Zenon, <1>1, <2>1, <3>2, <3>4, <3>5, <3>6 DEF Receipt, AtMost
  <2> QED BY <1>1, <2>0, <2>1, <2>2, <2>3, <2>4 DEF RunInv, AtMost
<1>3. \A s \in Runs : RunInv(s)'
  BY <1>1, <1>2, ExecuteFacts, RunFrame DEF Inv
<1>4. \A d \in running' : CopyInv(d)'
  <2> SUFFICES ASSUME NEW d \in running PROVE CopyInv(d)'
    BY ExecuteFacts
  <2>1. UNCHANGED CopyLocal(d.run)
    BY ExecuteFacts DEF CopyLocal
  <2> QED BY <1>1, <2>1, CopyFrame DEF Inv
<1>5. \A a \in applied' : AppliedInv(a)'
  <2> SUFFICES ASSUME NEW a \in applied PROVE AppliedInv(a)'
    BY <1>1
  <2>1. UNCHANGED AppliedLocal(a.run)
    BY ExecuteFacts DEF AppliedLocal
  <2> QED BY <1>1, <2>1, AppliedFrame DEF Inv
<1>6. DestInv'
  BY <1>1 DEF Inv, DestInv, ExactlyOnce, AtMost
<1>7. SameCopies'
  BY ExecuteFacts DEF Inv, SameCopies
<1> QED BY <1>3, <1>4, <1>5, <1>6, <1>7 DEF Inv

\* What a commit that applies moves.
LEMMA ApplyFacts ==
  ASSUME Inv, NEW c \in running, Execute(c), Decide(fence, c.session, c.meta) = "apply"
  PROVE  /\ fence'.epoch = fence.epoch /\ fence'.landed = c.meta.key
         /\ state' = c.meta.to /\ state' \in Positions
         /\ applied' = applied \cup {[key |-> c.meta.key, run |-> c.run]}
         /\ c.session = fence.epoch /\ fence.landed = c.meta.after /\ c.meta.from = state
         /\ AtMost(state, state')
         /\ Before(fence.landed, c.meta.key)
         /\ c.meta.key \in Keys /\ c.meta.key \in OptKeys /\ fence.landed \in OptKeys
         /\ c.run \in Runs /\ c.session \in 1..fence.epoch /\ c.run \in openers[c.session]
         /\ c.meta.key.epoch = fence.epoch
         /\ published' = [w \in RowIds |-> IF w \in SegmentRows(c.meta) THEN published[w] + 1
                                           ELSE published[w]]
         /\ staged' = staged \ {<<c.session, w>> : w \in SegmentRows(c.meta)}
<1>0. CopyInv(c) /\ TypeOK
  BY DEF Inv
<1>1. /\ fence' = [epoch |-> fence.epoch, landed |-> c.meta.key] /\ state' = c.meta.to
      /\ applied' = applied \cup {[key |-> c.meta.key, run |-> c.run]}
      /\ Publish(c.session, c.meta)
  BY DEF Execute
<1>2. c.session = fence.epoch /\ fence.landed = c.meta.after
  BY Decided
<1>3. /\ c.run \in Runs /\ c.meta.key \in Keys /\ c.meta.key \in OptKeys
      /\ c.session \in Nat \ {0} /\ c.meta.to \in Positions /\ fence.landed \in OptKeys
  BY <1>0, CopyTypes, KeyOrder DEF TypeOK, Fences
<1>4. /\ c.meta.from = state /\ AtMost(c.meta.from, c.meta.to)
      /\ Before(fence.landed, c.meta.key)
      /\ c.run \in openers[c.session] /\ c.meta.key.epoch = fence.epoch
      /\ \A w \in SegmentRows(c.meta) : <<c.session, w>> \in staged
  BY <1>0, <1>2 DEF CopyInv
<1>5. {w \in SegmentRows(c.meta) : <<c.session, w>> \in staged} = SegmentRows(c.meta)
  BY <1>4
<1>6. /\ published' = [w \in RowIds |-> IF w \in SegmentRows(c.meta) THEN published[w] + 1
                                        ELSE published[w]]
      /\ staged' = staged \ {<<c.session, w>> : w \in SegmentRows(c.meta)}
  BY Zenon, <1>1, <1>5 DEF Publish
<1>7. AtMost(state, state')
  BY <1>1, <1>4
<1>8. c.session \in 1..fence.epoch
  BY <1>2, <1>3
<1>9. fence'.epoch = fence.epoch /\ fence'.landed = c.meta.key
  BY <1>1
<1> QED BY <1>1, <1>2, <1>3, <1>4, <1>6, <1>7, <1>8, <1>9

\* The commit that applies is the one in flight of the newest session, while that
\* session is open.
LEMMA ApplyHolder ==
  ASSUME Inv, NEW c \in running, Execute(c), Decide(fence, c.session, c.meta) = "apply",
         NEW s \in Runs, stage[s] \in Open, epoch[s] = fence.epoch
  PROVE  /\ s = c.run /\ c.meta = pending[s] /\ c.meta.key = Key(s)
         /\ stage[s] \in Sent /\ fence.landed = after[s]
<1>0. RunInv(s) /\ CopyInv(c) /\ TypeOK
  BY DEF Inv
<1>1. s = c.run
  <2>1. s \in openers[fence.epoch] /\ epoch[s] \in 1..fence.epoch
    BY <1>0 DEF RunInv, RunEpochs
  <2> QED BY <2>1, ApplyFacts, OneOpener
<1>2. Key(s) \in Keys /\ Key(s) \in OptKeys
  BY <1>0, NextKey, KeyOrder
<1>3. fence.landed # Key(s)
  <2> SUFFICES ASSUME fence.landed = Key(s) PROVE FALSE
    OBVIOUS
  <2>1. Before(Key(s), c.meta.key) /\ c.meta.key \in OptKeys
    BY ApplyFacts
  <2>2. Before(c.meta.key, Key(s)) \/ c.meta.key = Key(s)
    BY <1>0, <1>1 DEF CopyInv
  <2> QED BY <1>2, <2>1, <2>2, KeyTotal
<1>4. fence.landed = after[s]
  <2>1. stage[s] \in Sent => stage[s] \in InFlight
    BY DEF Sent, InFlight
  <2> QED BY <1>0, <1>3, <2>1 DEF RunInv, Holds, Pending
<1>5. ~Before(c.meta.key, Key(s))
  <2> SUFFICES ASSUME Before(c.meta.key, Key(s)) PROVE FALSE
    OBVIOUS
  <2>1. /\ Before(after[s], c.meta.key) /\ c.meta.key.epoch = epoch[s] /\ c.meta.key \in Keys
        /\ after[s] \in OptKeys
    BY <1>4, ApplyFacts
  <2>2. Key(s).epoch = epoch[s] /\ Key(s).seq = seq[s] /\ seq[s] \in Nat \ {0} /\ epoch[s] \in Nat
    BY <1>0, RunTypes DEF Key
  <2>3. c.meta.key.seq < seq[s] /\ c.meta.key.seq \in Nat \ {0}
    BY Zenon, <1>2, <2>1, <2>2, KeyOrder, SameEpoch
  <2>4. after[s].epoch = epoch[s] /\ after[s].seq = seq[s] - 1
    <3>1. seq[s] > 1
      BY <2>2, <2>3
    <3> QED BY Zenon, <1>0, <3>1, AfterFirst
  <2>5. seq[s] - 1 < c.meta.key.seq
    <3>1. after[s].seq < c.meta.key.seq
      BY Zenon, <2>1, <2>4, KeyOrder, SameEpoch
    <3> QED BY Zenon, <2>4, <3>1
  <2>6. c.meta.key.seq \in Int /\ seq[s] \in Int
    BY <2>2, <2>3
  <2> QED BY Zenon, <2>3, <2>5, <2>6, IntOrder
<1> QED BY <1>0, <1>1, <1>4, <1>5 DEF CopyInv

\* A run's standing past a commit that applies.
LEMMA ApplyRun ==
  ASSUME Inv, TypeOK', NEW c \in running, Execute(c),
         Decide(fence, c.session, c.meta) = "apply", NEW s \in Runs
  PROVE  RunInv(s)'
<1>0. RunInv(s) /\ CopyInv(c) /\ TypeOK /\ fence.epoch \in Nat
  BY Zenon DEF Inv, TypeOK, Fences
<1>1. UNCHANGED <<stage, unresolved, counted, commits, epoch, found, seq, after, read,
                  sealed, flushed, taken, pending, tries, owed, openers>>
  BY ExecuteFacts
<1>2. /\ fence'.epoch = fence.epoch /\ fence'.landed = c.meta.key
      /\ state' = c.meta.to /\ state' \in Positions /\ state \in Positions
      /\ AtMost(state, state') /\ applied \subseteq applied'
      /\ Before(fence.landed, c.meta.key) /\ c.meta.key.epoch = fence.epoch
      /\ fence.landed \in OptKeys /\ c.meta.key \in OptKeys
  BY <1>0, ApplyFacts DEF TypeOK
<1>3. \A f \in Positions : AtMost(f, state) => AtMost(f, state')
  BY Zenon, <1>2, AtMostLater
<1>4. taken[s] \in Positions /\ owed[s] \in Positions
  BY <1>0, RunTypes
<1>5. RunEpochs(s)'
  BY <1>0, <1>1, <1>2 DEF RunInv, RunEpochs
<1>6. Progress(s)'
  BY <1>0, <1>1, <1>2, <1>3, <1>4 DEF RunInv, Progress, AtMost
<1>7. Pending(s)'
  BY Zenon, <1>0, <1>1 DEF RunInv, Pending, Key, AtMost
<1>8. stage[s] \in Open => epoch[s] \in 1..fence.epoch /\ after[s] \in OptKeys
  BY Zenon, <1>0, RunTypes DEF RunInv, RunEpochs
<1>9. Lands(s)'
  <2> SUFFICES ASSUME stage[s] \in Open PROVE Lands(s)'
    BY <1>1 DEF Lands
  <2>1. ~Before(c.meta.key, after[s])
    <3>1. ~Before(fence.landed, after[s])
      BY <1>0 DEF RunInv, Lands
    <3> QED BY <3>1, <1>2, <1>8, KeyTotal
  <2>2. c.meta.key.epoch = epoch[s] =>
          c.meta = pending[s] /\ c.meta.key = Key(s) /\ stage[s] \in Sent
    BY <1>2, ApplyHolder
  <2>3. c.meta.key.epoch = epoch[s] => c.meta.key.seq = seq[s] /\ stage[s] \in Sent
    BY <2>2 DEF Key
  <2>4. stage[s] \in InFlight /\ c.meta.key = pending[s].key => state' = pending[s].to
    <3> SUFFICES ASSUME stage[s] \in InFlight, c.meta.key = pending[s].key
                 PROVE  state' = pending[s].to
      OBVIOUS
    <3>1. pending[s].key = Key(s) /\ Key(s).epoch = epoch[s]
      BY <1>0 DEF RunInv, Pending, Key
    <3> QED BY <3>1, <2>2, <1>2
  <2> QED BY <1>1, <1>2, <2>1, <2>3, <2>4 DEF Lands
<1>10. Holds(s)'
  <2> SUFFICES ASSUME stage[s] \in Open, epoch[s] = fence.epoch PROVE Holds(s)'
    BY <1>1, <1>2 DEF Holds
  <2>1. /\ s = c.run /\ c.meta = pending[s] /\ stage[s] \in Sent /\ fence.landed = after[s]
    BY ApplyHolder
  <2>2. c.meta.key # after[s]
    BY <2>1, <1>2, KeyTotal
  <2>3. ASSUME NEW w \in RowIds, state'[w[1]] < w[2], w[2] <= flushed[s][w[1]]
        PROVE  <<epoch[s], w>> \in staged'
    <3>1. w[1] \in Partitions /\ w[2] \in Int
      BY RowTypes
    <3>2. state[w[1]] \in Int /\ state'[w[1]] \in Int /\ state[w[1]] <= state'[w[1]]
      BY <3>1, <1>2, PositionTypes DEF AtMost
    <3>3. <<epoch[s], w>> \in staged
      BY <2>3, <3>1, <3>2, <1>0 DEF RunInv, Holds
    <3>4. w \notin SegmentRows(c.meta)
      <4>1. ~(w[2] <= state'[w[1]])
        BY Zenon, <2>3, <3>1, <3>2, IntOrder
      <4> QED BY <4>1, <1>2 DEF SegmentRows
    <3>5. staged' = staged \ {<<c.session, x>> : x \in SegmentRows(c.meta)}
      BY ApplyFacts
    <3> QED BY <3>3, <3>4, <3>5
  <2> QED BY <1>1, <1>2, <2>1, <2>2, <2>3 DEF Holds
<1>11. Receipt(s)'
  <2> SUFFICES ASSUME stage[s] = "committing", answer'[s] = "receipt" PROVE Receipt(s)'
    BY <1>1 DEF Receipt
  <2>0. stage[s] \in Open /\ stage[s] \in InFlight
    BY DEF Open, InFlight
  <2>1. CASE answer[s] = "receipt"
    <3>1. /\ [key |-> pending[s].key, run |-> s] \in applied /\ AtMost(pending[s].to, state)
          /\ epoch[s] = fence.epoch => fence.landed = pending[s].key
      BY <1>0, <2>1 DEF RunInv, Receipt
    <3>2. pending[s].to \in Positions /\ pending[s].key = Key(s)
      BY <1>0, <2>0 DEF RunInv, Pending, Metas
    <3>3. epoch[s] # fence.epoch
      <4> SUFFICES ASSUME epoch[s] = fence.epoch PROVE FALSE
        OBVIOUS
      <4>1. c.meta.key = Key(s)
        BY <2>0, ApplyHolder
      <4> QED BY <4>1, <3>1, <3>2, <1>2, KeyTotal
    <3> QED BY <1>1, <1>2, <1>3, <3>1, <3>2, <3>3 DEF Receipt, AtMost
  <2>2. CASE answer[s] # "receipt"
    <3>1. s = c.run /\ Awaited(c)
      BY <2>2, ExecuteFacts
    <3>2. c.meta = pending[s]
      BY <3>1, AwaitedPending
    <3>3. [key |-> pending[s].key, run |-> s] \in applied'
      BY <3>1, <3>2, ApplyFacts
    <3>4. AtMost(pending[s].to, state')
      BY <3>2, <1>2, AtMostOrder
    <3> QED BY <1>1, <1>2, <3>2, <3>3, <3>4 DEF Receipt, AtMost
  <2> QED BY <2>1, <2>2
<1>12. Counts(s)'
  BY <1>0, <1>1, <1>2 DEF RunInv, Counts, Key
<1>13. ASSUME NEW a \in applied' PROVE a \in applied \/ (a.key = c.meta.key /\ a.run = c.run)
  <2>1. applied' = applied \cup {[key |-> c.meta.key, run |-> c.run]}
    BY ApplyFacts
  <2> QED BY <1>13, <2>1
<1>14. Found(s)'
  <2> SUFFICES ASSUME stage[s] \in Open PROVE Found(s)'
    BY <1>1 DEF Found
  <2>1. \A a \in applied' : a.key.epoch < epoch[s] => ~Before(found[s], a.key)
    <3> TAKE a \in applied'
    <3>1. CASE a \in applied
      BY <3>1, <1>0 DEF RunInv, Found
    <3>2. CASE a.key = c.meta.key
      <4>1. ~(fence.epoch < epoch[s])
        <5>1. fence.epoch \in Int
          BY <1>0
        <5>2. epoch[s] \in Int /\ epoch[s] <= fence.epoch
          BY Zenon, <1>0, <1>8, IntOrder
        <5> QED BY Zenon, <5>1, <5>2, IntOrder
      <4> QED BY <3>2, <4>1, <1>2
    <3> QED BY <1>13, <3>1, <3>2
  <2> QED BY <1>0, <1>1, <1>2, <2>1 DEF RunInv, Found
<1>15. Unresolved(s)'
  <2>1. ASSUME unresolved[s] # NoKey, NEW a \in applied', a.run = s,
               Before(unresolved[s], a.key)
        PROVE  stage[s] \in Open /\ a.key.epoch = epoch[s]
    <3>1. CASE a \in applied
      BY <2>1, <3>1, <1>0 DEF RunInv, Unresolved
    <3>2. CASE a.key = c.meta.key /\ a.run = c.run
      <4>1. unresolved[s] \in OptKeys /\ unresolved[s] # c.meta.key /\ stage[s] # "crashed"
        BY <2>1, <3>2, <1>0, <1>2, RunTypes, KeyTotal DEF RunInv, Unresolved
      <4>2. c.session = fence.epoch
        BY ApplyFacts
      <4>3. stage[s] \in InFlight /\ pending[s].key = c.meta.key
        BY <1>0, <1>2, <2>1, <3>2, <4>1, <4>2 DEF CopyInv
      <4>4. pending[s].key = Key(s) /\ Key(s).epoch = epoch[s]
        BY <1>0, <4>3 DEF RunInv, Pending, Key
      <4> QED BY <3>2, <4>3, <4>4 DEF Open
    <3> QED BY <1>13, <3>1, <3>2
  <2> QED BY <1>0, <1>1, <2>1 DEF RunInv, Unresolved
<1>16. AtMost(owed[s], state')
  BY <1>0, <1>3, <1>4 DEF RunInv
<1>17. stage[s] = "succeeded" => \A p \in Partitions : state'[p] = Rows
  <2> SUFFICES ASSUME stage[s] = "succeeded", NEW p \in Partitions PROVE state'[p] = Rows
    OBVIOUS
  <2>1. state[p] = Rows /\ state[p] <= state'[p]
    BY <1>0, <1>2 DEF RunInv, AtMost
  <2>2. state'[p] \in Int /\ state'[p] <= Rows
    BY <1>2, PositionTypes
  <2>3. Rows \in Int
    BY ConstantsAssumption
  <2> QED BY Zenon, <2>1, <2>2, <2>3, IntOrder
<1> QED BY <1>1, <1>5, <1>6, <1>7, <1>9, <1>10, <1>11, <1>12, <1>14, <1>15, <1>16, <1>17
        DEF RunInv, AtMost

LEMMA ExecuteApplies ==
  ASSUME Inv, TypeOK', NEW c \in running, Execute(c),
         Decide(fence, c.session, c.meta) = "apply"
  PROVE  Inv'
<1>0. TypeOK /\ CopyInv(c) /\ DestInv
  BY DEF Inv
<1>1. /\ UNCHANGED <<stage, unresolved, counted, epoch, seq, pending, openers, telling, kept>>
      /\ running' = running \ {c}
  BY Zenon, ExecuteFacts
<1>2. /\ fence'.epoch = fence.epoch /\ fence'.landed = c.meta.key
      /\ state' = c.meta.to /\ state' \in Positions /\ state \in Positions
      /\ AtMost(state, state')
      /\ applied' = applied \cup {[key |-> c.meta.key, run |-> c.run]}
      /\ Before(fence.landed, c.meta.key) /\ c.meta.key.epoch = fence.epoch
      /\ fence.landed \in OptKeys /\ c.meta.key \in OptKeys /\ c.meta.from = state
      /\ c.run \in Runs /\ c.session = fence.epoch
  BY <1>0, ApplyFacts DEF TypeOK
<1>3. \A f \in Positions : AtMost(f, state) => AtMost(f, state')
  BY Zenon, <1>2, AtMostLater
<1>4. \A d \in running' : CopyInv(d)'
  <2> SUFFICES ASSUME NEW d \in running PROVE CopyInv(d)'
    BY <1>1
  <2>1. CopyInv(d) /\ d.meta.after \in OptKeys /\ d.meta.key \in OptKeys
    BY <1>0, CopyTypes, KeyOrder DEF Inv
  <2>2. ~Before(c.meta.key, d.meta.after) /\ d.meta.after # c.meta.key
    BY <1>2, <2>1, KeyTotal DEF CopyInv
  <2>3. d.meta.key = c.meta.key => d.meta.to = state'
    BY <1>2 DEF Inv, SameCopies
  <2>4. Before(c.meta.key, d.meta.key) => Before(fence.landed, d.meta.key)
    BY <1>2, <2>1, KeyTotal
  <2> QED BY <1>1, <1>2, <2>1, <2>2, <2>3, <2>4 DEF CopyInv, AtMost, Key
<1>5. \A a \in applied' : AppliedInv(a)'
  <2>1. ASSUME NEW a \in applied PROVE AppliedInv(a)'
    <3>1. AppliedInv(a) /\ a.key \in OptKeys
      BY <2>1, <1>0, AppliedTypes, KeyOrder DEF Inv
    <3>2. ~Before(c.meta.key, a.key)
      BY <1>2, <3>1, KeyTotal DEF AppliedInv
    <3> QED BY <1>1, <1>2, <3>1, <3>2 DEF AppliedInv, Key
  <2>2. ASSUME NEW a, a = [key |-> c.meta.key, run |-> c.run] PROVE AppliedInv(a)'
    <3>1. a.key = c.meta.key /\ a.run = c.run
      BY <2>2
    <3>2. a.key.epoch <= fence.epoch /\ a.run \in openers[a.key.epoch]
      BY <1>0, <1>2, <3>1 DEF CopyInv
    <3>3. ~Before(c.meta.key, a.key)
      BY <1>2, <3>1, KeyTotal
    <3>4. stage[a.run] \in Open =>
            \/ Before(a.key, Key(a.run))
            \/ a.key = Key(a.run) /\ stage[a.run] \in Sent
      BY <1>0, <3>1 DEF CopyInv
    <3>5. \/ stage[a.run] = "crashed"
          \/ stage[a.run] \in InFlight /\ pending[a.run].key = a.key
          \/ unresolved[a.run] = a.key
      BY <1>0, <1>2, <3>1 DEF CopyInv
    <3> QED BY <1>1, <1>2, <3>2, <3>3, <3>4, <3>5 DEF AppliedInv, Key
  <2> QED BY <1>2, <2>1, <2>2
<1>6. DestInv'
  <2>1. ExactlyOnce'
    <3> SUFFICES ASSUME NEW w \in RowIds
                 PROVE  published'[w] = IF w[2] <= state'[w[1]] THEN 1 ELSE 0
      BY DEF ExactlyOnce
    <3>1. published'[w] = IF w \in SegmentRows(c.meta) THEN published[w] + 1 ELSE published[w]
      BY ApplyFacts
    <3>2. w \in SegmentRows(c.meta) <=> state[w[1]] < w[2] /\ w[2] <= state'[w[1]]
      BY <1>2 DEF SegmentRows
    <3>3. w[1] \in Partitions /\ w[2] \in Int
      BY RowTypes
    <3>4. state[w[1]] \in Int /\ state'[w[1]] \in Int /\ state[w[1]] <= state'[w[1]]
      BY <1>2, <3>3, PositionTypes DEF AtMost
    <3>5. published[w] = IF w[2] <= state[w[1]] THEN 1 ELSE 0
      BY <1>0 DEF DestInv, ExactlyOnce
    <3> QED BY <3>1, <3>2, <3>3, <3>4, <3>5
  <2>2. \A told \in telling' : AtMost(told, state')
    BY <1>0, <1>1, <1>3 DEF DestInv, TypeOK
  <2>3. AtMost(kept', state')
    BY <1>0, <1>1, <1>3 DEF DestInv, TypeOK
  <2>4. /\ fence'.epoch <= MaxEpoch /\ fence'.landed.epoch <= fence'.epoch
        /\ \E r \in Runs : [key |-> fence'.landed, run |-> r] \in applied'
    <3>1. fence.epoch \in Nat /\ fence.epoch <= MaxEpoch
      BY <1>0 DEF DestInv, TypeOK, Fences
    <3> QED BY <3>1, <1>2
  <2>5. \A e \in 1..MaxEpoch : /\ \A r, s \in openers'[e] : r = s
                               /\ e > fence'.epoch => openers'[e] = {}
    BY <1>0, <1>1, <1>2 DEF DestInv
  <2> QED BY <2>1, <2>2, <2>3, <2>4, <2>5 DEF DestInv, AtMost
<1>7. SameCopies'
  BY <1>1 DEF Inv, SameCopies
<1>8. \A s \in Runs : RunInv(s)'
  BY ApplyRun
<1> QED BY <1>4, <1>5, <1>6, <1>7, <1>8 DEF Inv

LEMMA ExecuteStep ==
  ASSUME Inv, TypeOK', NEW c \in running, Execute(c) PROVE Inv'
  BY ExecuteInert, ExecuteApplies
=============================================================================
