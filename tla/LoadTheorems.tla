---------------------------- MODULE LoadTheorems ----------------------------
(***************************************************************************)
(* Module Load keeps the inductive invariant, for every number of runs,    *)
(* partitions, rows, tries, epochs and commits; what follows: its safety   *)
(* properties, and that it implements Delivery.                            *)
(***************************************************************************)
EXTENDS LoadCommits, LoadDestination

-----------------------------------------------------------------------------
(***************************************************************************)
(* Every step keeps the variables what the code's types allow: the first   *)
(* conjunct of the invariant.                                              *)
(***************************************************************************)

\* Position zero is a position, the absent key an optional key, the absent commit
\* none of the real ones.
LEMMA Constants ==
  /\ Zero \in Positions
  /\ NoKey \in OptKeys
  /\ NoKey \notin Keys
  /\ NoMeta \in Metas \cup {NoMeta}
  BY ConstantsAssumption DEF Zero, Positions, OptKeys, NoKey, Keys

\* Dropping an attempt leaves its variables what the types allow.
LEMMA DropType ==
  ASSUME TypeOK, NEW r \in Runs, Drop(r)
  PROVE  /\ epoch' \in [Runs -> Nat] /\ found' \in [Runs -> OptKeys]
         /\ seq' \in [Runs -> Nat \ {0}] /\ after' \in [Runs -> OptKeys]
         /\ read' \in [Runs -> Positions] /\ sealed' \in [Runs -> Positions]
         /\ flushed' \in [Runs -> Positions] /\ taken' \in [Runs -> Positions]
         /\ pending' \in [Runs -> Metas \cup {NoMeta}] /\ tries' \in [Runs -> 0..Attempts]
         /\ answer' \in [Runs -> {"none", "receipt", "refused"}] /\ owed' \in [Runs -> Positions]
  BY ConstantsAssumption, Constants DEF TypeOK, Drop

\* A failed attempt leaves every variable what the types allow.
LEMMA FailsType ==
  ASSUME TypeOK, NEW r \in Runs, NEW b \in BOOLEAN, Pending(r), Fails(r, b),
         UNCHANGED <<destVars, running, srcVars>>
  PROVE  TypeOK'
<1>1. stage' \in [Runs -> Stages]
  BY DEF TypeOK, Fails, Stages, Ended
<1>2. counted' \in [Runs -> SUBSET Keys] /\ commits' \in [Runs -> Nat]
  BY DEF TypeOK, Fails, Credit, Credits, OptKeys
<1>3. unresolved' \in [Runs -> OptKeys]
  <2>1. stage[r] \in InFlight => pending[r].key \in OptKeys
    BY DEF Pending, Metas, OptKeys
  <2> QED BY <2>1, Constants DEF TypeOK, Fails, LeftInFlight
<1> QED
  BY Zenon, <1>1, <1>2, <1>3, DropType DEF TypeOK, Fails, destVars, srcVars

\* Sending a try leaves the tries and the commits under way what the types allow.
LEMMA SendsType ==
  ASSUME TypeOK, NEW r \in Runs, NEW t \in 1..Attempts, Sends(r, t),
         epoch[r] \in Nat \ {0}, pending[r] \in Metas
  PROVE  /\ tries' \in [Runs -> 0..Attempts]
         /\ answer' \in [Runs -> {"none", "receipt", "refused"}]
         /\ running' \subseteq Copies
         /\ stage' \in [Runs -> Stages]
  BY ConstantsAssumption DEF TypeOK, Sends, Copies, Stages, Open, InFlight

LEMMA MaxType == \A a, b \in 0..Rows : Max2(a, b) \in 0..Rows
  BY DEF Max2

\* Every step keeps every variable what the code's types allow.
LEMMA TypeStep ==
  ASSUME TypeOK, \A r \in Runs : RunEpochs(r) /\ Pending(r), [Next]_vars
  PROVE  TypeOK'
<1> USE ConstantsAssumption, Constants
<1>1. ASSUME NEW r \in Runs, OpenSession(r) PROVE TypeOK'
  <2>1. fence' \in Fences /\ fence.landed \in OptKeys /\ fence.epoch + 1 \in Nat \ {0}
    BY <1>1 DEF OpenSession, TypeOK, Fences
  <2>2. openers' \in [1..MaxEpoch -> SUBSET Runs]
    BY Zenon, <1>1 DEF OpenSession, TypeOK
  <2>3. stage' \in [Runs -> Stages]
    BY <1>1 DEF OpenSession, TypeOK, Stages, Open
  <2> QED BY <1>1, <2>1, <2>2, <2>3 DEF OpenSession, TypeOK, runVars, tryVars, srcVars
<1>2. ASSUME NEW r \in Runs, OpenLost(r) PROVE TypeOK'
  <2>1. fence' \in Fences
    BY <1>2 DEF OpenLost, TypeOK, Fences
  <2>2. openers' \in [1..MaxEpoch -> SUBSET Runs]
    BY Zenon, <1>2 DEF OpenLost, TypeOK
  <2> QED BY <1>2, <2>1, <2>2 DEF OpenLost, TypeOK, runVars, readVars, sessVars, tryVars, srcVars
<1>3. ASSUME NEW r \in Runs, OpenRefused(r) PROVE TypeOK'
  BY <1>3 DEF OpenRefused, TypeOK, Stages, Ended, runVars, readVars, sessVars, tryVars, srcVars,
              destVars
<1>4. ASSUME NEW r \in Runs, NEW p \in Partitions, Read(r, p) PROVE TypeOK'
  <2>1. read' \in [Runs -> Positions]
    BY <1>4 DEF Read, TypeOK, Positions
  <2> QED BY Zenon, <1>4, <2>1 DEF Read, TypeOK, runVars, sessVars, tryVars, srcVars, destVars
<1>5. ASSUME NEW r \in Runs, NEW p \in Partitions, Seal(r, p) PROVE TypeOK'
  <2>1. sealed' \in [Runs -> Positions]
    BY <1>5 DEF Seal, TypeOK, Positions
  <2> QED BY Zenon, <1>5, <2>1 DEF Seal, TypeOK, runVars, sessVars, tryVars, srcVars, destVars
<1>6. ASSUME NEW r \in Runs, NEW p \in Partitions, FlushLane(r, p) PROVE TypeOK'
  <2>1. CASE fence.epoch # epoch[r]
    BY Zenon, <1>6, <2>1, FailsType DEF FlushLane
  <2>2. CASE fence.epoch = epoch[r]
    <3>1. PICK upto \in (flushed[r][p] + 1)..read[r][p] :
            /\ staged' = staged \cup {<<epoch[r], <<p, i>>>> : i \in (flushed[r][p] + 1)..upto}
            /\ flushed' = [flushed EXCEPT ![r][p] = upto]
      BY <1>6, <2>2 DEF FlushLane
    <3>2. flushed[r][p] \in 0..Rows /\ read[r][p] \in 0..Rows /\ epoch[r] \in Nat \ {0}
      BY <1>6 DEF TypeOK, Positions, RunEpochs, FlushLane
    <3>3. flushed' \in [Runs -> Positions]
      BY <3>1, <3>2 DEF TypeOK, Positions
    <3>4. staged' \subseteq (Nat \ {0}) \X RowIds
      BY <3>1, <3>2 DEF TypeOK, RowIds
    <3> QED BY Zenon, <1>6, <2>2, <3>3, <3>4
            DEF FlushLane, TypeOK, runVars, sessVars, tryVars, srcVars
  <2> QED BY <2>1, <2>2
<1>7. ASSUME NEW r \in Runs, Collect(r) PROVE TypeOK'
  <2>1. epoch[r] \in Nat \ {0} /\ seq[r] \in Nat \ {0}
    BY <1>7 DEF TypeOK, RunEpochs, Collect, Open
  <2>2. [key |-> Key(r), after |-> after[r], from |-> taken[r], to |-> sealed[r]] \in Metas
    BY <2>1 DEF TypeOK, Key, Metas, Keys
  <2>3. stage' \in [Runs -> Stages]
    BY <1>7 DEF Collect, TypeOK, Stages, Open, InFlight
  <2> QED BY <1>7, <2>2, <2>3 DEF Collect, TypeOK, runVars, readVars, sessVars, srcVars, destVars
<1>8. ASSUME NEW r \in Runs, FlushThenSend(r) PROVE TypeOK'
  <2> DEFINE unflushed == {w \in SegmentRows(pending[r]) : w[2] > flushed[r][w[1]]}
  <2>1. stage[r] \in Open /\ pending[r] \in Metas /\ epoch[r] \in Nat \ {0}
    BY <1>8 DEF FlushThenSend, Pending, RunEpochs, TypeOK, Open, InFlight
  <2>2. CASE unflushed # {} /\ fence.epoch # epoch[r]
    BY Zenon, <1>8, <2>1, <2>2, FailsType DEF FlushThenSend
  <2>3. CASE ~(unflushed # {} /\ fence.epoch # epoch[r])
    <3>1. /\ staged' = staged \cup {<<epoch[r], w>> : w \in unflushed}
          /\ flushed' = [flushed EXCEPT ![r] =
               [p \in Partitions |-> Max2(flushed[r][p], pending[r].to[p])]]
          /\ Sends(r, 1)
          /\ UNCHANGED <<runVars, read, sealed, pending, sessVars, owed, fence, state,
                         published, applied, openers, srcVars>>
      BY Zenon, <1>8, <2>3 DEF FlushThenSend
    <3>2. staged' \subseteq (Nat \ {0}) \X RowIds
      BY <3>1, <2>1 DEF TypeOK, SegmentRows
    <3>3. flushed' \in [Runs -> Positions]
      <4>1. \A p \in Partitions : flushed[r][p] \in 0..Rows /\ pending[r].to[p] \in 0..Rows
        BY <2>1 DEF TypeOK, Positions, Metas
      <4>2. [p \in Partitions |-> Max2(flushed[r][p], pending[r].to[p])] \in Positions
        BY <4>1, MaxType DEF Positions
      <4> QED BY <3>1, <4>2 DEF TypeOK
    <3>4. 1 \in 1..Attempts
      OBVIOUS
    <3> QED BY Zenon, <3>1, <3>2, <3>3, <3>4, <2>1, SendsType DEF TypeOK, runVars, sessVars, srcVars
  <2> QED BY <2>2, <2>3
<1>9. ASSUME NEW r \in Runs, AnswersTransiently(r) PROVE TypeOK'
  <2>1. CASE tries[r] < Attempts
    <3>0. stage' = [stage EXCEPT ![r] = "resending"]
      BY <1>9, <2>1 DEF AnswersTransiently, TriesLeft
    <3>1. stage' \in [Runs -> Stages]
      BY <3>0 DEF TypeOK, Stages, Open, InFlight
    <3> QED BY <1>9, <2>1, <3>1 DEF AnswersTransiently, TriesLeft, TypeOK, runVars, readVars, sessVars,
              tryVars, srcVars, destVars
  <2>2. CASE ~(tries[r] < Attempts)
    BY Zenon, <1>9, <2>2, FailsType DEF AnswersTransiently, TriesLeft, Open, InFlight
  <2> QED BY <2>1, <2>2
<1>10. ASSUME NEW r \in Runs, Resend(r) PROVE TypeOK'
  <2>1. epoch[r] \in Nat \ {0} /\ pending[r] \in Metas /\ tries[r] + 1 \in 1..Attempts
    BY <1>10 DEF Resend, TypeOK, RunEpochs, Pending, Open, InFlight
  <2> QED BY Zenon, <1>10, <2>1, SendsType
          DEF Resend, TypeOK, runVars, readVars, sessVars, destVars, srcVars
<1>11. ASSUME NEW r \in Runs, Record(r) PROVE TypeOK'
  <2>1. pending[r] \in Metas
    BY <1>11 DEF Record, Pending, Open, InFlight
  <2>2. pending[r].key \in Keys /\ pending[r].key \in OptKeys /\ pending[r].to \in Positions
    BY <2>1 DEF Metas, OptKeys
  <2>3. stage' \in [Runs -> Stages]
    BY <1>11 DEF Record, TypeOK, Stages, Open
  <2>4. owed' \in [Runs -> Positions]
    <3>1. PICK told \in Positions : owed' = [owed EXCEPT ![r] = told]
      BY Zenon, <1>11 DEF Record, Owes
    <3> QED BY <3>1 DEF TypeOK
  <2>5. counted' \in [Runs -> SUBSET Keys] /\ commits' \in [Runs -> Nat]
    BY <1>11, <2>2 DEF Record, Takes, TypeOK
  <2>6. /\ after' \in [Runs -> OptKeys] /\ seq' \in [Runs -> Nat \ {0}]
        /\ taken' \in [Runs -> Positions]
    BY <1>11, <2>2 DEF Record, Takes, TypeOK
  <2> QED BY Zenon, <1>11, <2>3, <2>4, <2>5, <2>6
          DEF Record, TypeOK, readVars, tryVars, destVars, srcVars
<1>12. ASSUME NEW r \in Runs, Refused(r) PROVE TypeOK'
  BY Zenon, <1>12, FailsType DEF Refused, Open, InFlight
<1>13. ASSUME NEW c \in running, Execute(c) PROVE TypeOK'
  <2>1. c \in Copies
    BY DEF TypeOK
  <2>2. c.run \in Runs /\ c.meta.key \in Keys /\ c.meta.key \in OptKeys /\ c.meta.to \in Positions
    BY <2>1 DEF Copies, Metas, OptKeys
  <2>3. answer' \in [Runs -> {"none", "receipt", "refused"}] /\ running' \subseteq Copies
    BY <1>13, <2>2 DEF Execute, TypeOK
  <2>4. /\ fence' \in Fences /\ state' \in Positions /\ published' \in [RowIds -> Nat]
        /\ staged' \subseteq (Nat \ {0}) \X RowIds /\ applied' \subseteq [key : Keys, run : Runs]
    <3>1. CASE Decide(fence, c.session, c.meta) = "apply"
      <4>1. /\ Publish(c.session, c.meta)
            /\ fence' = [epoch |-> fence.epoch, landed |-> c.meta.key]
            /\ state' = c.meta.to
            /\ applied' = applied \cup {[key |-> c.meta.key, run |-> c.run]}
        BY <1>13, <3>1 DEF Execute
      <4>2. fence' \in Fences /\ state' \in Positions
        BY <4>1, <2>2 DEF TypeOK, Fences
      <4>3. published' \in [RowIds -> Nat] /\ staged' \subseteq (Nat \ {0}) \X RowIds
        BY <4>1 DEF Publish, TypeOK
      <4>4. applied' \subseteq [key : Keys, run : Runs]
        BY <4>1, <2>2 DEF TypeOK
      <4> QED BY <4>2, <4>3, <4>4
    <3>2. CASE Decide(fence, c.session, c.meta) # "apply"
      <4>1. UNCHANGED <<published, staged, fence, state, applied>>
        BY <1>13, <3>2 DEF Execute
      <4> QED BY <4>1 DEF TypeOK
    <3> QED BY <3>1, <3>2
  <2>5. UNCHANGED <<stage, runVars, readVars, pending, tries, sessVars, owed, openers, srcVars>>
    BY <1>13 DEF Execute
  <2> QED BY <2>3, <2>4, <2>5 DEF TypeOK, runVars, readVars, sessVars, srcVars
<1>14. ASSUME NEW told \in Positions, Hears(told) PROVE kept' \in Positions
  <2>1. \A p \in Partitions : kept[p] \in 0..Rows /\ told[p] \in 0..Rows
    BY DEF TypeOK, Positions
  <2> QED BY Zenon, <1>14, <2>1, MaxType DEF Hears, Positions
<1>15. ASSUME NEW r \in Runs, Reported(r) PROVE TypeOK'
  <2>1. kept' \in Positions
    BY <1>15, <1>14 DEF Reported, TypeOK
  <2>2. stage' \in [Runs -> Stages] /\ owed' \in [Runs -> Positions]
    BY <1>15 DEF Reported, TypeOK, Stages, Open
  <2>3. UNCHANGED <<runVars, readVars, tryVars, sessVars, destVars, running, telling>>
    BY <1>15 DEF Reported
  <2> QED BY <2>1, <2>2, <2>3
          DEF TypeOK, runVars, readVars, tryVars, sessVars, destVars
<1>16. ASSUME NEW r \in Runs, ReportFails(r) PROVE TypeOK'
  <2>1. stage' \in [Runs -> Stages]
    BY <1>16 DEF ReportFails, TypeOK, Stages, Open
  <2>2. telling' \subseteq Positions
    BY <1>16 DEF ReportFails, TypeOK
  <2>3. UNCHANGED <<runVars, readVars, tryVars, sessVars, destVars, running, kept>>
    BY <1>16 DEF ReportFails
  <2>4. owed' \in [Runs -> Positions]
    <3>1. PICK dropped \in SUBSET Partitions :
            owed' = [owed EXCEPT ![r] =
              [p \in Partitions |-> IF p \in dropped THEN 0 ELSE owed[r][p]]]
      BY Zenon, <1>16 DEF ReportFails
    <3>2. [p \in Partitions |-> IF p \in dropped THEN 0 ELSE owed[r][p]] \in Positions
      BY DEF TypeOK, Positions
    <3> QED BY <3>1, <3>2 DEF TypeOK
  <2> QED BY <2>1, <2>2, <2>3, <2>4
          DEF TypeOK, runVars, readVars, tryVars, sessVars, destVars
<1>17. ASSUME NEW r \in Runs, ReportAgain(r) PROVE TypeOK'
  <2>1. stage' \in [Runs -> Stages]
    BY <1>17 DEF ReportAgain, TypeOK, Stages, Open
  <2> QED BY Zenon, <1>17, <2>1
          DEF ReportAgain, TypeOK, runVars, readVars, tryVars, sessVars, destVars, srcVars
<1>18. ASSUME NEW told \in telling, HearsLate(told) PROVE TypeOK'
  <2>1. kept' \in Positions
    BY <1>18, <1>14 DEF HearsLate, TypeOK
  <2> QED BY <1>18, <2>1
          DEF HearsLate, TypeOK, runVars, readVars, tryVars, sessVars, destVars
<1>19. ASSUME NEW r \in Runs, Finish(r) PROVE TypeOK'
  <2>1. stage' \in [Runs -> Stages]
    BY <1>19 DEF Finish, Finishes, TypeOK, Stages, Ended
  <2>2. counted' \in [Runs -> SUBSET Keys] /\ commits' \in [Runs -> Nat]
    BY <1>19 DEF TypeOK, Finish, Finishes, Credit, Credits, OptKeys
  <2>3. unresolved' \in [Runs -> OptKeys]
    BY <1>19 DEF TypeOK, Finish, Finishes
  <2> QED BY Zenon, <1>19, <2>1, <2>2, <2>3, DropType DEF TypeOK, Finish, Finishes, destVars, srcVars
<1>20. ASSUME NEW r \in Runs, FailAttempt(r) PROVE TypeOK'
  BY <1>20, FailsType DEF FailAttempt
<1>21. ASSUME NEW r \in Runs, Crash(r) PROVE TypeOK'
  <2>1. stage' \in [Runs -> Stages]
    BY <1>21 DEF Crash, TypeOK, Stages, Ended
  <2> QED BY Zenon, <1>21, <2>1, DropType DEF Crash, TypeOK, destVars, srcVars
<1>22. CASE UNCHANGED vars
  BY <1>22 DEF TypeOK, vars, runVars, readVars, tryVars, sessVars, destVars, srcVars
<1> QED
  BY <1>1, <1>2, <1>3, <1>4, <1>5, <1>6, <1>7, <1>8, <1>9, <1>10, <1>11, <1>12, <1>13, <1>15,
     <1>16, <1>17, <1>18, <1>19, <1>20, <1>21, <1>22 DEF Next
-----------------------------------------------------------------------------
(***************************************************************************)
(* The invariant, and what follows from it.                                *)
(***************************************************************************)

\* Before any run opens, nothing is staged, committed or owed.
LEMMA InitInv == Init => Inv
<1> SUFFICES ASSUME Init PROVE Inv
  OBVIOUS
<1> USE DEF Init
<1>0. Zero \in Positions /\ NoKey \in OptKeys /\ NoKey.epoch = 0 /\ NoKey.seq = 0
  BY ConstantsAssumption DEF Zero, Positions, OptKeys, NoKey
<1>1. TypeOK
  <2>1. fence \in Fences
    BY <1>0 DEF Fences
  <2>2. "idle" \in Stages
    BY DEF Stages
  <2> QED BY <1>0, <2>1, <2>2, ConstantsAssumption DEF TypeOK
<1>2. AtMost(Zero, Zero)
  BY <1>0, ConstantsAssumption DEF AtMost, Positions
<1>3. DestInv
  <2>1. ExactlyOnce
    <3> SUFFICES ASSUME NEW w \in RowIds PROVE published[w] = IF w[2] <= state[w[1]] THEN 1 ELSE 0
      BY DEF ExactlyOnce
    <3>1. w[1] \in Partitions /\ w[2] \in 1..Rows
      BY DEF RowIds
    <3> QED BY <3>1, ConstantsAssumption DEF Zero
  <2> QED BY <1>0, <1>2, <2>1, ConstantsAssumption DEF DestInv
<1>4. ASSUME NEW r \in Runs PROVE RunInv(r)
  <2>1. stage[r] = "idle" /\ stage[r] \notin Open /\ stage[r] \notin InFlight /\ stage[r] \notin Sent
    BY DEF Open, InFlight, Sent
  <2>2. unresolved[r] = NoKey /\ owed[r] = Zero
    OBVIOUS
  <2>3. Counts(r)
    BY <2>1, FS_EmptySet DEF Counts
  <2>4. RunEpochs(r) /\ Progress(r) /\ Pending(r) /\ Lands(r) /\ Holds(r) /\ Receipt(r)
        /\ Found(r) /\ Unresolved(r)
    BY <2>1, <2>2 DEF RunEpochs, Progress, Pending, Lands, Holds, Receipt, Found, Unresolved
  <2> QED BY <1>2, <2>1, <2>2, <2>3, <2>4 DEF RunInv
<1> QED BY <1>1, <1>3, <1>4 DEF Inv, SameCopies

\* Every step of every run, of the destination and of the source keeps the
\* invariant.
LEMMA InvStep == Inv /\ [Next]_vars => Inv'
<1> SUFFICES ASSUME Inv, [Next]_vars PROVE Inv'
  OBVIOUS
<1>0. TypeOK'
  BY TypeStep DEF Inv, RunInv
<1>1. ASSUME NEW r \in Runs, OpenSession(r) \/ OpenLost(r) \/ OpenRefused(r) PROVE Inv'
  BY <1>0, <1>1, OpenSessionStep, OpenLostStep, OpenRefusedStep
<1>2. ASSUME NEW r \in Runs, Collect(r) \/ FlushThenSend(r) \/ Resend(r) \/ Record(r) PROVE Inv'
  BY <1>0, <1>2, CollectStep, FlushThenSendStep, ResendStep, RecordStep
<1>3. ASSUME NEW r \in Runs, AnswersTransiently(r) PROVE Inv'
  <2>1. CASE tries[r] < Attempts
    BY <1>0, <1>3, <2>1, ResendsStep
  <2>2. CASE ~(tries[r] < Attempts)
    <3>1. Fails(r, TRUE) /\ UNCHANGED <<destVars, running, srcVars>> /\ stage[r] \in Open
      BY Zenon, <1>3, <2>2 DEF AnswersTransiently, TriesLeft, Open, InFlight
    <3> QED BY Zenon, <1>0, <3>1, FailsStep
  <2> QED BY <2>1, <2>2
<1>4. ASSUME NEW r \in Runs, Refused(r) \/ FailAttempt(r) PROVE Inv'
  <2>1. \E b \in BOOLEAN : Fails(r, b)
    BY Zenon, <1>4 DEF Refused, FailAttempt
  <2>2. stage[r] \in Open /\ UNCHANGED <<destVars, running, srcVars>>
    BY Zenon, <1>4 DEF Refused, FailAttempt, Open, InFlight
  <2> QED BY <1>0, <2>1, <2>2, FailsStep
<1>5. ASSUME NEW r \in Runs, Reported(r) \/ ReportFails(r) \/ ReportAgain(r) PROVE Inv'
  BY <1>0, <1>5, ReportedStep, ReportFailsStep, ReportAgainStep
<1>6. ASSUME NEW r \in Runs, Finish(r) \/ Crash(r) PROVE Inv'
  BY <1>0, <1>6, FinishStep, CrashStep
<1>7. ASSUME NEW r \in Runs, NEW p \in Partitions, Read(r, p) \/ Seal(r, p) \/ FlushLane(r, p)
      PROVE  Inv'
  <2>1. CASE Read(r, p) \/ Seal(r, p)
    BY <1>0, <2>1, ReadStep, SealStep
  <2>2. CASE FlushLane(r, p) /\ fence.epoch = epoch[r]
    BY <1>0, <2>2, FlushLaneStep
  <2>3. CASE FlushLane(r, p) /\ fence.epoch # epoch[r]
    <3>1. Fails(r, FALSE) /\ UNCHANGED <<destVars, running, srcVars>> /\ stage[r] \in Open
      BY Zenon, <2>3 DEF FlushLane
    <3> QED BY Zenon, <1>0, <3>1, FailsStep
  <2> QED BY <1>7, <2>1, <2>2, <2>3
<1>8. ASSUME NEW c \in running, Execute(c) PROVE Inv'
  BY <1>0, <1>8, ExecuteStep
<1>9. ASSUME NEW told \in telling, HearsLate(told) PROVE Inv'
  BY <1>0, <1>9, HearsLateStep
<1>10. CASE UNCHANGED vars
  <2>1. UNCHANGED <<stage, runVars, readVars, tryVars, sessVars, owed, destVars, running, srcVars>>
    BY <1>10 DEF vars
  <2>2. \A r \in Runs : RunInv(r)'
    BY <2>1, RunFrame DEF Inv, Local, runVars, readVars, tryVars, sessVars, destVars
  <2>3. \A c \in running' : CopyInv(c)'
    BY <2>1, CopyFrame DEF Inv, CopyLocal, runVars, tryVars, sessVars, destVars
  <2>4. \A a \in applied' : AppliedInv(a)'
    BY <2>1, AppliedFrame DEF Inv, AppliedLocal, runVars, tryVars, sessVars, destVars
  <2>5. DestInv'
    BY <2>1 DEF Inv, DestInv, ExactlyOnce, AtMost, destVars, srcVars
  <2> QED BY <1>0, <2>1, <2>2, <2>3, <2>4, <2>5 DEF Inv, SameCopies
<1> QED BY <1>1, <1>2, <1>3, <1>4, <1>5, <1>6, <1>7, <1>8, <1>9, <1>10 DEF Next

\* The load of a pipeline, whatever its runs, keeps the invariant.
THEOREM Invariance == Spec => []Inv
<1>1. Init => Inv
  BY InitInv
<1>2. Inv /\ [Next]_vars => Inv'
  BY InvStep
<1> QED BY <1>1, <1>2, PTL DEF Spec

\* Every variable keeps to the code's types.
THEOREM TypeCorrect == Spec => []TypeOK
<1>1. Inv => TypeOK
  BY DEF Inv
<1> QED BY <1>1, Invariance, PTL

\* No row is lost or doubled, whatever was retried, late, fenced or crashed
\* (coordinator/commit.rs commit against landed.rs answer).
THEOREM DeliversExactlyOnce == Spec => []ExactlyOnce
<1>1. Inv => ExactlyOnce
  BY DEF Inv, DestInv
<1> QED BY <1>1, Invariance, PTL

\* A source is told of no position that is not committed (coordinator/acks.rs).
THEOREM AcknowledgesCommitted == Spec => []Acknowledged
<1>1. Inv => Acknowledged
  BY DEF Inv, DestInv, Acknowledged, AtMost
<1> QED BY <1>1, Invariance, PTL

\* A report counts commits of its run that landed, each once (report/ledger.rs).
THEOREM CountsLanded == Spec => [](CountedLanded /\ CountedOnce)
<1>1. Inv => CountedLanded /\ CountedOnce
  BY DEF Inv, RunInv, Counts, CountedLanded, CountedOnce
<1> QED BY <1>1, Invariance, PTL

\* No commit that landed goes uncounted but one another run landed over
\* (report/ledger.rs).
THEOREM CountsAll == Spec => []NothingUncounted
<1>1. Inv => NothingUncounted
  BY DEF Inv, AppliedInv, NothingUncounted
<1> QED BY <1>1, Invariance, PTL

\* A run that ends a success has everything committed (coordinator.rs run).
THEOREM SuccessIsWhole == Spec => []SucceededLoaded
<1>1. Inv => SucceededLoaded
  BY DEF Inv, RunInv, SucceededLoaded
<1> QED BY <1>1, Invariance, PTL
-----------------------------------------------------------------------------
(***************************************************************************)
(* What each step does to the destination and the source.                  *)
(***************************************************************************)

\* Every step but an execution that applies leaves what is landed and published.
LEMMA StepKinds ==
  ASSUME Inv, [Next]_vars
  PROVE  \/ /\ UNCHANGED <<state, published>> /\ fence'.landed = fence.landed
            /\ \/ UNCHANGED kept
               \/ \E told \in Positions : AtMost(told, state) /\ Hears(told)
         \/ \E c \in running : Execute(c) /\ Decide(fence, c.session, c.meta) = "apply"
<1> DEFINE Quiet == UNCHANGED <<state, published, kept>> /\ fence'.landed = fence.landed
<1>1. ASSUME NEW r \in Runs, OpenSession(r) \/ OpenLost(r) PROVE Quiet
  BY <1>1 DEF OpenSession, OpenLost, srcVars
<1>2. ASSUME NEW r \in Runs, \/ OpenRefused(r) \/ Collect(r) \/ AnswersTransiently(r) \/ Resend(r)
                             \/ Record(r) \/ Refused(r) \/ ReportFails(r) \/ ReportAgain(r)
                             \/ Finish(r) \/ FailAttempt(r) \/ Crash(r)
      PROVE  Quiet
  BY Zenon, <1>2 DEF OpenRefused, Collect, AnswersTransiently, Resend, Record, Refused, ReportFails,
              ReportAgain, Finish, FailAttempt, Crash, destVars, srcVars
<1>3. ASSUME NEW r \in Runs, FlushThenSend(r) PROVE Quiet
  BY Zenon, <1>3 DEF FlushThenSend, destVars, srcVars
<1>4. ASSUME NEW r \in Runs, NEW p \in Partitions, Read(r, p) \/ Seal(r, p) \/ FlushLane(r, p)
      PROVE  Quiet
  BY Zenon, <1>4 DEF Read, Seal, FlushLane, destVars, srcVars
<1>5. ASSUME NEW r \in Runs, Reported(r)
      PROVE  /\ UNCHANGED <<state, published>> /\ fence'.landed = fence.landed
             /\ \E told \in Positions : AtMost(told, state) /\ Hears(told)
  <2>1. owed[r] \in Positions /\ AtMost(owed[r], state)
    BY RunTypes DEF Inv, RunInv
  <2> QED BY <1>5, <2>1 DEF Reported, destVars
<1>6. ASSUME NEW told \in telling, HearsLate(told)
      PROVE  /\ UNCHANGED <<state, published>> /\ fence'.landed = fence.landed
             /\ \E heard \in Positions : AtMost(heard, state) /\ Hears(heard)
  <2>1. told \in Positions /\ AtMost(told, state)
    BY DEF Inv, TypeOK, DestInv
  <2> QED BY <1>6, <2>1 DEF HearsLate, destVars
<1>7. ASSUME NEW c \in running, Execute(c), Decide(fence, c.session, c.meta) # "apply" PROVE Quiet
  BY <1>7 DEF Execute, srcVars
<1>8. CASE UNCHANGED vars
  BY <1>8 DEF vars, destVars, srcVars
<1> HIDE DEF Quiet
<1>9. Quiet => /\ UNCHANGED <<state, published>> /\ fence'.landed = fence.landed
               /\ UNCHANGED kept
  BY DEF Quiet
<1> QED BY <1>1, <1>2, <1>3, <1>4, <1>5, <1>6, <1>7, <1>8, <1>9 DEF Next

\* Commits land in the order of their keys, and only the newest session's
\* (landed.rs answer).
THEOREM LandsInKeyOrder == Spec => LandsInOrder
<1>1. Inv /\ [Next]_vars =>
        [fence'.landed # fence.landed =>
           /\ fence'.landed.epoch = fence.epoch
           /\ Before(fence.landed, fence'.landed)]_vars
  BY StepKinds, ApplyFacts
<1> QED BY <1>1, Invariance, PTL DEF Spec, LandsInOrder

\* The load implements the pipeline's promise: rows appear in whole commits, each
\* once and in order, and the source is told only of rows published.
THEOREM ImplementsDelivery == Spec => Delivers
<1>1. Init => Promise!Init
  BY DEF Init, Promise!Init, Zero, RowIds
<1>2. Inv /\ Inv' /\ [Next]_vars => [Promise!Next]_<<state, published, kept>>
  <2> SUFFICES ASSUME Inv, Inv', [Next]_vars PROVE [Promise!Next]_<<state, published, kept>>
    OBVIOUS
  <2>1. ASSUME NEW c \in running, Execute(c), Decide(fence, c.session, c.meta) = "apply"
        PROVE  Promise!Land
    <3>1. /\ state' \in Positions /\ AtMost(state, state') /\ state' = c.meta.to
          /\ c.meta.from = state
          /\ published' = [w \in RowIds |-> IF w \in SegmentRows(c.meta) THEN published[w] + 1
                                            ELSE published[w]]
      BY <2>1, ApplyFacts
    <3>2. \A w \in RowIds :
            w \in SegmentRows(c.meta) <=> state[w[1]] < w[2] /\ w[2] <= state'[w[1]]
      BY <3>1 DEF SegmentRows
    <3>3. published' = [w \in RowIds |-> IF state[w[1]] < w[2] /\ w[2] <= state'[w[1]]
                                         THEN published[w] + 1 ELSE published[w]]
      BY <3>1, <3>2
    <3>4. UNCHANGED kept
      BY <2>1, ExecuteFacts
    <3> QED BY <3>1, <3>3, <3>4 DEF Promise!Land, Positions, AtMost, RowIds
  <2>2. ASSUME UNCHANGED <<state, published>>, NEW told \in Positions, AtMost(told, state),
               Hears(told)
        PROVE  Promise!Tell
    <3>1. kept' \in Positions /\ kept \in Positions /\ AtMost(kept', state)
      BY <2>2, HearsKept DEF Inv, TypeOK
    <3>2. \A p \in Partitions : kept[p] \in Int /\ told[p] \in Int
      BY <2>2, <3>1, ConstantsAssumption DEF Positions
    <3>3. \A p \in Partitions : kept[p] <= kept'[p]
      BY <2>2, <3>2 DEF Hears, Max2
    <3> QED BY <2>2, <3>1, <3>3 DEF Promise!Tell, Positions, AtMost
  <2> QED BY <2>1, <2>2, StepKinds DEF Promise!Next
<1> QED BY <1>1, <1>2, Invariance, PTL DEF Spec, Delivers, Promise!Spec
=============================================================================
