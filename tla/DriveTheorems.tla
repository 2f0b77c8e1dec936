---------------------------- MODULE DriveTheorems ---------------------------
(***************************************************************************)
(* What holds of every run, whatever its policy and however much there is  *)
(* to load: how often it tries, and that its status is true.               *)
(***************************************************************************)
EXTENDS Drive, TLAPS

\* The two halves of the type: counts, and flags and states.
Counts == /\ failures \in 0..Attempts
          /\ attempted \in Nat \ {0}
          /\ moved \in 0..Work

Flags ==
  /\ until \in Untils /\ resets \in BOOLEAN
  /\ phase \in {"attempting", "waiting", "ended"}
  /\ status \in Statuses
  /\ error \in BOOLEAN
  /\ progressed \in BOOLEAN /\ stopping \in BOOLEAN
  /\ afterCommit \in BOOLEAN /\ now \in BOOLEAN /\ reached \in BOOLEAN /\ asked \in BOOLEAN

\* Attempts the policy allows once the load moved on m times.
Allowed(m) == m * (Attempts - 1)

\* While an attempt goes on, every earlier one is among those allowed before the load
\* last moved on, or a failure in a row; once it progressed, the failures before it
\* are made good by the commit that moved it.
Counted ==
  /\ phase = "attempting" =>
       /\ failures <= Attempts - 1
       /\ progressed => moved >= 1
       /\ attempted <= Allowed(IF progressed THEN moved - 1 ELSE moved) + failures + 1
       /\ ~resets => attempted <= failures + 1
  /\ phase = "waiting" =>
       /\ failures <= Attempts - 1
       /\ attempted <= Allowed(moved) + failures
       /\ ~resets => attempted <= failures

\* Why a run is stopping, and what its status says of it.
Truthful ==
  /\ afterCommit => asked \/ reached
  /\ stopping => afterCommit
  /\ phase = "waiting" => error
  /\ phase # "ended" => status = "running"
  /\ SucceededTruly
  /\ StopsAsAsked

DriveInv == DriveTypeOK /\ RetriesBounded /\ Counted /\ Truthful

\* Moving on once more allows as many attempts again, and never fewer.
LEMMA AllowedGrows ==
  ASSUME NEW m \in Nat
  PROVE  /\ Allowed(m) \in Nat
         /\ Allowed(m + 1) = Allowed(m) + (Attempts - 1)
         /\ Allowed(m + 1) \in Nat
<1>1. ASSUME NEW k \in Nat PROVE m * k \in Nat /\ (m + 1) * k = m * k + k
  BY <1>1
<1>2. Attempts - 1 \in Nat
  BY DriveAssumption
<1> QED BY <1>1, <1>2 DEF Allowed

LEMMA TypeHalves == DriveTypeOK <=> Counts /\ Flags
BY DEF DriveTypeOK, Counts, Flags

LEMMA DriveInit == Init => DriveInv
<1> SUFFICES ASSUME Init PROVE DriveInv
  OBVIOUS
<1>1. Allowed(0) \in Nat /\ Allowed(1) = Allowed(0) + (Attempts - 1)
  BY AllowedGrows
<1>2. DriveTypeOK
  <2>1. Counts
    BY DriveAssumption DEF Init, Counts
  <2>2. Flags
    BY Zenon DEF Init, Flags, Statuses
  <2> QED BY <2>1, <2>2, TypeHalves
<1>3. RetriesBounded
  BY <1>1, DriveAssumption DEF Init, RetriesBounded, Allowed
<1>4. Counted
  BY <1>1, DriveAssumption DEF Init, Counted
<1>5. Truthful
  BY DEF Init, Truthful, SucceededTruly, StopsAsAsked
<1> QED BY <1>2, <1>3, <1>4, <1>5 DEF DriveInv

LEMMA CountsStep == Counts /\ Counted /\ [Next]_vars => Counts'
<1> SUFFICES ASSUME Counts, Counted, [Next]_vars PROVE Counts'
  OBVIOUS
<1> USE DriveAssumption DEF Counts, planVars, attemptVars, stopVars
<1>1. ASSUME NEW moves \in BOOLEAN, CommitLands(moves) PROVE Counts'
  BY <1>1 DEF CommitLands
<1>2. ASSUME NEW retryable \in BOOLEAN, AttemptFails(retryable) PROVE Counts'
  <2>1. phase = "attempting" /\ attempted' = attempted /\ moved' = moved
    BY <1>2 DEF AttemptFails
  <2>2. failures' = failures \/ failures' = Failures
    BY Zenon, <1>2 DEF AttemptFails
  <2>3. failures <= Attempts - 1
    BY <2>1 DEF Counted
  <2>4. Failures = 1 \/ Failures = failures + 1
    BY DEF Failures
  <2> QED BY <2>1, <2>2, <2>3, <2>4
<1>3. CASE SeesStop \/ StopAfterCommit \/ StopNow \/ Deadline
  BY <1>3 DEF SeesStop, StopAfterCommit, StopNow, Deadline
<1>4. CASE AttemptEnds \/ ReportOverflows \/ AttemptCancelled
  BY Zenon, <1>4 DEF AttemptEnds, ReportOverflows, AttemptCancelled
<1>5. CASE WaitCancelled \/ WaitStopped \/ NextAttempt
  <2>1. /\ failures' = failures /\ moved' = moved
        /\ attempted' = attempted \/ attempted' = attempted + 1
    BY Zenon, <1>5 DEF WaitCancelled, WaitStopped, NextAttempt
  <2> QED BY <2>1
<1>6. CASE UNCHANGED vars
  BY <1>6 DEF vars
<1> QED BY <1>1, <1>2, <1>3, <1>4, <1>5, <1>6 DEF Next

LEMMA FlagsStep == Flags /\ [Next]_vars => Flags'
<1> SUFFICES ASSUME Flags, [Next]_vars PROVE Flags'
  OBVIOUS
<1> USE DEF Flags, Statuses, planVars, attemptVars, stopVars
<1>0. ASSUME NEW ended \in Statuses, NEW failed \in BOOLEAN, Ends(ended, failed)
      PROVE  phase' = "ended" /\ status' \in Statuses /\ error' \in BOOLEAN
  BY <1>0 DEF Ends, Deadlined
<1>1. ASSUME NEW moves \in BOOLEAN, CommitLands(moves) PROVE Flags'
  BY <1>1 DEF CommitLands, Progresses
<1>2. ASSUME NEW retryable \in BOOLEAN, AttemptFails(retryable) PROVE Flags'
  BY Zenon, <1>0, <1>2 DEF AttemptFails
<1>3. CASE SeesStop \/ StopAfterCommit \/ StopNow \/ Deadline
  BY Zenon, <1>3 DEF SeesStop, StopAfterCommit, StopNow, Deadline
<1>4. CASE AttemptEnds
  BY Zenon, <1>0, <1>4 DEF AttemptEnds
<1>5. CASE ReportOverflows \/ AttemptCancelled
  BY Zenon, <1>0, <1>5 DEF ReportOverflows, AttemptCancelled
<1>6. CASE WaitCancelled \/ WaitStopped
  BY Zenon, <1>0, <1>6 DEF WaitCancelled, WaitStopped
<1>7. CASE NextAttempt
  BY Zenon, <1>7 DEF NextAttempt
<1>8. CASE UNCHANGED vars
  BY <1>8 DEF vars
<1> QED BY <1>1, <1>2, <1>3, <1>4, <1>5, <1>6, <1>7, <1>8 DEF Next

LEMMA TruthfulStep == Flags /\ Truthful /\ [Next]_vars => Truthful'
<1> SUFFICES ASSUME Flags, Truthful, [Next]_vars PROVE Truthful'
  OBVIOUS
<1> USE DEF Flags, Truthful, SucceededTruly, StopsAsAsked, Follows, planVars, attemptVars,
            stopVars, Ends, Deadlined
<1>1. ASSUME NEW moves \in BOOLEAN, CommitLands(moves) PROVE Truthful'
  BY <1>1 DEF CommitLands, Progresses
<1>2. ASSUME NEW retryable \in BOOLEAN, AttemptFails(retryable) PROVE Truthful'
  BY <1>2 DEF AttemptFails, GivesUp, Failures
<1>3. CASE SeesStop \/ StopAfterCommit \/ StopNow \/ Deadline
  BY <1>3 DEF SeesStop, StopAfterCommit, StopNow, Deadline
<1>4. CASE AttemptEnds \/ ReportOverflows \/ AttemptCancelled
  BY <1>4 DEF AttemptEnds, Done, ReportOverflows, AttemptCancelled
<1>5. CASE WaitCancelled \/ WaitStopped \/ NextAttempt
  BY <1>5 DEF WaitCancelled, WaitStopped, NextAttempt
<1>6. CASE UNCHANGED vars
  BY <1>6 DEF vars
<1> QED BY <1>1, <1>2, <1>3, <1>4, <1>5, <1>6 DEF Next

\* Each step keeps the count of attempts within what the policy allows.
LEMMA CountedStep == Counts /\ Flags /\ Truthful /\ Counted /\ RetriesBounded /\ [Next]_vars
                       => Counted' /\ RetriesBounded'
<1> SUFFICES ASSUME Counts, Flags, Truthful, Counted, RetriesBounded, [Next]_vars
             PROVE  Counted' /\ RetriesBounded'
  OBVIOUS
<1> USE DEF planVars, attemptVars, stopVars
<1>0. /\ failures \in Nat /\ attempted \in Nat /\ moved \in Nat /\ moved + 1 \in Nat
      /\ Attempts \in Nat /\ Attempts - 1 \in Nat
  BY DriveAssumption DEF Counts
<1>a. /\ Allowed(moved) \in Nat /\ Allowed(moved + 1) = Allowed(moved) + (Attempts - 1)
      /\ Allowed(moved + 1) \in Nat
  BY <1>0, AllowedGrows
<1>b. moved >= 1 => /\ Allowed(moved - 1) \in Nat
                    /\ Allowed(moved) = Allowed(moved - 1) + (Attempts - 1)
  <2> SUFFICES ASSUME moved >= 1 PROVE /\ Allowed(moved - 1) \in Nat
                                       /\ Allowed(moved) = Allowed(moved - 1) + (Attempts - 1)
    OBVIOUS
  <2>1. moved - 1 \in Nat /\ (moved - 1) + 1 = moved
    BY <1>0
  <2>2. Allowed(moved - 1) \in Nat /\ Allowed((moved - 1) + 1) = Allowed(moved - 1) + (Attempts - 1)
    BY <2>1, AllowedGrows
  <2> QED BY <2>1, <2>2
<1>c. attempted <= Allowed(moved + 1) + 1 /\ (~resets => attempted <= Attempts)
  BY DEF RetriesBounded, Allowed
<1>k. ASSUME moved' = moved, attempted' = attempted, resets' = resets
      PROVE  RetriesBounded'
  BY <1>k, <1>c DEF RetriesBounded
<1>1. ASSUME NEW moves \in BOOLEAN, CommitLands(moves) PROVE Counted' /\ RetriesBounded'
  <2>1. /\ phase = "attempting" /\ phase' = "attempting" /\ failures' = failures
        /\ attempted' = attempted /\ resets' = resets
        /\ moved' = IF moves THEN moved + 1 ELSE moved
        /\ progressed' = (progressed \/ moves)
    BY <1>1 DEF CommitLands, Progresses
  <2>2. /\ failures <= Attempts - 1
        /\ progressed => moved >= 1
        /\ attempted <= Allowed(IF progressed THEN moved - 1 ELSE moved) + failures + 1
        /\ ~resets => attempted <= failures + 1
    BY <2>1 DEF Counted
  <2>3. CASE ~moves
    <3>1. moved' = moved /\ progressed' = progressed
      BY <2>1, <2>3 DEF Flags
    <3> QED BY <2>1, <2>2, <3>1, <1>k DEF Counted
  <2>4. CASE moves
    <3>1. moved' = moved + 1 /\ progressed' /\ moved' - 1 = moved
      <4>1. moved' = moved + 1
        BY <2>1, <2>4
      <4>2. progressed' = TRUE
        BY <2>1, <2>4, Zenon
      <4> QED BY <1>0, <4>1, <4>2
    <3>2. attempted <= Allowed(moved) + failures + 1
      <4>1. CASE progressed
        <5>1. attempted <= Allowed(moved - 1) + failures + 1 /\ moved >= 1
          BY <2>2, <4>1
        <5> QED BY <1>0, <1>a, <1>b, <5>1
      <4>2. CASE ~progressed
        BY <2>2, <4>2
      <4> QED BY <4>1, <4>2
    <3>3. (IF progressed' THEN moved' - 1 ELSE moved') = moved /\ moved' >= 1
      BY <1>0, <3>1
    <3>4. Counted'
      <4>1. attempted' <= (IF progressed' THEN moved' - 1 ELSE moved') * (Attempts - 1)
                          + failures' + 1
        BY <2>1, <3>2, <3>3 DEF Allowed
      <4>2. failures' <= Attempts - 1 /\ (~resets' => attempted' <= failures' + 1)
        BY <2>1, <2>2
      <4> QED BY <2>1, <3>3, <4>1, <4>2 DEF Counted, Allowed
    <3>5. moved' + 1 \in Nat /\ Allowed(moved' + 1) = Allowed(moved + 1) + (Attempts - 1)
      BY <1>0, <3>1, AllowedGrows
    <3>6. attempted' <= Allowed(moved' + 1) + 1
      BY <1>0, <1>a, <1>c, <2>1, <3>5
    <3> QED BY <3>4, <3>6, <2>1, <1>c DEF RetriesBounded, Allowed
  <2> QED BY <2>3, <2>4
<1>2. ASSUME NEW retryable \in BOOLEAN, AttemptFails(retryable) PROVE Counted' /\ RetriesBounded'
  <2>1. /\ phase = "attempting" /\ attempted' = attempted /\ resets' = resets
        /\ moved' = moved /\ progressed' = progressed
    BY <1>2 DEF AttemptFails
  <2>2. /\ failures <= Attempts - 1
        /\ progressed => moved >= 1
        /\ attempted <= Allowed(IF progressed THEN moved - 1 ELSE moved) + failures + 1
        /\ ~resets => attempted <= failures + 1
    BY <2>1 DEF Counted
  <2>3. \/ phase' = "ended"
        \/ phase' = "waiting" /\ failures' = Failures /\ ~(Failures >= Attempts)
    BY Zenon, <1>2 DEF AttemptFails, GivesUp, Ends
  <2>4. Failures = (IF progressed /\ resets THEN 1 ELSE failures + 1) /\ Failures \in Nat
    BY <1>0 DEF Failures
  <2>5. attempted <= Allowed(moved) + Failures
    <3>1. CASE progressed /\ resets
      BY <1>0, <1>a, <1>b, <2>2, <2>4, <3>1
    <3>2. CASE ~(progressed /\ resets)
      BY <1>0, <1>a, <1>b, <2>2, <2>4, <3>2
    <3> QED BY <3>1, <3>2
  <2>6. ~resets => attempted <= Failures
    BY <2>2, <2>4
  <2>7. CASE phase' = "ended"
    BY <2>1, <2>7, <1>k DEF Counted
  <2>8. CASE phase' = "waiting" /\ failures' = Failures /\ ~(Failures >= Attempts)
    <3>1. failures' <= Attempts - 1
      BY <1>0, <2>4, <2>8
    <3>2. Counted'
      BY <2>1, <2>5, <2>6, <2>8, <3>1 DEF Counted, Allowed
    <3> QED BY <2>1, <3>2, <1>k
  <2> QED BY <2>3, <2>7, <2>8
<1>3. ASSUME SeesStop \/ StopAfterCommit \/ StopNow \/ Deadline PROVE Counted' /\ RetriesBounded'
  <2>1. UNCHANGED <<resets, phase, failures, attempted, moved, progressed>>
    BY <1>3 DEF SeesStop, StopAfterCommit, StopNow, Deadline
  <2> QED BY <2>1, <1>k DEF Counted, Allowed
<1>4. ASSUME AttemptEnds \/ ReportOverflows \/ AttemptCancelled \/ WaitCancelled \/ WaitStopped
      PROVE  Counted' /\ RetriesBounded'
  <2>1. phase' = "ended" /\ UNCHANGED <<resets, attempted, moved>>
    BY Zenon, <1>4 DEF AttemptEnds, ReportOverflows, AttemptCancelled, WaitCancelled, WaitStopped, Ends
  <2> QED BY <2>1, <1>k DEF Counted
<1>5. ASSUME NextAttempt PROVE Counted' /\ RetriesBounded'
  <2>1. /\ phase = "waiting" /\ phase' = "attempting" /\ attempted' = attempted + 1
        /\ progressed' = FALSE /\ failures' = failures /\ moved' = moved /\ resets' = resets
    BY <1>5 DEF NextAttempt
  <2>2. /\ failures <= Attempts - 1
        /\ attempted <= Allowed(moved) + failures
        /\ ~resets => attempted <= failures
    BY <2>1 DEF Counted
  <2>3. /\ attempted + 1 <= Allowed(moved) + failures + 1
        /\ ~resets => attempted + 1 <= failures + 1
        /\ attempted + 1 <= Allowed(moved + 1) + 1
        /\ ~resets => attempted + 1 <= Attempts
    BY <1>0, <1>a, <2>2
  <2>4. Counted'
    BY <2>1, <2>2, <2>3 DEF Counted, Allowed
  <2>5. RetriesBounded'
    BY <2>1, <2>3 DEF RetriesBounded, Allowed
  <2> QED BY <2>4, <2>5
<1>6. ASSUME UNCHANGED vars PROVE Counted' /\ RetriesBounded'
  <2>1. UNCHANGED <<resets, phase, failures, attempted, moved, progressed>>
    BY <1>6 DEF vars
  <2> QED BY <2>1, <1>k DEF Counted, Allowed
<1> QED BY <1>1, <1>2, <1>3, <1>4, <1>5, <1>6 DEF Next

LEMMA DriveInvariance == Spec => []DriveInv
<1>1. Init => DriveInv
  BY DriveInit
<1>2. DriveInv /\ [Next]_vars => DriveInv'
  <2> SUFFICES ASSUME DriveInv, [Next]_vars PROVE DriveInv'
    OBVIOUS
  <2>1. Counts /\ Flags /\ Counted /\ Truthful /\ RetriesBounded
    BY TypeHalves DEF DriveInv
  <2>2. Counts' /\ Flags'
    BY <2>1, CountsStep, FlagsStep
  <2>3. Counted' /\ RetriesBounded' /\ Truthful'
    BY <2>1, CountedStep, TruthfulStep
  <2>4. DriveTypeOK'
    BY <2>2 DEF DriveTypeOK, Counts, Flags
  <2> QED BY <2>3, <2>4 DEF DriveInv
<1> QED BY <1>1, <1>2, PTL DEF Spec

\* A run makes no more attempts than its policy allows since the load last moved on
\* (run.rs drive): a run that cannot move on gives up.
THEOREM RetriesAreBounded == Spec => []RetriesBounded
<1>1. DriveInv => RetriesBounded
  BY DEF DriveInv
<1> QED BY <1>1, DriveInvariance, PTL

\* A status of success, of a stop or of a cancellation is true (run.rs drive,
\* deadlined).
THEOREM StatusIsTrue == Spec => [](SucceededTruly /\ StopsAsAsked)
<1>1. DriveInv => SucceededTruly /\ StopsAsAsked
  BY DEF DriveInv, Truthful
<1> QED BY <1>1, DriveInvariance, PTL

\* The variables of a run keep their types, failures in a row among them.
THEOREM DriveTypeCorrect == Spec => []DriveTypeOK
<1>1. DriveInv => DriveTypeOK
  BY DEF DriveInv
<1> QED BY <1>1, DriveInvariance, PTL
=============================================================================
