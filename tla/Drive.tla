-------------------------------- MODULE Drive -------------------------------
(***************************************************************************)
(* The life of one run (rdlt-engine/src/run.rs): attempts one after        *)
(* another, the retry policy that counts failures and starts over after    *)
(* progress, the wait between attempts, the two ways to stop a run from    *)
(* outside, and the deadline of a run that follows its source for a time.  *)
(*                                                                         *)
(* An attempt is what its coordinator does as far as the drive can see: it *)
(* lands commits that move the load on or only record again where it       *)
(* stands, notices a stop, and ends or fails. Module Load has the rest.    *)
(***************************************************************************)
EXTENDS Integers

CONSTANTS Attempts,  \* RetryPolicy::attempts
          Work       \* commits that move the load on, until the source's end

ASSUME DriveAssumption == Attempts \in Nat \ {0} /\ Work \in Nat

VARIABLES
  until,        \* PipelinePlan::until, chosen before the run starts
  resets,       \* RetryPolicy::resets_after_progress, likewise
  phase,        \* what the run does: an attempt, the wait before the next, or nothing
  status,       \* RunOutcome.report.status
  error,        \* whether the run holds the error of its last attempt
  failures,     \* failed attempts in a row
  attempted,    \* attempts started
  moved,        \* commits that moved the load on, over all attempts
  progressed,   \* AttemptLog.progressed
  stopping,     \* Coordinator.stopping
  afterCommit,  \* RunControl.after_commit
  now,          \* RunControl.now
  reached,      \* the deadline passed
  asked         \* a stop after a commit was asked from outside before (history)

planVars == <<until, resets>>
attemptVars == <<moved, progressed, stopping>>
stopVars == <<afterCommit, now, reached, asked>>
vars == <<planVars, phase, status, error, failures, attempted, attemptVars, stopVars>>
-----------------------------------------------------------------------------
Untils == {"exhausted", "forever", "for"}

Statuses == {"running", "succeeded", "stopped", "failed", "cancelled"}

\* Until::follows: the run reads on past what its source holds.
Follows == until # "exhausted"

Init ==
  /\ until \in Untils
  /\ resets \in BOOLEAN
  /\ phase = "attempting"
  /\ status = "running"
  /\ error = FALSE
  /\ failures = 0
  /\ attempted = 1
  /\ moved = 0
  /\ progressed = FALSE
  /\ stopping = FALSE
  /\ afterCommit = FALSE
  /\ now = FALSE
  /\ reached = FALSE
  /\ asked = FALSE
-----------------------------------------------------------------------------
(***************************************************************************)
(* Ending.                                                                 *)
(***************************************************************************)

\* Mutation: the deadline's stop is reported as a stop from outside.
DeadlinedAsStopped(ended, failed) == ended

\* Mutation: a run the deadline stops is succeeded, though its attempt failed.
DeadlinedDespiteError(ended, failed) ==
  IF reached /\ ended = "stopped" THEN "succeeded" ELSE ended

\* What a run that `drive` ended so, with an error or not, is reported as: the
\* deadline's stop is a success unless it found the run waiting to be retried.
Deadlined(ended, failed) ==
  IF reached /\ ended = "stopped"
  THEN IF failed THEN "failed" ELSE "succeeded"
  ELSE ended

Ends(ended, failed) ==
  /\ phase' = "ended"
  /\ status' = Deadlined(ended, failed)
  /\ error' = failed
-----------------------------------------------------------------------------
(***************************************************************************)
(* An attempt.                                                             *)
(***************************************************************************)

\* Mutation: a commit that only records positions again is progress.
ProgressesAlways(moves) == TRUE

\* Whether a commit that landed is progress: it moved rows or a position on.
Progresses(moves) == moves

CommitLands(moves) ==
  /\ phase = "attempting"
  /\ moves => moved < Work
  /\ moved' = IF moves THEN moved + 1 ELSE moved
  /\ progressed' = (progressed \/ Progresses(moves))
  /\ UNCHANGED <<planVars, phase, status, error, failures, attempted, stopping, stopVars>>

\* The coordinator notices the stop, and stops its reads.
SeesStop ==
  /\ phase = "attempting"
  /\ afterCommit
  /\ ~stopping
  /\ stopping' = TRUE
  /\ UNCHANGED <<planVars, phase, status, error, failures, attempted, moved, progressed,
                 stopVars>>

\* Coordinator::done: all is read and committed, or reading was stopped.
Done == stopping \/ (~Follows /\ moved = Work)

AttemptEnds ==
  /\ phase = "attempting"
  /\ ~now
  /\ Done
  /\ Ends(IF stopping THEN "stopped" ELSE "succeeded", FALSE)
  /\ UNCHANGED <<planVars, failures, attempted, attemptVars, stopVars>>

\* The totals of the report cannot hold what the attempt's receipts count.
ReportOverflows ==
  /\ phase = "attempting"
  /\ Ends("failed", TRUE)
  /\ UNCHANGED <<planVars, failures, attempted, attemptVars, stopVars>>

\* A stop now drops the attempt.
AttemptCancelled ==
  /\ phase = "attempting"
  /\ now
  /\ Ends("cancelled", TRUE)
  /\ UNCHANGED <<planVars, failures, attempted, attemptVars, stopVars>>

\* Failures in a row once this attempt failed too.
Failures == IF progressed /\ resets THEN 1 ELSE failures + 1

\* Mutation: one attempt more than the policy allows.
GivesUpLate(retryable) == ~retryable \/ Failures > Attempts

GivesUp(retryable) == ~retryable \/ Failures >= Attempts

\* The attempt fails, and the run gives up, or waits to try again.
AttemptFails(retryable) ==
  /\ phase = "attempting"
  /\ IF now
     THEN Ends("cancelled", TRUE) /\ UNCHANGED failures
     ELSE /\ failures' = Failures
          /\ IF GivesUp(retryable)
             THEN Ends("failed", TRUE)
             ELSE phase' = "waiting" /\ error' = TRUE /\ UNCHANGED status
  /\ UNCHANGED <<planVars, attempted, attemptVars, stopVars>>
-----------------------------------------------------------------------------
(***************************************************************************)
(* The wait before the next attempt: a stop now wins over a stop after a   *)
(* commit, and either over the next attempt.                               *)
(***************************************************************************)

WaitCancelled ==
  /\ phase = "waiting"
  /\ now
  /\ Ends("cancelled", TRUE)
  /\ UNCHANGED <<planVars, failures, attempted, attemptVars, stopVars>>

WaitStopped ==
  /\ phase = "waiting"
  /\ ~now
  /\ afterCommit
  /\ Ends("stopped", TRUE)
  /\ UNCHANGED <<planVars, failures, attempted, attemptVars, stopVars>>

NextAttempt ==
  /\ phase = "waiting"
  /\ ~now
  /\ ~afterCommit
  /\ phase' = "attempting"
  /\ attempted' = attempted + 1
  /\ error' = FALSE
  /\ progressed' = FALSE
  /\ stopping' = FALSE
  /\ UNCHANGED <<planVars, status, failures, moved, stopVars>>
-----------------------------------------------------------------------------
(***************************************************************************)
(* Stops.                                                                  *)
(***************************************************************************)

StopAfterCommit ==
  /\ phase # "ended"
  /\ ~afterCommit
  /\ afterCommit' = TRUE
  /\ asked' = TRUE
  /\ UNCHANGED <<planVars, phase, status, error, failures, attempted, attemptVars, now,
                 reached>>

StopNow ==
  /\ phase # "ended"
  /\ ~now
  /\ now' = TRUE
  /\ UNCHANGED <<planVars, phase, status, error, failures, attempted, attemptVars,
                 afterCommit, reached, asked>>

\* Mutation: the deadline is noted, and nothing is stopped.
DeadlineUnheeded ==
  /\ until = "for"
  /\ phase # "ended"
  /\ ~reached
  /\ reached' = TRUE
  /\ UNCHANGED <<planVars, phase, status, error, failures, attempted, attemptVars,
                 afterCommit, now, asked>>

\* The deadline passes while the run goes on, and stops it as a stop after a commit.
Deadline ==
  /\ until = "for"
  /\ phase # "ended"
  /\ ~reached
  /\ reached' = TRUE
  /\ afterCommit' = TRUE
  /\ UNCHANGED <<planVars, phase, status, error, failures, attempted, attemptVars, now,
                 asked>>

Next ==
  \/ \E moves \in BOOLEAN : CommitLands(moves)
  \/ SeesStop \/ AttemptEnds \/ ReportOverflows \/ AttemptCancelled
  \/ \E retryable \in BOOLEAN : AttemptFails(retryable)
  \/ WaitCancelled \/ WaitStopped \/ NextAttempt
  \/ StopAfterCommit \/ StopNow \/ Deadline

Spec == Init /\ [][Next]_vars

\* The engine's own steps are taken: an attempt reads on while there is anything to
\* read (a source's read that neither yields nor ends is the source's fault), notices
\* a stop and ends, waits are polled, and the clock runs. Nobody need stop a run, and
\* no attempt need fail.
Fairness ==
  /\ WF_vars(CommitLands(TRUE))
  /\ WF_vars(SeesStop) /\ WF_vars(AttemptEnds) /\ WF_vars(AttemptCancelled)
  /\ WF_vars(WaitCancelled) /\ WF_vars(WaitStopped) /\ WF_vars(NextAttempt)
  /\ WF_vars(Deadline)

FairSpec == Spec /\ Fairness
-----------------------------------------------------------------------------
(***************************************************************************)
(* Properties.                                                             *)
(***************************************************************************)

DriveTypeOK ==
  /\ until \in Untils /\ resets \in BOOLEAN
  /\ phase \in {"attempting", "waiting", "ended"}
  /\ status \in Statuses
  /\ error \in BOOLEAN
  /\ failures \in 0..Attempts
  /\ attempted \in Nat \ {0}
  /\ moved \in 0..Work
  /\ progressed \in BOOLEAN /\ stopping \in BOOLEAN
  /\ afterCommit \in BOOLEAN /\ now \in BOOLEAN /\ reached \in BOOLEAN /\ asked \in BOOLEAN

\* A run makes no more attempts than its policy allows since the load last moved on,
\* however often its commits only record again where it stands.
RetriesBounded ==
  /\ attempted <= (moved + 1) * (Attempts - 1) + 1
  /\ ~resets => attempted <= Attempts

\* A run that says it succeeded read its source to its end, or for as long as it was
\* asked, and no attempt of it is left failed.
SucceededTruly ==
  status = "succeeded" =>
    /\ ~error
    /\ (moved = Work /\ ~Follows) \/ (reached /\ stopping)

\* A run says it was stopped or cancelled only where a caller asked for that, and not
\* where its deadline stopped it.
StopsAsAsked ==
  /\ status = "stopped" => asked /\ ~reached
  /\ status = "cancelled" => now

\* A run that does not follow its source for good, and a run asked to stop, ends.
RunEnds == (until # "forever" \/ afterCommit \/ now) ~> (phase = "ended")

\* A run asked from outside to stop, before it ended by itself, is reported Stopped.
ExternalStopIsStopped == asked /\ Follows => status # "succeeded"
=============================================================================
