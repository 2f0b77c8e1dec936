-------------------------------- MODULE Load --------------------------------
(***************************************************************************)
(* The exactly-once load protocol of one pipeline: runs of the engine, each*)
(* opening one attempt after another against one destination, reading rows *)
(* of the source, staging them, and committing them with the positions     *)
(* that go with them; commits sent again in place, answers lost, copies of *)
(* a commit that a destination executes late, runs that crash, runs that   *)
(* overlap; committed positions reported to the source, and landed commits *)
(* counted in the run's report, a lost answer's by the next open.          *)
(*                                                                         *)
(* A partition holds rows 1..Rows and a position is the number of rows     *)
(* before it. A run whose attempt failed may open another or not: the      *)
(* policy that decides is module Drive's.                                  *)
(***************************************************************************)
EXTENDS Landed, Integers, FiniteSets

CONSTANTS Runs,        \* runs of the pipeline, one process each
          Partitions,  \* partitions of its stream, reported in one call
          Rows,        \* rows each partition holds
          Attempts,    \* tries of one commit at most: RetryPolicy::attempts
          MaxEpoch,    \* the last epoch there is: u64::MAX in the code
          MaxSeq       \* commits of one session at most: u64::MAX in the code

ASSUME ConstantsAssumption == /\ Rows \in Nat
                              /\ Attempts \in Nat \ {0}
                              /\ MaxEpoch \in Nat \ {0}
                              /\ MaxSeq \in Nat \ {0}

VARIABLES
  \* The run and its report.
  stage,       \* what the run is at
  unresolved,  \* Ledger.unresolved: a failed attempt's commit in flight, or NoKey
  counted,     \* the keys of the commits the report counts
  commits,     \* how many commits the report counts
  \* The attempt's coordinator, lanes and partitions.
  epoch,       \* the session's epoch
  found,       \* AttemptLog.opened: the key the open found landed
  seq, after,  \* Coordinator.key.seq, Coordinator.after
  read,        \* rows read of each partition
  sealed,      \* rows sealed of each partition
  flushed,     \* rows the lanes have flushed of each partition
  taken,       \* rows the commits that landed took of each partition
  pending,     \* the commit in flight while the stage is InFlight
  tries,       \* how often the commit in flight was sent
  answer,      \* the answer of its latest try
  owed,        \* the position each partition's source is owed, 0 for none
  \* The destination.
  fence,       \* the fence row
  state,       \* committed position of each partition
  published,   \* how often each row is published
  staged,      \* rows staged, each with the epoch of its session
  applied,     \* every commit applied, with the run that made it (history)
  openers,     \* the run that opened each epoch (history)
  \* Calls under way, and the source.
  running,     \* commits sent and not executed
  telling,     \* reports sent, given up and not yet heard
  kept         \* highest position each partition's source was told is committed

runVars  == <<unresolved, counted, commits>>
readVars == <<read, sealed, flushed>>
tryVars  == <<pending, tries, answer>>
sessVars == <<epoch, found, seq, after, taken>>
destVars == <<fence, state, published, staged, applied, openers>>
srcVars  == <<telling, kept>>
vars == <<stage, runVars, readVars, tryVars, sessVars, owed, destVars, running, srcVars>>
-----------------------------------------------------------------------------
Positions == [Partitions -> 0..Rows]

Zero == [p \in Partitions |-> 0]

RowIds == Partitions \X (1..Rows)

\* CommitMeta: the rows after `from` up to `to` are the sealed segments, `to` the
\* state records that go with them.
Metas == [key : Keys, after : OptKeys, from : Positions, to : Positions]

\* A try of a commit: the run that sent it, which try it is, the session it goes to.
Copies == [run : Runs, try : 1..Attempts, session : Nat \ {0}, meta : Metas]

NoMeta == [key |-> NoKey, after |-> NoKey, from |-> Zero, to |-> Zero]

InFlight == {"flushing", "committing", "resending"}

\* An attempt is open: its session, lanes and partitions live.
Open == InFlight \cup {"loading", "reporting"}

\* "failed" is an attempt's error no retry mends; "crashed" the process gone.
Ended == {"succeeded", "stopped", "failed", "crashed"}

Stages == Open \cup Ended \cup {"idle"}

Key(r) == [epoch |-> epoch[r], seq |-> seq[r]]

Max2(a, b) == IF a >= b THEN a ELSE b

\* The rows of the segments a commit names.
SegmentRows(meta) ==
  {w \in RowIds : meta.from[w[1]] < w[2] /\ w[2] <= meta.to[w[1]]}

Init ==
  /\ stage = [r \in Runs |-> "idle"]
  /\ unresolved = [r \in Runs |-> NoKey]
  /\ counted = [r \in Runs |-> {}]
  /\ commits = [r \in Runs |-> 0]
  /\ epoch = [r \in Runs |-> 0]
  /\ found = [r \in Runs |-> NoKey]
  /\ seq = [r \in Runs |-> 1]
  /\ after = [r \in Runs |-> NoKey]
  /\ read = [r \in Runs |-> Zero]
  /\ sealed = [r \in Runs |-> Zero]
  /\ flushed = [r \in Runs |-> Zero]
  /\ taken = [r \in Runs |-> Zero]
  /\ pending = [r \in Runs |-> NoMeta]
  /\ tries = [r \in Runs |-> 0]
  /\ answer = [r \in Runs |-> "none"]
  /\ owed = [r \in Runs |-> Zero]
  /\ fence = [epoch |-> 0, landed |-> NoKey]
  /\ state = Zero
  /\ published = [w \in RowIds |-> 0]
  /\ staged = {}
  /\ applied = {}
  /\ openers = [e \in 1..MaxEpoch |-> {}]
  /\ running = {}
  /\ telling = {}
  /\ kept = Zero
-----------------------------------------------------------------------------
(***************************************************************************)
(* How an attempt ends (report/ledger.rs record, run.rs drive).            *)
(***************************************************************************)

\* The attempt is dropped, and every task it started with it.
Drop(r) ==
  /\ epoch' = [epoch EXCEPT ![r] = 0]
  /\ found' = [found EXCEPT ![r] = NoKey]
  /\ seq' = [seq EXCEPT ![r] = 1]
  /\ after' = [after EXCEPT ![r] = NoKey]
  /\ read' = [read EXCEPT ![r] = Zero]
  /\ sealed' = [sealed EXCEPT ![r] = Zero]
  /\ flushed' = [flushed EXCEPT ![r] = Zero]
  /\ taken' = [taken EXCEPT ![r] = Zero]
  /\ pending' = [pending EXCEPT ![r] = NoMeta]
  /\ tries' = [tries EXCEPT ![r] = 0]
  /\ answer' = [answer EXCEPT ![r] = "none"]
  /\ owed' = [owed EXCEPT ![r] = Zero]

\* Mutation: a lost answer is taken for a landed commit, whatever the open found.
CreditsUnchecked(r) == unresolved[r] # NoKey

\* The open found landed the commit an earlier attempt lost the answer of.
Credits(r) == unresolved[r] # NoKey /\ found[r] = unresolved[r]

Credit(r) ==
  /\ counted' = [counted EXCEPT ![r] = IF Credits(r) THEN @ \cup {unresolved[r]} ELSE @]
  /\ commits' = [commits EXCEPT ![r] = IF Credits(r) THEN @ + 1 ELSE @]

\* Mutation: what a failed attempt has in flight is not kept for the next open.
LeftInFlightForgotten(r) == NoKey

\* Mutation: a commit already credited is kept, for the next open to find again.
LeftInFlightKept(r) == IF stage[r] \in InFlight THEN pending[r].key ELSE unresolved[r]

\* AttemptLog.in_flight: the commit whose outcome an attempt that ends leaves open.
LeftInFlight(r) == IF stage[r] \in InFlight THEN pending[r].key ELSE NoKey

\* An attempt that opened fails, with an error a retry may mend or not: its
\* commit in flight is unresolved until a later attempt opens.
Fails(r, retryable) ==
  /\ stage' = [stage EXCEPT ![r] = IF retryable THEN "idle" ELSE "failed"]
  /\ Credit(r)
  /\ unresolved' = [unresolved EXCEPT ![r] = LeftInFlight(r)]
  /\ Drop(r)

\* An attempt ends as its coordinator says: asked to stop, or every partition at its
\* end.
Finishes(r, stopping) ==
  /\ stage' = [stage EXCEPT ![r] = IF stopping THEN "stopped" ELSE "succeeded"]
  /\ Credit(r)
  /\ unresolved' = [unresolved EXCEPT ![r] = NoKey]
  /\ Drop(r)
-----------------------------------------------------------------------------
(***************************************************************************)
(* Opening (attempt.rs open, launch; memory/destination.rs open,           *)
(* discard_staged).                                                        *)
(***************************************************************************)

\* The destination takes the next epoch, discards what older sessions staged,
\* and answers with the landed key and the state, from which the reads start.
OpenSession(r) ==
  /\ stage[r] = "idle"
  /\ fence.epoch < MaxEpoch
  /\ fence' = [epoch |-> fence.epoch + 1, landed |-> fence.landed]
  /\ openers' = [openers EXCEPT ![fence.epoch + 1] = {r}]
  /\ staged' = {w \in staged : w[1] >= fence.epoch + 1}
  /\ stage' = [stage EXCEPT ![r] = "loading"]
  /\ epoch' = [epoch EXCEPT ![r] = fence.epoch + 1]
  /\ found' = [found EXCEPT ![r] = fence.landed]
  /\ after' = [after EXCEPT ![r] = fence.landed]
  /\ seq' = [seq EXCEPT ![r] = 1]
  /\ taken' = [taken EXCEPT ![r] = state]
  /\ read' = [read EXCEPT ![r] = state]
  /\ sealed' = [sealed EXCEPT ![r] = state]
  /\ flushed' = [flushed EXCEPT ![r] = state]
  /\ owed' = [owed EXCEPT ![r] = Zero]
  /\ UNCHANGED <<runVars, tryVars, state, published, applied, running, srcVars>>

\* The destination opens a session whose answer never reaches the run, or whose
\* discard fails: the attempt never opened, and the report's ledger keeps what it
\* held.
OpenLost(r) ==
  /\ stage[r] = "idle"
  /\ fence.epoch < MaxEpoch
  /\ fence' = [epoch |-> fence.epoch + 1, landed |-> fence.landed]
  /\ openers' = [openers EXCEPT ![fence.epoch + 1] = {r}]
  /\ UNCHANGED <<stage, runVars, readVars, tryVars, sessVars, owed, state, published,
                 staged, applied, running, srcVars>>

\* The pipeline holds the last epoch there is: a data error.
OpenRefused(r) ==
  /\ stage[r] = "idle"
  /\ fence.epoch = MaxEpoch
  /\ stage' = [stage EXCEPT ![r] = "failed"]
  /\ UNCHANGED <<runVars, readVars, tryVars, sessVars, owed, destVars, running, srcVars>>
-----------------------------------------------------------------------------
(***************************************************************************)
(* Reading and staging (partition.rs handle, lane.rs flush_written,        *)
(* memory/destination.rs MemoryWriter).                                    *)
(***************************************************************************)

\* A row is read and queued to its lane, under the partition's open segment.
Read(r, p) ==
  /\ stage[r] \in Open
  /\ read[r][p] < Rows
  /\ read' = [read EXCEPT ![r][p] = @ + 1]
  /\ UNCHANGED <<stage, runVars, sealed, flushed, tryVars, sessVars, owed, destVars,
                 running, srcVars>>

\* A checkpoint, or the partition's end, seals what was read.
Seal(r, p) ==
  /\ stage[r] \in Open
  /\ sealed[r][p] < read[r][p]
  /\ sealed' = [sealed EXCEPT ![r][p] = read[r][p]]
  /\ UNCHANGED <<stage, runVars, read, flushed, tryVars, sessVars, owed, destVars,
                 running, srcVars>>

\* The lane of a partition flushes under pressure: what it was written is staged,
\* sealed or not, unless a newer session fenced this one.
FlushLane(r, p) ==
  /\ stage[r] \in Open
  /\ \E upto \in (flushed[r][p] + 1)..read[r][p] :
       IF fence.epoch # epoch[r]
       THEN /\ Fails(r, FALSE)
            /\ UNCHANGED <<destVars, running, srcVars>>
       ELSE /\ staged' = staged \cup {<<epoch[r], <<p, i>>>> : i \in (flushed[r][p] + 1)..upto}
            /\ flushed' = [flushed EXCEPT ![r][p] = upto]
            /\ UNCHANGED <<stage, runVars, read, sealed, tryVars, sessVars, owed, fence,
                           state, published, applied, openers, running, srcVars>>
-----------------------------------------------------------------------------
(***************************************************************************)
(* Committing (coordinator/commit.rs, retried.rs; coordinator.rs committed)*)
(***************************************************************************)

\* The commit takes every sealed segment and is recorded in flight; one may take
\* no row, and record the partitions where they stand.
Collect(r) ==
  /\ stage[r] = "loading"
  /\ seq[r] <= MaxSeq
  /\ stage' = [stage EXCEPT ![r] = "flushing"]
  /\ pending' = [pending EXCEPT ![r] =
       [key |-> Key(r), after |-> after[r], from |-> taken[r], to |-> sealed[r]]]
  /\ UNCHANGED <<runVars, readVars, tries, answer, sessVars, owed, destVars, running, srcVars>>

Sends(r, try) ==
  /\ tries' = [tries EXCEPT ![r] = try]
  /\ answer' = [answer EXCEPT ![r] = "none"]
  /\ running' = running \cup
       {[run |-> r, try |-> try, session |-> epoch[r], meta |-> pending[r]]}
  /\ stage' = [stage EXCEPT ![r] = "committing"]

\* Mutation: the commit is sent before the lanes flushed.
FlushThenSendUnflushed(r) ==
  /\ stage[r] = "flushing"
  /\ Sends(r, 1)
  /\ UNCHANGED <<runVars, readVars, pending, sessVars, owed, destVars, srcVars>>

\* Every lane flushes what was queued before the commit, then the commit is sent.
FlushThenSend(r) ==
  LET unflushed == {w \in SegmentRows(pending[r]) : w[2] > flushed[r][w[1]]}
  IN  /\ stage[r] = "flushing"
      /\ IF unflushed # {} /\ fence.epoch # epoch[r]
         THEN /\ Fails(r, FALSE)
              /\ UNCHANGED <<destVars, running, srcVars>>
         ELSE /\ staged' = staged \cup {<<epoch[r], w>> : w \in unflushed}
              /\ flushed' = [flushed EXCEPT ![r] =
                   [p \in Partitions |-> Max2(flushed[r][p], pending[r].to[p])]]
              /\ Sends(r, 1)
              /\ UNCHANGED <<runVars, read, sealed, pending, sessVars, owed, fence, state,
                             published, applied, openers, srcVars>>

\* Mutation: one try more than the policy allows.
TriesLeftAfterLast(r) == tries[r] <= Attempts

TriesLeft(r) == tries[r] < Attempts

\* The destination answers a try transiently, though the try may have applied, or
\* may yet: the same commit is sent again after a wait, or the tries are spent.
AnswersTransiently(r) ==
  /\ stage[r] = "committing"
  /\ IF TriesLeft(r)
     THEN /\ stage' = [stage EXCEPT ![r] = "resending"]
          /\ UNCHANGED <<runVars, readVars, tryVars, sessVars, owed>>
     ELSE Fails(r, TRUE)
  /\ UNCHANGED <<destVars, running, srcVars>>

Resend(r) ==
  /\ stage[r] = "resending"
  /\ Sends(r, tries[r] + 1)
  /\ UNCHANGED <<runVars, readVars, pending, sessVars, owed, destVars, srcVars>>

\* Mutation: the source is owed what is sealed, also since the commit was taken.
OwesSealed(r) == {sealed[r]}

\* What the source may be owed once the commit in flight landed: the position of
\* each partition it moved, the last checkpoint before the end of one it moved to
\* its end, and a partition sealed where it stood may be told that again.
Owes(r) ==
  LET from == pending[r].from
      to == pending[r].to
  IN  {told \in Positions : \A p \in Partitions :
         IF from[p] < to[p] /\ to[p] < Rows
         THEN told[p] = to[p]
         ELSE told[p] \in (from[p]..to[p]) \cup {owed[r][p]}}

\* Mutation: what is sealed since the commit was taken counts as taken by it.
TakesSealed(r) == sealed[r]

\* Where the load stands once the commit in flight landed.
Takes(r) == pending[r].to

\* A receipt: the load stands past the commit, the report counts it, and the
\* source is owed each position it moved.
Record(r) ==
  /\ stage[r] = "committing"
  /\ answer[r] = "receipt"
  /\ stage' = [stage EXCEPT ![r] = "reporting"]
  /\ after' = [after EXCEPT ![r] = pending[r].key]
  /\ seq' = [seq EXCEPT ![r] = @ + 1]
  /\ taken' = [taken EXCEPT ![r] = Takes(r)]
  /\ counted' = [counted EXCEPT ![r] = @ \cup {pending[r].key}]
  /\ commits' = [commits EXCEPT ![r] = @ + 1]
  /\ \E told \in Owes(r) : owed' = [owed EXCEPT ![r] = told]
  /\ UNCHANGED <<unresolved, readVars, tryVars, epoch, found, destVars, running, srcVars>>

\* The destination refuses the commit, as fenced or stale: no retry mends it.
Refused(r) ==
  /\ stage[r] = "committing"
  /\ answer[r] = "refused"
  /\ Fails(r, FALSE)
  /\ UNCHANGED <<destVars, running, srcVars>>

\* Publishes the rows the session staged in the commit's segments, and no other.
Publish(session, meta) ==
  LET done == {w \in SegmentRows(meta) : <<session, w>> \in staged}
  IN  /\ published' = [w \in RowIds |-> IF w \in done THEN published[w] + 1 ELSE published[w]]
      /\ staged' = staged \ {<<session, w>> : w \in done}

\* The destination executes a commit sent to it, whenever it does, and answers:
\* an answer no one waits for is lost.
Execute(c) ==
  LET decided == Decide(fence, c.session, c.meta)
      awaited == /\ stage[c.run] = "committing"
                 /\ epoch[c.run] = c.session
                 /\ seq[c.run] = c.meta.key.seq
                 /\ tries[c.run] = c.try
      reply == IF decided \in {"landed", "apply"} THEN "receipt" ELSE "refused"
  IN  /\ c \in running
      /\ running' = running \ {c}
      /\ answer' = [answer EXCEPT ![c.run] = IF awaited THEN reply ELSE @]
      /\ IF decided = "apply"
         THEN /\ Publish(c.session, c.meta)
              /\ fence' = [epoch |-> fence.epoch, landed |-> c.meta.key]
              /\ state' = c.meta.to
              /\ applied' = applied \cup {[key |-> c.meta.key, run |-> c.run]}
         ELSE UNCHANGED <<published, staged, fence, state, applied>>
      /\ UNCHANGED <<stage, runVars, readVars, pending, tries, sessVars, owed, openers, srcVars>>
-----------------------------------------------------------------------------
(***************************************************************************)
(* Reporting committed positions to the source (coordinator/acks.rs        *)
(* acknowledge), ending, failing and crashing.                             *)
(***************************************************************************)

\* What a source told positions `told` keeps: it may forget the rows before.
Hears(told) == kept' = [p \in Partitions |-> Max2(kept[p], told[p])]

Reported(r) ==
  /\ stage[r] = "reporting"
  /\ Hears(owed[r])
  /\ owed' = [owed EXCEPT ![r] = Zero]
  /\ stage' = [stage EXCEPT ![r] = "loading"]
  /\ UNCHANGED <<runVars, readVars, tryVars, sessVars, destVars, running, telling>>

\* The report fails and stays owed, but for partitions recorded done, given up; the
\* source may yet hear it. Where the failure ends the attempt, FailAttempt follows.
ReportFails(r) ==
  /\ stage[r] = "reporting"
  /\ telling' = telling \cup {owed[r]}
  /\ \E dropped \in SUBSET {p \in Partitions : taken[r][p] = Rows} :
       owed' = [owed EXCEPT ![r] = [p \in Partitions |-> IF p \in dropped THEN 0 ELSE owed[r][p]]]
  /\ stage' = [stage EXCEPT ![r] = "loading"]
  /\ UNCHANGED <<runVars, readVars, tryVars, sessVars, destVars, running, kept>>

\* Nothing to commit: only what is owed is reported.
ReportAgain(r) ==
  /\ stage[r] = "loading"
  /\ sealed[r] = taken[r]
  /\ owed[r] # Zero
  /\ stage' = [stage EXCEPT ![r] = "reporting"]
  /\ UNCHANGED <<runVars, readVars, tryVars, sessVars, owed, destVars, running, srcVars>>

HearsLate(told) ==
  /\ told \in telling
  /\ telling' = telling \ {told}
  /\ Hears(told)
  /\ UNCHANGED <<stage, runVars, readVars, tryVars, sessVars, owed, destVars, running>>

\* The attempt ends, exhausted or stopped, with nothing sealed left to commit and
\* nothing left to tell the source.
Finish(r) ==
  /\ stage[r] = "loading"
  /\ sealed[r] = taken[r]
  /\ owed[r] = Zero
  /\ \E stopping \in BOOLEAN :
       /\ stopping \/ \A p \in Partitions : taken[r][p] = Rows
       /\ Finishes(r, stopping)
  /\ UNCHANGED <<destVars, running, srcVars>>

\* A task of the attempt fails, or the run is cancelled: what it sent is under way.
FailAttempt(r) ==
  /\ stage[r] \in Open
  /\ \E retryable \in BOOLEAN : Fails(r, retryable)
  /\ UNCHANGED <<destVars, running, srcVars>>

\* The run's process is gone, and its report with it.
Crash(r) ==
  /\ stage[r] \notin Ended
  /\ stage' = [stage EXCEPT ![r] = "crashed"]
  /\ unresolved' = [unresolved EXCEPT ![r] = NoKey]
  /\ counted' = [counted EXCEPT ![r] = {}]
  /\ commits' = [commits EXCEPT ![r] = 0]
  /\ Drop(r)
  /\ UNCHANGED <<destVars, running, srcVars>>

Next ==
  \/ \E r \in Runs :
       \/ OpenSession(r) \/ OpenLost(r) \/ OpenRefused(r)
       \/ Collect(r) \/ FlushThenSend(r) \/ AnswersTransiently(r) \/ Resend(r)
       \/ Record(r) \/ Refused(r)
       \/ Reported(r) \/ ReportFails(r) \/ ReportAgain(r)
       \/ Finish(r) \/ FailAttempt(r) \/ Crash(r)
       \/ \E p \in Partitions : Read(r, p) \/ Seal(r, p) \/ FlushLane(r, p)
  \/ \E c \in running : Execute(c)
  \/ \E told \in telling : HearsLate(told)

Spec == Init /\ [][Next]_vars
-----------------------------------------------------------------------------
(***************************************************************************)
(* Properties.                                                             *)
(***************************************************************************)

\* Every variable holds what the code's types allow.
TypeOK ==
  /\ stage \in [Runs -> Stages]
  /\ unresolved \in [Runs -> OptKeys]
  /\ counted \in [Runs -> SUBSET Keys]
  /\ commits \in [Runs -> Nat]
  /\ epoch \in [Runs -> Nat]
  /\ found \in [Runs -> OptKeys]
  /\ seq \in [Runs -> Nat \ {0}]
  /\ after \in [Runs -> OptKeys]
  /\ read \in [Runs -> Positions]
  /\ sealed \in [Runs -> Positions]
  /\ flushed \in [Runs -> Positions]
  /\ taken \in [Runs -> Positions]
  /\ pending \in [Runs -> Metas \cup {NoMeta}]
  /\ tries \in [Runs -> 0..Attempts]
  /\ answer \in [Runs -> {"none", "receipt", "refused"}]
  /\ owed \in [Runs -> Positions]
  /\ fence \in Fences
  /\ state \in Positions
  /\ published \in [RowIds -> Nat]
  /\ staged \subseteq (Nat \ {0}) \X RowIds
  /\ applied \subseteq [key : Keys, run : Runs]
  /\ openers \in [1..MaxEpoch -> SUBSET Runs]
  /\ running \subseteq Copies
  /\ telling \subseteq Positions
  /\ kept \in Positions

\* A row is published once where the committed position is past it, and not at all
\* where it is not: whatever was retried, executed late, fenced, or crashed between
\* staging and commit, no row is lost or doubled.
ExactlyOnce ==
  \A w \in RowIds : published[w] = IF w[2] <= state[w[1]] THEN 1 ELSE 0

\* A source is told only of positions the destination holds committed, also by a
\* report heard long after its attempt ended: rows it may forget are published.
Acknowledged == \A p \in Partitions : kept[p] <= state[p]

\* A run's report counts only commits that landed, and only the run's own.
CountedLanded ==
  \A r \in Runs : \A k \in counted[r] : [key |-> k, run |-> r] \in applied

\* No commit is counted twice, as one whose answer was lost and found landed, or
\* sent again, could be.
CountedOnce == \A r \in Runs : commits[r] = Cardinality(counted[r])

\* Every commit of a run that landed is counted, or in flight still, or left for the
\* next open to find, unless another run's commit landed over it.
NothingUncounted ==
  \A a \in applied :
    \/ stage[a.run] = "crashed"
    \/ a.key \in counted[a.run]
    \/ stage[a.run] \in InFlight /\ pending[a.run].key = a.key
    \/ unresolved[a.run] = a.key
    \/ \E b \in applied : b.run # a.run /\ Before(a.key, b.key)

\* A run that succeeded has every row of every partition committed.
SucceededLoaded ==
  \A r \in Runs : stage[r] = "succeeded" => \A p \in Partitions : state[p] = Rows

\* Commits land in the order of their keys, and only those of the newest session:
\* no step lands a commit a newer session fenced or a later commit overtook.
LandsInOrder ==
  [][fence'.landed # fence.landed =>
       /\ fence'.landed.epoch = fence.epoch
       /\ Before(fence.landed, fence'.landed)]_vars

\* The load implements what a pipeline promises.
Promise == INSTANCE Delivery WITH position <- state, table <- published, told <- kept

Delivers == Promise!Spec
=============================================================================
