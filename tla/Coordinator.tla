------------------------------ MODULE Coordinator ------------------------------
(***************************************************************************)
(* The commit coordinator of an attempt and the partitions it hears from:  *)
(* the reads that push, checkpoint, lose their place and end, the queue of *)
(* what they report, the newest seal of no rows each keeps beside it, the  *)
(* lanes that stage their writes, and the coordinator that raises          *)
(* barriers, keeps the seals waiting and commits them.  The partitions are *)
(* fixed: Phases models how they are planned.  A commit's sending and the  *)
(* crashes around it are Load's.                                           *)
(*                                                                         *)
(* The source of partition p stands at a position 0..Last[p]; reading a    *)
(* position in RowsAt[p] pushes a row, any other moves the read only.      *)
(***************************************************************************)
EXTENDS Integers, Sequences, FiniteSets, FiniteSetsExt

CONSTANTS
  Parts,      \* the partitions
  OnDemand,   \* those that checkpoint when a barrier asks, too
  Unbounded,  \* those that are never done
  Last,       \* the last position of a partition's source, by partition
  RowsAt,     \* the positions that hold a row, by partition
  Size,       \* the bytes of a partition's cursors
  Share,      \* the bytes cursors may hold
  MaxRows,    \* the rows that make a commit due
  MaxTurns,   \* bound: intervals, barriers overdue, stops and places lost, together
  Backlog     \* bound: what a partition reported unheard when it goes on

\* No position, and the position of a partition that is done.
None == -1
Done == 1 + Max({Last[p] : p \in Parts})

ASSUME CoordinatorAssumption ==
  /\ OnDemand \subseteq Parts /\ Unbounded \subseteq Parts
  /\ Last \in [Parts -> Nat] /\ MaxRows \in Nat \ {0} /\ MaxTurns \in Nat /\ Backlog \in Nat
  /\ \A p \in Parts : RowsAt[p] \subseteq 1..Last[p]
  /\ Size \in [Parts -> 1..Share]

VARIABLES
  part,    \* each partition's read, and the engine's ingest of it
  queue,   \* what each partition reported and the coordinator has not heard
  latest,  \* each partition's newest seal of no rows, kept beside the queue
  line,    \* the partitions whose cursors asked for room, in order
  lane,    \* each partition's lane: the rows written and not flushed, by segment
  staged,  \* the rows flushed into staging, by segment
  co,      \* the coordinator
  dest,    \* what the destination published and recorded, the source was told
  lost     \* history: the rows retention dropped unread or unsealed

vars == <<part, queue, latest, line, lane, staged, co, dest, lost>>

-----------------------------------------------------------------------------
\* Where a partition stands once the seals waiting are committed, the cursor
\* before a position of done, and the cursor bytes both hold; what a commit took.
NoStanding == [pos |-> None, before |-> None, held |-> 0]
NoRows == [p \in Parts |-> {}]
NoTaking == [rows |-> NoRows, abandoned |-> NoRows, standing |-> [p \in Parts |-> NoStanding]]

NewCo ==
  [at |-> "load", then |-> "commit", barrier |-> 0, owing |-> {}, flushing |-> {},
   started |-> [p \in Parts |-> FALSE], ended |-> [p \in Parts |-> FALSE],
   answered |-> [p \in Parts |-> 0],
   mayFree |-> TRUE, stopping |-> FALSE, stopReads |-> FALSE, turns |-> 0,
   due |-> [sealed |-> 0, unsealed |-> [p \in Parts |-> 0], fresh |-> 0],
   counted |-> NoRows, abandoned |-> NoRows, standing |-> NoTaking.standing, taking |-> NoTaking]

NewPart ==
  [st |-> "waiting", at |-> 0, rows |-> {}, cursor |-> None, newest |-> None,
   sealed |-> FALSE, reset |-> FALSE, asked |-> 0, answered |-> 0, answers |-> 0]

NewLatest == [seal |-> {}, epoch |-> 0, told |-> None]

(* What is reported. *)

Seal(p, pos, answers) ==
  [p |-> p, rows |-> part[p].rows, pos |-> pos, answers |-> answers]

\* The cursor bytes a seal holds: those of its checkpoint's permit.
HeldBy(seal) == IF seal.pos = Done THEN 0 ELSE Size[seal.p]

Queued(kind, p) == {i \in DOMAIN queue[p] : queue[p][i].kind = kind}

\* What a partition reports, in order.
Report(p, messages) == [queue EXCEPT ![p] = @ \o messages]

Running == co.at \notin {"ended", "failed"}

\* A partition's read runs.
Reads(p) == Running /\ Len(queue[p]) <= Backlog

\* The budget's cursor share: a seal's cursor is held from its admission until
\* a newer one takes its place or its commit has landed.
Held ==
  MapThenSumSet(LAMBDA p :
    MapThenSumSet(LAMBDA i : HeldBy(queue[p][i].seal), Queued("sealed", p))
    + MapThenSumSet(HeldBy, latest[p].seal)
    + co.standing[p].held + co.taking.standing[p].held, Parts)

\* The cursors that asked for room have it in the order they asked.
Admitted(p) == Head(line) = p /\ Held + Size[p] <= Share

\* The signal raised while a cursor waits for room only a commit frees.
CursorWaits == line # <<>> /\ ~Admitted(Head(line))

-----------------------------------------------------------------------------
(* A partition. *)

Start(p) ==
  /\ Reads(p) /\ part[p].st = "waiting" /\ ~co.stopReads
  /\ part' = [part EXCEPT ![p].st = "starting"]
  /\ queue' = Report(p, <<[kind |-> "started", p |-> p]>>)
  /\ UNCHANGED <<latest, line, lane, staged, co, dest, lost>>

\* A partition stopped before it had a slot ends without reading.
StopUnread(p) ==
  /\ Reads(p) /\ part[p].st = "waiting" /\ co.stopReads
  /\ part' = [part EXCEPT ![p].st = "ended"]
  /\ queue' = Report(p, <<[kind |-> "ended", p |-> p]>>)
  /\ UNCHANGED <<latest, line, lane, staged, co, dest, lost>>

\* The read's channel opens: a barrier already raised is forwarded at once.
OpenRead(p) ==
  /\ Reads(p) /\ part[p].st = "starting"
  /\ part' = [part EXCEPT ![p].st = "reading", ![p].answered = 0,
                          ![p].asked = IF p \in OnDemand THEN co.barrier ELSE 0]
  /\ UNCHANGED <<queue, latest, line, lane, staged, co, dest, lost>>

\* The ingest loop forwards the newest barrier raised.
Forward(p) ==
  /\ Reads(p) /\ p \in OnDemand /\ part[p].st \in {"reading", "checkpoint"}
  /\ part[p].asked < co.barrier
  /\ part' = [part EXCEPT ![p].asked = co.barrier]
  /\ UNCHANGED <<queue, latest, line, lane, staged, co, dest, lost>>

\* The source reads a position: its row is written, queued on the lane, and told
\* where the partition seals when asked.
Push(p) ==
  LET next == part[p].at + 1
      row == {next} \cap RowsAt[p]
  IN
  /\ Reads(p) /\ part[p].st = "reading" /\ part[p].at < Last[p]
  /\ part' = [part EXCEPT ![p].at = next, ![p].rows = @ \cup row]
  /\ lane' = [lane EXCEPT ![p] = @ \cup row]
  /\ queue' = IF row = {} \/ p \notin OnDemand THEN queue
              ELSE Report(p, <<[kind |-> "written", p |-> p]>>)
  /\ UNCHANGED <<latest, line, staged, co, dest, lost>>

\* The source checkpoints, where it chooses or where a barrier is pending: the
\* barrier it answers is the one pending now, and the cursor waits for room.
Checkpoint(p) ==
  /\ Reads(p) /\ part[p].st = "reading"
  /\ part[p].at > part[p].cursor \/ part[p].asked > part[p].answered
  /\ part' = [part EXCEPT ![p].st = "checkpoint",
       ![p].answers = IF part[p].asked > part[p].answered THEN part[p].asked ELSE 0]
  /\ line' = Append(line, p)
  /\ UNCHANGED <<queue, latest, lane, staged, co, dest, lost>>

Max2(a, b) == IF a > b THEN a ELSE b

Answers(seals) == IF seals = {} THEN 0 ELSE (CHOOSE s \in seals : TRUE).answers

\* A seal of no rows is kept as its partition's newest, in place of any that
\* waits, whose barrier it answers too.
Moved(l, seal) ==
  [seal |-> {[seal EXCEPT !.answers = Max2(@, Answers(l.seal))]},
   epoch |-> l.epoch, told |-> l.epoch]

\* A seal with rows starts the next epoch and drops the seal that waits: the
\* barrier that one answered is the seal's to answer.
Superseded(l) == [l EXCEPT !.seal = {}, !.epoch = @ + 1]

\* Mutation: the barrier the dropped seal answered is forgotten.
SupersedingNone(l) == 0

Superseding(l) == Answers(l.seal)

\* The checkpoint is admitted and handled: the segment is sealed, and
\* the seal kept beside the queue or reported in it.
SealSegment(p) ==
  LET seal == Seal(p, part[p].at, part[p].answers)
      l == latest[p]
  IN
  /\ Reads(p) /\ part[p].st = "checkpoint" /\ Admitted(p)
  /\ line' = Tail(line)
  /\ \/ /\ seal.rows = {}
        /\ latest' = [latest EXCEPT ![p] = Moved(l, seal)]
        /\ queue' = IF l.told = l.epoch THEN queue
                    ELSE Report(p, <<[kind |-> "moved", p |-> p, epoch |-> l.epoch]>>)
     \/ /\ seal.rows # {}
        /\ latest' = [latest EXCEPT ![p] = Superseded(l)]
        /\ queue' = Report(p, <<[kind |-> "sealed", p |-> p,
                seal |-> [seal EXCEPT !.answers = Max2(@, Superseding(l))]]>>)
  /\ part' = [part EXCEPT ![p] =
       [@ EXCEPT !.st = "reading", !.rows = {}, !.cursor = part[p].at,
          !.newest = part[p].at, !.sealed = @ \/ seal.rows # {},
          !.answered = Max2(@, part[p].answers), !.answers = 0]]
  /\ UNCHANGED <<lane, staged, co, dest, lost>>

\* Where a partition that read to its end resumes, if anywhere new.
EndState(p) ==
  CASE part[p].rows = {} -> part[p].cursor
    [] part[p].rows # {} /\ p \in Unbounded -> None
    [] OTHER -> Done

\* What a read that let its open segment go, or sealed it, leaves.
Closed(p, st) ==
  [part[p] EXCEPT !.st = st, !.rows = {}, !.answers = 0]

Abandon(p) == [kind |-> "abandoned", p |-> p, rows |-> part[p].rows]
Sealed(p, pos) == [kind |-> "sealed", p |-> p, seal |-> Seal(p, pos, 0)]
Ended(p) == [kind |-> "ended", p |-> p]

\* The read ends: a cursor it ended at waits for room, and otherwise its open
\* segment is sealed done or abandoned.
EndRead(p) ==
  /\ Reads(p) /\ part[p].st = "reading" /\ part[p].at = Last[p]
  /\ \/ /\ EndState(p) \in 0..Last[p]
        /\ part' = [part EXCEPT ![p].st = "ending"]
        /\ line' = Append(line, p)
        /\ UNCHANGED queue
     \/ /\ EndState(p) = Done /\ UNCHANGED line
        /\ queue' = Report(p, <<Sealed(p, Done), Ended(p)>>)
        /\ part' = [part EXCEPT ![p] = Closed(p, "ended")]
     \/ /\ EndState(p) = None /\ UNCHANGED line
        /\ queue' = Report(p, <<Abandon(p), Ended(p)>>)
        /\ part' = [part EXCEPT ![p] = Closed(p, "ended")]
  /\ UNCHANGED <<latest, lane, staged, co, dest, lost>>

EndAtCursor(p) ==
  /\ Reads(p) /\ part[p].st = "ending" /\ Admitted(p)
  /\ line' = Tail(line)
  /\ queue' = Report(p, <<Sealed(p, part[p].cursor), Ended(p)>>)
  /\ part' = [part EXCEPT ![p] = Closed(p, "ended")]
  /\ UNCHANGED <<latest, lane, staged, co, dest, lost>>

\* The read is stopped: a checkpoint that waits is refused, and what no
\* checkpoint sealed is abandoned.
StopRead(p) ==
  /\ Reads(p) /\ co.stopReads /\ part[p].st \in {"reading", "checkpoint"}
  /\ line' = SelectSeq(line, LAMBDA q : q # p)
  /\ queue' = Report(p, <<Abandon(p), Ended(p)>>)
  /\ part' = [part EXCEPT ![p] = Closed(p, "ended")]
  /\ UNCHANGED <<latest, lane, staged, co, dest, lost>>

\* The source's retention drops the positions up to d, past where the read
\* stands.  The read starts again from its source's earliest, having abandoned
\* its open segment; where it has no place to lose, or lost one before and
\* sealed no row since, the attempt fails and its tasks are dropped.
Resets(p) == part[p].cursor # None
Stalled(p) == Resets(p) /\ part[p].reset /\ ~part[p].sealed

LosePlace(p) ==
  /\ Reads(p) /\ part[p].st = "reading" /\ co.turns < MaxTurns
  /\ \/ /\ Resets(p) /\ ~Stalled(p)
        /\ queue' = Report(p, <<Abandon(p), [kind |-> "reset", p |-> p]>>)
        /\ \E d \in (part[p].at + 1)..Last[p] :
             /\ part' = [part EXCEPT ![p] =
                  [Closed(p, "starting") EXCEPT !.at = d, !.cursor = None,
                     !.reset = TRUE, !.sealed = FALSE]]
             /\ lost' = [lost EXCEPT ![p] = @ \cup ((part[p].cursor + 1)..d)]
        /\ co' = [co EXCEPT !.turns = @ + 1]
        /\ UNCHANGED <<latest, line, lane, staged, dest>>
     \/ /\ ~Resets(p) \/ Stalled(p)
        /\ part[p].at < Last[p]
        /\ part' = [q \in Parts |-> NewPart] /\ latest' = [q \in Parts |-> NewLatest]
        /\ queue' = [q \in Parts |-> <<>>] /\ line' = <<>> /\ lane' = NoRows /\ staged' = NoRows
        /\ co' = [NewCo EXCEPT !.at = "failed"]
        /\ UNCHANGED <<dest, lost>>

-----------------------------------------------------------------------------
(* A lane: it stages the writes queued in order, and flushes them when the  *)
(* coordinator asks.                                                        *)

FlushWritten(p) ==
  /\ co.at = "flush" /\ p \in co.flushing
  /\ staged' = [staged EXCEPT ![p] = @ \cup lane[p]]
  /\ lane' = [lane EXCEPT ![p] = {}]
  /\ co' = [co EXCEPT !.flushing = @ \ {p}]
  /\ UNCHANGED <<part, queue, latest, line, dest, lost>>

-----------------------------------------------------------------------------
(* The coordinator: what it counts and keeps. *)

Owes(c, p) == p \in OnDemand /\ c.started[p] /\ ~c.ended[p] /\ c.answered[p] < c.barrier

\* What a commit could take: the rows of the seals waiting, and those the
\* partitions that seal when asked wrote since they last sealed.
DueWritten(d, p, n) == [d EXCEPT !.unsealed[p] = @ + n, !.fresh = @ + n]

DueTaken(d, p, n) == [d EXCEPT !.unsealed[p] = @ - n, !.fresh = @ - n]

DueSealed(d, p, n) ==
  [DueTaken(d, p, IF n < d.unsealed[p] THEN n ELSE d.unsealed[p]) EXCEPT !.sealed = @ + n]

\* Mutation: what a partition abandoned still makes a commit due.
DueAbandonedKept(d, p) == d

DueAbandoned(d, p) == DueTaken(d, p, d.unsealed[p])

\* The cursor a partition's source is told: where the partition stands once the
\* seals waiting are committed, or the cursor before a position of done.
Told(s) == IF s.pos = Done THEN s.before ELSE s.pos

\* Mutation: every seal takes the place of the one before it.
StandAlone(earlier, seal) == [pos |-> seal.pos, before |-> None, held |-> HeldBy(seal)]

Stand(earlier, seal) ==
  IF seal.pos = Done /\ earlier.pos # None
  THEN [pos |-> Done, before |-> Told(earlier), held |-> earlier.held + HeldBy(seal)]
  ELSE [pos |-> seal.pos, before |-> None, held |-> HeldBy(seal)]

CursorBytes(c) ==
  MapThenSumSet(LAMBDA p : IF Told(c.standing[p]) = None THEN 0 ELSE Size[p], Parts)

\* A seal is kept for the next commit, and the barrier it answers noted.
Keep(c, seal) ==
  LET p == seal.p
      a == [c EXCEPT !.answered[p] = Max2(@, seal.answers)]
  IN  [a EXCEPT !.owing = IF Owes(a, p) THEN @ ELSE @ \ {p},
                !.due = DueSealed(@, p, Cardinality(seal.rows)),
                !.counted[p] = @ \cup seal.rows,
                !.standing[p] = Stand(@, seal)]

\* Mutation: whatever seal waits is taken.
LatestSealAny(p, epoch) == latest[p].seal

\* The seal of no rows a message queued in an epoch tells of: none where its
\* partition sent a seal with rows since.
LatestSeal(p, epoch) == IF latest[p].epoch = epoch THEN latest[p].seal ELSE {}

\* Hears the message m: what arrives may be a seal a commit frees cursors with.
Observed(m) ==
  LET c == [co EXCEPT !.mayFree = TRUE]
      p == m.p
      keep(seals) == IF seals = {} THEN c ELSE Keep(c, CHOOSE s \in seals : TRUE)
  IN
  CASE m.kind = "started" ->
         LET s == [c EXCEPT !.started[p] = TRUE] IN
         [s EXCEPT !.owing = IF Owes(s, p) THEN @ \cup {p} ELSE @]
    [] m.kind = "written"   -> [c EXCEPT !.due = DueWritten(@, p, 1)]
    [] m.kind = "abandoned" -> [c EXCEPT !.due = DueAbandoned(@, p),
                                         !.abandoned[p] = @ \cup m.rows]
    [] m.kind = "sealed"    -> keep({m.seal})
    [] m.kind = "moved"     -> keep(LatestSeal(p, m.epoch))
    [] m.kind = "reset"     -> c
    [] m.kind = "ended"     -> [c EXCEPT !.owing = @ \ {p}, !.ended[p] = TRUE]

Hearing(p) ==
  LET m == Head(queue[p]) IN
  /\ queue' = [queue EXCEPT ![p] = Tail(@)]
  /\ latest' = IF m.kind = "moved" /\ latest[p].epoch = m.epoch
               THEN [latest EXCEPT ![p].seal = {}, ![p].told = None]
               ELSE latest

-----------------------------------------------------------------------------
(* The coordinator: its steps. *)

\* After a commit, or where there was nothing to commit.
After(c) ==
  IF c.then = "end" THEN [c EXCEPT !.at = "ended", !.taking = NoTaking]
  ELSE [c EXCEPT !.at = "load", !.mayFree = FALSE, !.owing = {}, !.taking = NoTaking]

\* Every seal waiting is taken.
Collect(c) ==
  LET taken == [c EXCEPT
        !.due.sealed = 0, !.counted = NoRows, !.abandoned = NoRows,
        !.standing = NoTaking.standing,
        !.taking = [rows |-> c.counted, abandoned |-> c.abandoned,
                    standing |-> c.standing],
        !.at = "flush", !.flushing = Parts]
  IN  IF c.counted = NoRows /\ c.standing = NoTaking.standing
      THEN After([c EXCEPT !.due.sealed = 0])
      ELSE taken

\* Past the barrier, once no one owes an answer: the commit, or the stop.
Past(c) ==
  IF c.owing # {} THEN c
  ELSE IF c.then = "stop" THEN [c EXCEPT !.at = "load", !.stopReads = TRUE]
  ELSE Collect(c)

Raise(c, then) ==
  LET b == [c EXCEPT !.barrier = @ + 1, !.then = then, !.at = "barrier"] IN
  Past([b EXCEPT !.owing = {p \in Parts : Owes(b, p)}])

AllEnded(c) == \A p \in Parts : c.ended[p]

Loading == co.at = "load" /\ ~AllEnded(co)

Stop ==
  /\ Loading /\ ~co.stopping /\ co.turns < MaxTurns
  /\ co' = Raise([co EXCEPT !.stopping = TRUE, !.turns = @ + 1], "stop")
  /\ UNCHANGED <<part, queue, latest, line, lane, staged, dest, lost>>

Interval ==
  /\ Loading /\ co.turns < MaxTurns
  /\ co' = Raise([co EXCEPT !.turns = @ + 1], "commit")
  /\ UNCHANGED <<part, queue, latest, line, lane, staged, dest, lost>>

\* A cursor that finds its share full makes a commit due: once, until more is
\* heard.
CommitForCursors ==
  /\ Loading /\ co.mayFree /\ CursorWaits
  /\ co' = Raise(co, "commit")
  /\ UNCHANGED <<part, queue, latest, line, lane, staged, dest, lost>>

CommitDue(c) ==
  \/ c.due.sealed + c.due.fresh >= MaxRows
  \/ CursorBytes(c) >= Max2(Share \div 2, 1)

Hear(p) ==
  /\ Loading /\ queue[p] # <<>>
  /\ Hearing(p)
  /\ LET c == Observed(Head(queue[p])) IN co' = IF CommitDue(c) THEN Raise(c, "commit") ELSE c
  /\ UNCHANGED <<part, line, lane, staged, dest, lost>>

\* At a barrier: an answer, an end, or whatever else arrives.
HearAnswer(p) ==
  /\ co.at = "barrier" /\ queue[p] # <<>>
  /\ Hearing(p)
  /\ co' = Past(Observed(Head(queue[p])))
  /\ UNCHANGED <<part, line, lane, staged, dest, lost>>

\* The barrier's wait is over: what those that did not answer wrote so far makes
\* no commit due.
Overdue ==
  /\ co.at = "barrier" /\ co.turns < MaxTurns
  /\ co' = Past([co EXCEPT !.owing = {}, !.turns = @ + 1,
       !.due = [@ EXCEPT
         !.unsealed = [p \in Parts |-> IF p \in co.owing THEN 0 ELSE @[p]],
         !.fresh = @ - MapThenSumSet(LAMBDA p : co.due.unsealed[p], co.owing)]])
  /\ UNCHANGED <<part, queue, latest, line, lane, staged, dest, lost>>

\* Mutation: the barrier waits for every answer.
CursorBreaksNever == FALSE

\* An answer that finds no room waits for this commit, which goes on without it.
CursorBreaks == CursorWaits

BreakForCursors ==
  /\ co.at = "barrier" /\ CursorBreaks
  /\ co' = Past([co EXCEPT !.owing = {}])
  /\ UNCHANGED <<part, queue, latest, line, lane, staged, dest, lost>>

\* Every partition has ended: the last commit of the attempt.
CommitEnd ==
  /\ co.at = "load" /\ AllEnded(co)
  /\ co' = Collect([co EXCEPT !.then = "end"])
  /\ UNCHANGED <<part, queue, latest, line, lane, staged, dest, lost>>

\* The lanes have flushed, and the commit lands: its segments are published with
\* the positions, and the source is told the cursors.  A partition done with no
\* cursor among the seals is told the cursor it stood at.
TellsSource(p) ==
  LET s == co.taking.standing[p] IN
  IF Told(s) # None THEN Told(s)
  ELSE IF s.pos = Done /\ dest[p].at \in 0..Last[p] THEN dest[p].at
  ELSE dest[p].told

Land ==
  LET t == co.taking IN
  /\ co.at = "flush" /\ co.flushing = {}
  /\ dest' = [p \in Parts |->
       [published |-> dest[p].published \cup (t.rows[p] \cap staged[p]),
        at |-> IF t.standing[p].pos = None THEN dest[p].at ELSE t.standing[p].pos,
        told |-> TellsSource(p)]]
  /\ staged' = [p \in Parts |-> staged[p] \ (t.rows[p] \cup t.abandoned[p])]
  /\ co' = After(co)
  /\ UNCHANGED <<part, queue, latest, line, lane, lost>>

-----------------------------------------------------------------------------
Init ==
  /\ part = [p \in Parts |-> NewPart] /\ latest = [p \in Parts |-> NewLatest]
  /\ queue = [p \in Parts |-> <<>>] /\ line = <<>> /\ lane = NoRows /\ staged = NoRows
  /\ co = NewCo
  /\ dest = [p \in Parts |-> [published |-> {}, at |-> None, told |-> None]]
  /\ lost = [p \in Parts |-> {}]

Read(p) ==
  \/ Start(p) \/ StopUnread(p) \/ OpenRead(p) \/ Forward(p) \/ Push(p)
  \/ Checkpoint(p) \/ SealSegment(p) \/ EndRead(p) \/ EndAtCursor(p) \/ StopRead(p)

Coordinate ==
  \/ \E p \in Parts : Hear(p) \/ HearAnswer(p)
  \/ CommitForCursors \/ BreakForCursors \/ CommitEnd \/ Land

Next ==
  \/ \E p \in Parts : Read(p) \/ LosePlace(p) \/ FlushWritten(p)
  \/ Coordinate \/ Stop \/ Interval \/ Overdue

\* The steps that come of themselves.  Nothing makes a place be lost, a stop be
\* asked, an interval pass or a barrier's wait run out.
Going == Coordinate \/ \E p \in Parts : Read(p) \/ FlushWritten(p)

Spec == Init /\ [][Next]_vars

-----------------------------------------------------------------------------
\* A position recorded has the rows before it: whatever seals were replaced,
\* dropped or taken late, every row up to a committed position is published, or
\* was dropped by the source's retention before it was sealed.  A seal of no rows
\* taken for an older epoch's message would pass rows whose seal is still queued.
PositionHasRows ==
  \A p \in Parts : \A r \in RowsAt[p] :
    r <= dest[p].at => r \in dest[p].published \cup lost[p]

\* A barrier waits for no one in vain: whoever owes an answer has yet to be
\* asked, has yet to answer, or has its answer or its end on the way.
AnswerComing ==
  co.at = "barrier" => \A p \in co.owing :
    \/ part[p].st = "starting"
    \/ part[p].st # "ended" /\ part[p].answered < co.barrier
    \/ Queued("ended", p) # {}
    \/ \E i \in Queued("sealed", p) : queue[p][i].seal.answers >= co.barrier
    \/ /\ Answers(latest[p].seal) >= co.barrier
       /\ \E i \in Queued("moved", p) : queue[p][i].epoch = latest[p].epoch

\* What makes a commit due is there to commit: the sums are those of their
\* parts, and no partition counts rows beyond those it wrote and has not sealed
\* or abandoned, as far as the coordinator heard.
DueTrue ==
  /\ co.due.fresh = MapThenSumSet(LAMBDA p : co.due.unsealed[p], Parts)
  /\ co.due.sealed = MapThenSumSet(LAMBDA p : Cardinality(co.counted[p]), Parts)
  /\ \A p \in Parts : Queued("abandoned", p) = {} =>
       co.due.unsealed[p] + Cardinality(Queued("written", p))
         <= Cardinality(part[p].rows \cup UNION {queue[p][i].seal.rows : i \in Queued("sealed", p)})

\* The source of a partition committed as done was told the newest cursor it
\* checkpointed: no later attempt would tell it.
DoneTellsItsCursor ==
  \A p \in Parts : co.at # "failed" /\ dest[p].at = Done => dest[p].told = part[p].newest

\* All that was reported is heard, no commit is in flight, and every read that has
\* not ended waits for its cursor's room.
Waiting ==
  /\ co.at \in {"load", "barrier"}
  /\ \A p \in Parts : queue[p] = <<>> /\ part[p].st \in {"checkpoint", "ending", "ended"}

\* Nothing waits for ever: where every read waits, a read or the coordinator goes
\* on, without an interval or the barrier's deadline to help.  No cursor waits for
\* room that no commit frees, and no barrier for an answer that waits for the
\* barrier's own commit.
NeverStuck == Waiting => ENABLED Going

=============================================================================
