------------------------------- MODULE Phases -------------------------------
(***************************************************************************)
(* A change stream read in phases, planned again as it is read, with the   *)
(* stored state of its pipeline under a limit.                             *)
(*                                                                         *)
(* The coordinator of an attempt (rdlt-engine/src/coordinator.rs, with     *)
(* phases.rs, replan.rs, pressure.rs and delta.rs under coordinator/)      *)
(* tracks each partition at a place, hears of it through one queue, and    *)
(* between commits starts, stops and forgets partitions as plans say.      *)
(*                                                                         *)
(* Rows of a partition are numbered, and a cursor is the number of rows    *)
(* before it.  What a commit writes to the destination is one step here;   *)
(* module Load takes that step apart.  Barriers, lanes and the waits of    *)
(* cursors for room are module Coordinator's.                              *)
(***************************************************************************)
EXTENDS Integers, Sequences, FiniteSets, FiniteSetsExt, SequencesExt, TLC

CONSTANTS
  Ids,           \* ids of partitions, numbers
  FirstIds,      \* the partitions of the first phase
  UnboundedIds,  \* the partitions of the second phase that have no end
  Starting,      \* the partitions of the second phase the plan gives a start
  Rows,          \* rows of a partition with a start
  Start,         \* the cursor a start is
  Limits,        \* what the stored state may take
  MaxTurns,      \* bound: crashes, and plans made again by a timer or a signal
  Backlog,       \* bound: messages not heard when a partition tells another
  None, Done     \* no cursor; the position of a partition read to its end

ASSUME PhasesAssumption ==
  /\ Ids \subseteq Nat /\ IsFiniteSet(Ids)
  /\ FirstIds \subseteq Ids /\ UnboundedIds \subseteq Ids /\ Starting \subseteq Ids
  /\ Rows \in Nat \ {0} /\ Start \in 0..(Rows - 1) /\ Limits \subseteq Nat
  /\ MaxTurns \in Nat /\ Backlog \in Nat

VARIABLES
  stored,     \* the destination's state: the phase and the partitions' entries
  published,  \* how often each row was published
  follow,     \* whether the run follows its source
  limit,      \* what the stored state may take
  epoch,      \* the attempt's epoch
  pc,         \* where the coordinator is
  co,         \* what the coordinator keeps
  queue,      \* what partitions told it and it has not heard
  plan,       \* the partitions the source's latest plan names
  turns,      \* crashes and plans made again
  forgot      \* the done markers forgotten: the phase, the partition, and whether
              \* the source's latest plan named it

vars == <<stored, published, follow, limit, epoch, pc, co, queue, plan, turns, forgot>>

\* What the run and the attempt were given.
given == <<follow, limit, epoch>>

\* The last row a partition has in a phase: a partition the second phase starts
\* later has the rows before its start too, and as many after it as others have.
LastRow(phase, id) == IF phase = 1 /\ id \in Starting THEN Rows ELSE Rows - Start
RowKeys == {<<phase, id, k>> \in (0..1) \X Ids \X (1..Rows) : k <= LastRow(phase, id)}

\* A map without some keys.
Without(f, keys) == [k \in DOMAIN f \ keys |-> f[k]]

\* A sequence of the numbers of a set, in order.
InOrder(S) == SetToSortSeq(S, LAMBDA x, y : x < y)

-----------------------------------------------------------------------------
(* The source, as its plans are used                                       *)

\* A partition with nothing left to read in the first phase.
Finished(parts) ==
  \A id \in FirstIds : id \in DOMAIN parts /\ parts[id] \in {LastRow(0, id), Done}

\* What the source may plan from a stream's state: the second phase once the
\* first is committed to its end, and otherwise the partitions it likes.
Planned(phase, parts) ==
  IF phase = 0 /\ ~Finished(parts)
    THEN [phase : {0}, names : SUBSET FirstIds]
    ELSE [phase : {1}, names : SUBSET Ids]

\* Where a plan of a new phase starts a partition.
StartOf(id) == IF id \in Starting THEN Start ELSE None

Unbounded(phase, id) == phase = 1 /\ id \in UnboundedIds

-----------------------------------------------------------------------------
(* Partitions and their places                                             *)

\* A partition tracked, and its read from a cursor.
Tracked(phase, id, cursor) ==
  [id |-> id, phase |-> phase, cursor |-> cursor,
   at |-> IF cursor = None THEN 0 ELSE cursor,
   stop |-> FALSE, live |-> TRUE, ended |-> FALSE]

\* Where partition id is placed: the place of its ended read, else one no
\* stream reads whose seals are committed, else a new one.
Place(s, id) ==
  LET free == s.retired \ s.sealing
  IN  IF id \in DOMAIN s.reading /\ s.partitions[s.reading[id]].ended
        THEN s.reading[id]
        ELSE IF free # {} THEN Min(free) ELSE Len(s.partitions) + 1

Launch(s, id, cursor) ==
  LET i       == Place(s, id)
      tracked == Tracked(s.phase, id, cursor)
  IN  [s EXCEPT
        !.partitions = IF i \in DOMAIN @ THEN [@ EXCEPT ![i] = tracked]
                                         ELSE Append(@, tracked),
        !.retired = @ \ {i},
        !.reading = (id :> i) @@ @]

\* Starts the partitions of a set, each from its cursor, in order.
LaunchAll(s, ids, cursors) ==
  FoldLeft(LAMBDA t, id : Launch(t, id, cursors[id]), s, InOrder(ids))

AllEnded(s) == \A i \in DOMAIN s.partitions : s.partitions[i].ended

\* Whether the attempt has read all it will.
Finishes(s) == AllEnded(s) /\ (~follow \/ s.stopping)

\* What a stored position leaves to read of the partitions a plan names: each
\* that is not done, from its cursor or from the beginning.
Unread(names, parts) ==
  {id \in names : id \notin DOMAIN parts \/ parts[id] # Done}
ReadFrom(names, parts) ==
  [id \in Unread(names, parts) |-> IF id \in DOMAIN parts THEN parts[id] ELSE None]

-----------------------------------------------------------------------------
(* Phases and plans of the coordinator                                     *)

\* Mutation: the places of a phase that ended are not used again.
FreedNever(s) == {}

\* The places of the phase's partitions, all ended with their ends committed.
Freed(s) == {s.reading[id] : id \in DOMAIN s.reading}

\* A new phase: what the last one recorded is stale, its places are free, and
\* the partitions the plan names start where it says.
Begin(s, p) ==
  LET begun == [stale  |-> s.begun.stale \cup DOMAIN s.committed,
                starts |-> [id \in p.names \cap Starting |-> Start],
                some   |-> TRUE]
      next  == [s EXCEPT !.begun = begun, !.committed = <<>>, !.phase = p.phase,
                         !.retired = @ \cup Freed(s),
                         !.reading = <<>>, !.started = p.names \cap Starting]
  IN  LaunchAll(next, p.names, [id \in p.names |-> StartOf(id)])

PhaseEnded(s) ==
  ~s.settled /\ \A id \in DOMAIN s.reading : s.partitions[s.reading[id]].ended

\* Plans the stream again once its phase has ended.
AdvancePhases(s, p) ==
  IF s.stopping \/ ~PhaseEnded(s) THEN s
  ELSE IF p.phase # s.phase THEN Begin(s, p)
  ELSE [s EXCEPT !.settled = TRUE]

\* Mutation: a partition whose end waits for its commit is started again.
UnsettledRunning(s) ==
  {id \in DOMAIN s.reading : ~s.partitions[s.reading[id]].ended}

\* Mutation: a partition still stopping is started again.
UnsettledSealing(s) == {s.partitions[i].id : i \in s.sealing}

\* Partitions not to be started: running, or with a seal still to commit.
Unsettled(s) ==
  {id \in DOMAIN s.reading : ~s.partitions[s.reading[id]].ended}
    \cup {s.partitions[i].id : i \in s.sealing}

\* Reads the stream's phase as a plan of the same phase says.
Rebalance(s, p) ==
  LET dropped == {id \in DOMAIN s.reading : id \notin p.names}
      retired == {id \in dropped : /\ s.partitions[s.reading[id]].ended
                                   /\ s.reading[id] \notin s.sealing}
      stopped == {s.reading[id] : id \in
                    {d \in dropped : ~s.partitions[s.reading[d]].ended}}
      kept    == [s EXCEPT
                   !.partitions = [i \in DOMAIN @ |->
                      IF i \in stopped THEN [@[i] EXCEPT !.stop = s.partitions[i].live] ELSE @[i]],
                   !.retired = @ \cup {s.reading[id] : id \in retired},
                   !.reading = Without(@, retired)]
      named   == p.names \ Unsettled(s)
  IN  LaunchAll(kept, Unread(named, s.committed), ReadFrom(named, s.committed))

\* A plan of a new phase waits for the next commit to begin it.
ReplanStream(s, p) ==
  LET t == [s EXCEPT !.named = p.names, !.settled = FALSE]
  IN  IF p.phase # s.phase THEN t ELSE Rebalance(t, p)

-----------------------------------------------------------------------------
(* The stored state and its limit                                          *)

\* What an entry takes: a cursor takes more than a done marker.
SizeOf(at) == IF at = Done THEN 1 ELSE 2
Size(parts) == MapThenSumSet(LAMBDA id : SizeOf(parts[id].at), DOMAIN parts)

\* By how much the state a commit leaves passes what may stand: its limit or,
\* where it is past it already, what is stored.
Excess(parts) == Max({0, Min({Size(parts) - limit, Size(parts) - Size(stored.parts)})})

\* Mutation: every entry may be forgotten.
MarkersOrCursors == DOMAIN stored.parts

DoneMarkers == {id \in DOMAIN stored.parts : stored.parts[id].at = Done}

\* The done markers a commit that touches some entries may forget, the earliest
\* recorded first.
Unplanned(named, touched) ==
  SetToSortSeq(DoneMarkers \ (named \cup touched),
    LAMBDA x, y : \/ stored.parts[x].epoch < stored.parts[y].epoch
                  \/ stored.parts[x].epoch = stored.parts[y].epoch /\ x < y)

\* As few of them as it takes for the state to fit.
Enough(parts, markers) ==
  {n \in 0..Len(markers) : Excess(Without(parts, ToSet(SubSeq(markers, 1, n)))) = 0}

-----------------------------------------------------------------------------
(* Commits                                                                 *)

NoBegun == [stale |-> {}, starts |-> <<>>, some |-> FALSE]

\* The newest position of each place with a seal waiting.
PositionsOf(seals) ==
  [i \in {seals[n].place : n \in DOMAIN seals} |->
     seals[Max({n \in DOMAIN seals : seals[n].place = i})].state]

\* The entries once a commit lands: stale ones deleted, then the starts of the
\* phase begun, then the positions, each under the name its place has.
Entries(s, positions) ==
  LET entry(at) == [at |-> at, epoch |-> epoch]
      names     == {s.partitions[i].id : i \in DOMAIN positions}
      of(id)    == CHOOSE i \in DOMAIN positions : s.partitions[i].id = id
  IN  [id \in names |-> entry(positions[of(id)])]
        @@ [id \in DOMAIN s.begun.starts |-> entry(s.begun.starts[id])]
        @@ Without(stored.parts, s.begun.stale)

\* What an attempt starts with, before its partitions are launched.
Fresh(phase, committed, names) ==
  [phase |-> phase, reading |-> <<>>, committed |-> committed, begun |-> NoBegun,
   settled |-> FALSE, named |-> names, partitions |-> <<>>, retired |-> {},
   sealing |-> {}, sealed |-> <<>>, stopping |-> FALSE, started |-> {}]

\* Nothing is left of the attempt.
Gone == co' = Fresh(0, <<>>, {}) /\ queue' = <<>> /\ plan' = {}

\* The committed positions of the partitions the stream still reads.
RecordPositions(s, positions) ==
  LET read   == {i \in DOMAIN positions :
                   /\ s.partitions[i].id \in DOMAIN s.reading
                   /\ s.reading[s.partitions[i].id] = i}
      of(id) == CHOOSE i \in read : s.partitions[i].id = id
  IN  [s EXCEPT !.committed =
         [id \in {s.partitions[i].id : i \in read} |-> positions[of(id)]] @@ @]

\* What the coordinator keeps once a commit took what was sealed and the phase
\* begun, and landed.
Committed(s, positions) ==
  RecordPositions([s EXCEPT !.sealed = <<>>, !.sealing = {}, !.begun = NoBegun,
                            !.committed = s.begun.starts @@ @], positions)

\* The commit lands: the entries without the markers forgotten, and the rows.
Lands(parts, forgotten) ==
  /\ stored' = [phase |-> co.phase, parts |-> Without(parts, forgotten)]
  /\ published' = [r \in RowKeys |-> published[r] +
       Cardinality({n \in DOMAIN co.sealed : r \in co.sealed[n].rows})]
  /\ forgot' = forgot \cup
       {[phase |-> co.phase, id |-> id, named |-> id \in plan] : id \in forgotten}

\* Plans the stream again where its phase ended, and goes on; the attempt ends
\* where it had read all it will and no phase began.
GoesOn(s, last) ==
  LET planning  == ~s.stopping /\ PhaseEnded(s)
      next(p)   == IF planning THEN AdvancePhases(s, p) ELSE s
      plans     == IF planning THEN Planned(s.phase, s.committed)
                               ELSE {[phase |-> s.phase, names |-> plan]}
  IN  \E p \in plans :
        \/ /\ last /\ Finishes(next(p))
           /\ pc' = "over" /\ Gone
        \/ /\ ~(last /\ Finishes(next(p)))
           /\ co' = next(p) /\ plan' = p.names
           /\ UNCHANGED <<pc, queue>>

\* A commit, due at any time and made once more when all is read, and what
\* follows it.  A commit of nothing is not sent.  Done markers are forgotten
\* where the state would not fit; where none of them makes it fit the run fails.
\* The coordinator hears nothing while it commits, so its steps are one.
Commit ==
  LET positions == PositionsOf(co.sealed)
      parts     == Entries(co, positions)
      touched   == {co.partitions[i].id : i \in DOMAIN positions}
                     \cup co.begun.stale \cup DOMAIN co.begun.starts
      markers   == Unplanned(co.named, touched)
      enough    == Enough(parts, markers)
      last      == Finishes(co)
  IN  /\ pc = "load"
      /\ \/ /\ co.sealed = <<>> /\ ~co.begun.some
            /\ GoesOn(co, last)
            /\ UNCHANGED <<stored, published, forgot>>
         \/ /\ co.sealed # <<>> \/ co.begun.some
            /\ enough # {}
            /\ Lands(parts, ToSet(SubSeq(markers, 1, Min(enough))))
            /\ GoesOn(Committed(co, positions), last)
         \/ /\ co.sealed # <<>> \/ co.begun.some
            /\ enough = {}
            /\ pc' = "failed" /\ Gone
            /\ UNCHANGED <<stored, published, forgot>>
      /\ UNCHANGED <<given, turns>>

-----------------------------------------------------------------------------
(* The coordinator between commits                                         *)

\* Mutation: the place of a seal that waits is not noted.
SealUnnoted(s, m) == [s EXCEPT !.sealed = Append(@, m)]

\* Keeps a seal for the next commit.
Seal(s, m) == [s EXCEPT !.sealing = @ \cup {m.place}, !.sealed = Append(@, m)]

\* Hears the oldest message: a seal waits for the next commit, and a partition
\* that ended is no longer read.
Observe ==
  LET m == Head(queue)
  IN  /\ pc = "load" /\ ~Finishes(co) /\ queue # <<>>
      /\ queue' = Tail(queue)
      /\ co' = IF m.kind = "sealed" THEN Seal(co, m)
                 ELSE [co EXCEPT !.partitions[m.place].ended = TRUE]
      /\ UNCHANGED <<stored, published, given, pc, plan, turns, forgot>>

\* A following run plans its stream again, at intervals or as a partition's
\* source signals.
Replan ==
  /\ pc = "load" /\ ~Finishes(co) /\ follow /\ ~co.stopping
  /\ turns < MaxTurns /\ turns' = turns + 1
  /\ \E p \in Planned(co.phase, co.committed) :
       co' = ReplanStream(co, p) /\ plan' = p.names
  /\ UNCHANGED <<stored, published, given, pc, queue, forgot>>

\* The run is asked to stop: the coordinator stops its reads.
Stop ==
  /\ pc = "load" /\ ~Finishes(co) /\ ~co.stopping
  /\ co' = [co EXCEPT !.stopping = TRUE,
              !.partitions = [i \in DOMAIN @ |-> [@[i] EXCEPT !.stop = @ \/ co.partitions[i].live]]]
  /\ UNCHANGED <<stored, published, given, pc, queue, plan, turns, forgot>>

-----------------------------------------------------------------------------
(* A partition's read                                                      *)

Reads(i) == pc = "load" /\ co.partitions[i].live

\* The rows of a partition's read after its last cursor.
Open(r) ==
  {<<r.phase, r.id, k>> : k \in (IF r.cursor = None THEN 1 ELSE r.cursor + 1)..r.at}

SealOf(i, state) ==
  [kind |-> "sealed", place |-> i, id |-> co.partitions[i].id,
   rows |-> Open(co.partitions[i]), state |-> state]
EndOf(i) == [kind |-> "ended", place |-> i]

Reading(i, told) ==
  /\ told = <<>> \/ Len(queue) <= Backlog
  /\ queue' = queue \o told
  /\ UNCHANGED <<stored, published, given, pc, plan, turns, forgot>>

Push(i) ==
  /\ Reads(i) /\ co.partitions[i].at < LastRow(co.partitions[i].phase, co.partitions[i].id)
  /\ co' = [co EXCEPT !.partitions[i].at = @ + 1]
  /\ Reading(i, <<>>)

\* A checkpoint seals the rows before it.
Checkpoint(i) ==
  /\ Reads(i) /\ Open(co.partitions[i]) # {}
  /\ co' = [co EXCEPT !.partitions[i].cursor = co.partitions[i].at]
  /\ Reading(i, <<SealOf(i, co.partitions[i].at)>>)

\* Where a partition that read to its end resumes, if anywhere new.
EndState(r) ==
  IF Open(r) = {} THEN r.cursor
  ELSE IF Unbounded(r.phase, r.id) THEN None ELSE Done

\* Lets its open rows go, or seals them where that moves its position; nothing
\* of the read is left.
EndRead(i, state) ==
  /\ co' = [co EXCEPT !.partitions[i] = [@ EXCEPT !.live = FALSE, !.stop = FALSE,
                                          !.cursor = None, !.at = 0]]
  /\ Reading(i, (IF state = None THEN <<>> ELSE <<SealOf(i, state)>>) \o <<EndOf(i)>>)

\* Its source has no more.
End(i) ==
  LET r == co.partitions[i]
  IN  /\ Reads(i) /\ r.at = LastRow(r.phase, r.id) /\ ~(follow /\ Unbounded(r.phase, r.id))
      /\ EndRead(i, EndState(r))

\* A source may end the read of an unbounded partition where it likes.
EndEarly(i) ==
  /\ Reads(i) /\ Unbounded(co.partitions[i].phase, co.partitions[i].id)
  /\ EndRead(i, EndState(co.partitions[i]))

\* It ends as it was asked to stop.
EndStopped(i) == Reads(i) /\ co.partitions[i].stop /\ EndRead(i, None)

-----------------------------------------------------------------------------
(* Attempts                                                                *)

\* The next attempt opens a session and plans the stream from what is stored.
OpenAttempt ==
  LET parts == [id \in DOMAIN stored.parts |-> stored.parts[id].at]
  IN  /\ pc = "down"
      /\ pc' = "load"
      /\ epoch' = epoch + 1
      /\ \E p \in Planned(stored.phase, parts) :
           /\ plan' = p.names
           /\ LET s == Fresh(stored.phase, parts, p.names)
              IN  co' = IF p.phase # stored.phase THEN Begin(s, p)
                        ELSE LaunchAll(s, Unread(p.names, parts), ReadFrom(p.names, parts))
      /\ UNCHANGED <<stored, published, follow, limit, queue, turns, forgot>>

\* The process dies: nothing is kept but the destination's state.
Crash ==
  /\ pc = "load" /\ turns < MaxTurns /\ turns' = turns + 1
  /\ pc' = "down"
  /\ Gone
  /\ UNCHANGED <<stored, published, given, forgot>>

Init ==
  /\ stored = [phase |-> 0, parts |-> <<>>]
  /\ published = [r \in RowKeys |-> 0]
  /\ follow \in BOOLEAN /\ limit \in Limits
  /\ epoch = 0 /\ pc = "down"
  /\ co = Fresh(0, <<>>, {}) /\ queue = <<>>
  /\ plan = {} /\ turns = 0 /\ forgot = {}

Next ==
  \/ OpenAttempt \/ Crash \/ Commit \/ Observe \/ Replan \/ Stop
  \/ \E i \in DOMAIN co.partitions :
       Push(i) \/ Checkpoint(i) \/ End(i) \/ EndEarly(i) \/ EndStopped(i)

Spec == Init /\ [][Next]_vars

-----------------------------------------------------------------------------
(* Properties                                                              *)

\* The first row of a partition no earlier phase or start covers.
FirstRow(phase, id) == IF phase = 1 /\ id \in Starting THEN Start + 1 ELSE 1

\* The rows of a partition a stored entry says are loaded.
LoadedTo(phase, id) ==
  IF phase < stored.phase THEN IF id \in FirstIds THEN LastRow(0, id) ELSE 0
  ELSE IF phase > stored.phase \/ id \notin DOMAIN stored.parts THEN 0
  ELSE IF stored.parts[id].at = Done THEN LastRow(phase, id) ELSE stored.parts[id].at

\* Every row a partition's stored position covers is published once and no row
\* past it is, in every phase, however plans, ends, stops and crashes fall
\* (replan.rs 54: a partition whose end is not committed is not read again),
\* but for partitions whose done marker was forgotten.
RowsOnce ==
  \A r \in RowKeys :
    (/\ r[3] >= FirstRow(r[1], r[2])
     /\ \A f \in forgot : <<f.phase, f.id>> # <<r[1], r[2]>>)
      => published[r] = IF r[3] <= LoadedTo(r[1], r[2]) THEN 1 ELSE 0

\* A partition is read at one place at a time, whatever plans drop and name
\* again while its read ends (replan.rs 79).
OneReader ==
  \A i, j \in DOMAIN co.partitions :
    (co.partitions[i].live /\ co.partitions[j].live /\ i # j)
      => co.partitions[i].id # co.partitions[j].id

\* A place is not given to another partition while a seal of the one it had is
\* on its way or waits: the commit would record the seal under the other's name
\* (delta.rs 188, phases.rs 259).
SealsKeepTheirName ==
  \A m \in ToSet(queue) \cup ToSet(co.sealed) :
    m.kind = "sealed" => co.partitions[m.place].id = m.id

\* Places are used again: a run that plans for ever tracks no more of them than
\* there are partitions (phases.rs 214).
PlacesBounded == Len(co.partitions) <= Cardinality(Ids)

\* Within a phase a stored cursor only moves on, and no pressure on the state
\* makes it vanish; only a done marker is ever forgotten (pressure.rs 6).
CursorsKept ==
  [][stored'.phase = stored.phase =>
       \A id \in DOMAIN stored.parts :
         \/ stored.parts[id].at = Done
         \/ /\ id \in DOMAIN stored'.parts
            /\ \/ stored'.parts[id].at = Done
               \/ stored'.parts[id].at >= stored.parts[id].at]_stored

\* What coordinator.rs 77 says of the markers of partitions the stream's latest
\* plan names: they stay under state pressure.
MarkersOfThePlanStay == \A f \in forgot : ~f.named

\* What the decision records of change streams (docs/adr/0023 75) and of
\* continuous runs (docs/adr/0031 124) say of the partitions a new phase starts:
\* they begin at their starts, so the phase loads no row of theirs before them.
StartsKept ==
  \A r \in RowKeys :
    (r[1] = co.phase /\ r[2] \in co.started /\ r[3] <= Start) => published[r] = 0
=============================================================================
