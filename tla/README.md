# rdlt in TLA+

rdlt loads rows from sources into destinations exactly once. This directory holds TLA+ models of
the parts of it where order, concurrency, retries and crashes decide correctness, the TLC runs
that check them on small instances, and TLAPS proofs for every value of the constants.

Source paths below are relative to `src/crates/`. `PROJECT.json` maps each definition to the
lines it models.

## The system and its parts

A host program gives the *engine* a source, a destination and a plan. A *run* makes *attempts*
until one ends. An attempt opens a session of the destination, which takes the pipeline's next
*epoch* and fences every older session. Tasks read the source's *partitions*, lower what they
read and write it through *lanes*, which *stage* rows. A *checkpoint* seals a segment. The
*coordinator* commits what is sealed: in one destination transaction the staged rows appear and
the positions that go with them are recorded. Then it reports the committed positions to the
source. Everything held in memory is reserved from one *budget*. Connectors run in the host's
process or behind a wire protocol.

| Part | Source | Module | State |
|---|---|---|---|
| Commit answers, fencing | `rdlt-connector/src/landed.rs`, `commit.rs` | `Landed` | modelled |
| Load protocol | `rdlt-engine/src/attempt.rs`, `coordinator*`, `partition.rs`, `lane.rs`, `report/ledger.rs` | `Load` | in part |
| Memory destination | `rdlt-connector-reference/src/memory/destination.rs` | `Load` | in part |
| What a pipeline promises | (abstract) | `Delivery` | specification |
| Run: retries, stops, deadline | `rdlt-engine/src/run.rs`, `config.rs`, `plan/until.rs` | `Drive` | modelled |
| Memory budget | `rdlt-engine/src/budget.rs`, `budget/ledger.rs` | `Budget` | in part |
| Triggers, barriers, waiting seals, cursors' room, retention | `rdlt-engine/src/coordinator/barrier.rs`, `due.rs`, `waiting.rs`, `delta.rs`, `partition/latest.rs`, `partition/retention.rs` | `Coordinator` | in part |
| Phases, planning again, done markers, relief | `rdlt-engine/src/coordinator/phases.rs`, `replan.rs`, `done.rs`, `pressure.rs`, `stored.rs` | `Phases` | modelled |
| Files destination | `rdlt-connector-reference/src/files/*` | `Files` | in part |
| Coalescing, windows of writes, loans, resets | `partition/write/*`, `coalesce.rs`, `slots.rs`, `run/reset.rs` | | not modelled |
| Serving, hosting, credit | `rdlt-connector/src/serve/*`, `source/sent.rs`, `rdlt-host/src/*`, `rdlt-wire/src/flow.rs` | | not modelled |
| Merging by sequence, tombstones, history; SQLite | `rdlt-connector/src/merge/*`, `rdlt-connector-reference/src/sqlite/*` | | not modelled |
| Lowering, normalizing, shredding, transforms, naming, SQL generation, codec, TLS, sandbox, secrets, certification, simulation | | | not modelled |

How they interact: `Load` is the whole path of a row with the coordinator simplified to "a commit
may start whenever none is under way". `Coordinator` takes that coordinator apart and simplifies
the commit to one that lands; `Phases` takes apart which partitions there are and where they
start; `Files` takes apart the destination's one step; `Drive` is what surrounds attempts, and
`Budget` what each of them waits for. `Load` and `Files` answer commits by one module,
`Landed`.

The last row is conversion of data, text generation, I/O or testing: no interleaving in it is
for a model checker, and the repository tests it against reference implementations.

## Modules

### `Landed`

`Answer` is `answer` and `Decide` is `decide`: the landed key first, whichever session sends it,
then the epoch, then the key the commit expects landed. The absent key `None` is `NoKey`, before
every real one.

### `Load`, and `Delivery` that it implements

The state is per run (what the report counts and the commit a failed attempt left unresolved),
per attempt (the session's epoch, the next commit's place, what was read, sealed, flushed and
taken of each partition, the commit in flight and its tries), of the destination (the fence row,
committed positions, staged and published rows) and of calls under way (`running`: copies of
commits sent and not executed; `telling`: reports given up that the source may yet hear).
`applied` and `openers` are history.

A row is a number and a position is the number of rows before it. The actions, and where they
are in the code:

- `OpenSession`, `OpenLost`, `OpenRefused`: `attempt.rs` open and launch with the destination's
  open and `discard_staged`; an open whose answer is lost still takes its epoch.
- `Read`, `Seal`, `FlushLane`: `partition.rs` and `lane.rs`. They go on while a commit is in
  flight, and a lane flushes sealed and unsealed rows alike.
- `Collect`, `FlushThenSend`, `AnswersTransiently`, `Resend`, `Record`, `Refused`:
  `coordinator/commit.rs` and `retried.rs`. What a commit takes is fixed at `Collect`.
- `Execute`: the destination executes any copy under way, whenever it does. Copies are not
  ordered and may outlive their attempt and run.
- `Reported`, `ReportFails`, `ReportAgain`, `HearsLate`: `coordinator/acks.rs`.
- `Finish`, `FailAttempt`, `Crash`: ends of an attempt. Each but a crash goes through
  `report/ledger.rs` `record` (`Credit`, `LeftInFlight`).

`Delivery` is the promise to whoever reads the tables: rows appear in whole commits, each once
and in its partition's order, positions never move back, and the source is told only of what is
published. `Load` implements it under `position <- state, table <- published, told <- kept`.

A source is taken to keep its contract (a read from a position yields the rows after it), and a
destination to execute a commit in one step, as the memory destination does under its lock.
Left out of `Load`: several lanes to a partition, barriers and triggers (a commit may start
whenever none is under way; see `Coordinator`), phases and done markers (see `Phases`), and write
modes other than append.

### `Drive`

`drive` and `deadlined` of `run.rs`: attempts, the failures the policy counts, the wait between
attempts, both stop modes, and the deadline, whose timer is a task beside the run. An attempt is
seen as the drive sees it: it lands commits that move the load on (`Work` of them until the
source's end) or only record positions again, notices a stop, and ends, fails or is cancelled.
Whether a run follows its source, and whether failures start over after progress, is chosen in
`Init`. Delays have no length.

### `Budget`

The ledger with the shares of `limits.rs`, the requests of `budget.rs`, and waiters in queues.
The ledger is behind a mutex; a task that releases bytes or leaves a queue admits waiters in a
loop under it. `admitting` is that lock held, and one step is one turn of the loop, since a
waiter can drop its end of the channel meanwhile. The race of a grant with a waiter's deadline is
therefore explicit: `GiveUp` before the waiter is reached, or with a reservation sent and not
received, then `Leave` as `Queued` is dropped. A push asks twice, for itself and, holding that,
to be lowered. Loans (`Lent`), `split` and the counters of waits and peaks are left out.
Arithmetic is on naturals: `limits.rs` and `fits` keep sums below the capacity but for one, which
saturates and is refused either way.

### `Coordinator`

Two kinds of actor. Each partition reads positions, pushes rows, checkpoints, loses its place to
the source's retention, and ends; it reports to the coordinator through a queue, but keeps its
newest seal of no rows *beside* the queue (`latest`, with the epoch by which a queued notice finds
out whether it is still meant). The coordinator (`co`) hears one report at a time, keeps the seals
waiting (`standing`), counts what makes a commit due (`due`), raises a barrier, waits until no
partition owes an answer, breaks the wait off when its deadline passes or a cursor waits for room
only this commit frees, flushes the lanes, and commits what it collected.

The queue is one per partition here; the code's is one FIFO for all. Every order the one queue can
deliver is an order of the several, so nothing is missed. Cursors' room is the budget's share seen
as a sum over seals on their way, kept, waiting and in flight. Left out: coalescing of pushes and
flushes of lanes under pressure, discards by filters and policies, signals of lag, deadlines of a
cursor's wait, table records in the cursors' share, and failures of a commit or a report, which
are `Load`'s. `MaxTurns` bounds intervals, overdue barriers, stops and places lost together.

### `Phases`

A change stream read in two phases under a limit on the stored state. `Commit` is the whole of
what a commit does here: the new phase's entries (`Entries`), positions, the relief of done
markers where the state would not fit, the destination's step, and what follows it, planning the
stream again where its phase ended. `Replan` plans it again within its phase, as a timer or a
signal asks, and `Rebalance` starts, keeps and drops partitions. A tracked partition has a place
in `co.partitions`, and places are freed and used again. Partitions read, seal, end and stop on
their own and tell the coordinator through its queue. `Crash`, a stop and `OpenAttempt` end and
begin attempts. How the source plans is taken from the changes source.

### `Files`

A pipeline's directory: manifests by version, of which some names are durable, and data files,
each durable once written. A session (`sess`) is a sequence of the calls its code makes, each a
step between which others' steps, a failure, a death or a power loss may fall:

- `OpenRead`, `Link`, `Sync`, `CheckNewest`: `next_epoch` and `manifest::put`. A name is linked
  unless it exists, the directory is synced, and whoever finds a newer version has lost.
- `Settle`, `Discard`: `discard_staged`, which the engine calls after every open.
- `Stage`, `Commit`, `DecideCommit` (then `Link`, `Sync`, `CheckNewest`), `Prune`: a commit. Its
  files are listed as they are or rewritten into one more (`Compact`, `MergedRows`).
- `Settle`, `DiscardSuperseded`: a commit sent again that had landed.
- `Fail`: a call fails; a commit removes what it wrote and may be sent again (`Resend`).
- `End`: the session is closed or its process dies. `PowerLoss`: every process dies and each name
  that is not durable may be gone.

`mode` is chosen in `Init`: sessions overlap and power stays (`overlap`), sessions follow one
another and power is lost (`alone`), or both. Sessions overlap without two runs, too: a commit
given up when its attempt is cancelled goes on in its blocking thread while the next attempt
opens. Reading the latest manifest and removing what it does not list is one step: a file not
listed is listed by no later manifest unless its own session lists it. Removing does not fail
here, and a removed name does not come back; the code leaves what it cannot remove to the next
open. A sync that succeeds makes all names durable, also where one before it failed. One table
stands for all; catalogs of tables and their owners, generations and drops are left out.

## Runs

| Run | Instance | Checks |
|---|---|---|
| `load_overlap` | two runs, one partition of one row, three epochs | rows once, commits in key order, reports that count exactly what landed, the inductive invariant `Inv` |
| `load_resend` | one run, two rows, two epochs of two commits, each sent up to twice | types, rows once, reports to the source, success means all loaded, implements `Delivery` |
| `drive` | three attempts, two commits that move on, every plan and policy | retries bounded, statuses true, runs end |
| `drive_stop` | two attempts, one commit | **violated**: see below |
| `budget_pushes` | two pushes and their lowering; 64 bytes | shares kept, bytes accounted for, every request answered (liveness) |
| `budget_queues` | three requests for one share, two for another, a read; sizes 1, 2, 4 | none forgotten, none overtaken, bytes accounted for, signals true |
| `coordinator` | a partition of one row that checkpoints when asked, one whose cursor takes the whole share; one turn | a recorded position has its rows, barriers are answered, what is due is there, a done partition's source heard its last cursor, nothing is stuck |
| `phases` | two phases, two partitions of two rows, one unbounded; two turns; tight and ample state | rows once, one reader a partition, seals keep their names, places bounded, cursors kept |
| `phases_named` | a second phase of two partitions that end; tight state | **violated**: see below |
| `phases_start` | a second phase with a start; one turn | **violated**: see below |
| `files` | two sessions' slots, two epochs, two commits each, two faults, one version kept; `overlap` and `alone` | readers find the files, answered commits stay, nothing piles up |
| `files_power` | the same with one fault; `both` | **violated**: see below |

Bounds. Two runs and three epochs are the least in which a run opens, another opens over it, and
the first opens again to find either's commit landed. Two commits of a session and two tries of
each are the least in which a late copy of the first meets the second. The budget of 64 bytes
gives every share a size a request can fill, and sizes were chosen so that one request fills a
share, one fits beside another, and one is refused. `MaxEpoch` and `MaxSeq` stand for `u64::MAX`
and are reached in both runs. Runs are symmetric in `load_overlap`; it checks no liveness.

One turn of `coordinator` is the least in which a place is lost, a barrier is overdue, or a stop
arrives between a seal and its commit; three unheard reports (`Backlog`) are the least in which a
stale notice meets a newer seal of no rows with a seal of rows between them. Two turns of `phases`
drop a partition and name it again, or crash in between. In `files`, `Kept` is 8 in the code and
1 here, so that a session held up finds its version free again within two commits of another; two
faults are the least in which a sync fails and power is lost before the commit is sent again.
Budgets in `budget_queues` are without fairness and in `budget_pushes` with it: liveness on the
larger instance is out of reach.

`CHECK_DEADLOCK FALSE` is set throughout: runs end, a budget may be asked for no more, and the
bounds end the others. What must not be stuck is stated by properties: `NeverStuck` for the
coordinator, whose every behaviour is finite here, so that a liveness property would say no more.

Every property has a mutant in `PROJECT.json`, a plausible slip in the code (an unfenced answer,
a waiter that leaves quietly, one try too many) under which TLC finds it violated. The
`Mutation` definitions in the modules are these, used nowhere else. `BudgetTypeOK` is proved and
not among the runs' properties.

### What `drive_stop` shows

`docs/adr/0031-continuous-runs.md` says that the deadline ends a run `Succeeded` and that
"`Stopped` stays the status of an external stop". `deadlined` (`run.rs:309`) turns every
`Stopped` into `Succeeded` once the deadline was reached. A stop asked from outside before the
deadline, whose attempt ends after it, is reported `Succeeded`. Nothing is lost by it; the status
and the document disagree.

### What `phases_named` shows

`coordinator.rs:77` says that the done markers of partitions "the stream's latest plan names" stay
under state pressure. `begin` (`coordinator/phases.rs:172`) starts a new phase from its plan and
does not update `named`. A partition of the new phase that is read to its end while the state has
no room loses its marker in that very commit, and the next attempt reads it all again.

### What `phases_start` shows

`docs/adr/0023-change-streams.md` says that a new phase's partitions begin at their starts, and
`docs/adr/0031-continuous-runs.md` that only they do. Starts are recorded by the commit after
`begin`. A partition whose read ends before that commit with nothing sealed, and which is planned
again before it, is started by `rebalance` from its beginning (`coordinator/replan.rs:94`): the
rows before its start, which the phase before loaded, are loaded again.

### What `files_power` shows

`files/destination.rs:210` says that "a manifest a power loss could take back decides nothing
about the files of the manifest before it". `prune` (`files/session/commit.rs:133`) and
`discard_settled` decide by whichever manifest is the latest, and that can be a newer session's,
linked and not yet synced. An older session held up after its own manifest was durable finds it
passed by, and removes its rewritten file because the newer session's second manifest rewrote it
in turn. Power is lost, that name is taken back, and the newer session's first manifest lists a
file that is gone. Neither half alone does it: `files` shows that sessions may overlap as long as
power stays, and power may be lost as long as they do not.

## Fairness

Safety needs none. `Drive` assumes weak fairness of the engine's own steps: commits while there
is more to read, noticing a stop, ending, the polls of the wait, and the clock. A source that
never yields is outside it, and no one need stop a run. `Budget` assumes that loops under the
lock end, woken tasks run and pushes held are lowered (weak), and that holders release (strong,
since a holder may wait for its own writes again and again in between). No waiter's deadline is
assumed to pass, so `Answered` shows that waiting ends without it.

## Proofs

For all values of the constants, from the assumptions named in the modules
(`ConstantsAssumption`, `DriveAssumption`, `BudgetAssumption`):

| Module | Theorem | States |
|---|---|---|
| `LoadTheorems` | `Invariance` | `Inv` holds always |
| | `TypeCorrect` | `TypeOK` |
| | `DeliversExactlyOnce` | `ExactlyOnce` |
| | `AcknowledgesCommitted` | `Acknowledged` |
| | `CountsLanded` | `CountedLanded` (and `CountedOnce`) |
| | `CountsAll` | `NothingUncounted` |
| | `SuccessIsWhole` | `SucceededLoaded` |
| | `LandsInKeyOrder` | `LandsInOrder` |
| | `ImplementsDelivery` | `Spec => Promise!Spec` |
| `DriveTheorems` | `RetriesAreBounded`, `StatusIsTrue`, `DriveTypeCorrect` | `RetriesBounded`; `SucceededTruly` and `StopsAsAsked`; `DriveTypeOK` |
| `BudgetTheorems` | `NeverExceeded`, `NoWaiterForgotten`, `SignalsAreTrue`, `BudgetTypeCorrect` | `WithinShares`; `NoneForgotten`; `SignalsTrue`; `BudgetTypeOK` |

**Load.** `ExactlyOnce` is not inductive: that a copy which would apply publishes the right rows
depends on what its run knew when it sent it. `LoadInv` says what each party knows of the others.
`RunInv` relates an open attempt to the fence row: the session of the newest epoch knows where
the destination stands, but for its own commit in flight (`Holds`), and what it flushed past
there is staged. `CopyInv` says that a copy under way which would apply starts where the
destination stands and has all its rows staged; `SameCopies` that copies of a commit agree.
`AppliedInv` says that a landed commit is counted, in flight, unresolved or landed over.
`LoadFrames` holds the order of positions and keys, what a step leaves alone, and the steps that
read and stage; `LoadAttempts` the steps between commits and those that end an attempt;
`LoadCommits` sending and receipts; `LoadDestination` opening and executing; `LoadTheorems` types,
the induction and the theorems. The proof is split because tlapm slows down with the number of
obligations of one module: each of these checks from nothing in 3 to 15 minutes.

**Drive.** The bound on attempts needs `Counted`: attempts so far are those allowed before the
load last moved on plus the failures in a row, and an attempt that progressed has a commit to
show for it. `Truthful` says why a run is stopping.

**Budget.** `NoneForgotten` needs `QueuedAsked` (nobody waits who has not asked, so asking
changes no waiter's bytes); that shares are kept needs that they add up to the capacity.

Only model-checked: `RunEnds` and `Answered` (liveness), `NeverStuck` (`ENABLED`), `Accounted`,
`InArrivalOrder` and `DueTrue`, which sum over requests or partitions or range over a history, and
the other properties of `Coordinator`, `Phases` and `Files`.

## Not modelled

- **Loans, coalescing, windows of writes.** A partition's own tasks share a loan of the budget and
  gather pushes into writes. Their bytes are the budget's, which `Budget` covers; whether a loan's
  takers can miss a return is listed as a hazard no property covers.
- **Serving, hosting, wire credit.** A connector behind the wire is, for the load protocol, one
  whose calls may be lost, late, made twice or answered by a new process, and `Load` has those
  calls. What serving itself keeps (sessions within a limit, positions it remembers, credit) is
  listed as hazards.
- **Merging by sequence, SQL, formats, lowering, naming.** Algorithms on rows and text. Their
  correctness is about data, not order; the repository tests them against references.
- **Resets.** One session's commit of deletions, fenced as every other.
- **Catalogs, owners, generations and drops of the files destination; the SQLite destination.**
  The first take a lock of their own on a table, which `Files` does not have; the second is one
  transaction of a database.

`PROJECT.json` lists the hazards, each with the properties that cover it or why none does.
