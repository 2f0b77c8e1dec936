------------------------------- MODULE Budget -------------------------------
(***************************************************************************)
(* The memory budget of a run (rdlt-engine/src/budget.rs and               *)
(* budget/ledger.rs): shares, requests that are granted, refused or wait in*)
(* arrival order, waiters that give up, reservations that shrink and are   *)
(* released, and the signals raised while someone waits.                   *)
(*                                                                         *)
(* The ledger is behind a mutex. A task that releases bytes or leaves the  *)
(* queue admits waiters in a loop under the lock: `admitting` is that lock *)
(* held, one step is one turn of the loop, and only what needs no lock, a  *)
(* waiter dropping its end of its channel, happens meanwhile.              *)
(*                                                                         *)
(* A push p asks twice: <<p, "intake">> for itself, and, holding that,     *)
(* <<p, "work">> to be lowered.                                            *)
(***************************************************************************)
EXTENDS Integers, Sequences, FiniteSetsExt

CONSTANTS Requests,  \* <<who, class>>: every request made of the budget
          Capacity,  \* bytes of the budget
          Sizes      \* bytes a request may ask for

Classes == {"intake", "work", "cursor", "tables", "read", "control"}

\* The classes that wait; reads never do.
Waiting == Classes \ {"read"}

Class(r) == r[2]

Intake(r) == <<r[1], "intake">>
Work(r) == <<r[1], "work">>

ASSUME BudgetAssumption ==
  /\ Capacity \in Nat
  /\ Sizes \subseteq Nat
  /\ \A r \in Requests : r = <<r[1], r[2]>> /\ Class(r) \in Classes
  /\ \A r \in Requests : Class(r) \in {"intake", "work"} =>
       Intake(r) \in Requests /\ Work(r) \in Requests

VARIABLES
  held,         \* bytes each share holds
  queue,        \* requests waiting for each share, in arrival order
  at,           \* where each request is
  bytes,        \* what each request asked for, and holds
  admitting,    \* the lock is held by a task that admits waiters
  pressers,     \* holders of lowering's bytes that wait for their own writes
  pressed,      \* the signal to write
  cursorWaits,  \* the signal to commit
  asked         \* requests of each share not refused, in the order made (history)

vars == <<held, queue, at, bytes, admitting, pressers, pressed, cursorWaits, asked>>
-----------------------------------------------------------------------------
(***************************************************************************)
(* Shares.                                                                 *)
(***************************************************************************)

Cursors == Capacity \div 64
Tables == Capacity \div 32
Reads == Capacity \div 4
Control == Capacity \div 16

Data == Capacity - Cursors - Tables - Reads - Control

\* The most one request for lowering takes.
Request == LET fourth == Capacity \div 4 IN IF fourth <= Data THEN fourth ELSE Data

\* Mutation: pushes may take all the data.
PushesTakeAll == Data

\* What pushes take together: the data less one request for lowering.
Pushes == Data - Request

\* The most one request of a class may take.
Limit(class) ==
  CASE class = "intake"  -> Pushes
    [] class = "work"    -> Request
    [] class = "cursor"  -> Cursors
    [] class = "tables"  -> Tables
    [] class = "read"    -> Reads
    [] class = "control" -> Control

\* Mutation: lowering is held to the data share without what pushes hold of it.
FitsBesideNoPush(class, asks) ==
  CASE class = "intake" -> /\ held["intake"] + asks <= Pushes
                           /\ held["intake"] + held["work"] + asks <= Data
    [] class = "work"   -> held["work"] + asks <= Data
    [] OTHER            -> held[class] + asks <= Limit(class)

\* Whether bytes of a class fit their share beside what it holds.
Fits(class, asks) ==
  CASE class = "intake" -> /\ held["intake"] + asks <= Pushes
                           /\ held["intake"] + held["work"] + asks <= Data
    [] class = "work"   -> held["intake"] + held["work"] + asks <= Data
    [] OTHER            -> held[class] + asks <= Limit(class)

Waits(class) == class \in Waiting /\ queue[class] # <<>>

\* Mutation: a request that fits is granted past those that wait.
OpenPastWaiters(class, asks) == Fits(class, asks)

\* Whether bytes may be reserved now: they fit, and nothing that goes before waits.
Open(class, asks) ==
  /\ ~Waits(class)
  /\ class = "intake" => ~Waits("work")
  /\ Fits(class, asks)
-----------------------------------------------------------------------------
Init ==
  /\ held = [c \in Classes |-> 0]
  /\ queue = [c \in Waiting |-> <<>>]
  /\ at = [r \in Requests |-> "idle"]
  /\ bytes = [r \in Requests |-> 0]
  /\ admitting = FALSE
  /\ pressers = {}
  /\ pressed = FALSE
  /\ cursorWaits = FALSE
  /\ asked = [c \in Classes |-> <<>>]

\* The signals as the queues q and the holders of queued pieces p stand.
Press(q, p) ==
  /\ pressed' = (p # {} \/ q["work"] # <<>> \/ q["intake"] # <<>>)
  /\ cursorWaits' = (q["cursor"] # <<>> \/ q["tables"] # <<>>)

\* Gives back bytes of a share, no more than it holds, and admits whoever waits, the
\* lock still held.
GiveBack(class, freed) ==
  /\ held' = [held EXCEPT ![class] = IF freed <= @ THEN @ - freed ELSE 0]
  /\ admitting' = TRUE
-----------------------------------------------------------------------------
(***************************************************************************)
(* Asking (request, keep, try_acquire_working).                            *)
(***************************************************************************)

Grant(r, asks) ==
  /\ held' = [held EXCEPT ![Class(r)] = @ + asks]
  /\ at' = [at EXCEPT ![r] = "holding"]
  /\ bytes' = [bytes EXCEPT ![r] = asks]
  /\ asked' = [asked EXCEPT ![Class(r)] = Append(@, r)]
  /\ UNCHANGED <<queue, pressed, cursorWaits>>

Refuse(r) ==
  /\ at' = [at EXCEPT ![r] = "refused"]
  /\ UNCHANGED <<held, queue, bytes, pressed, cursorWaits, asked>>

\* Mutation: a request that waits is not signalled.
QueueUnpressed(r, asks) ==
  /\ queue' = [queue EXCEPT ![Class(r)] = Append(@, r)]
  /\ at' = [at EXCEPT ![r] = "waiting"]
  /\ bytes' = [bytes EXCEPT ![r] = asks]
  /\ asked' = [asked EXCEPT ![Class(r)] = Append(@, r)]
  /\ UNCHANGED <<held, pressed, cursorWaits>>

\* Ledger::wait
Queue(r, asks) ==
  /\ queue' = [queue EXCEPT ![Class(r)] = Append(@, r)]
  /\ at' = [at EXCEPT ![r] = "waiting"]
  /\ bytes' = [bytes EXCEPT ![r] = asks]
  /\ asked' = [asked EXCEPT ![Class(r)] = Append(@, r)]
  /\ Press(queue', pressers)
  /\ UNCHANGED held

\* A push is lowered while it holds its own bytes.
MayAsk(r) == Class(r) = "work" => at[Intake(r)] = "holding"

\* A request is refused where it is too large, granted where it may be, and otherwise
\* waits; a read's never waits.
Ask(r, asks) ==
  /\ ~admitting
  /\ at[r] = "idle"
  /\ MayAsk(r)
  /\ IF asks > Limit(Class(r)) THEN Refuse(r)
     ELSE IF Open(Class(r), asks) THEN Grant(r, asks)
     ELSE IF Class(r) \in Waiting THEN Queue(r, asks)
     ELSE Refuse(r)
  /\ UNCHANGED <<admitting, pressers>>
-----------------------------------------------------------------------------
(***************************************************************************)
(* Admitting (admit_waiting, Ledger::next).                                *)
(***************************************************************************)

\* The first of a share fits, and no push takes room that lowering waits for.
Admissible(class) ==
  /\ Waits(class)
  /\ Fits(class, bytes[Head(queue[class])])
  /\ class = "intake" => ~Waits("work")

\* WAITING: the order in which shares are admitted.
Rank(class) == CASE class = "cursor"  -> 1
                 [] class = "tables"  -> 2
                 [] class = "control" -> 3
                 [] class = "work"    -> 4
                 [] class = "intake"  -> 5

\* Mutation: bytes a waiter no longer takes stay reserved.
TakesAnyway(r) == at[r] \in {"waiting", "leaving"}

\* The waiter's end of its channel still stands.
Takes(r) == at[r] = "waiting"

\* The next waiter's reservation is sent to it; one that stopped waiting takes none.
AdmitNext(class) ==
  LET r == Head(queue[class])
  IN  /\ admitting
      /\ Admissible(class)
      /\ \A c \in Waiting : Rank(c) < Rank(class) => ~Admissible(c)
      /\ queue' = [queue EXCEPT ![class] = Tail(@)]
      /\ held' = [held EXCEPT ![class] = IF Takes(r) THEN @ + bytes[r] ELSE @]
      /\ at' = [at EXCEPT ![r] = IF at[r] = "waiting" THEN "sent" ELSE @]
      /\ UNCHANGED <<bytes, admitting, pressers, pressed, cursorWaits, asked>>

\* No one is left to admit: the signals are set and the lock is let go.
AdmitEnds ==
  /\ admitting
  /\ \A c \in Waiting : ~Admissible(c)
  /\ admitting' = FALSE
  /\ Press(queue, pressers)
  /\ UNCHANGED <<held, queue, at, bytes, pressers, asked>>
-----------------------------------------------------------------------------
(***************************************************************************)
(* Receiving, giving up and releasing.                                     *)
(***************************************************************************)

\* The request has its reservation, and leaves its place among the waiters.
Receive(r) ==
  /\ ~admitting
  /\ at[r] = "sent"
  /\ at' = [at EXCEPT ![r] = "holding"]
  /\ admitting' = TRUE
  /\ UNCHANGED <<held, queue, bytes, pressers, pressed, cursorWaits, asked>>

\* The request's wait ends, at its deadline or dropped: its end of the channel goes
\* first, and a reservation sent meanwhile is given back.
GiveUp(r) ==
  /\ \/ at[r] = "waiting" /\ UNCHANGED <<held, admitting>>
     \/ at[r] = "sent" /\ ~admitting /\ GiveBack(Class(r), bytes[r])
  /\ at' = [at EXCEPT ![r] = "leaving"]
  /\ UNCHANGED <<queue, bytes, pressers, pressed, cursorWaits, asked>>

\* Ledger::forget: the queue without a request, which is in it once or not at all.
Without(s, r) ==
  IF \E i \in DOMAIN s : s[i] = r
  THEN LET i == CHOOSE i \in DOMAIN s : s[i] = r
       IN  [j \in 1..(Len(s) - 1) |-> IF j < i THEN s[j] ELSE s[j + 1]]
  ELSE s

\* Mutation: no one is admitted in the place of a waiter that leaves.
LeaveQuietly(r) ==
  /\ ~admitting
  /\ at[r] = "leaving"
  /\ at' = [at EXCEPT ![r] = "left"]
  /\ queue' = [c \in Waiting |-> Without(queue[c], r)]
  /\ Press(queue', pressers)
  /\ UNCHANGED <<held, bytes, admitting, pressers, asked>>

\* Then its place in the queue, and whoever waited behind it may fit.
Leave(r) ==
  /\ ~admitting
  /\ at[r] = "leaving"
  /\ at' = [at EXCEPT ![r] = "left"]
  /\ queue' = [c \in Waiting |-> Without(queue[c], r)]
  /\ admitting' = TRUE
  /\ UNCHANGED <<held, bytes, pressers, pressed, cursorWaits, asked>>

\* A push's bytes are held until it is lowered, or lowering it failed.
MayRelease(r) ==
  /\ Class(r) = "intake" => at[Work(r)] \in {"holding", "released", "refused", "left"}
  /\ r \notin pressers

Release(r) ==
  /\ ~admitting
  /\ at[r] = "holding"
  /\ MayRelease(r)
  /\ at' = [at EXCEPT ![r] = "released"]
  /\ GiveBack(Class(r), bytes[r])
  /\ UNCHANGED <<queue, bytes, pressers, pressed, cursorWaits, asked>>

\* A reservation keeps fewer bytes, and gives the rest back.
Shrink(r, keeps) ==
  /\ ~admitting
  /\ at[r] = "holding"
  /\ keeps < bytes[r]
  /\ bytes' = [bytes EXCEPT ![r] = keeps]
  /\ GiveBack(Class(r), bytes[r] - keeps)
  /\ UNCHANGED <<queue, at, pressers, pressed, cursorWaits, asked>>

\* A holder of lowering's bytes waits for its own writes (Pressing::on), and ends.
PressBegins(r) ==
  /\ ~admitting
  /\ at[r] = "holding" /\ Class(r) = "work" /\ r \notin pressers
  /\ pressers' = pressers \cup {r}
  /\ Press(queue, pressers')
  /\ UNCHANGED <<held, queue, at, bytes, admitting, asked>>

PressEnds(r) ==
  /\ ~admitting
  /\ r \in pressers
  /\ pressers' = pressers \ {r}
  /\ Press(queue, pressers')
  /\ UNCHANGED <<held, queue, at, bytes, admitting, asked>>

Next ==
  \/ \E r \in Requests :
       \/ \E asks \in Sizes : Ask(r, asks)
       \/ \E keeps \in Sizes : Shrink(r, keeps)
       \/ Receive(r) \/ GiveUp(r) \/ Leave(r) \/ Release(r)
       \/ PressBegins(r) \/ PressEnds(r)
  \/ \E c \in Waiting : AdmitNext(c)
  \/ AdmitEnds

Spec == Init /\ [][Next]_vars

\* Loops under the lock end, tasks woken run, a push held is lowered, a waiter that gave
\* up leaves; writes and commits release what they hold, also where a holder waits for
\* its writes again and again. No wait need reach its deadline.
Fairness ==
  /\ WF_vars(AdmitEnds) /\ WF_vars(\E c \in Waiting : AdmitNext(c))
  /\ \A r \in Requests :
       /\ WF_vars(Receive(r) \/ Leave(r) \/ PressEnds(r))
       /\ Class(r) = "work" => WF_vars(\E asks \in Sizes : Ask(r, asks))
       /\ SF_vars(Release(r))

FairSpec == Spec /\ Fairness
-----------------------------------------------------------------------------
(***************************************************************************)
(* Properties.                                                             *)
(***************************************************************************)

BudgetTypeOK ==
  /\ held \in [Classes -> Nat]
  /\ queue \in [Waiting -> Seq(Requests)]
  /\ at \in [Requests -> {"idle", "refused", "waiting", "sent", "holding", "leaving", "left",
                          "released"}]
  /\ bytes \in [Requests -> Nat]
  /\ admitting \in BOOLEAN
  /\ pressers \subseteq Requests
  /\ pressed \in BOOLEAN /\ cursorWaits \in BOOLEAN
  /\ asked \in [Classes -> Seq(Requests)]

\* No share ever holds more than it may, nor all of them together more than the
\* budget; pushes leave room for one request for lowering.
WithinShares ==
  /\ held["intake"] <= Pushes
  /\ held["intake"] + held["work"] <= Data
  /\ \A c \in {"cursor", "tables", "read", "control"} : held[c] <= Limit(c)
  /\ held["intake"] + held["work"] + held["cursor"] + held["tables"] + held["read"]
       + held["control"] <= Capacity

\* A share holds exactly what its reservations hold, those sent and not yet received
\* among them: no race of a grant with a waiter that gives up leaks or frees bytes.
Accounted ==
  \A c \in Classes :
    held[c] = MapThenSumSet(LAMBDA r : bytes[r],
                {r \in Requests : Class(r) = c /\ at[r] \in {"sent", "holding"}})

\* No waiter that could be admitted is left waiting once the lock is let go.
NoneForgotten == ~admitting => \A c \in Waiting : ~Admissible(c)

\* Requests of one share are granted in the order they were made, whoever gives up.
InArrivalOrder ==
  \A c \in Classes : \A i, j \in DOMAIN asked[c] :
    i < j /\ at[asked[c][i]] = "waiting" => at[asked[c][j]] \in {"waiting", "leaving", "left"}

\* Whoever holds bytes a write or a commit releases is told while anyone waits for
\* them, and left alone while no one does.
SignalsTrue ==
  ~admitting =>
    /\ pressed = (pressers # {} \/ Waits("work") \/ Waits("intake"))
    /\ cursorWaits = (Waits("cursor") \/ Waits("tables"))

\* Every request is answered, without help from its deadline: pushes that hold bytes
\* while they wait to be lowered never wait for one another.
Answered ==
  \A r \in Requests : at[r] = "waiting" ~> at[r] # "waiting"
=============================================================================
