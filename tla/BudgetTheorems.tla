--------------------------- MODULE BudgetTheorems ---------------------------
(***************************************************************************)
(* What holds of every budget, whatever its capacity and whoever asks: no  *)
(* share is passed, no waiter that could be admitted is left, and the      *)
(* signals tell the truth.                                                 *)
(***************************************************************************)
EXTENDS Budget, TLAPS

\* No request is queued before it asked, so asking changes no waiter's bytes.
QueuedAsked == \A c \in Waiting : \A i \in DOMAIN queue[c] : at[queue[c][i]] # "idle"

BudgetInv == BudgetTypeOK /\ WithinShares /\ QueuedAsked /\ NoneForgotten /\ SignalsTrue

\* The shares are of the budget: together they are no more than it.
LEMMA SharesWithin ==
  /\ Cursors \in Nat /\ Tables \in Nat /\ Reads \in Nat /\ Control \in Nat
  /\ Data \in Nat /\ Request \in Nat /\ Pushes \in Nat /\ Pushes <= Data
  /\ Data + Cursors + Tables + Reads + Control = Capacity
<1>1. /\ Cursors \in Nat /\ Tables \in Nat /\ Reads \in Nat /\ Control \in Nat
      /\ 64 * Cursors <= Capacity /\ 32 * Tables <= Capacity /\ 4 * Reads <= Capacity
      /\ 16 * Control <= Capacity
  BY BudgetAssumption DEF Cursors, Tables, Reads, Control
<1>2. Data \in Nat /\ Data + Cursors + Tables + Reads + Control = Capacity
  BY <1>1, BudgetAssumption DEF Data
<1>3. Request \in Nat /\ Request <= Data
  BY <1>2, BudgetAssumption DEF Request
<1> QED BY <1>1, <1>2, <1>3 DEF Pushes

LEMMA LimitsNat == \A c \in Classes : Limit(c) \in Nat
BY SharesWithin DEF Limit, Classes

\* Removing a request from a queue leaves a queue of the others.
LEMMA WithoutQueue ==
  ASSUME NEW S, NEW s \in Seq(S), NEW r
  PROVE  /\ Without(s, r) \in Seq(S)
         /\ \A i \in DOMAIN Without(s, r) : \E j \in DOMAIN s : Without(s, r)[i] = s[j]
<1>1. CASE ~ \E i \in DOMAIN s : s[i] = r
  BY <1>1 DEF Without
<1>2. CASE \E i \in DOMAIN s : s[i] = r
  <2> DEFINE k == CHOOSE i \in DOMAIN s : s[i] = r
             w == [j \in 1..(Len(s) - 1) |-> IF j < k THEN s[j] ELSE s[j + 1]]
  <2>1. Without(s, r) = w
    BY <1>2 DEF Without
  <2>2. k \in 1..Len(s) /\ Len(s) \in Nat /\ Len(s) - 1 \in Nat
    BY <1>2
  <2> HIDE DEF k
  <2>3. \A j \in 1..(Len(s) - 1) : w[j] = s[j] \/ w[j] = s[j + 1]
    OBVIOUS
  <2>4. \A j \in 1..(Len(s) - 1) : /\ j \in DOMAIN s /\ j + 1 \in DOMAIN s
                                   /\ s[j] \in S /\ s[j + 1] \in S
    BY <2>2
  <2>5. w \in [1..(Len(s) - 1) -> S]
    BY <2>4
  <2>6. w \in Seq(S) /\ DOMAIN w = 1..(Len(s) - 1)
    BY <2>2, <2>5
  <2> HIDE DEF w
  <2> QED BY <2>1, <2>3, <2>4, <2>6
<1> QED BY <1>1, <1>2

LEMMA BudgetInit == Init => BudgetInv
<1> SUFFICES ASSUME Init PROVE BudgetInv
  OBVIOUS
<1>1. BudgetTypeOK
  <2>1. held \in [Classes -> Nat] /\ bytes \in [Requests -> Nat]
    BY DEF Init
  <2>2. queue \in [Waiting -> Seq(Requests)] /\ asked \in [Classes -> Seq(Requests)]
    BY DEF Init
  <2>3. admitting \in BOOLEAN /\ pressed \in BOOLEAN /\ cursorWaits \in BOOLEAN
    BY Zenon DEF Init
  <2> QED BY <2>1, <2>2, <2>3 DEF Init, BudgetTypeOK
<1>2. WithinShares
  BY SharesWithin, LimitsNat, BudgetAssumption DEF Init, WithinShares, Classes
<1>3. QueuedAsked
  BY DEF Init, QueuedAsked
<1>4. NoneForgotten
  BY DEF Init, NoneForgotten, Admissible, Waits
<1>5. SignalsTrue
  BY Zenon DEF Init, SignalsTrue, Waits, Waiting, Classes
<1> QED BY <1>1, <1>2, <1>3, <1>4, <1>5 DEF BudgetInv

LEMMA ClassOf == \A r \in Requests : Class(r) \in Classes
BY BudgetAssumption

\* What each step does to the queues, and to no one's place.
LEMMA TypeStep == BudgetTypeOK /\ [Next]_vars => BudgetTypeOK'
<1> SUFFICES ASSUME BudgetTypeOK, [Next]_vars PROVE BudgetTypeOK'
  OBVIOUS
<1> USE DEF BudgetTypeOK
<1>s. Sizes \subseteq Nat
  BY BudgetAssumption
<1>1. ASSUME NEW r \in Requests, NEW asks \in Sizes, Ask(r, asks) PROVE BudgetTypeOK'
  <2>0. asks \in Nat /\ Class(r) \in Classes
    BY <1>s, ClassOf
  <2>1. CASE Refuse(r)
    BY <1>1, <2>1 DEF Ask, Refuse
  <2>2. CASE Grant(r, asks)
    BY <1>1, <2>0, <2>2 DEF Ask, Grant
  <2>3. CASE Class(r) \in Waiting /\ Queue(r, asks)
    <3>1. queue[Class(r)] \in Seq(Requests) /\ asked[Class(r)] \in Seq(Requests)
      BY <2>0, <2>3
    <3>2. Append(queue[Class(r)], r) \in Seq(Requests) /\ Append(asked[Class(r)], r) \in Seq(Requests)
      BY <3>1
    <3>3. queue' \in [Waiting -> Seq(Requests)]
      BY <2>3, <3>2 DEF Queue
    <3>4. asked' \in [Classes -> Seq(Requests)]
      BY <2>0, <2>3, <3>2 DEF Queue
    <3>5. /\ at' \in [Requests -> {"idle", "refused", "waiting", "sent", "holding", "leaving",
                                   "left", "released"}]
          /\ bytes' \in [Requests -> Nat]
      BY <2>0, <2>3 DEF Queue
    <3>6. UNCHANGED <<held, admitting, pressers>>
      BY <1>1, <2>3 DEF Ask, Queue
    <3>7. pressed' \in BOOLEAN /\ cursorWaits' \in BOOLEAN
      BY Zenon, <2>3 DEF Queue, Press
    <3> QED BY <3>3, <3>4, <3>5, <3>6, <3>7
  <2> QED BY <1>1, <2>1, <2>2, <2>3 DEF Ask
<1>2. ASSUME NEW r \in Requests, NEW keeps \in Sizes, Shrink(r, keeps) PROVE BudgetTypeOK'
  BY <1>2, <1>s, ClassOf DEF Shrink, GiveBack
<1>3. ASSUME NEW r \in Requests, Receive(r) PROVE BudgetTypeOK'
  BY <1>3 DEF Receive
<1>4. ASSUME NEW r \in Requests, GiveUp(r) PROVE BudgetTypeOK'
  <2>1. at' \in [Requests -> {"idle", "refused", "waiting", "sent", "holding", "leaving", "left",
                              "released"}]
    BY <1>4 DEF GiveUp
  <2>2. CASE UNCHANGED <<held, admitting>>
    BY <1>4, <2>1, <2>2 DEF GiveUp
  <2>3. CASE GiveBack(Class(r), bytes[r])
    BY <1>4, <2>1, <2>3, ClassOf DEF GiveUp, GiveBack
  <2> QED BY <1>4, <2>2, <2>3 DEF GiveUp
<1>5. ASSUME NEW r \in Requests, Leave(r) PROVE BudgetTypeOK'
  <2>1. \A c \in Waiting : Without(queue[c], r) \in Seq(Requests)
    BY WithoutQueue
  <2> QED BY <1>5, <2>1 DEF Leave
<1>6. ASSUME NEW r \in Requests, Release(r) PROVE BudgetTypeOK'
  BY <1>6, ClassOf DEF Release, GiveBack
<1>7. ASSUME NEW r \in Requests, PressBegins(r) \/ PressEnds(r) PROVE BudgetTypeOK'
  BY Zenon, <1>7 DEF PressBegins, PressEnds, Press
<1>8. ASSUME NEW c \in Waiting, AdmitNext(c) PROVE BudgetTypeOK'
  <2>1. queue[c] \in Seq(Requests) /\ queue[c] # <<>>
    BY <1>8 DEF AdmitNext, Admissible, Waits
  <2>2. Head(queue[c]) \in Requests /\ Tail(queue[c]) \in Seq(Requests)
    BY <2>1
  <2> QED BY <1>8, <2>2 DEF AdmitNext, Waiting
<1>9. CASE AdmitEnds
  BY Zenon, <1>9 DEF AdmitEnds, Press
<1>10. CASE UNCHANGED vars
  BY <1>10 DEF vars
<1> QED BY <1>1, <1>2, <1>3, <1>4, <1>5, <1>6, <1>7, <1>8, <1>9, <1>10 DEF Next

\* Bytes that fit are added to a share, or bytes are taken from one.
LEMMA SharesGrow ==
  ASSUME BudgetTypeOK, WithinShares, NEW c \in Classes, NEW n \in Nat, Fits(c, n),
         held' = [held EXCEPT ![c] = @ + n]
  PROVE  WithinShares'
<1> USE SharesWithin, LimitsNat
<1>1. \A d \in Classes : held[d] \in Nat
  BY DEF BudgetTypeOK
<1>2. /\ held'[c] = held[c] + n
      /\ \A d \in Classes \ {c} : held'[d] = held[d]
  BY DEF BudgetTypeOK
<1>3. /\ held'["intake"] <= Pushes
      /\ held'["intake"] + held'["work"] <= Data
  BY <1>1, <1>2 DEF WithinShares, Fits, Classes
<1>4. \A d \in {"cursor", "tables", "read", "control"} : held'[d] <= Limit(d)
  BY <1>1, <1>2 DEF WithinShares, Fits, Classes
<1>5. \A d \in Classes : held'[d] \in Nat
  BY <1>1, <1>2
<1>6. /\ held'["cursor"] <= Cursors /\ held'["tables"] <= Tables /\ held'["read"] <= Reads
      /\ held'["control"] <= Control
  BY <1>4 DEF Limit
<1>7. held'["intake"] + held'["work"] + held'["cursor"] + held'["tables"] + held'["read"]
        + held'["control"] <= Capacity
  BY <1>3, <1>5, <1>6, BudgetAssumption DEF Classes
<1> QED BY <1>3, <1>4, <1>7 DEF WithinShares, Limit, Pushes, Data, Request, Cursors, Tables,
                                Reads, Control

LEMMA SharesShrink ==
  ASSUME BudgetTypeOK, WithinShares, held' \in [Classes -> Nat],
         \A d \in Classes : held'[d] <= held[d]
  PROVE  WithinShares'
<1> USE SharesWithin, LimitsNat
<1>1. \A d \in Classes : held[d] \in Nat /\ held'[d] \in Nat
  BY DEF BudgetTypeOK
<1>2. /\ held'["intake"] <= Pushes
      /\ held'["intake"] + held'["work"] <= Data
  BY <1>1 DEF WithinShares, Classes
<1>3. \A d \in {"cursor", "tables", "read", "control"} : held'[d] <= Limit(d)
  BY <1>1 DEF WithinShares, Classes
<1>4. held'["intake"] + held'["work"] + held'["cursor"] + held'["tables"] + held'["read"]
        + held'["control"] <= Capacity
  BY <1>1, BudgetAssumption DEF WithinShares, Classes
<1> QED BY <1>2, <1>3, <1>4 DEF WithinShares, Limit, Pushes, Data, Request, Cursors, Tables,
                                Reads, Control

LEMMA GivesBack ==
  ASSUME BudgetTypeOK, WithinShares, NEW c \in Classes, NEW n \in Nat, GiveBack(c, n)
  PROVE  WithinShares'
<1>1. \A d \in Classes : held[d] \in Nat
  BY DEF BudgetTypeOK
<1>2. held' \in [Classes -> Nat] /\ \A d \in Classes : held'[d] <= held[d]
  BY <1>1 DEF BudgetTypeOK, GiveBack
<1> QED BY <1>2, SharesShrink

LEMMA SharesStep == BudgetTypeOK /\ WithinShares /\ [Next]_vars => WithinShares'
<1> SUFFICES ASSUME BudgetTypeOK, WithinShares, [Next]_vars PROVE WithinShares'
  OBVIOUS
<1>s. Sizes \subseteq Nat /\ \A r \in Requests : bytes[r] \in Nat
  BY BudgetAssumption DEF BudgetTypeOK
<1>u. ASSUME held' = held PROVE WithinShares'
  BY <1>u DEF WithinShares, Limit, Pushes, Data, Request, Cursors, Tables, Reads, Control
<1>1. ASSUME NEW r \in Requests, NEW asks \in Sizes, Ask(r, asks) PROVE WithinShares'
  <2>1. CASE held' = held
    BY <2>1, <1>u
  <2>2. CASE Open(Class(r), asks) /\ Grant(r, asks)
    BY Zenon, <1>s, <2>2, ClassOf, SharesGrow DEF Open, Grant
  <2> QED BY <1>1, <2>1, <2>2 DEF Ask, Refuse, Queue
<1>2. ASSUME NEW r \in Requests, NEW keeps \in Sizes, Shrink(r, keeps) PROVE WithinShares'
  <2>1. bytes[r] - keeps \in Nat
    BY <1>2, <1>s DEF Shrink
  <2> QED BY <1>2, <2>1, ClassOf, GivesBack DEF Shrink
<1>3. ASSUME NEW r \in Requests, GiveUp(r) \/ Release(r) PROVE WithinShares'
  BY <1>3, <1>s, <1>u, ClassOf, GivesBack DEF GiveUp, Release
<1>4. ASSUME NEW r \in Requests, Receive(r) \/ Leave(r) \/ PressBegins(r) \/ PressEnds(r)
      PROVE  WithinShares'
  BY <1>4, <1>u DEF Receive, Leave, PressBegins, PressEnds
<1>5. ASSUME NEW c \in Waiting, AdmitNext(c) PROVE WithinShares'
  <2> DEFINE r == Head(queue[c])
  <2>1. queue[c] \in Seq(Requests) /\ queue[c] # <<>> /\ Fits(c, bytes[r]) /\ c \in Classes
    BY <1>5 DEF AdmitNext, Admissible, Waits, BudgetTypeOK, Waiting
  <2>2. r \in Requests /\ bytes[r] \in Nat
    BY <2>1, <1>s
  <2>3. held' = [held EXCEPT ![c] = IF Takes(r) THEN @ + bytes[r] ELSE @]
    BY <1>5 DEF AdmitNext
  <2> HIDE DEF r
  <2>4. CASE Takes(r)
    <3>1. held' = [held EXCEPT ![c] = @ + bytes[r]]
      BY <2>3, <2>4
    <3> QED BY Zenon, <2>1, <2>2, <3>1, SharesGrow
  <2>5. CASE ~Takes(r)
    BY <2>3, <2>5, <1>u DEF BudgetTypeOK
  <2> QED BY <2>4, <2>5
<1>6. CASE AdmitEnds \/ UNCHANGED vars
  BY <1>6, <1>u DEF AdmitEnds, vars
<1> QED BY <1>1, <1>2, <1>3, <1>4, <1>5, <1>6 DEF Next

LEMMA QueuedStep == BudgetTypeOK /\ QueuedAsked /\ [Next]_vars => QueuedAsked'
<1> SUFFICES ASSUME BudgetTypeOK, QueuedAsked, [Next]_vars PROVE QueuedAsked'
  OBVIOUS
<1>k. \A c \in Waiting : \A i \in DOMAIN queue[c] : queue[c][i] \in Requests
  BY DEF BudgetTypeOK
<1>u. ASSUME queue' = queue, \A r \in Requests : at[r] # "idle" => at'[r] # "idle" PROVE QueuedAsked'
  BY <1>u, <1>k DEF QueuedAsked
<1>1. ASSUME NEW r \in Requests, NEW asks \in Sizes, Ask(r, asks) PROVE QueuedAsked'
  <2>1. \A s \in Requests : at[s] # "idle" => at'[s] # "idle"
    BY <1>1 DEF Ask, Refuse, Grant, Queue, BudgetTypeOK
  <2>2. CASE queue' = queue
    BY <2>1, <2>2, <1>u
  <2>3. CASE Class(r) \in Waiting /\ Queue(r, asks)
    <3>1. at'[r] = "waiting"
      BY <2>3 DEF Queue, BudgetTypeOK
    <3>2. ASSUME NEW c \in Waiting, NEW i \in DOMAIN queue'[c]
          PROVE  queue'[c][i] = r \/ \E j \in DOMAIN queue[c] : queue'[c][i] = queue[c][j]
      <4>1. queue[c] \in Seq(Requests)
        BY DEF BudgetTypeOK
      <4>2. queue'[c] = queue[c] \/ queue'[c] = Append(queue[c], r)
        BY <2>3 DEF Queue, BudgetTypeOK
      <4> QED BY <3>2, <4>1, <4>2
    <3> QED BY <2>1, <3>1, <3>2, <1>k DEF QueuedAsked
  <2> QED BY <1>1, <2>2, <2>3 DEF Ask, Refuse, Grant
<1>2. ASSUME NEW r \in Requests,
             (\E keeps \in Sizes : Shrink(r, keeps)) \/ Receive(r) \/ GiveUp(r) \/ Release(r)
               \/ PressBegins(r) \/ PressEnds(r)
      PROVE  QueuedAsked'
  <2>1. queue' = queue
    BY <1>2 DEF Shrink, Receive, GiveUp, Release, PressBegins, PressEnds
  <2>2. \A s \in Requests : at[s] # "idle" => at'[s] # "idle"
    BY <1>2 DEF Shrink, Receive, GiveUp, Release, PressBegins, PressEnds, BudgetTypeOK
  <2> QED BY <2>1, <2>2, <1>u
<1>3. ASSUME NEW r \in Requests, Leave(r) PROVE QueuedAsked'
  <2>1. \A s \in Requests : at[s] # "idle" => at'[s] # "idle"
    BY <1>3 DEF Leave, BudgetTypeOK
  <2>2. ASSUME NEW c \in Waiting, NEW i \in DOMAIN queue'[c]
        PROVE  \E j \in DOMAIN queue[c] : queue'[c][i] = queue[c][j]
    <3>1. queue[c] \in Seq(Requests) /\ queue'[c] = Without(queue[c], r)
      BY <1>3 DEF Leave, BudgetTypeOK
    <3> QED BY <2>2, <3>1, WithoutQueue
  <2> QED BY <2>1, <2>2, <1>k DEF QueuedAsked
<1>4. ASSUME NEW d \in Waiting, AdmitNext(d) PROVE QueuedAsked'
  <2>1. \A s \in Requests : at[s] # "idle" => at'[s] # "idle"
    BY <1>4 DEF AdmitNext, BudgetTypeOK
  <2>2. ASSUME NEW c \in Waiting, NEW i \in DOMAIN queue'[c]
        PROVE  \E j \in DOMAIN queue[c] : queue'[c][i] = queue[c][j]
    <3>1. queue[c] \in Seq(Requests) /\ queue[d] # <<>>
      BY <1>4 DEF AdmitNext, Admissible, Waits, BudgetTypeOK
    <3>2. queue'[c] = queue[c] \/ (c = d /\ queue'[c] = Tail(queue[c]))
      BY <1>4 DEF AdmitNext, BudgetTypeOK
    <3>3. CASE queue'[c] = queue[c]
      BY <2>2, <3>3
    <3>4. CASE c = d /\ queue'[c] = Tail(queue[c])
      <4>1. i + 1 \in DOMAIN queue[c] /\ queue'[c][i] = queue[c][i + 1]
        BY <2>2, <3>1, <3>4
      <4> QED BY <4>1
    <3> QED BY <3>2, <3>3, <3>4
  <2> QED BY <2>1, <2>2, <1>k DEF QueuedAsked
<1>5. CASE AdmitEnds \/ UNCHANGED vars
  BY <1>5, <1>u DEF AdmitEnds, vars
<1> QED BY <1>1, <1>2, <1>3, <1>4, <1>5 DEF Next

LEMMA FitsShrinks ==
  ASSUME BudgetTypeOK, held' \in [Classes -> Nat], \A d \in Classes : held[d] <= held'[d],
         NEW c \in Classes, NEW n \in Nat, Fits(c, n)'
  PROVE  Fits(c, n)
<1>1. \A d \in Classes : held[d] \in Nat /\ held'[d] \in Nat
  BY DEF BudgetTypeOK
<1>2. Limit(c) \in Nat /\ Pushes \in Nat /\ Data \in Nat
  BY LimitsNat, SharesWithin
<1>3. {"intake", "work"} \subseteq Classes
  BY DEF Classes
<1>4. CASE c = "intake"
  BY <1>1, <1>2, <1>3, <1>4 DEF Fits
<1>5. CASE c = "work"
  BY <1>1, <1>2, <1>3, <1>5 DEF Fits
<1>6. CASE c # "intake" /\ c # "work"
  BY <1>1, <1>2, <1>6 DEF Fits
<1> QED BY <1>4, <1>5, <1>6

\* Asking makes no waiter admissible: a grant takes room, and a request queued first is
\* queued because it may not be granted.
LEMMA AskForgetsNone ==
  ASSUME BudgetTypeOK, QueuedAsked, NEW r \in Requests, NEW asks \in Sizes, Ask(r, asks),
         \A c \in Waiting : ~Admissible(c)
  PROVE  \A c \in Waiting : ~Admissible(c)'
<1> SUFFICES ASSUME NEW c \in Waiting, Admissible(c)' PROVE FALSE
  OBVIOUS
<1>1. c \in Classes /\ "work" \in Waiting /\ asks \in Nat /\ Class(r) \in Classes
  BY ClassOf, BudgetAssumption DEF Waiting, Classes
<1>2. queue[c] \in Seq(Requests) /\ queue["work"] \in Seq(Requests)
  BY <1>1 DEF BudgetTypeOK
<1>3. ASSUME queue[c] # <<>> PROVE /\ Head(queue[c]) \in Requests
                                   /\ bytes'[Head(queue[c])] = bytes[Head(queue[c])]
                                   /\ bytes[Head(queue[c])] \in Nat
  <2>1. Head(queue[c]) = queue[c][1] /\ 1 \in DOMAIN queue[c] /\ Head(queue[c]) \in Requests
    BY <1>2, <1>3
  <2>2. Head(queue[c]) # r
    BY <2>1 DEF QueuedAsked, Ask
  <2> QED BY <2>1, <2>2 DEF Ask, Refuse, Grant, Queue, BudgetTypeOK
<1>4. CASE queue' = queue
  <2>1. held' \in [Classes -> Nat] /\ \A d \in Classes : held[d] <= held'[d]
    <3>1. \A d \in Classes : held[d] \in Nat
      BY DEF BudgetTypeOK
    <3>2. held' = held \/ held' = [held EXCEPT ![Class(r)] = @ + asks]
      BY DEF Ask, Refuse, Grant, Queue
    <3>3. CASE held' = held
      BY <3>1, <3>3 DEF BudgetTypeOK
    <3>4. CASE held' = [held EXCEPT ![Class(r)] = @ + asks]
      BY <1>1, <3>1, <3>4 DEF BudgetTypeOK
    <3> QED BY <3>2, <3>3, <3>4
  <2>2. queue[c] # <<>> /\ Fits(c, bytes[Head(queue[c])])' /\ (c = "intake" => ~Waits("work"))
    BY <1>4 DEF Admissible, Waits
  <2>3. Fits(c, bytes[Head(queue[c])])
    <3>1. PICK n \in Nat : n = bytes[Head(queue[c])]
      BY <1>3, <2>2
    <3>2. bytes'[Head(queue'[c])] = n
      BY <1>3, <1>4, <2>2, <3>1
    <3>3. Fits(c, n)'
      BY <2>2, <3>2 DEF Fits
    <3>4. Fits(c, n)
      BY <1>1, <2>1, <3>3, FitsShrinks
    <3> QED BY <3>1, <3>4
  <2> QED BY <2>2, <2>3 DEF Admissible, Waits
<1>5. CASE ~Open(Class(r), asks) /\ Class(r) \in Waiting /\ Queue(r, asks)
  <2>1. held' = held /\ queue' = [queue EXCEPT ![Class(r)] = Append(@, r)]
        /\ bytes' = [bytes EXCEPT ![r] = asks]
    BY <1>5 DEF Queue
  <2>2. (c = "intake" => ~Waits("work")) /\ Fits(c, bytes[Head(queue[c])])'
    <3>1. queue["work"] # <<>> => queue'["work"] # <<>>
      <4>1. queue'["work"] = queue["work"] \/ queue'["work"] = Append(queue["work"], r)
        BY <1>1, <1>5, <2>1 DEF BudgetTypeOK
      <4> QED BY <1>2, <4>1
    <3> QED BY <3>1 DEF Admissible, Waits
  <2>3. CASE queue[c] # <<>>
    <3>1. Head(queue'[c]) = Head(queue[c])
      BY <1>2, <1>5, <2>1, <2>3 DEF BudgetTypeOK
    <3>2. bytes'[Head(queue'[c])] = bytes[Head(queue[c])]
      BY <1>3, <2>3, <3>1
    <3>3. Fits(c, bytes[Head(queue[c])])
      BY <2>1, <2>2, <3>2 DEF Fits
    <3> QED BY <2>2, <2>3, <3>3 DEF Admissible, Waits
  <2>4. CASE queue[c] = <<>>
    <3>1. queue'[c] # <<>>
      BY DEF Admissible, Waits
    <3>2. c = Class(r) /\ queue'[c] = <<r>>
      <4>1. queue'[c] = queue[c] \/ (c = Class(r) /\ queue'[c] = Append(queue[c], r))
        BY <1>5, <2>1 DEF BudgetTypeOK
      <4>2. Append(<<>>, r) = <<r>>
        OBVIOUS
      <4> QED BY <2>4, <3>1, <4>1, <4>2
    <3>3. bytes'[Head(queue'[c])] = asks
      <4>1. Head(<<r>>) = r
        OBVIOUS
      <4> QED BY Zenon, <2>1, <3>2, <4>1 DEF BudgetTypeOK
    <3>4. Fits(c, asks)
      BY <2>1, <2>2, <3>3 DEF Fits
    <3> QED BY <1>5, <2>2, <2>4, <3>2, <3>4 DEF Open, Waits
  <2> QED BY <2>3, <2>4
<1> QED BY <1>4, <1>5 DEF Ask, Refuse, Grant

LEMMA ForgottenStep ==
  BudgetTypeOK /\ QueuedAsked /\ NoneForgotten /\ [Next]_vars => NoneForgotten'
<1> SUFFICES ASSUME BudgetTypeOK, QueuedAsked, NoneForgotten, [Next]_vars PROVE NoneForgotten'
  OBVIOUS
<1>u. ASSUME UNCHANGED <<held, queue, bytes, admitting>> PROVE NoneForgotten'
  BY <1>u DEF NoneForgotten, Admissible, Waits, Fits
<1>a. ASSUME admitting' = TRUE PROVE NoneForgotten'
  BY <1>a DEF NoneForgotten
<1>1. ASSUME NEW r \in Requests, NEW asks \in Sizes, Ask(r, asks) PROVE NoneForgotten'
  BY <1>1, AskForgetsNone DEF NoneForgotten, Ask
<1>2. ASSUME NEW r \in Requests,
             (\E keeps \in Sizes : Shrink(r, keeps)) \/ Receive(r) \/ Leave(r) \/ Release(r)
      PROVE  NoneForgotten'
  BY Zenon, <1>2, <1>a DEF Shrink, Receive, Leave, Release, GiveBack
<1>3. ASSUME NEW r \in Requests, GiveUp(r) PROVE NoneForgotten'
  BY Zenon, <1>3, <1>a, <1>u DEF GiveUp, GiveBack
<1>4. ASSUME NEW r \in Requests, PressBegins(r) \/ PressEnds(r) PROVE NoneForgotten'
  BY <1>4, <1>u DEF PressBegins, PressEnds
<1>5. ASSUME NEW c \in Waiting, AdmitNext(c) PROVE NoneForgotten'
  BY <1>5, <1>a DEF AdmitNext, BudgetTypeOK
<1>6. CASE AdmitEnds
  BY <1>6 DEF AdmitEnds, NoneForgotten, Admissible, Waits, Fits
<1>7. CASE UNCHANGED vars
  BY <1>7, <1>u DEF vars
<1> QED BY <1>1, <1>2, <1>3, <1>4, <1>5, <1>6, <1>7 DEF Next

LEMMA SignalsStep == SignalsTrue /\ [Next]_vars => SignalsTrue'
<1> SUFFICES ASSUME SignalsTrue, [Next]_vars PROVE SignalsTrue'
  OBVIOUS
<1>w. {"work", "intake", "cursor", "tables"} \subseteq Waiting
  BY DEF Waiting, Classes
<1>u. ASSUME UNCHANGED <<queue, pressers, admitting, pressed, cursorWaits>> PROVE SignalsTrue'
  BY <1>u, Zenon DEF SignalsTrue, Waits
<1>a. ASSUME admitting' PROVE SignalsTrue'
  BY <1>a DEF SignalsTrue
<1>p. ASSUME Press(queue', pressers') PROVE SignalsTrue'
  <2>1. \A c \in Waiting : Waits(c)' = (queue'[c] # <<>>)
    BY Zenon DEF Waits
  <2> QED BY <1>p, <1>w, <2>1, Zenon DEF Press, SignalsTrue
<1>1. ASSUME NEW r \in Requests, NEW asks \in Sizes, Ask(r, asks) PROVE SignalsTrue'
  <2>1. CASE Queue(r, asks)
    BY <1>1, <2>1, <1>p DEF Ask, Queue, Press
  <2>2. CASE Grant(r, asks) \/ Refuse(r)
    BY <1>1, <2>2, <1>u DEF Ask, Grant, Refuse
  <2> QED BY <1>1, <2>1, <2>2 DEF Ask
<1>2. ASSUME NEW r \in Requests,
             (\E keeps \in Sizes : Shrink(r, keeps)) \/ Receive(r) \/ Leave(r) \/ Release(r)
      PROVE  SignalsTrue'
  BY <1>2, <1>a DEF Shrink, Receive, Leave, Release, GiveBack
<1>3. ASSUME NEW r \in Requests, GiveUp(r) PROVE SignalsTrue'
  BY <1>3, <1>a, <1>u DEF GiveUp, GiveBack
<1>4. ASSUME NEW r \in Requests, PressBegins(r) \/ PressEnds(r) PROVE SignalsTrue'
  BY <1>4, <1>p DEF PressBegins, PressEnds, Press
<1>5. ASSUME NEW c \in Waiting, AdmitNext(c) PROVE SignalsTrue'
  BY <1>5, <1>a DEF AdmitNext
<1>6. CASE AdmitEnds
  BY <1>6, <1>p DEF AdmitEnds, Press
<1>7. CASE UNCHANGED vars
  BY <1>7, <1>u DEF vars
<1> QED BY <1>1, <1>2, <1>3, <1>4, <1>5, <1>6, <1>7 DEF Next
-----------------------------------------------------------------------------
LEMMA BudgetInvariance == Spec => []BudgetInv
<1>1. BudgetInv /\ [Next]_vars => BudgetInv'
  BY TypeStep, SharesStep, QueuedStep, ForgottenStep, SignalsStep DEF BudgetInv
<1> QED BY BudgetInit, <1>1, PTL DEF Spec

\* The ledger's types, in every reachable state of every budget.
THEOREM BudgetTypeCorrect == Spec => []BudgetTypeOK
BY BudgetInvariance, PTL DEF BudgetInv

\* Whatever is asked, granted late or given up, fits and its callers never let a share
\* hold more than it may, nor the shares together more than the budget.
THEOREM NeverExceeded == Spec => []WithinShares
BY BudgetInvariance, PTL DEF BudgetInv

\* Whenever the ledger's lock is free, no waiter that next would return still waits:
\* every release, every departure and every late grant ends in admit_waiting.
THEOREM NoWaiterForgotten == Spec => []NoneForgotten
BY BudgetInvariance, PTL DEF BudgetInv

\* Whenever the ledger's lock is free, the signals press sets are those of the queues
\* and of the holders that wait for their own writes.
THEOREM SignalsAreTrue == Spec => []SignalsTrue
BY BudgetInvariance, PTL DEF BudgetInv
=============================================================================
