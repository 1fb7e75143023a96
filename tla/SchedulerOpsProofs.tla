------------------------- MODULE SchedulerOpsProofs -------------------------
(***************************************************************************)
(* Lemmas about the operations of SchedulerOps: each of them takes a       *)
(* well-formed scheduler value to a well-formed one.  The first part is    *)
(* about the sequences the queues are made of.                             *)
(***************************************************************************)
EXTENDS SchedulerOps, WellFoundedInduction, SequenceTheorems, TLAPS

\* Induction over the natural numbers, stated with a set.
LEMMA NatSetInduction ==
  ASSUME NEW P, 0 \in P, \A n \in Nat : n \in P => n + 1 \in P
  PROVE  Nat \subseteq P
<1> DEFINE Below == OpToRel(<, Nat)
           Rest == Nat \ P
<1>1. IsWellFoundedOn(Below, Nat) BY NatLessThanWellFounded
<1>2. \A n \in Rest : n - 1 \in Rest /\ <<n - 1, n>> \in Below BY DEF OpToRel
<1> HIDE DEF Below
<1> QED BY <1>1, <1>2, WFMin

\* The recursive function retain is built from exists, so its equations hold.
LEMMA KeptPrefixDef ==
  ASSUME NEW S, NEW q \in Seq(S), NEW K
  PROVE  /\ KeptPrefix(q, K)[0] = <<>>
         /\ \A n \in 1..Len(q) :
              KeptPrefix(q, K)[n] = IF q[n] \in K
                                      THEN Append(KeptPrefix(q, K)[n - 1], q[n])
                                      ELSE KeptPrefix(q, K)[n - 1]
<1> DEFINE Rule(f, m) == [n \in 0..m |-> 
               IF n = 0 THEN <<>>
               ELSE IF q[n] \in K THEN Append(f[n - 1], q[n])
               ELSE f[n - 1]]
    Good == {m \in Nat : \E f : f = Rule(f, m)}
<1>1. 0 \in Good 
  <2>1. [n \in 0..0 |-> <<>>] = Rule([n \in 0..0 |-> <<>>], 0) OBVIOUS
  <2> QED BY <2>1 
<1>2. ASSUME NEW m \in Nat, m \in Good PROVE m + 1 \in Good
  <2>1. PICK f : f = Rule(f, m) BY <1>2
  <2> DEFINE g == [n \in 0..(m+1) |-> IF n <= m THEN f[n] ELSE
               IF q[n] \in K THEN Append(f[n - 1], q[n])
               ELSE f[n - 1]]
  <2>2. \A n \in 0..m : f[n] = IF n = 0 THEN <<>>
               ELSE IF q[n] \in K THEN Append(f[n - 1], q[n])
               ELSE f[n - 1]
      BY <2>1
  <2>3. \A n \in 0..m : g[n] = f[n] OBVIOUS
  <2>4. \A n \in 1..(m+1) : g[n-1] = f[n-1] OBVIOUS
  <2>5. \A n \in 0..(m+1) : g[n] = IF n = 0 THEN <<>>
               ELSE IF q[n] \in K THEN Append(g[n - 1], q[n])
               ELSE g[n - 1]
    <3> TAKE n \in 0..(m+1)
    <3>1. CASE n <= m BY <3>1, <2>2, <2>3, <2>4
    <3>2. CASE n = m + 1 BY <3>2, <2>4
    <3> QED BY <3>1, <3>2
  <2> HIDE DEF g
  <2>6. g = Rule(g, m+1) BY <2>5 DEF g
  <2>7. \E h : h = Rule(h, m+1)
    <3> HIDE DEF Rule
    <3> WITNESS g
    <3> QED BY <2>6
  <2>8. m + 1 \in Nat OBVIOUS
  <2> HIDE DEF Rule
  <2> QED BY <2>7, <2>8
<1>3. Len(q) \in Nat OBVIOUS
<1>4. Len(q) \in Good BY <1>1, <1>2, <1>3, NatSetInduction
<1>5. PICK f : f = Rule(f, Len(q)) BY <1>4
<1>6. KeptPrefix(q, K) = Rule(KeptPrefix(q, K), Len(q))
  BY <1>5 DEF KeptPrefix
<1> DEFINE k == KeptPrefix(q, K)
<1> HIDE DEF k
<1>7. k = Rule(k, Len(q)) BY <1>6 DEF k
<1>8. /\ k[0] = <<>>
      /\ \A n \in 1..Len(q) : k[n] = IF q[n] \in K THEN Append(k[n - 1], q[n])
                                     ELSE k[n - 1]
  <2>1. ASSUME NEW g, NEW n \in 0..Len(q)
        PROVE  Rule(g, Len(q))[n] = IF n = 0 THEN <<>>
                 ELSE IF q[n] \in K THEN Append(g[n - 1], q[n])
                 ELSE g[n - 1]
    OBVIOUS
  <2> HIDE DEF Rule
  <2>2. \A n \in 0..Len(q) : k[n] = Rule(k, Len(q))[n] BY <1>7
  <2> QED BY <1>3, <2>1, <2>2
<1> QED BY <1>8 DEF k

\* What push_back does to the members of a queue.
LEMMA AppendElements ==
  ASSUME NEW S, NEW q \in Seq(S), NEW e \in S
  PROVE  /\ Append(q, e) \in Seq(S)
         /\ Elements(Append(q, e)) = Elements(q) \cup {e}
         /\ Distinct(q) /\ e \notin Elements(q) => Distinct(Append(q, e))
<1>1. /\ Append(q, e) \in Seq(S)
      /\ Len(Append(q, e)) = Len(q) + 1
      /\ \A i \in 1..Len(q) : Append(q, e)[i] = q[i]
      /\ Append(q, e)[Len(q) + 1] = e
      /\ Len(q) \in Nat
  OBVIOUS
<1> DEFINE a == Append(q, e)
<1> HIDE DEF a
<1>2. Elements(a) = Elements(q) \cup {e}
  BY <1>1 DEF Elements, a
<1>3. Distinct(q) /\ e \notin Elements(q) => Distinct(a)
  BY <1>1 DEF Elements, Distinct, a
<1> QED BY <1>1, <1>2, <1>3 DEF a

\* What appending a list of waiters does to the members of the ready queue.
LEMMA ConcatElements ==
  ASSUME NEW S, NEW p \in Seq(S), NEW q \in Seq(S)
  PROVE  /\ p \o q \in Seq(S)
         /\ Elements(p \o q) = Elements(p) \cup Elements(q)
         /\ Distinct(p) /\ Distinct(q) /\ Elements(p) \cap Elements(q) = {}
              => Distinct(p \o q)
<1> DEFINE a == p \o q
<1>1. /\ a \in Seq(S) /\ Len(p) \in Nat /\ Len(q) \in Nat
      /\ Len(a) = Len(p) + Len(q)
      /\ \A i \in 1..Len(a) :
           a[i] = IF i <= Len(p) THEN p[i] ELSE q[i - Len(p)]
  BY ConcatProperties
<1> HIDE DEF a
<1>2. ASSUME NEW x \in Elements(q) PROVE x \in Elements(a)
  <2>1. PICK i \in 1..Len(q) : x = q[i] BY <1>2 DEF Elements
  <2> DEFINE j == i + Len(p)
  <2>2. j \in 1..Len(a) /\ ~(j <= Len(p)) /\ j - Len(p) = i BY <1>1
  <2>3. a[j] = q[i] BY <1>1, <2>2
  <2> QED BY <2>1, <2>2, <2>3 DEF Elements
<1>3. Elements(p) \subseteq Elements(a) BY <1>1 DEF Elements
<1>4. ASSUME NEW x \in Elements(a)
      PROVE  x \in Elements(p) \cup Elements(q)
  <2>1. PICK i \in 1..Len(a) : x = a[i] BY <1>4 DEF Elements
  <2>2. CASE i <= Len(p)
    <3>1. i \in 1..Len(p) /\ x = p[i] BY <1>1, <2>1, <2>2
    <3> QED BY <3>1 DEF Elements
  <2>3. CASE ~(i <= Len(p))
    <3>1. i - Len(p) \in 1..Len(q) /\ x = q[i - Len(p)] BY <1>1, <2>1, <2>3
    <3> QED BY <3>1 DEF Elements
  <2> QED BY <2>2, <2>3
<1>5. ASSUME Distinct(p), Distinct(q), Elements(p) \cap Elements(q) = {}
      PROVE  Distinct(a)
  <2> SUFFICES ASSUME NEW i \in 1..Len(a), NEW j \in 1..Len(a), a[i] = a[j]
               PROVE i = j
    BY DEF Distinct
  <2>1. CASE i <= Len(p) /\ j <= Len(p) BY <1>1, <1>5, <2>1 DEF Distinct
  <2>2. CASE i > Len(p) /\ j > Len(p) 
    <3>1. i - Len(p) \in 1..Len(q) /\ j - Len(p) \in 1..Len(q)
      BY <1>1, <2>2
    <3>2. q[i - Len(p)] = q[j - Len(p)] BY <1>1, <2>2
    <3>3. i - Len(p) = j - Len(p) BY <3>1, <3>2, <1>5 DEF Distinct
    <3> QED BY <1>1, <3>3
  <2>3. CASE i <= Len(p) /\ j > Len(p)
    <3>1. i \in 1..Len(p) /\ j - Len(p) \in 1..Len(q) BY <1>1, <2>3
    <3>2. p[i] = q[j - Len(p)] BY <1>1, <2>3
    <3> QED BY <3>1, <3>2, <1>5 DEF Elements
  <2>4. CASE i > Len(p) /\ j <= Len(p)
    <3>1. j \in 1..Len(p) /\ i - Len(p) \in 1..Len(q) BY <1>1, <2>4
    <3>2. p[j] = q[i - Len(p)] BY <1>1, <2>4
    <3> QED BY <3>1, <3>2, <1>5 DEF Elements
  <2> QED BY <1>1, <2>1, <2>2, <2>3, <2>4
<1> QED BY <1>1, <1>2, <1>3, <1>4, <1>5 DEF a

\* Vec::retain keeps exactly the members of K, and keeps them distinct.
LEMMA RetainElements ==
  ASSUME NEW S, NEW q \in Seq(S), NEW K
  PROVE  /\ Retain(q, K) \in Seq(S)
         /\ Elements(Retain(q, K)) = Elements(q) \cap K
         /\ Distinct(q) => Distinct(Retain(q, K))
<1> DEFINE L == Len(q)
           kept == KeptPrefix(q, K)
           Seen(m) == {q[i] : i \in 1..m}
           Good == {m \in Nat : m <= L =>
                      /\ kept[m] \in Seq(S)
                      /\ Elements(kept[m]) = Seen(m) \cap K
                      /\ Distinct(q) => Distinct(kept[m])}
<1>1. L \in Nat /\ \A i \in 1..L : q[i] \in S OBVIOUS
<1>2. Retain(q, K) = kept[L] BY DEF Retain
<1>3. /\ kept[0] = <<>>
      /\ \A n \in 1..L : kept[n] = IF q[n] \in K
                                     THEN Append(kept[n - 1], q[n])
                                     ELSE kept[n - 1]
  BY <1>1, KeptPrefixDef
<1> HIDE DEF kept
<1>4. 0 \in Good 
  <2>1. /\ kept[0] \in Seq(S)
        /\ Elements(kept[0]) = {}
        /\ Distinct(kept[0])
    BY <1>3 DEF Elements, Distinct
  <2>2. Seen(0) = {} OBVIOUS
  <2> HIDE DEF Seen
  <2> QED BY <2>1, <2>2
<1>5. ASSUME NEW m \in Nat, m \in Good PROVE m + 1 \in Good
  <2> SUFFICES ASSUME m + 1 <= L
               PROVE  /\ kept[m + 1] \in Seq(S)
                      /\ Elements(kept[m + 1]) = Seen(m + 1) \cap K
                      /\ Distinct(q) => Distinct(kept[m + 1])
    OBVIOUS
  <2>1. /\ kept[m] \in Seq(S)
        /\ Elements(kept[m]) = Seen(m) \cap K
        /\ Distinct(q) => Distinct(kept[m])
    BY <1>1, <1>5
  <2>2. /\ q[m + 1] \in S
        /\ kept[m + 1] = IF q[m + 1] \in K
                           THEN Append(kept[m], q[m + 1]) ELSE kept[m]
    BY <1>1, <1>3
  <2>3. Seen(m + 1) = Seen(m) \cup {q[m + 1]} OBVIOUS
  <2>4. Distinct(q) => q[m + 1] \notin Seen(m) BY <1>1 DEF Distinct
  <2>5. CASE q[m + 1] \in K
    <3>1. kept[m + 1] = Append(kept[m], q[m + 1]) BY <2>2, <2>5
    <3> HIDE DEF Seen
    <3> QED BY <3>1, <2>1, <2>2, <2>3, <2>4, <2>5, AppendElements
  <2>6. CASE q[m + 1] \notin K
    <3>1. kept[m + 1] = kept[m] BY <2>2, <2>6
    <3> HIDE DEF Seen
    <3> QED BY <3>1, <2>1, <2>3, <2>6
  <2> QED BY <2>5, <2>6
<1>6. L \in Good BY <1>1, <1>4, <1>5, NatSetInduction
<1>7. Elements(q) = Seen(L) BY DEF Elements
<1> QED BY <1>1, <1>2, <1>6, <1>7
-----------------------------------------------------------------------------
\* The queue facts the operations need.
LEMMA QueueFacts ==
  ASSUME NEW q \in Seq(TaskId), NEW K
  PROVE  /\ Retain(q, K) \in Seq(TaskId)
         /\ Elements(Retain(q, K)) = Elements(q) \cap K
         /\ Distinct(q) => Distinct(Retain(q, K))
         /\ Elements(q) \subseteq TaskId
         /\ \A e \in TaskId :
              /\ Append(q, e) \in Seq(TaskId)
              /\ Elements(Append(q, e)) = Elements(q) \cup {e}
              /\ Distinct(q) /\ e \notin Elements(q) => Distinct(Append(q, e))
         /\ \A p \in Seq(TaskId) :
              /\ q \o p \in Seq(TaskId)
              /\ Elements(q \o p) = Elements(q) \cup Elements(p)
              /\ Distinct(q) /\ Distinct(p) /\ Elements(q) \cap Elements(p) = {}
                   => Distinct(q \o p)
<1>1. Elements(q) \subseteq TaskId BY DEF Elements
<1> QED BY <1>1, RetainElements, AppendElements, ConcatElements

\* The queue of a new scheduler.
LEMMA EmptyQueue == Distinct(<<>>) /\ Elements(<<>>) = {} /\ <<>> \in Seq(TaskId)
BY DEF Distinct, Elements

\* Once t has ended, wake_joiners restores the well-formedness its waiters
\* broke by waiting for an ended task, and touches only blocked tasks.
LEMMA WakeJoinersWellFormed ==
  ASSUME NEW s \in Scheduler, NEW t \in TaskId,
         ReadyQueued(s), Mirrored(s), WaitersBlocked(s), Booked(s),
         \A w \in TaskId : s.waitingOn[w] # NoTask /\ s.waitingOn[w] # t
                             => ~IsTerminal(s, s.waitingOn[w]),
         s.state[t] # "Blocked"
  PROVE  /\ WellFormed(WakeJoiners(s, t))
         /\ \A u \in TaskId : s.state[u] # "Blocked" =>
                                WakeJoiners(s, t).state[u] = s.state[u]
         /\ WakeJoiners(s, t).running = s.running
         /\ WakeJoiners(s, t).nextTaskId = s.nextTaskId
<1> DEFINE list == s.joinWaiters[t]
           W == {w \in TaskId : s.waitingOn[w] = t}
           r == WakeJoiners(s, t)
<1>1. /\ list \in Seq(TaskId) /\ Distinct(list) /\ Elements(list) = W
  BY DEF Mirrored, Scheduler
<1>2. /\ t # NoTask /\ \A w \in TaskId : w # NoTask
  BY MaxTaskIdAssumption, NoTaskAssumption DEF TaskId
<1>3. \A w \in W : s.state[w] = "Blocked" /\ w # t
  BY <1>2 DEF WaitersBlocked
<1>4. {w \in Elements(list) : s.waitingOn[w] = t} = W BY <1>1
<1>5. {w \in W : s.state[w] = "Blocked"} = W BY <1>3
<1>6. r = [s EXCEPT
        !.joinWaiters[t] = <<>>,
        !.waitingOn = [w \in TaskId |-> IF w \in W THEN NoTask
                                        ELSE s.waitingOn[w]],
        !.state = [w \in TaskId |-> IF w \in W THEN "Ready"
                                    ELSE s.state[w]],
        !.ready = s.ready \o Retain(list, W)]
  BY <1>4, <1>5 DEF WakeJoiners
<1> DEFINE back == Retain(list, W)
<1>7. back \in Seq(TaskId) /\ Distinct(back) /\ Elements(back) = W
  BY <1>1, QueueFacts
<1> HIDE DEF back
<1>8. /\ r.joinWaiters = [s.joinWaiters EXCEPT ![t] = <<>>]
      /\ r.waitingOn = [w \in TaskId |-> IF w \in W THEN NoTask
                                         ELSE s.waitingOn[w]]
      /\ r.state = [w \in TaskId |-> IF w \in W THEN "Ready" ELSE s.state[w]]
      /\ r.ready = s.ready \o back
      /\ r.nextTaskId = s.nextTaskId
      /\ r.cancellationRequested = s.cancellationRequested
      /\ r.running = s.running
      /\ r \in [nextTaskId : {r.nextTaskId}, state : {r.state},
                cancellationRequested : {r.cancellationRequested},
                ready : {r.ready}, running : {r.running},
                joinWaiters : {r.joinWaiters}, waitingOn : {r.waitingOn}]
  BY <1>6 DEF Scheduler, back
<1> HIDE DEF r, list
<1>9. s.ready \in Seq(TaskId) BY DEF Scheduler
<1>10. Elements(s.ready) \cap W = {} BY <1>3 DEF ReadyQueued
<1>11. /\ r.ready \in Seq(TaskId)
       /\ Distinct(r.ready)
       /\ Elements(r.ready) = Elements(s.ready) \cup W
  <2>1. Distinct(s.ready) BY DEF ReadyQueued
  <2> QED BY <1>7, <1>8, <1>9, <1>10, <2>1, ConcatElements
<1>12. r \in Scheduler
  <2>1. r.joinWaiters \in [TaskId -> Seq(TaskId)]
    BY <1>8, EmptyQueue DEF Scheduler
  <2>2. r.waitingOn \in [TaskId -> TaskId \cup {NoTask}]
    BY <1>8 DEF Scheduler
  <2>3. r.state \in [TaskId -> TaskState]
    BY <1>8 DEF Scheduler, TaskState
  <2> QED BY <1>8, <1>11, <2>1, <2>2, <2>3 DEF Scheduler
<1>13. ReadyQueued(r)
  BY <1>8, <1>11 DEF ReadyQueued
<1>14. Mirrored(r)
  BY <1>2, <1>8, EmptyQueue DEF Mirrored, Scheduler
<1>15. WaitersBlocked(r)
  BY <1>3, <1>8 DEF WaitersBlocked, Known, Scheduler
<1>16. TargetsLive(r)
  BY <1>2, <1>3, <1>8 DEF TargetsLive, IsTerminal, Terminal, Scheduler
<1>17. Booked(r)
  BY <1>3, <1>8 DEF Booked, Known, Scheduler
<1> QED BY <1>3, <1>8, <1>12, <1>13, <1>14, <1>15, <1>16, <1>17 DEF WellFormed, r

\* remove_join_waiter changes only the join tables, and keeps them mirrored.
LEMMA RemoveJoinWaiterEffect ==
  ASSUME NEW s, WellFormed(s), NEW t \in TaskId
  PROVE  LET r == RemoveJoinWaiter(s, t) IN
         /\ r \in Scheduler
         /\ Mirrored(r)
         /\ r.waitingOn = [s.waitingOn EXCEPT ![t] = NoTask]
         /\ r.state = s.state
         /\ r.ready = s.ready
         /\ r.running = s.running
         /\ r.nextTaskId = s.nextTaskId
         /\ r.cancellationRequested = s.cancellationRequested
<1> DEFINE r == RemoveJoinWaiter(s, t)
           g == s.waitingOn[t]
<1>1. s \in Scheduler /\ Mirrored(s) BY DEF WellFormed
<1>2. \A w \in TaskId : w # NoTask
  BY MaxTaskIdAssumption, NoTaskAssumption DEF TaskId
<1>3. CASE g = NoTask
  BY <1>1, <1>3 DEF RemoveJoinWaiter, Scheduler
<1>4. CASE g # NoTask
  <2> DEFINE rest == Retain(s.joinWaiters[g], TaskId \ {t})
  <2>1. g \in TaskId /\ s.joinWaiters[g] \in Seq(TaskId)
    BY <1>1, <1>4 DEF Scheduler
  <2>2. /\ rest \in Seq(TaskId)
        /\ Elements(rest) = {w \in TaskId : s.waitingOn[w] = g} \ {t}
        /\ Distinct(rest)
    BY <1>1, <2>1, QueueFacts DEF Mirrored
  <2>3. r = [s EXCEPT !.waitingOn[t] = NoTask, !.joinWaiters[g] = rest]
    BY <1>4 DEF RemoveJoinWaiter
  <2> HIDE DEF rest
  <2>4. /\ r.waitingOn = [s.waitingOn EXCEPT ![t] = NoTask]
        /\ r.joinWaiters = [s.joinWaiters EXCEPT ![g] = rest]
        /\ r.state = s.state
        /\ r.ready = s.ready
        /\ r.running = s.running
        /\ r.nextTaskId = s.nextTaskId
        /\ r.cancellationRequested = s.cancellationRequested
    BY <1>1, <2>3 DEF Scheduler
  <2>5. r \in Scheduler
    <3>1. r.joinWaiters \in [TaskId -> Seq(TaskId)]
      BY <1>1, <2>1, <2>2, <2>4 DEF Scheduler
    <3>2. r.waitingOn \in [TaskId -> TaskId \cup {NoTask}]
      BY <1>1, <2>4 DEF Scheduler
    <3> QED BY <1>1, <2>3, <2>4, <3>1, <3>2 DEF Scheduler
  <2> HIDE DEF r
  <2>6. Mirrored(r)
    BY <1>1, <1>2, <2>1, <2>2, <2>4 DEF Mirrored, Scheduler
  <2> QED BY <2>4, <2>5, <2>6 DEF r
<1> QED BY <1>3, <1>4

\* spawn: the new task is known, Ready and queued last; on overflow nothing
\* changes.
LEMMA SpawnWellFormed ==
  ASSUME NEW s, WellFormed(s)
  PROVE  WellFormed(Spawn(s))
<1> DEFINE n == s.nextTaskId
           r == Spawn(s)
<1>1. s \in Scheduler /\ ReadyQueued(s) /\ Mirrored(s) /\ WaitersBlocked(s)
      /\ TargetsLive(s) /\ Booked(s)
  BY DEF WellFormed
<1>2. CASE n = MaxTaskId BY <1>2 DEF Spawn
<1>3. CASE n # MaxTaskId
  <2>1. n \in TaskId /\ n + 1 \in 0..MaxTaskId
    BY <1>1, <1>3, MaxTaskIdAssumption DEF Scheduler, TaskId
  <2>2. s.state[n] = "Absent" BY <1>1, <2>1 DEF Booked, Known, TaskId
  <2>3. /\ r.nextTaskId = n + 1
        /\ r.state = [s.state EXCEPT ![n] = "Ready"]
        /\ r.cancellationRequested = [s.cancellationRequested EXCEPT ![n] = FALSE]
        /\ r.ready = Append(s.ready, n)
        /\ r.running = s.running
        /\ r.joinWaiters = s.joinWaiters
        /\ r.waitingOn = s.waitingOn
    BY <1>1, <1>3 DEF Spawn, Scheduler
  <2>4. s.ready \in Seq(TaskId) /\ Distinct(s.ready) /\ n \notin Elements(s.ready)
    BY <1>1, <2>2 DEF ReadyQueued, Scheduler
  <2>5. /\ r.ready \in Seq(TaskId)
        /\ Distinct(r.ready)
        /\ Elements(r.ready) = Elements(s.ready) \cup {n}
    BY <2>1, <2>3, <2>4, AppendElements
  <2>6. r \in Scheduler
    <3>1. r.state \in [TaskId -> TaskState]
      BY <1>1, <2>3 DEF Scheduler, TaskState
    <3>2. r.cancellationRequested \in [TaskId -> BOOLEAN]
      BY <1>1, <2>3 DEF Scheduler
    <3> QED BY <1>1, <1>3, <2>1, <2>3, <2>5, <3>1, <3>2 DEF Scheduler, Spawn
  <2> HIDE DEF r
  <2>7. ReadyQueued(r) BY <1>1, <2>1, <2>3, <2>5 DEF ReadyQueued, Scheduler
  <2>8. Mirrored(r) BY <1>1, <2>3 DEF Mirrored
  <2>9. WaitersBlocked(r) /\ TargetsLive(r)
    BY <1>1, <2>2, <2>3
    DEF WaitersBlocked, TargetsLive, IsTerminal, Terminal, Known, Scheduler
  <2>10. Booked(r)
    <3>1. \A u \in TaskId : u < n + 1 <=> u < n \/ u = n
      BY <2>1, MaxTaskIdAssumption DEF TaskId
    <3>2. s.running # n BY <1>1, <2>1, <2>2 DEF Booked
    <3> QED BY <1>1, <2>1, <2>3, <3>1, <3>2 DEF Booked, Known, Scheduler
  <2> QED BY <2>6, <2>7, <2>8, <2>9, <2>10 DEF WellFormed, r
<1> QED BY <1>2, <1>3

\* With every queued task Ready, pop_front never skips an entry.
LEMMA HeadIsReady ==
  ASSUME NEW s, WellFormed(s)
  PROVE  /\ ReadyPositions(s) = 1..Len(s.ready)
         /\ ReadyPositions(s) # {} => FirstReady(s) = 1
<1>1. s.ready \in Seq(TaskId) /\ ReadyQueued(s) BY DEF WellFormed, Scheduler
<1>2. ReadyPositions(s) = 1..Len(s.ready)
  BY <1>1 DEF ReadyPositions, ReadyQueued, Elements
<1>3. ASSUME ReadyPositions(s) # {} PROVE FirstReady(s) = 1
  <2>1. 1 \in 1..Len(s.ready) /\ \A j \in 1..Len(s.ready) : 1 <= j
    BY <1>1, <1>2, <1>3
  <2>2. \A i \in 1..Len(s.ready) :
          (\A j \in 1..Len(s.ready) : i <= j) => i = 1
    BY <1>1, <2>1
  <2> QED BY <1>2, <2>1, <2>2 DEF FirstReady
<1> QED BY <1>2, <1>3

\* dispatch takes the head of the queue, and nothing else moves.
LEMMA BeginDispatchWellFormed ==
  ASSUME NEW s, WellFormed(s), s.running = NoTask
  PROVE  WellFormed(BeginDispatch(s))
<1> DEFINE r == BeginDispatch(s)
           q == s.ready
           t == q[1]
<1>1. /\ s \in Scheduler /\ ReadyQueued(s) /\ Mirrored(s) /\ WaitersBlocked(s)
      /\ TargetsLive(s) /\ Booked(s) /\ q \in Seq(TaskId)
  BY DEF WellFormed, Scheduler
<1>2. CASE ReadyPositions(s) = {}
  <2>1. q = <<>>
    <3>1. 1 \notin 1..Len(q) BY <1>2, HeadIsReady
    <3>2. Len(q) = 0 BY <1>1, <3>1
    <3> QED BY <1>1, <3>2
  <2>2. r = s BY <1>1, <1>2, <2>1 DEF BeginDispatch, Scheduler
  <2> QED BY <2>2
<1>3. CASE ReadyPositions(s) # {}
  <2>1. Len(q) \in Nat \ {0} /\ t \in TaskId /\ FirstReady(s) = 1
    BY <1>1, <1>3, HeadIsReady
  <2> DEFINE rest == SubSeq(q, 2, Len(q))
  <2>2. /\ rest \in Seq(TaskId)
        /\ Len(rest) = Len(q) - 1
        /\ \A i \in 1..Len(rest) : rest[i] = q[i + 1]
    BY <1>1, <2>1
  <2>3. r = [s EXCEPT !.ready = rest, !.state[t] = "Running", !.running = t]
    BY <1>3, <2>1 DEF BeginDispatch
  <2> HIDE DEF rest
  <2>4. /\ Distinct(q) /\ s.state[t] = "Ready"
        /\ \A i, j \in 1..Len(q) : q[i] = q[j] => i = j
    BY <1>1, <2>1 DEF ReadyQueued, Distinct, Elements
  <2>5. Distinct(rest) BY <2>1, <2>2, <2>4 DEF Distinct
  <2>6. Elements(rest) = Elements(q) \ {t}
    <3>1. ASSUME NEW x \in Elements(rest) PROVE x \in Elements(q) \ {t}
      <4>1. PICK i \in 1..Len(rest) : x = rest[i] BY <3>1 DEF Elements
      <4>2. i + 1 \in 1..Len(q) /\ x = q[i + 1] /\ i + 1 # 1
        BY <2>1, <2>2, <4>1
      <4> QED BY <2>1, <2>4, <4>2 DEF Elements
    <3>2. ASSUME NEW x \in Elements(q), x # t PROVE x \in Elements(rest)
      <4>1. PICK i \in 1..Len(q) : x = q[i] BY <3>2 DEF Elements
      <4>2. i # 1 BY <3>2, <4>1
      <4> DEFINE k == i - 1
      <4>3. k \in 1..Len(rest) /\ k + 1 = i BY <2>1, <2>2, <4>1, <4>2
      <4>4. rest[k] = q[k + 1] BY <2>2, <4>3
      <4> QED BY <4>1, <4>3, <4>4 DEF Elements
    <3> QED BY <3>1, <3>2
  <2>7. /\ r.ready = rest
        /\ r.state = [s.state EXCEPT ![t] = "Running"]
        /\ r.running = t
        /\ r.nextTaskId = s.nextTaskId
        /\ r.cancellationRequested = s.cancellationRequested
        /\ r.joinWaiters = s.joinWaiters
        /\ r.waitingOn = s.waitingOn
    BY <1>1, <2>3 DEF Scheduler
  <2>8. r \in Scheduler
    <3>1. r.state \in [TaskId -> TaskState]
      BY <1>1, <2>7 DEF Scheduler, TaskState
    <3> QED BY <1>1, <2>1, <2>2, <2>3, <2>7, <3>1 DEF Scheduler
  <2> HIDE DEF r, t
  <2>9. ReadyQueued(r)
    BY <1>1, <2>1, <2>5, <2>6, <2>7 DEF ReadyQueued, Scheduler
  <2>10. Mirrored(r) BY <1>1, <2>7 DEF Mirrored
  <2>11. WaitersBlocked(r) /\ TargetsLive(r)
    BY <1>1, <2>4, <2>7
    DEF WaitersBlocked, TargetsLive, IsTerminal, Terminal, Known, Scheduler
  <2>12. Booked(r)
    <3>1. \A u \in TaskId : s.state[u] # "Running"
      BY <1>1, MaxTaskIdAssumption, NoTaskAssumption DEF Booked, TaskId
    <3> QED BY <1>1, <2>1, <2>4, <2>7, <3>1 DEF Booked, Known, Scheduler
  <2> QED BY <2>8, <2>9, <2>10, <2>11, <2>12 DEF WellFormed, r
<1> QED BY <1>2, <1>3

\* dispatch after the executor: a yielded task goes to the tail, an ended one
\* releases its joiners.
LEMMA EndDispatchWellFormed ==
  ASSUME NEW s, WellFormed(s), s.running # NoTask, NEW step \in TaskStep
  PROVE  WellFormed(EndDispatch(s, step))
<1> DEFINE t == s.running
           next == StateAfter(step)
           ended == [s EXCEPT !.running = NoTask, !.state[t] = next]
<1>1. /\ s \in Scheduler /\ ReadyQueued(s) /\ Mirrored(s) /\ WaitersBlocked(s)
      /\ TargetsLive(s) /\ Booked(s)
  BY DEF WellFormed
<1>2. /\ t \in TaskId /\ s.state[t] = "Running" /\ ~s.cancellationRequested[t]
      /\ \A u \in TaskId : u # NoTask
  BY <1>1, MaxTaskIdAssumption, NoTaskAssumption DEF Scheduler, Booked, TaskId
<1>3. next \in {"Ready", "Blocked"} \cup Terminal
  BY DEF StateAfter, TaskStep, Terminal
<1>4. EndDispatch(s, step) =
        IF next = "Ready" THEN [ended EXCEPT !.ready = Append(s.ready, t)]
        ELSE IF next \in Terminal THEN WakeJoiners(ended, t)
        ELSE ended
  BY <1>1, <1>2 DEF EndDispatch, Scheduler
<1> HIDE DEF next, t
<1>5. /\ ended.state = [s.state EXCEPT ![t] = next]
      /\ ended.running = NoTask
      /\ ended.ready = s.ready
      /\ ended.nextTaskId = s.nextTaskId
      /\ ended.cancellationRequested = s.cancellationRequested
      /\ ended.joinWaiters = s.joinWaiters
      /\ ended.waitingOn = s.waitingOn
  BY <1>1 DEF Scheduler
<1>6. ended \in Scheduler
  <2>1. ended.state \in [TaskId -> TaskState]
    BY <1>1, <1>2, <1>3, <1>5 DEF Scheduler, TaskState, Terminal
  <2> QED BY <1>1, <2>1 DEF Scheduler
<1> HIDE DEF ended
<1>7. Mirrored(ended) BY <1>1, <1>5 DEF Mirrored
<1>8. s.waitingOn[t] = NoTask BY <1>1, <1>2 DEF WaitersBlocked
<1>9. WaitersBlocked(ended)
  BY <1>1, <1>2, <1>3, <1>5, <1>8
  DEF WaitersBlocked, Known, Scheduler, Terminal
<1>10. Booked(ended)
  <2>1. \A u \in TaskId : s.state[u] = "Running" <=> u = t
    BY <1>1, <1>2 DEF Booked, t
  <2> QED BY <1>1, <1>2, <1>3, <1>5, <2>1
          DEF Booked, Known, Scheduler, Terminal
<1>11. ASSUME next # "Ready" PROVE ReadyQueued(ended)
  BY <1>1, <1>2, <1>5, <1>11 DEF ReadyQueued, Scheduler
<1>12. ASSUME NEW w \in TaskId, s.waitingOn[w] # NoTask, s.waitingOn[w] # t
       PROVE  ~IsTerminal(ended, s.waitingOn[w])
  BY <1>1, <1>2, <1>5, <1>12 DEF TargetsLive, IsTerminal, Scheduler
<1>13. CASE next \in Terminal
  <2>1. ended.state[t] # "Blocked" /\ next # "Ready"
    BY <1>1, <1>2, <1>5, <1>13 DEF Scheduler, Terminal
  <2>2. WellFormed(WakeJoiners(ended, t))
    BY <1>2, <1>5, <1>6, <1>7, <1>9, <1>10, <1>11, <1>12, <2>1,
       WakeJoinersWellFormed
  <2> QED BY <1>4, <1>13, <2>1, <2>2
<1>14. CASE next = "Blocked"
  <2>1. TargetsLive(ended)
    BY <1>1, <1>2, <1>5, <1>12, <1>14
    DEF TargetsLive, IsTerminal, Terminal, Scheduler
  <2>2. EndDispatch(s, step) = ended BY <1>4, <1>14 DEF Terminal
  <2> QED BY <1>6, <1>7, <1>9, <1>10, <1>11, <1>14, <2>1, <2>2 DEF WellFormed
<1>15. CASE next = "Ready"
  <2> DEFINE r == [ended EXCEPT !.ready = Append(s.ready, t)]
  <2>1. /\ r.state = ended.state /\ r.running = ended.running
        /\ r.nextTaskId = ended.nextTaskId
        /\ r.cancellationRequested = ended.cancellationRequested
        /\ r.joinWaiters = ended.joinWaiters /\ r.waitingOn = ended.waitingOn
        /\ r.ready = Append(s.ready, t)
    BY <1>6 DEF Scheduler
  <2>2. /\ r.ready \in Seq(TaskId) /\ Distinct(r.ready)
        /\ Elements(r.ready) = Elements(s.ready) \cup {t}
    <3>1. s.ready \in Seq(TaskId) /\ Distinct(s.ready) /\ t \notin Elements(s.ready)
      BY <1>1, <1>2 DEF ReadyQueued, Scheduler
    <3> QED BY <1>2, <2>1, <3>1, AppendElements
  <2>3. r \in Scheduler BY <1>6, <2>1, <2>2 DEF Scheduler
  <2> HIDE DEF r
  <2>4. ReadyQueued(r)
    BY <1>1, <1>2, <1>5, <1>15, <2>1, <2>2 DEF ReadyQueued, Scheduler
  <2>5. TargetsLive(r)
    BY <1>1, <1>2, <1>5, <1>12, <1>15, <2>1
    DEF TargetsLive, IsTerminal, Terminal, Scheduler
  <2>6. Mirrored(r) /\ WaitersBlocked(r) /\ Booked(r)
    BY <1>7, <1>9, <1>10, <2>1 DEF Mirrored, WaitersBlocked, Booked, Known
  <2>7. EndDispatch(s, step) = r BY <1>4, <1>15 DEF r
  <2> QED BY <2>3, <2>4, <2>5, <2>6, <2>7 DEF WellFormed
<1> QED BY <1>3, <1>13, <1>14, <1>15

\* wake detaches a blocked task from its join and queues it.
LEMMA WakeWellFormed ==
  ASSUME NEW s, WellFormed(s), NEW t \in TaskId
  PROVE  WellFormed(Wake(s, t))
<1> DEFINE freed == RemoveJoinWaiter(s, t)
           r == [freed EXCEPT !.state[t] = "Ready", !.ready = Append(@, t)]
<1>1. /\ s \in Scheduler /\ ReadyQueued(s) /\ WaitersBlocked(s)
      /\ TargetsLive(s) /\ Booked(s)
  BY DEF WellFormed
<1>2. CASE s.state[t] # "Blocked" BY <1>2 DEF Wake
<1>3. CASE s.state[t] = "Blocked"
  <2>1. /\ freed \in Scheduler
        /\ Mirrored(freed)
        /\ freed.waitingOn = [s.waitingOn EXCEPT ![t] = NoTask]
        /\ freed.state = s.state
        /\ freed.ready = s.ready
        /\ freed.running = s.running
        /\ freed.nextTaskId = s.nextTaskId
        /\ freed.cancellationRequested = s.cancellationRequested
    BY RemoveJoinWaiterEffect
  <2>2. Wake(s, t) = r BY <1>1, <1>3 DEF Wake, Booked
  <2> HIDE DEF freed
  <2>3. /\ r.state = [s.state EXCEPT ![t] = "Ready"]
        /\ r.ready = Append(s.ready, t)
        /\ r.running = s.running
        /\ r.nextTaskId = s.nextTaskId
        /\ r.cancellationRequested = s.cancellationRequested
        /\ r.joinWaiters = freed.joinWaiters
        /\ r.waitingOn = freed.waitingOn
    BY <2>1 DEF Scheduler
  <2> HIDE DEF r
  <2>4. /\ r.ready \in Seq(TaskId) /\ Distinct(r.ready)
        /\ Elements(r.ready) = Elements(s.ready) \cup {t}
    <3>1. s.ready \in Seq(TaskId) /\ Distinct(s.ready) /\ t \notin Elements(s.ready)
      BY <1>1, <1>3 DEF ReadyQueued, Scheduler
    <3> QED BY <2>3, <3>1, AppendElements
  <2>5. r \in Scheduler
    <3>1. r.state \in [TaskId -> TaskState]
      BY <1>1, <2>3 DEF Scheduler, TaskState
    <3> QED BY <2>1, <2>3, <2>4, <3>1 DEF Scheduler, r
  <2>6. ReadyQueued(r) BY <1>1, <2>3, <2>4 DEF ReadyQueued, Scheduler
  <2>7. Mirrored(r) BY <2>1, <2>3 DEF Mirrored
  <2>8. WaitersBlocked(r) /\ TargetsLive(r)
    BY <1>1, <1>3, <2>1, <2>3
    DEF WaitersBlocked, TargetsLive, IsTerminal, Terminal, Known, Scheduler
  <2>9. Booked(r)
    BY <1>1, <1>3, <2>3 DEF Booked, Known, Scheduler
  <2> QED BY <2>2, <2>5, <2>6, <2>7, <2>8, <2>9 DEF WellFormed
<1> QED BY <1>2, <1>3

\* cancel outside a dispatch ends a known task at once, leaves every ended
\* task alone and never records a request.
LEMMA CancelWellFormed ==
  ASSUME NEW s, WellFormed(s), s.running = NoTask, NEW t \in TaskId
  PROVE  /\ WellFormed(Cancel(s, t))
         /\ Cancel(s, t).running = NoTask
         /\ Cancel(s, t).nextTaskId = s.nextTaskId
         /\ Cancel(s, t).state[t] \in Terminal \cup {"Absent"}
         /\ \A u \in TaskId : s.state[u] \in Terminal \cup {"Absent"}
              => Cancel(s, t).state[u] = s.state[u]
<1>1. /\ s \in Scheduler /\ ReadyQueued(s) /\ Mirrored(s) /\ WaitersBlocked(s)
      /\ TargetsLive(s) /\ Booked(s)
  BY DEF WellFormed
<1>2. \A u \in TaskId : u # NoTask
  BY MaxTaskIdAssumption, NoTaskAssumption DEF TaskId
<1>3. s.state[t] # "Running" BY <1>1, <1>2 DEF Booked
\* Both live cases end the task and then release its joiners.
<1>4. ASSUME NEW r, r \in Scheduler, ReadyQueued(r), Mirrored(r),
             r.state = [s.state EXCEPT ![t] = "Cancelled"],
             \/ r.waitingOn = s.waitingOn
             \/ r.waitingOn = [s.waitingOn EXCEPT ![t] = NoTask],
             r.waitingOn[t] = NoTask,
             s.state[t] \in {"Ready", "Blocked"},
             r.running = s.running,
             r.nextTaskId = s.nextTaskId,
             r.cancellationRequested = s.cancellationRequested
      PROVE  LET c == WakeJoiners(r, t) IN
             /\ WellFormed(c)
             /\ c.running = NoTask
             /\ c.nextTaskId = s.nextTaskId
             /\ c.state[t] \in Terminal \cup {"Absent"}
             /\ \A u \in TaskId : s.state[u] \in Terminal \cup {"Absent"}
                  => c.state[u] = s.state[u]
  <2>1. WaitersBlocked(r)
    BY <1>1, <1>4 DEF WaitersBlocked, Known, Scheduler
  <2>2. Booked(r)
    BY <1>1, <1>3, <1>4 DEF Booked, Known, Scheduler
  <2>3. ASSUME NEW w \in TaskId, r.waitingOn[w] # NoTask, r.waitingOn[w] # t
        PROVE  ~IsTerminal(r, r.waitingOn[w])
    <3>1. r.waitingOn[w] = s.waitingOn[w] /\ r.waitingOn[w] \in TaskId
      BY <1>1, <1>4, <2>3 DEF Scheduler
    <3> QED BY <1>1, <1>4, <2>3, <3>1 DEF TargetsLive, IsTerminal, Scheduler
  <2>4. r.state[t] = "Cancelled" BY <1>1, <1>4 DEF Scheduler
  <2>5. /\ WellFormed(WakeJoiners(r, t))
        /\ \A u \in TaskId : r.state[u] # "Blocked"
              => WakeJoiners(r, t).state[u] = r.state[u]
        /\ WakeJoiners(r, t).running = r.running
        /\ WakeJoiners(r, t).nextTaskId = r.nextTaskId
    BY <1>4, <2>1, <2>2, <2>3, <2>4, WakeJoinersWellFormed
  <2>6. \A u \in TaskId : s.state[u] \in Terminal \cup {"Absent"}
          => r.state[u] = s.state[u] /\ r.state[u] # "Blocked"
    BY <1>1, <1>4 DEF Scheduler, Terminal
  <2> QED BY <1>4, <2>4, <2>5, <2>6 DEF Terminal
<1>5. CASE s.state[t] = "Ready"
  <2> DEFINE q == Retain(s.ready, TaskId \ {t})
             r == [s EXCEPT !.ready = q, !.state[t] = "Cancelled"]
  <2>1. /\ q \in Seq(TaskId) /\ Distinct(q)
        /\ Elements(q) = Elements(s.ready) \ {t}
    BY <1>1, QueueFacts DEF ReadyQueued, Scheduler
  <2> HIDE DEF q
  <2>2. /\ r.ready = q
        /\ r.state = [s.state EXCEPT ![t] = "Cancelled"]
        /\ r.running = s.running
        /\ r.nextTaskId = s.nextTaskId
        /\ r.cancellationRequested = s.cancellationRequested
        /\ r.joinWaiters = s.joinWaiters
        /\ r.waitingOn = s.waitingOn
    BY <1>1 DEF Scheduler
  <2>3. r \in Scheduler
    <3>1. /\ s.state \in [TaskId -> TaskState]
          /\ "Cancelled" \in TaskState
      BY <1>1 DEF Scheduler, TaskState, Terminal
    <3>2. [s.state EXCEPT ![t] = "Cancelled"] \in [TaskId -> TaskState]
      BY <3>1
    <3>3. r.state \in [TaskId -> TaskState] BY <3>2, <2>2
    <3> QED BY <1>1, <2>1, <2>2, <3>3 DEF Scheduler
  <2>4. Cancel(s, t) = WakeJoiners(r, t) BY <1>5 DEF Cancel, q
  <2> HIDE DEF r
  <2>5. ReadyQueued(r) BY <1>1, <2>1, <2>2 DEF ReadyQueued, Scheduler
  <2>6. Mirrored(r) BY <1>1, <2>2 DEF Mirrored
  <2>7. r.waitingOn[t] = NoTask BY <1>1, <1>5, <2>2 DEF WaitersBlocked
  <2> QED BY <1>4, <1>5, <2>2, <2>3, <2>4, <2>5, <2>6, <2>7
<1>6. CASE s.state[t] = "Blocked"
  <2> DEFINE freed == RemoveJoinWaiter(s, t)
             r == [freed EXCEPT !.state[t] = "Cancelled"]
  <2>1. /\ freed \in Scheduler
        /\ Mirrored(freed)
        /\ freed.waitingOn = [s.waitingOn EXCEPT ![t] = NoTask]
        /\ freed.state = s.state
        /\ freed.ready = s.ready
        /\ freed.running = s.running
        /\ freed.nextTaskId = s.nextTaskId
        /\ freed.cancellationRequested = s.cancellationRequested
    BY RemoveJoinWaiterEffect
  <2>2. Cancel(s, t) = WakeJoiners(r, t) BY <1>6 DEF Cancel
  <2> HIDE DEF freed
  <2>3. /\ r.ready = s.ready
        /\ r.state = [s.state EXCEPT ![t] = "Cancelled"]
        /\ r.running = s.running
        /\ r.nextTaskId = s.nextTaskId
        /\ r.cancellationRequested = s.cancellationRequested
        /\ r.joinWaiters = freed.joinWaiters
        /\ r.waitingOn = freed.waitingOn
    BY <2>1 DEF Scheduler
  <2>4. r \in Scheduler
    <3>1. /\ s.state \in [TaskId -> TaskState]
          /\ "Cancelled" \in TaskState
      BY <1>1 DEF Scheduler, TaskState, Terminal
    <3>2. [s.state EXCEPT ![t] = "Cancelled"] \in [TaskId -> TaskState]
      BY <3>1
    <3>3. r.state \in [TaskId -> TaskState] BY <3>2, <2>3
    <3> QED BY <2>1, <3>3 DEF Scheduler
  <2> HIDE DEF r
  <2>5. ReadyQueued(r) BY <1>1, <1>6, <2>3 DEF ReadyQueued, Scheduler
  <2>6. Mirrored(r) BY <2>1, <2>3 DEF Mirrored
  <2>7. /\ r.waitingOn = [s.waitingOn EXCEPT ![t] = NoTask]
        /\ r.waitingOn[t] = NoTask
    BY <1>1, <2>1, <2>3 DEF Scheduler
  <2>8. /\ r.state = [s.state EXCEPT ![t] = "Cancelled"]
        /\ r.running = s.running
        /\ r.nextTaskId = s.nextTaskId
        /\ r.cancellationRequested = s.cancellationRequested
    BY <2>3
  <2> DEFINE c == WakeJoiners(r, t)
  <2>9. /\ WellFormed(c)
        /\ c.running = NoTask
        /\ c.nextTaskId = s.nextTaskId
        /\ c.state[t] \in Terminal \cup {"Absent"}
        /\ \A u \in TaskId : s.state[u] \in Terminal \cup {"Absent"}
              => c.state[u] = s.state[u]
    BY <1>4, <1>6, <2>4, <2>5, <2>6, <2>7, <2>8
  <2> QED BY <2>2, <2>9
<1>7. CASE s.state[t] \in Terminal \cup {"Absent"}
  <2>1. Cancel(s, t) = s BY <1>7 DEF Cancel, Terminal
  <2> QED BY <1>7, <2>1
<1> QED BY <1>1, <1>3, <1>5, <1>6, <1>7 DEF Scheduler, TaskState

\* join takes a ready waiter out of the queue and registers it once.
LEMMA JoinWellFormed ==
  ASSUME NEW s, WellFormed(s), NEW w \in TaskId, NEW t \in TaskId
  PROVE  WellFormed(Join(s, w, t))
<1> DEFINE q == Retain(s.ready, TaskId \ {w})
           r == [s EXCEPT !.ready = q,
                          !.state[w] = "Blocked",
                          !.waitingOn[w] = t,
                          !.joinWaiters[t] = Append(@, w)]
<1>1. /\ s \in Scheduler /\ ReadyQueued(s) /\ Mirrored(s) /\ WaitersBlocked(s)
      /\ TargetsLive(s) /\ Booked(s)
  BY DEF WellFormed
<1>2. \A u \in TaskId : u # NoTask
  BY MaxTaskIdAssumption, NoTaskAssumption DEF TaskId
<1>3. CASE ~(JoinReply(s, w, t) = "Waiting" /\ s.state[w] = "Ready")
  BY <1>3 DEF Join
<1>4. CASE JoinReply(s, w, t) = "Waiting" /\ s.state[w] = "Ready"
  <2>1. w # t /\ Known(s, t) /\ ~IsTerminal(s, t)
    BY <1>4 DEF JoinReply
  <2>2. Join(s, w, t) = r BY <1>4 DEF Join
  <2>3. /\ q \in Seq(TaskId) /\ Distinct(q)
        /\ Elements(q) = Elements(s.ready) \ {w}
    BY <1>1, QueueFacts DEF ReadyQueued, Scheduler
  <2>4. s.waitingOn[w] = NoTask BY <1>1, <1>4 DEF WaitersBlocked
  <2> DEFINE list == Append(s.joinWaiters[t], w)
  <2>5. /\ list \in Seq(TaskId) /\ Distinct(list)
        /\ Elements(list) = {u \in TaskId : s.waitingOn[u] = t} \cup {w}
    <3>1. /\ s.joinWaiters[t] \in Seq(TaskId) /\ Distinct(s.joinWaiters[t])
          /\ Elements(s.joinWaiters[t]) = {u \in TaskId : s.waitingOn[u] = t}
          /\ w \notin Elements(s.joinWaiters[t])
      BY <1>1, <1>2, <2>4 DEF Mirrored, Scheduler
    <3> QED BY <3>1, AppendElements
  <2> HIDE DEF q
  <2>6. /\ r.ready = q
        /\ r.state = [s.state EXCEPT ![w] = "Blocked"]
        /\ r.running = s.running
        /\ r.nextTaskId = s.nextTaskId
        /\ r.cancellationRequested = s.cancellationRequested
        /\ r.joinWaiters = [s.joinWaiters EXCEPT ![t] = list]
        /\ r.waitingOn = [s.waitingOn EXCEPT ![w] = t]
    BY <1>1 DEF Scheduler
  <2> HIDE DEF list
  <2>7. r \in Scheduler
    <3>1. r.state \in [TaskId -> TaskState]
      BY <1>1, <2>6 DEF Scheduler, TaskState
    <3>2. r.joinWaiters \in [TaskId -> Seq(TaskId)]
      BY <1>1, <2>5, <2>6 DEF Scheduler
    <3>3. r.waitingOn \in [TaskId -> TaskId \cup {NoTask}]
      BY <1>1, <2>6 DEF Scheduler
    <3> QED BY <1>1, <2>3, <2>6, <3>1, <3>2, <3>3 DEF Scheduler
  <2> HIDE DEF r
  <2>8. ReadyQueued(r) BY <1>1, <2>3, <2>6 DEF ReadyQueued, Scheduler
  <2>9. Mirrored(r)
    BY <1>1, <1>2, <2>4, <2>5, <2>6 DEF Mirrored, Scheduler
  <2>10. WaitersBlocked(r) /\ TargetsLive(r)
    BY <1>1, <1>4, <2>1, <2>6
    DEF WaitersBlocked, TargetsLive, IsTerminal, Terminal, Known, Scheduler
  <2>11. Booked(r) BY <1>1, <1>4, <2>6 DEF Booked, Known, Scheduler
  <2> QED BY <2>2, <2>7, <2>8, <2>9, <2>10, <2>11 DEF WellFormed
<1> QED BY <1>3, <1>4

\* The loop of cancel_pending_except, one identity after the other.
LEMMA CancelledBelowDef ==
  ASSUME NEW s, NEW t
  PROVE  /\ CancelledBelow(s, t)[0] = s
         /\ \A k \in 1..MaxTaskId :
              CancelledBelow(s, t)[k] =
                IF k - 1 = t \/ ~Known(s, k - 1)
                  THEN CancelledBelow(s, t)[k - 1]
                  ELSE Cancel(CancelledBelow(s, t)[k - 1], k - 1)
<1> DEFINE Rule(f, m) == [k \in 0..m |->
               IF k = 0 THEN s
               ELSE IF k - 1 = t \/ ~Known(s, k - 1) THEN f[k - 1]
               ELSE Cancel(f[k - 1], k - 1)]
           Good == {m \in Nat : \E f : f = Rule(f, m)}
<1>1. 0 \in Good
  <2>1. [k \in 0..0 |-> s] = Rule([k \in 0..0 |-> s], 0) OBVIOUS
  <2> QED BY <2>1
<1>2. ASSUME NEW m \in Nat, m \in Good PROVE m + 1 \in Good
  <2>1. PICK f : f = Rule(f, m) BY <1>2
  <2> DEFINE g == [k \in 0..(m + 1) |->
               IF k <= m THEN f[k]
               ELSE IF k - 1 = t \/ ~Known(s, k - 1) THEN f[k - 1]
               ELSE Cancel(f[k - 1], k - 1)]
  <2>2. \A k \in 0..m : f[k] =
               IF k = 0 THEN s
               ELSE IF k - 1 = t \/ ~Known(s, k - 1) THEN f[k - 1]
               ELSE Cancel(f[k - 1], k - 1)
    BY <2>1
  <2>3. \A k \in 0..m : g[k] = f[k] OBVIOUS
  <2>4. \A k \in 1..(m + 1) : g[k - 1] = f[k - 1] OBVIOUS
  <2>5. \A k \in 0..(m + 1) : g[k] =
               IF k = 0 THEN s
               ELSE IF k - 1 = t \/ ~Known(s, k - 1) THEN g[k - 1]
               ELSE Cancel(g[k - 1], k - 1)
    <3> TAKE k \in 0..(m + 1)
    <3>1. CASE k <= m BY <3>1, <2>2, <2>3, <2>4
    <3>2. CASE k = m + 1 BY <3>2, <2>4
    <3> QED BY <3>1, <3>2
  <2> HIDE DEF g
  <2>6. g = Rule(g, m + 1) BY <2>5 DEF g
  <2>7. \E h : h = Rule(h, m + 1)
    <3> HIDE DEF Rule
    <3> WITNESS g
    <3> QED BY <2>6
  <2>8. m + 1 \in Nat OBVIOUS
  <2> HIDE DEF Rule
  <2> QED BY <2>7, <2>8
<1>3. MaxTaskId \in Good BY <1>1, <1>2, MaxTaskIdAssumption, NatSetInduction
<1>4. PICK f : f = Rule(f, MaxTaskId) BY <1>3
<1>5. CancelledBelow(s, t) = Rule(CancelledBelow(s, t), MaxTaskId)
  BY <1>4 DEF CancelledBelow
<1> DEFINE c == CancelledBelow(s, t)
<1> HIDE DEF c
<1>6. c = Rule(c, MaxTaskId) BY <1>5 DEF c
<1>7. ASSUME NEW g, NEW k \in 0..MaxTaskId
      PROVE  Rule(g, MaxTaskId)[k] =
               IF k = 0 THEN s
               ELSE IF k - 1 = t \/ ~Known(s, k - 1) THEN g[k - 1]
               ELSE Cancel(g[k - 1], k - 1)
  OBVIOUS
<1>8. /\ c[0] = s
      /\ \A k \in 1..MaxTaskId :
           c[k] = IF k - 1 = t \/ ~Known(s, k - 1) THEN c[k - 1]
                  ELSE Cancel(c[k - 1], k - 1)
  <2> HIDE DEF Rule
  <2>1. \A k \in 0..MaxTaskId : c[k] = Rule(c, MaxTaskId)[k] BY <1>6
  <2> QED BY <1>7, <2>1, MaxTaskIdAssumption
<1> QED BY <1>8 DEF c

\* cancel_pending_except leaves nobody but t alive, and changes no outcome.
LEMMA CancelPendingExceptWellFormed ==
  ASSUME NEW s, WellFormed(s), s.running = NoTask, NEW t \in TaskId
  PROVE  LET c == CancelPendingExcept(s, t) IN
         /\ WellFormed(c)
         /\ c.running = NoTask
         /\ c.nextTaskId = s.nextTaskId
         /\ \A u \in TaskId \ {t} : c.state[u] \in Terminal \cup {"Absent"}
         /\ \A u \in TaskId : s.state[u] \in Terminal \cup {"Absent"}
              => c.state[u] = s.state[u]
<1> DEFINE c == CancelledBelow(s, t)
           Over == Terminal \cup {"Absent"}
           Good == {k \in Nat : k <= MaxTaskId =>
                      /\ WellFormed(c[k])
                      /\ c[k].running = NoTask
                      /\ c[k].nextTaskId = s.nextTaskId
                      /\ \A u \in TaskId \ {t} : u < k => c[k].state[u] \in Over
                      /\ \A u \in TaskId : s.state[u] \in Over
                           => c[k].state[u] = s.state[u]}
<1>1. /\ c[0] = s
      /\ \A k \in 1..MaxTaskId :
           c[k] = IF k - 1 = t \/ ~Known(s, k - 1) THEN c[k - 1]
                  ELSE Cancel(c[k - 1], k - 1)
  BY CancelledBelowDef
<1> HIDE DEF c, Over
<1>2. 0 \in Good
  <2>1. \A u \in TaskId : ~(u < 0) BY MaxTaskIdAssumption DEF TaskId
  <2> QED BY <1>1, <2>1
<1>3. ASSUME NEW k \in Nat, k \in Good PROVE k + 1 \in Good
  <2> SUFFICES ASSUME k + 1 <= MaxTaskId
               PROVE  /\ WellFormed(c[k + 1])
                      /\ c[k + 1].running = NoTask
                      /\ c[k + 1].nextTaskId = s.nextTaskId
                      /\ \A u \in TaskId \ {t} :
                           u < k + 1 => c[k + 1].state[u] \in Over
                      /\ \A u \in TaskId : s.state[u] \in Over
                           => c[k + 1].state[u] = s.state[u]
    OBVIOUS
  <2>1. /\ WellFormed(c[k])
        /\ c[k].running = NoTask
        /\ c[k].nextTaskId = s.nextTaskId
        /\ \A u \in TaskId \ {t} : u < k => c[k].state[u] \in Over
        /\ \A u \in TaskId : s.state[u] \in Over
              => c[k].state[u] = s.state[u]
    BY <1>3, MaxTaskIdAssumption
  <2>2. /\ k \in TaskId
        /\ c[k + 1] = IF k = t \/ ~Known(s, k) THEN c[k] ELSE Cancel(c[k], k)
    <3>1. k + 1 \in 1..MaxTaskId /\ (k + 1) - 1 = k BY MaxTaskIdAssumption
    <3> QED BY <1>1, <3>1, MaxTaskIdAssumption DEF TaskId
  <2>3. \A u \in TaskId : u < k + 1 <=> u < k \/ u = k
    BY MaxTaskIdAssumption DEF TaskId
  <2>4. CASE k = t BY <2>1, <2>2, <2>3, <2>4
  <2>5. CASE ~Known(s, k)
    <3>1. s.state[k] \in Over /\ c[k + 1] = c[k]
      BY <2>2, <2>5 DEF Known, Over
    <3>2. c[k].state[k] \in Over BY <2>1, <2>2, <3>1
    <3> QED BY <2>1, <2>3, <3>1, <3>2
  <2>6. CASE k # t /\ Known(s, k)
    <3>1. c[k + 1] = Cancel(c[k], k) BY <2>2, <2>6
    <3> DEFINE d == c[k]
               r == Cancel(d, k)
    <3>2. WellFormed(d) /\ d.running = NoTask /\ k \in TaskId BY <2>1, <2>2
    <3> HIDE DEF d
    <3>3. /\ WellFormed(r)
          /\ r.running = NoTask
          /\ r.nextTaskId = d.nextTaskId
          /\ r.state[k] \in Over
          /\ \A u \in TaskId : d.state[u] \in Over => r.state[u] = d.state[u]
      BY <3>2, CancelWellFormed DEF Over
    <3> HIDE DEF r
    <3>4. c[k + 1] = r BY <3>1 DEF r, d
    <3>5. /\ d.nextTaskId = s.nextTaskId
          /\ \A u \in TaskId \ {t} : u < k => d.state[u] \in Over
          /\ \A u \in TaskId : s.state[u] \in Over => d.state[u] = s.state[u]
      BY <2>1 DEF d
    <3> QED BY <2>3, <3>3, <3>4, <3>5
  <2> QED BY <2>4, <2>5, <2>6
<1>4. MaxTaskId \in Good BY <1>2, <1>3, MaxTaskIdAssumption, NatSetInduction
<1>5. \A u \in TaskId : u < MaxTaskId BY MaxTaskIdAssumption DEF TaskId
<1> QED BY <1>4, <1>5, MaxTaskIdAssumption DEF CancelPendingExcept, c, Over

\* A new scheduler is well-formed.
LEMMA NewSchedulerWellFormed == WellFormed(NewScheduler)
<1> DEFINE s == NewScheduler
<1>1. \A u \in TaskId : u # NoTask /\ ~(u < 0)
  BY MaxTaskIdAssumption, NoTaskAssumption DEF TaskId
<1>2. s \in Scheduler
  BY MaxTaskIdAssumption, EmptyQueue DEF NewScheduler, Scheduler, TaskState
<1>3. ReadyQueued(s) BY EmptyQueue DEF NewScheduler, ReadyQueued
<1>4. Mirrored(s) BY <1>1, EmptyQueue DEF NewScheduler, Mirrored
<1>5. WaitersBlocked(s) /\ TargetsLive(s)
  BY DEF NewScheduler, WaitersBlocked, TargetsLive
<1>6. Booked(s) BY <1>1 DEF NewScheduler, Booked, Known
<1> QED BY <1>2, <1>3, <1>4, <1>5, <1>6 DEF WellFormed

\* r is a later value of s: no outcome changed, and no task was forgotten.
Keeps(s, r) == \A u \in TaskId :
                 /\ IsTerminal(s, u) => r.state[u] = s.state[u]
                 /\ Known(s, u) => Known(r, u)

\* wake_joiners moves Blocked tasks to Ready and no other task.
LEMMA WakeJoinersKeeps ==
  ASSUME NEW s \in Scheduler, NEW t \in TaskId, NEW o, Keeps(o, s),
         \A u \in TaskId : IsTerminal(o, u) => s.state[u] # "Blocked"
  PROVE  Keeps(o, WakeJoiners(s, t))
<1>1. \A u \in TaskId :
        \/ WakeJoiners(s, t).state[u] = s.state[u]
        \/ s.state[u] = "Blocked" /\ WakeJoiners(s, t).state[u] = "Ready"
  BY DEF WakeJoiners, Scheduler
<1> QED BY <1>1 DEF Keeps, Known

\* No operation of a host changes the outcome of an ended task.
LEMMA OperationsKeep ==
  ASSUME NEW s, WellFormed(s)
  PROVE  /\ Keeps(s, Spawn(s))
         /\ s.running = NoTask => Keeps(s, BeginDispatch(s))
         /\ s.running # NoTask =>
              \A step \in TaskStep : Keeps(s, EndDispatch(s, step))
         /\ \A t \in TaskId :
              /\ Keeps(s, Wake(s, t))
              /\ s.running = NoTask => Keeps(s, Cancel(s, t))
              /\ s.running = NoTask => Keeps(s, CancelPendingExcept(s, t))
         /\ \A w, t \in TaskId : Keeps(s, Join(s, w, t))
<1>1. s \in Scheduler /\ Booked(s) /\ ReadyQueued(s) /\ WaitersBlocked(s)
  BY DEF WellFormed
<1>2. Keeps(s, Spawn(s))
  <2>1. s.nextTaskId # MaxTaskId =>
          s.nextTaskId \in TaskId /\ s.state[s.nextTaskId] = "Absent"
    BY <1>1, MaxTaskIdAssumption DEF Scheduler, Booked, Known, TaskId
  <2> QED BY <1>1, <2>1 DEF Keeps, Spawn, Scheduler, IsTerminal, Terminal, Known
<1>3. ASSUME s.running = NoTask PROVE Keeps(s, BeginDispatch(s))
  <2>1. CASE ReadyPositions(s) = {}
    BY <1>1, <2>1 DEF Keeps, BeginDispatch, Known, Scheduler
  <2>2. CASE ReadyPositions(s) # {}
    <3> DEFINE t == s.ready[FirstReady(s)]
    <3>1. t \in TaskId /\ s.state[t] = "Ready"
      <4>1. 1 \in ReadyPositions(s) /\ FirstReady(s) = 1
        BY <1>1, <2>2, HeadIsReady DEF Scheduler
      <4> QED BY <1>1, <4>1 DEF ReadyPositions, Scheduler
    <3>2. BeginDispatch(s).state = [s.state EXCEPT ![t] = "Running"]
      BY <1>1, <2>2 DEF BeginDispatch, Scheduler
    <3> HIDE DEF t
    <3> QED BY <1>1, <3>1, <3>2 DEF Keeps, Known, IsTerminal, Terminal, Scheduler
  <2> QED BY <2>1, <2>2
<1>4. ASSUME s.running # NoTask, NEW step \in TaskStep
      PROVE  Keeps(s, EndDispatch(s, step))
  <2> DEFINE t == s.running
             next == StateAfter(step)
             ended == [s EXCEPT !.running = NoTask, !.state[t] = next]
  <2>1. t \in TaskId /\ s.state[t] = "Running" /\ ~s.cancellationRequested[t]
    BY <1>1, <1>4 DEF Scheduler, Booked
  <2>2. next \in TaskState \ {"Absent"}
    BY DEF StateAfter, TaskStep, TaskState, Terminal
  <2>3. EndDispatch(s, step) =
          IF next = "Ready" THEN [ended EXCEPT !.ready = Append(s.ready, t)]
          ELSE IF next \in Terminal THEN WakeJoiners(ended, t)
          ELSE ended
    BY <1>1, <2>1 DEF EndDispatch, Scheduler
  <2> HIDE DEF next, t
  <2>4. /\ ended.state = [s.state EXCEPT ![t] = next]
        /\ [ended EXCEPT !.ready = Append(s.ready, t)].state = ended.state
    BY <1>1 DEF Scheduler
  <2>5. ended \in Scheduler
    <3>1. ended.state \in [TaskId -> TaskState]
      BY <1>1, <2>2, <2>4 DEF Scheduler
    <3> QED BY <1>1, <3>1 DEF Scheduler
  <2> HIDE DEF ended
  <2>6. /\ Keeps(s, ended)
        /\ \A u \in TaskId : IsTerminal(s, u) => ended.state[u] # "Blocked"
    BY <1>1, <2>1, <2>2, <2>4
    DEF Keeps, Known, IsTerminal, Terminal, Scheduler
  <2>7. Keeps(s, WakeJoiners(ended, t)) BY <2>1, <2>5, <2>6, WakeJoinersKeeps
  <2> QED BY <2>3, <2>4, <2>6, <2>7 DEF Keeps, Known
<1>5. ASSUME NEW t \in TaskId PROVE Keeps(s, Wake(s, t))
  <2>1. CASE s.state[t] # "Blocked" BY <2>1 DEF Wake, Keeps
  <2>2. CASE s.state[t] = "Blocked"
    <3>1. RemoveJoinWaiter(s, t) \in Scheduler /\ RemoveJoinWaiter(s, t).state = s.state
      BY RemoveJoinWaiterEffect
    <3>2. Wake(s, t).state = [s.state EXCEPT ![t] = "Ready"]
      BY <1>1, <2>2, <3>1 DEF Wake, Booked, Scheduler
    <3> QED BY <1>1, <2>2, <3>2 DEF Keeps, Known, IsTerminal, Terminal, Scheduler
  <2> QED BY <2>1, <2>2
<1>6. ASSUME s.running = NoTask, NEW t \in TaskId
      PROVE  Keeps(s, Cancel(s, t)) /\ Keeps(s, CancelPendingExcept(s, t))
  <2>1. /\ WellFormed(Cancel(s, t))
        /\ Cancel(s, t).nextTaskId = s.nextTaskId
        /\ \A u \in TaskId : s.state[u] \in Terminal \cup {"Absent"}
              => Cancel(s, t).state[u] = s.state[u]
    BY <1>6, CancelWellFormed
  <2>2. /\ WellFormed(CancelPendingExcept(s, t))
        /\ CancelPendingExcept(s, t).nextTaskId = s.nextTaskId
        /\ \A u \in TaskId : s.state[u] \in Terminal \cup {"Absent"}
              => CancelPendingExcept(s, t).state[u] = s.state[u]
    BY <1>6, CancelPendingExceptWellFormed
  <2> QED BY <1>1, <2>1, <2>2 DEF Keeps, WellFormed, Booked, IsTerminal
<1>7. ASSUME NEW w \in TaskId, NEW t \in TaskId PROVE Keeps(s, Join(s, w, t))
  <2>1. \/ Join(s, w, t).state = s.state
        \/ s.state[w] = "Ready" /\ Join(s, w, t).state = [s.state EXCEPT ![w] = "Blocked"]
    BY <1>1 DEF Join, Scheduler
  <2> QED BY <1>1, <2>1 DEF Keeps, Known, IsTerminal, Terminal, Scheduler
<1> QED BY <1>2, <1>3, <1>4, <1>5, <1>6, <1>7

\* What an operation other than a dispatch and a spawn does to a task's
\* outcome: none is changed, and a new one is a cancellation.
OnlyCancels(s, r) ==
  /\ r.running = s.running
  /\ r.nextTaskId = s.nextTaskId
  /\ \A u \in TaskId : /\ IsTerminal(s, u) => r.state[u] = s.state[u]
                       /\ r.state[u] \in {"Completed", "Failed"} =>
                            r.state[u] = s.state[u]

\* wake_joiners readies Blocked tasks and does nothing else to a state.
LEMMA WakeJoinersStates ==
  ASSUME NEW s \in Scheduler, NEW t
  PROVE  /\ WakeJoiners(s, t).running = s.running
         /\ WakeJoiners(s, t).nextTaskId = s.nextTaskId
         /\ \A u \in TaskId :
              \/ WakeJoiners(s, t).state[u] = s.state[u]
              \/ s.state[u] = "Blocked" /\ WakeJoiners(s, t).state[u] = "Ready"
BY DEF WakeJoiners, Scheduler

\* cancel ends its task as Cancelled.
LEMMA CancelOnlyCancels ==
  ASSUME NEW s, WellFormed(s), s.running = NoTask, NEW t \in TaskId
  PROVE  OnlyCancels(s, Cancel(s, t))
<1>1. s \in Scheduler /\ Booked(s) BY DEF WellFormed
<1>2. s.state[t] # "Running"
  BY <1>1, MaxTaskIdAssumption, NoTaskAssumption DEF Booked, TaskId
<1>3. ASSUME NEW r \in Scheduler, r.running = s.running,
             r.nextTaskId = s.nextTaskId, ~IsTerminal(s, t),
             r.state = [s.state EXCEPT ![t] = "Cancelled"]
      PROVE  OnlyCancels(s, WakeJoiners(r, t))
  <2> DEFINE c == WakeJoiners(r, t)
  <2>1. /\ c.running = s.running /\ c.nextTaskId = s.nextTaskId
        /\ \A u \in TaskId :
              \/ c.state[u] = r.state[u]
              \/ r.state[u] = "Blocked" /\ c.state[u] = "Ready"
    <3>1. r \in Scheduler BY <1>3
    <3>2. /\ c.running = r.running /\ c.nextTaskId = r.nextTaskId
          /\ \A u \in TaskId :
                \/ c.state[u] = r.state[u]
                \/ r.state[u] = "Blocked" /\ c.state[u] = "Ready"
      BY <3>1, WakeJoinersStates
    <3> QED BY <1>3, <3>2
  <2> HIDE DEF c
  <2>2. \A u \in TaskId : r.state[u] = IF u = t THEN "Cancelled" ELSE s.state[u]
    BY <1>1, <1>3 DEF Scheduler
  <2> QED BY <1>3, <2>1, <2>2 DEF OnlyCancels, IsTerminal, Terminal, c
<1>4. CASE s.state[t] = "Ready"
  <2> DEFINE q == Retain(s.ready, TaskId \ {t})
             r == [s EXCEPT !.ready = q, !.state[t] = "Cancelled"]
  <2>1. q \in Seq(TaskId) BY <1>1, QueueFacts DEF Scheduler
  <2>2. Cancel(s, t) = WakeJoiners(r, t) BY <1>4 DEF Cancel
  <2> HIDE DEF q
  <2>3. /\ r.state = [s.state EXCEPT ![t] = "Cancelled"]
        /\ r.running = s.running /\ r.nextTaskId = s.nextTaskId
    BY <1>1 DEF Scheduler
  <2>4. r \in Scheduler
    <3>1. [s.state EXCEPT ![t] = "Cancelled"] \in [TaskId -> TaskState]
      BY <1>1 DEF Scheduler, TaskState, Terminal
    <3> QED BY <1>1, <2>1, <3>1 DEF Scheduler
  <2>5. ~IsTerminal(s, t) BY <1>4 DEF IsTerminal, Terminal
  <2> HIDE DEF r
  <2> QED BY <1>3, <2>2, <2>3, <2>4, <2>5
<1>5. CASE s.state[t] = "Blocked"
  <2> DEFINE f == RemoveJoinWaiter(s, t)
             r == [f EXCEPT !.state[t] = "Cancelled"]
  <2>1. /\ f \in Scheduler /\ f.state = s.state /\ f.running = s.running
        /\ f.nextTaskId = s.nextTaskId
    BY RemoveJoinWaiterEffect
  <2>2. Cancel(s, t) = WakeJoiners(r, t) BY <1>5 DEF Cancel
  <2> HIDE DEF f
  <2>3. /\ r.state = [s.state EXCEPT ![t] = "Cancelled"]
        /\ r.running = s.running /\ r.nextTaskId = s.nextTaskId
    BY <2>1 DEF Scheduler
  <2>4. r \in Scheduler
    <3>1. [f.state EXCEPT ![t] = "Cancelled"] \in [TaskId -> TaskState]
      BY <2>1 DEF Scheduler, TaskState, Terminal
    <3> QED BY <2>1, <3>1 DEF Scheduler
  <2>5. ~IsTerminal(s, t) BY <1>5 DEF IsTerminal, Terminal
  <2> HIDE DEF r
  <2> QED BY <1>3, <2>2, <2>3, <2>4, <2>5
<1>6. CASE s.state[t] \notin {"Ready", "Blocked"}
  <2>1. Cancel(s, t) = s BY <1>2, <1>6 DEF Cancel
  <2> QED BY <2>1 DEF OnlyCancels
<1> QED BY <1>4, <1>5, <1>6

\* cancel_pending_except ends every other task as Cancelled.
LEMMA CancelPendingOnlyCancels ==
  ASSUME NEW s, WellFormed(s), s.running = NoTask, NEW t \in TaskId
  PROVE  OnlyCancels(s, CancelPendingExcept(s, t))
<1> DEFINE c == CancelledBelow(s, t)
           Good == {k \in Nat : k <= MaxTaskId =>
                      WellFormed(c[k]) /\ OnlyCancels(s, c[k])}
<1>1. /\ c[0] = s
      /\ \A k \in 1..MaxTaskId :
           c[k] = IF k - 1 = t \/ ~Known(s, k - 1) THEN c[k - 1]
                  ELSE Cancel(c[k - 1], k - 1)
  BY CancelledBelowDef
<1> HIDE DEF c
<1>2. 0 \in Good BY <1>1 DEF OnlyCancels
<1>3. ASSUME NEW k \in Nat, k \in Good PROVE k + 1 \in Good
  <2> SUFFICES ASSUME k + 1 <= MaxTaskId
               PROVE  WellFormed(c[k + 1]) /\ OnlyCancels(s, c[k + 1])
    OBVIOUS
  <2> DEFINE d == c[k]
             r == Cancel(d, k)
  <2>1. WellFormed(d) /\ OnlyCancels(s, d) BY <1>3, MaxTaskIdAssumption
  <2>2. k \in TaskId /\ (c[k + 1] = d \/ c[k + 1] = r)
    <3>1. k + 1 \in 1..MaxTaskId /\ (k + 1) - 1 = k BY MaxTaskIdAssumption
    <3> QED BY <1>1, <3>1, MaxTaskIdAssumption DEF TaskId
  <2> HIDE DEF d
  <2>3. d.running = NoTask BY <2>1 DEF OnlyCancels
  <2>4. WellFormed(r) /\ OnlyCancels(d, r)
    BY <2>1, <2>2, <2>3, CancelWellFormed, CancelOnlyCancels
  <2> HIDE DEF r
  <2>5. OnlyCancels(s, r) BY <2>1, <2>4 DEF OnlyCancels, IsTerminal
  <2> QED BY <2>1, <2>2, <2>4, <2>5
<1>4. MaxTaskId \in Good BY <1>2, <1>3, MaxTaskIdAssumption, NatSetInduction
<1> QED BY <1>4, MaxTaskIdAssumption DEF CancelPendingExcept, c

\* The host's operations on an idle scheduler.
LEMMA HostOnlyCancels ==
  ASSUME NEW s, WellFormed(s), s.running = NoTask
  PROVE  /\ \A t \in TaskId : /\ OnlyCancels(s, Wake(s, t))
                              /\ OnlyCancels(s, Cancel(s, t))
                              /\ OnlyCancels(s, CancelPendingExcept(s, t))
         /\ \A w, t \in TaskId : OnlyCancels(s, Join(s, w, t))
<1>1. s \in Scheduler /\ Booked(s) BY DEF WellFormed
<1>2. ASSUME NEW t \in TaskId PROVE OnlyCancels(s, Wake(s, t))
  <2>1. CASE s.state[t] # "Blocked" BY <2>1 DEF Wake, OnlyCancels
  <2>2. CASE s.state[t] = "Blocked"
    <3>1. LET f == RemoveJoinWaiter(s, t) IN
          f \in Scheduler /\ f.state = s.state /\ f.running = s.running
            /\ f.nextTaskId = s.nextTaskId
      BY RemoveJoinWaiterEffect
    <3>2. /\ Wake(s, t).state = [s.state EXCEPT ![t] = "Ready"]
          /\ Wake(s, t).running = s.running
          /\ Wake(s, t).nextTaskId = s.nextTaskId
      BY <1>1, <2>2, <3>1 DEF Wake, Booked, Scheduler
    <3> QED BY <1>1, <2>2, <3>2 DEF OnlyCancels, IsTerminal, Terminal, Scheduler
  <2> QED BY <2>1, <2>2
<1>3. ASSUME NEW w \in TaskId, NEW t \in TaskId
      PROVE  OnlyCancels(s, Join(s, w, t))
  <2>1. /\ Join(s, w, t).running = s.running
        /\ Join(s, w, t).nextTaskId = s.nextTaskId
        /\ \/ Join(s, w, t).state = s.state
           \/ /\ s.state[w] = "Ready"
              /\ Join(s, w, t).state = [s.state EXCEPT ![w] = "Blocked"]
    BY <1>1 DEF Join, Scheduler
  <2> QED BY <1>1, <2>1 DEF OnlyCancels, IsTerminal, Terminal, Scheduler
<1> QED BY <1>2, <1>3, CancelOnlyCancels, CancelPendingOnlyCancels

\* dispatch hands the head of the queue to the executor.
LEMMA BeginDispatchEffect ==
  ASSUME NEW s, WellFormed(s), s.running = NoTask, ReadyPositions(s) # {}
  PROVE  LET r == BeginDispatch(s) IN
         /\ s.ready # <<>> /\ Head(s.ready) \in TaskId
         /\ s.state[Head(s.ready)] = "Ready"
         /\ r.running = Head(s.ready)
         /\ r.ready = Tail(s.ready)
         /\ r.state = [s.state EXCEPT ![Head(s.ready)] = "Running"]
         /\ r.nextTaskId = s.nextTaskId
<1> DEFINE q == s.ready
<1>1. s \in Scheduler /\ q \in Seq(TaskId) BY DEF WellFormed, Scheduler
<1>2. 1 \in ReadyPositions(s) /\ FirstReady(s) = 1
  BY <1>1, HeadIsReady
<1>3. /\ q # <<>> /\ 1 \in 1..Len(q) /\ s.state[q[1]] = "Ready"
      /\ Head(q) = q[1] /\ q[1] \in TaskId
      /\ SubSeq(q, 1 + 1, Len(q)) = Tail(q)
  BY <1>1, <1>2 DEF ReadyPositions
<1>4. BeginDispatch(s) = [s EXCEPT !.ready = SubSeq(q, 1 + 1, Len(q)),
                                   !.state[q[1]] = "Running",
                                   !.running = q[1]]
  BY <1>2 DEF BeginDispatch
<1> QED BY <1>1, <1>3, <1>4 DEF Scheduler

\* dispatch records the step of its task, and readies joiners at most.
LEMMA EndDispatchEffect ==
  ASSUME NEW s, WellFormed(s), s.running # NoTask, NEW step \in TaskStep
  PROVE  LET r == EndDispatch(s, step) IN
         /\ r.running = NoTask
         /\ r.nextTaskId = s.nextTaskId
         /\ r.state[s.running] = StateAfter(step)
         /\ \A u \in TaskId \ {s.running} :
              \/ r.state[u] = s.state[u]
              \/ s.state[u] = "Blocked" /\ r.state[u] = "Ready"
<1> DEFINE t == s.running
           next == StateAfter(step)
           ended == [s EXCEPT !.running = NoTask, !.state[t] = next]
<1>1. s \in Scheduler /\ Booked(s) BY DEF WellFormed
<1>2. t \in TaskId /\ s.state[t] = "Running" /\ ~s.cancellationRequested[t]
  BY <1>1 DEF Scheduler, Booked
<1>3. next \in TaskState /\ next # "Running"
  BY DEF StateAfter, TaskStep, TaskState, Terminal
<1>4. EndDispatch(s, step) =
        IF next = "Ready" THEN [ended EXCEPT !.ready = Append(s.ready, t)]
        ELSE IF next \in Terminal THEN WakeJoiners(ended, t)
        ELSE ended
  BY <1>1, <1>2 DEF EndDispatch, Scheduler
<1> HIDE DEF next, t
<1>5. /\ ended.state = [s.state EXCEPT ![t] = next]
      /\ ended.running = NoTask /\ ended.nextTaskId = s.nextTaskId
      /\ [ended EXCEPT !.ready = Append(s.ready, t)].state = ended.state
      /\ [ended EXCEPT !.ready = Append(s.ready, t)].running = ended.running
      /\ [ended EXCEPT !.ready = Append(s.ready, t)].nextTaskId = ended.nextTaskId
  BY <1>1 DEF Scheduler
<1>6. ended \in Scheduler
  <2>1. ended.state \in [TaskId -> TaskState] BY <1>1, <1>3, <1>5 DEF Scheduler
  <2> QED BY <1>1, <2>1 DEF Scheduler
<1> HIDE DEF ended
<1>7. /\ ended.state[t] = next
      /\ \A u \in TaskId \ {t} : ended.state[u] = s.state[u]
  BY <1>1, <1>2, <1>5 DEF Scheduler
<1>8. CASE next \in Terminal
  <2> DEFINE r == WakeJoiners(ended, t)
  <2>1. /\ r.running = NoTask /\ r.nextTaskId = s.nextTaskId
        /\ \A u \in TaskId :
              \/ r.state[u] = ended.state[u]
              \/ ended.state[u] = "Blocked" /\ r.state[u] = "Ready"
    <3>1. /\ r.running = ended.running /\ r.nextTaskId = ended.nextTaskId
          /\ \A u \in TaskId :
                \/ r.state[u] = ended.state[u]
                \/ ended.state[u] = "Blocked" /\ r.state[u] = "Ready"
      BY <1>6, WakeJoinersStates
    <3> QED BY <1>5, <3>1
  <2> HIDE DEF r
  <2>2. EndDispatch(s, step) = r BY <1>4, <1>8 DEF Terminal, r
  <2> QED BY <1>2, <1>7, <1>8, <2>1, <2>2 DEF Terminal, t, next
<1>9. CASE next \notin Terminal BY <1>4, <1>5, <1>7, <1>9 DEF t, next
<1> QED BY <1>8, <1>9

\* retain keeps a queue whole when all its members satisfy the predicate.
LEMMA RetainEverything ==
  ASSUME NEW S, NEW q \in Seq(S), NEW K, Elements(q) \subseteq K
  PROVE  Retain(q, K) = q
<1> DEFINE L == Len(q)
           kept == KeptPrefix(q, K)
           Good == {m \in Nat : m <= L =>
                      /\ kept[m] \in Seq(S) /\ Len(kept[m]) = m
                      /\ \A i \in 1..m : kept[m][i] = q[i]}
<1>1. L \in Nat /\ \A i \in 1..L : q[i] \in S /\ q[i] \in K
  BY DEF Elements
<1>2. /\ kept[0] = <<>>
      /\ \A n \in 1..L : kept[n] = Append(kept[n - 1], q[n])
  BY <1>1, KeptPrefixDef
<1>3. Retain(q, K) = kept[L] BY DEF Retain
<1> HIDE DEF kept
<1>4. 0 \in Good
  <2>1. kept[0] \in Seq(S) /\ Len(kept[0]) = 0 BY <1>2
  <2>2. \A i \in 1..0 : kept[0][i] = q[i] OBVIOUS
  <2> QED BY <2>1, <2>2
<1>5. ASSUME NEW m \in Nat, m \in Good PROVE m + 1 \in Good
  <2> SUFFICES ASSUME m + 1 <= L
               PROVE  /\ kept[m + 1] \in Seq(S) /\ Len(kept[m + 1]) = m + 1
                      /\ \A i \in 1..(m + 1) : kept[m + 1][i] = q[i]
    OBVIOUS
  <2> DEFINE p == kept[m]
  <2>1. /\ p \in Seq(S) /\ Len(p) = m /\ \A i \in 1..m : p[i] = q[i]
    BY <1>1, <1>5
  <2>2. kept[m + 1] = Append(p, q[m + 1]) /\ q[m + 1] \in S
    BY <1>1, <1>2
  <2> HIDE DEF p
  <2> QED BY <2>1, <2>2
<1>6. L \in Good BY <1>1, <1>4, <1>5, NatSetInduction
<1>7. /\ kept[L] \in Seq(S) /\ Len(kept[L]) = Len(q)
      /\ \A i \in 1..Len(q) : kept[L][i] = q[i]
  BY <1>1, <1>6
<1> QED BY <1>3, <1>7, SeqEqual
-----------------------------------------------------------------------------
\* What the operations do to the states, to the joins and to the queue.

\* t ends in state f: its joiners continue, and it waits no longer.
Ends(s, r, t, f) ==
  /\ r.state = [w \in TaskId |-> IF w = t THEN f
                                 ELSE IF s.waitingOn[w] = t THEN "Ready"
                                 ELSE s.state[w]]
  /\ r.waitingOn = [w \in TaskId |-> IF w = t \/ s.waitingOn[w] = t THEN NoTask
                                     ELSE s.waitingOn[w]]

\* wake_joiners queues the waiters of t in the order they registered.
LEMMA WakeJoinersEffect ==
  ASSUME NEW s \in Scheduler, NEW t \in TaskId, Mirrored(s), WaitersBlocked(s)
  PROVE  LET r == WakeJoiners(s, t) IN
         /\ r.state = [w \in TaskId |-> IF s.waitingOn[w] = t THEN "Ready"
                                        ELSE s.state[w]]
         /\ r.waitingOn = [w \in TaskId |-> IF s.waitingOn[w] = t THEN NoTask
                                            ELSE s.waitingOn[w]]
         /\ r.ready = s.ready \o s.joinWaiters[t]
<1> DEFINE list == s.joinWaiters[t]
           W == {w \in TaskId : s.waitingOn[w] = t}
<1>1. list \in Seq(TaskId) /\ Elements(list) = W BY DEF Mirrored, Scheduler
<1>2. t # NoTask BY MaxTaskIdAssumption, NoTaskAssumption DEF TaskId
<1>3. \A w \in W : s.state[w] = "Blocked" BY <1>2 DEF WaitersBlocked
<1>4. {w \in Elements(list) : s.waitingOn[w] = t} = W BY <1>1
<1>5. {w \in W : s.state[w] = "Blocked"} = W BY <1>3
<1>6. WakeJoiners(s, t) =
        [s EXCEPT !.joinWaiters[t] = <<>>,
                  !.waitingOn = [w \in TaskId |-> IF w \in W THEN NoTask
                                                  ELSE s.waitingOn[w]],
                  !.state = [w \in TaskId |-> IF w \in W THEN "Ready"
                                              ELSE s.state[w]],
                  !.ready = s.ready \o Retain(list, W)]
  BY <1>4, <1>5 DEF WakeJoiners
<1>7. Retain(list, W) = list BY <1>1, RetainEverything
<1> DEFINE moved == s.ready \o list
<1>8. WakeJoiners(s, t) =
        [s EXCEPT !.joinWaiters[t] = <<>>,
                  !.waitingOn = [w \in TaskId |-> IF w \in W THEN NoTask
                                                  ELSE s.waitingOn[w]],
                  !.state = [w \in TaskId |-> IF w \in W THEN "Ready"
                                              ELSE s.state[w]],
                  !.ready = moved]
  BY <1>6, <1>7
<1> HIDE DEF moved
<1>9. /\ WakeJoiners(s, t).state = [w \in TaskId |-> IF w \in W THEN "Ready"
                                                     ELSE s.state[w]]
      /\ WakeJoiners(s, t).waitingOn = [w \in TaskId |-> IF w \in W THEN NoTask
                                                         ELSE s.waitingOn[w]]
      /\ WakeJoiners(s, t).ready = moved
  BY <1>8 DEF Scheduler
<1> QED BY <1>9 DEF moved

\* cancel ends a queued or blocked task.
LEMMA CancelEffect ==
  ASSUME NEW s, WellFormed(s), NEW t \in TaskId,
         s.state[t] \in {"Ready", "Blocked"}
  PROVE  LET r == Cancel(s, t) IN
         /\ Ends(s, r, t, "Cancelled")
         /\ r.ready = Retain(s.ready, TaskId \ {t}) \o s.joinWaiters[t]
<1>1. /\ s \in Scheduler /\ ReadyQueued(s) /\ Mirrored(s) /\ WaitersBlocked(s)
  BY DEF WellFormed
<1>2. \A u \in TaskId : u # NoTask
  BY MaxTaskIdAssumption, NoTaskAssumption DEF TaskId
<1>3. s.waitingOn[t] # t BY <1>1, <1>2 DEF WaitersBlocked
<1> DEFINE q == Retain(s.ready, TaskId \ {t})
\* Both cases cancel the task and then wake its joiners.
<1>4. ASSUME NEW r \in Scheduler, Mirrored(r),
             r.state = [s.state EXCEPT ![t] = "Cancelled"],
             r.waitingOn = [s.waitingOn EXCEPT ![t] = NoTask],
             r.ready = q, r.joinWaiters[t] = s.joinWaiters[t],
             Cancel(s, t) = WakeJoiners(r, t)
      PROVE  /\ Ends(s, Cancel(s, t), t, "Cancelled")
             /\ Cancel(s, t).ready = q \o s.joinWaiters[t]
  <2>1. WaitersBlocked(r)
    BY <1>1, <1>4 DEF WaitersBlocked, Known, Scheduler
  <2> DEFINE c == Cancel(s, t)
  <2>2. /\ c.state = [w \in TaskId |-> IF r.waitingOn[w] = t THEN "Ready"
                                       ELSE r.state[w]]
        /\ c.waitingOn = [w \in TaskId |-> IF r.waitingOn[w] = t THEN NoTask
                                           ELSE r.waitingOn[w]]
        /\ c.ready = r.ready \o r.joinWaiters[t]
    <3> DEFINE d == WakeJoiners(r, t)
    <3>1. /\ d.state = [w \in TaskId |-> IF r.waitingOn[w] = t THEN "Ready"
                                         ELSE r.state[w]]
          /\ d.waitingOn = [w \in TaskId |-> IF r.waitingOn[w] = t THEN NoTask
                                             ELSE r.waitingOn[w]]
          /\ d.ready = r.ready \o r.joinWaiters[t]
      <4>1. r \in Scheduler /\ Mirrored(r) BY <1>4
      <4> QED BY <2>1, <4>1, WakeJoinersEffect
    <3>2. c = d BY <1>4
    <3> HIDE DEF c, d
    <3> QED BY <3>1, <3>2
  <2> HIDE DEF c, q
  <2>3. \A w \in TaskId :
          /\ r.waitingOn[w] = IF w = t THEN NoTask ELSE s.waitingOn[w]
          /\ r.state[w] = IF w = t THEN "Cancelled" ELSE s.state[w]
    BY <1>1, <1>4 DEF Scheduler
  <2>4. Ends(s, c, t, "Cancelled") BY <1>2, <1>3, <2>2, <2>3 DEF Ends
  <2>5. c.ready = q \o s.joinWaiters[t] BY <1>4, <2>2
  <2> QED BY <2>4, <2>5 DEF c
<1>5. q \in Seq(TaskId) BY <1>1, QueueFacts DEF Scheduler
<1>6. CASE s.state[t] = "Ready"
  <2> DEFINE r == [s EXCEPT !.ready = q, !.state[t] = "Cancelled"]
  <2>1. Cancel(s, t) = WakeJoiners(r, t) BY <1>6 DEF Cancel
  <2> HIDE DEF q
  <2>2. /\ r.ready = q
        /\ r.state = [s.state EXCEPT ![t] = "Cancelled"]
        /\ r.joinWaiters = s.joinWaiters
        /\ r.waitingOn = s.waitingOn
    BY <1>1 DEF Scheduler
  <2>3. r \in Scheduler
    <3>1. r.state \in [TaskId -> TaskState]
      BY <1>1, <2>2 DEF Scheduler, TaskState, Terminal
    <3> QED BY <1>1, <1>5, <2>2, <3>1 DEF Scheduler
  <2> HIDE DEF r
  <2>4. Mirrored(r) BY <1>1, <2>2 DEF Mirrored
  <2>5. s.waitingOn[t] = NoTask BY <1>1, <1>6 DEF WaitersBlocked
  <2>6. r.waitingOn = [s.waitingOn EXCEPT ![t] = NoTask]
    BY <1>1, <2>2, <2>5 DEF Scheduler
  <2> QED BY <1>4, <2>1, <2>2, <2>3, <2>4, <2>6 DEF q
<1>7. CASE s.state[t] = "Blocked"
  <2> DEFINE freed == RemoveJoinWaiter(s, t)
             r == [freed EXCEPT !.state[t] = "Cancelled"]
  <2>1. /\ freed \in Scheduler
        /\ Mirrored(freed)
        /\ freed.waitingOn = [s.waitingOn EXCEPT ![t] = NoTask]
        /\ freed.state = s.state
        /\ freed.ready = s.ready
    BY RemoveJoinWaiterEffect
  <2>2. Cancel(s, t) = WakeJoiners(r, t) BY <1>7 DEF Cancel
  <2>3. freed.joinWaiters[t] = s.joinWaiters[t]
    BY <1>1, <1>3 DEF RemoveJoinWaiter, Scheduler
  <2> HIDE DEF freed
  <2>4. /\ r.ready = s.ready
        /\ r.state = [s.state EXCEPT ![t] = "Cancelled"]
        /\ r.joinWaiters = freed.joinWaiters
        /\ r.waitingOn = freed.waitingOn
    BY <2>1 DEF Scheduler
  <2>5. r \in Scheduler
    <3>1. r.state \in [TaskId -> TaskState]
      BY <1>1, <2>4 DEF Scheduler, TaskState, Terminal
    <3> QED BY <2>1, <3>1 DEF Scheduler
  <2> HIDE DEF r
  <2>6. Mirrored(r) BY <2>1, <2>4 DEF Mirrored
  <2>7. q = s.ready
    <3>1. Elements(s.ready) \subseteq TaskId \ {t}
      BY <1>1, <1>7 DEF ReadyQueued
    <3>2. s.ready \in Seq(TaskId) BY <1>1 DEF Scheduler
    <3> QED BY <3>1, <3>2, RetainEverything
  <2> QED BY <1>4, <2>1, <2>2, <2>3, <2>4, <2>5, <2>6, <2>7
<1> QED BY <1>6, <1>7

\* spawn queues a new identity.
LEMMA SpawnEffect ==
  ASSUME NEW s, WellFormed(s), s.nextTaskId # MaxTaskId
  PROVE  LET r == Spawn(s)
             n == s.nextTaskId
         IN  /\ n \in TaskId /\ s.state[n] = "Absent"
             /\ r.state = [s.state EXCEPT ![n] = "Ready"]
             /\ r.waitingOn = s.waitingOn
             /\ r.ready = Append(s.ready, n)
<1>1. s \in Scheduler /\ Booked(s) BY DEF WellFormed
<1>2. s.nextTaskId \in TaskId
  BY <1>1, MaxTaskIdAssumption DEF Scheduler, TaskId
<1>3. s.state[s.nextTaskId] = "Absent"
  <2>1. ~(s.nextTaskId < s.nextTaskId)
    BY <1>2, MaxTaskIdAssumption DEF TaskId
  <2> QED BY <1>1, <1>2, <2>1 DEF Booked, Known
<1> QED BY <1>1, <1>2, <1>3 DEF Spawn, Scheduler

\* wake queues a blocked task, which waits no longer.
LEMMA WakeEffect ==
  ASSUME NEW s, WellFormed(s), NEW t \in TaskId, s.state[t] = "Blocked"
  PROVE  LET r == Wake(s, t)
         IN  /\ r.state = [s.state EXCEPT ![t] = "Ready"]
             /\ r.waitingOn = [s.waitingOn EXCEPT ![t] = NoTask]
             /\ r.ready = Append(s.ready, t)
<1>1. s \in Scheduler /\ Booked(s) BY DEF WellFormed
<1> DEFINE f == RemoveJoinWaiter(s, t)
<1>2. /\ f \in Scheduler /\ f.state = s.state /\ f.ready = s.ready
      /\ f.waitingOn = [s.waitingOn EXCEPT ![t] = NoTask]
  BY RemoveJoinWaiterEffect
<1>3. Wake(s, t) = [f EXCEPT !.state[t] = "Ready", !.ready = Append(@, t)]
  BY <1>1 DEF Wake, Booked
<1> HIDE DEF f
<1> QED BY <1>2, <1>3 DEF Scheduler

\* w leaves the queue and is blocked until t ends.
Blocks(s, r, w, t) ==
  /\ w # t /\ s.state[w] = "Ready"
  /\ s.state[t] \in {"Ready", "Running", "Blocked"}
  /\ r.state = [s.state EXCEPT ![w] = "Blocked"]
  /\ r.waitingOn = [s.waitingOn EXCEPT ![w] = t]
  /\ r.ready = Retain(s.ready, TaskId \ {w})

\* join blocks a queued task, or changes nothing.
LEMMA JoinEffect ==
  ASSUME NEW s, WellFormed(s), NEW w \in TaskId, NEW t \in TaskId
  PROVE  Join(s, w, t) = s \/ Blocks(s, Join(s, w, t), w, t)
<1> SUFFICES ASSUME Join(s, w, t) # s PROVE Blocks(s, Join(s, w, t), w, t)
  OBVIOUS
<1>1. s \in Scheduler BY DEF WellFormed
<1>2. JoinReply(s, w, t) = "Waiting" /\ s.state[w] = "Ready" BY DEF Join
<1>3. w # t /\ Known(s, t) /\ ~IsTerminal(s, t) BY <1>2 DEF JoinReply
<1>4. s.state[t] \in {"Ready", "Running", "Blocked"}
  BY <1>1, <1>3 DEF Known, IsTerminal, Scheduler, TaskState
<1> QED BY <1>1, <1>2, <1>3, <1>4 DEF Join, Blocks, Scheduler

\* dispatch queues a task that yields behind the others, and ends a task that
\* completes, fails or cancels itself.
LEMMA EndDispatchOutcome ==
  ASSUME NEW s, WellFormed(s), s.running # NoTask, NEW step \in TaskStep
  PROVE  LET t == s.running
             r == EndDispatch(s, step)
         IN  /\ t \in TaskId /\ s.state[t] = "Running"
             /\ s.waitingOn[t] = NoTask
             /\ step = "Yield" =>
                  /\ r.state = [s.state EXCEPT ![t] = "Ready"]
                  /\ r.waitingOn = s.waitingOn
                  /\ r.ready = Append(s.ready, t)
             /\ step = "Block" =>
                  /\ r.state = [s.state EXCEPT ![t] = "Blocked"]
                  /\ r.waitingOn = s.waitingOn
                  /\ r.ready = s.ready
             /\ step \notin {"Yield", "Block"} =>
                  /\ StateAfter(step) \in Terminal
                  /\ Ends(s, r, t, StateAfter(step))
                  /\ r.ready = s.ready \o s.joinWaiters[t]
<1> DEFINE t == s.running
           next == StateAfter(step)
           ended == [s EXCEPT !.running = NoTask, !.state[t] = next]
           r == EndDispatch(s, step)
<1>1. /\ s \in Scheduler /\ Booked(s) /\ Mirrored(s) /\ WaitersBlocked(s)
  BY DEF WellFormed
<1>2. t \in TaskId /\ s.state[t] = "Running" /\ ~s.cancellationRequested[t]
  BY <1>1 DEF Scheduler, Booked
<1>3. s.waitingOn[t] = NoTask BY <1>1, <1>2 DEF WaitersBlocked
<1>4. r = IF next = "Ready" THEN [ended EXCEPT !.ready = Append(s.ready, t)]
          ELSE IF next \in Terminal THEN WakeJoiners(ended, t)
          ELSE ended
  BY <1>1, <1>2 DEF EndDispatch, Scheduler
<1> HIDE DEF r, t
<1>5. CASE step = "Yield"
  <2>1. next = "Ready" BY <1>5 DEF StateAfter
  <2> HIDE DEF next
  <2>2. r = [ended EXCEPT !.ready = Append(s.ready, t)] BY <1>4, <2>1
  <2> QED BY <1>1, <1>2, <1>3, <1>5, <2>1, <2>2 DEF Scheduler, r, t
<1>6. CASE step = "Block"
  <2>1. next = "Blocked" BY <1>6 DEF StateAfter
  <2>2. r = ended BY <1>4, <2>1 DEF Terminal
  <2> HIDE DEF next
  <2> QED BY <1>1, <1>2, <1>3, <1>6, <2>1, <2>2 DEF Scheduler, r, t
<1>7. CASE step \notin {"Yield", "Block"}
  <2>1. next \in Terminal /\ next # "Ready" /\ next \in TaskState
    BY <1>7 DEF StateAfter, TaskStep, Terminal, TaskState
  <2> HIDE DEF next
  <2>2. r = WakeJoiners(ended, t) BY <1>4, <2>1
  <2>3. /\ ended.state = [s.state EXCEPT ![t] = next]
        /\ ended.waitingOn = s.waitingOn
        /\ ended.ready = s.ready
        /\ ended.joinWaiters = s.joinWaiters
    BY <1>1 DEF Scheduler
  <2>4. ended \in Scheduler
    <3>1. ended.state \in [TaskId -> TaskState]
      BY <1>1, <2>1, <2>3 DEF Scheduler
    <3> QED BY <1>1, <3>1 DEF Scheduler
  <2> HIDE DEF ended
  <2>5. Mirrored(ended) BY <1>1, <2>3 DEF Mirrored
  <2>6. WaitersBlocked(ended)
    BY <1>1, <1>2, <1>3, <2>1, <2>3
    DEF WaitersBlocked, Known, Terminal, Scheduler
  <2>7. /\ r.state = [w \in TaskId |-> IF ended.waitingOn[w] = t THEN "Ready"
                                       ELSE ended.state[w]]
        /\ r.waitingOn = [w \in TaskId |-> IF ended.waitingOn[w] = t THEN NoTask
                                           ELSE ended.waitingOn[w]]
        /\ r.ready = ended.ready \o ended.joinWaiters[t]
    BY <1>2, <2>2, <2>4, <2>5, <2>6, WakeJoinersEffect
  <2>8. t # NoTask /\ s.state \in [TaskId -> TaskState]
    BY <1>1, <1>2, MaxTaskIdAssumption, NoTaskAssumption DEF TaskId, Scheduler
  <2>9. Ends(s, r, t, next) BY <1>2, <1>3, <2>3, <2>7, <2>8 DEF Ends
  <2> QED BY <1>2, <1>3, <1>7, <2>1, <2>3, <2>7, <2>9 DEF r, t, next
<1> QED BY <1>5, <1>6, <1>7

\* cancel_pending_except ends everybody but t, and t stops waiting.
LEMMA CancelPendingEffect ==
  ASSUME NEW s, WellFormed(s), s.running = NoTask, NEW t \in TaskId
  PROVE  LET r == CancelPendingExcept(s, t)
         IN  /\ WellFormed(r)
             /\ r.state = [u \in TaskId |->
                  IF u = t
                    THEN IF s.waitingOn[t] # NoTask THEN "Ready" ELSE s.state[t]
                    ELSE IF s.state[u] \in {"Ready", "Running", "Blocked"}
                           THEN "Cancelled" ELSE s.state[u]]
             /\ r.waitingOn = [u \in TaskId |-> NoTask]
<1> DEFINE c == CancelledBelow(s, t)
           Alive == {"Ready", "Running", "Blocked"}
           \* d is the scheduler once the identities below k were visited.
           Visited(d, k) ==
             /\ WellFormed(d) /\ d.running = NoTask
             /\ \A u \in TaskId \ {t} :
                  IF s.state[u] \in Alive
                    THEN IF u < k THEN d.state[u] = "Cancelled"
                         ELSE d.state[u] \in {"Ready", "Blocked"}
                    ELSE d.state[u] = s.state[u]
             /\ IF s.waitingOn[t] # NoTask
                  THEN \/ d.state[t] = "Blocked" /\ d.waitingOn[t] # NoTask
                       \/ d.state[t] = "Ready" /\ d.waitingOn[t] = NoTask
                  ELSE d.state[t] = s.state[t] /\ d.waitingOn[t] = NoTask
           Good == {k \in Nat : k <= MaxTaskId => Visited(c[k], k)}
<1>1. /\ c[0] = s
      /\ \A k \in 1..MaxTaskId :
           c[k] = IF k - 1 = t \/ ~Known(s, k - 1) THEN c[k - 1]
                  ELSE Cancel(c[k - 1], k - 1)
  BY CancelledBelowDef
<1>2. /\ s \in Scheduler /\ Booked(s) /\ WaitersBlocked(s)
      /\ \A u \in TaskId : u # NoTask /\ u \in Nat /\ ~(u < 0)
  BY MaxTaskIdAssumption, NoTaskAssumption DEF WellFormed, TaskId
<1> HIDE DEF c
<1>3. Visited(s, 0)
  <2>1. \A u \in TaskId : s.state[u] # "Running" BY <1>2 DEF Booked
  <2> QED BY <1>2, <2>1 DEF WaitersBlocked
<1>4. ASSUME NEW k \in Nat, k < MaxTaskId, NEW d, Visited(d, k)
      PROVE  Visited(IF k = t \/ ~Known(s, k) THEN d ELSE Cancel(d, k), k + 1)
  <2>1. k \in TaskId /\ \A u \in TaskId : u < k + 1 <=> u < k \/ u = k
    BY <1>4, MaxTaskIdAssumption DEF TaskId
  <2>2. CASE k = t
    <3>1. \A u \in TaskId \ {t} : u < k + 1 <=> u < k BY <2>1, <2>2
    <3> QED BY <1>4, <2>2, <3>1
  <2>3. CASE k # t /\ s.state[k] \notin Alive
    <3>1. d.state[k] = s.state[k] BY <1>4, <2>1, <2>3
    <3>2. Cancel(d, k) = d BY <2>3, <3>1 DEF Cancel
    <3>3. \A u \in TaskId \ {t} : s.state[u] \in Alive => (u < k + 1 <=> u < k)
      BY <2>1, <2>3
    <3> HIDE DEF Alive
    <3> QED BY <1>4, <3>2, <3>3
  <2>4. CASE k # t /\ s.state[k] \in Alive
    <3> DEFINE r == Cancel(d, k)
    <3>1. Known(s, k) BY <2>4 DEF Known
    <3>2. /\ WellFormed(d) /\ d.running = NoTask
          /\ d.state[k] \in {"Ready", "Blocked"}
      BY <1>4, <2>1, <2>4
    <3>3. WellFormed(r) /\ r.running = NoTask /\ Ends(d, r, k, "Cancelled")
      BY <2>1, <3>2, CancelWellFormed, CancelEffect
    <3> HIDE DEF r
    <3>4. \A w \in TaskId :
            /\ r.state[w] = IF w = k THEN "Cancelled"
                            ELSE IF d.waitingOn[w] = k THEN "Ready"
                            ELSE d.state[w]
            /\ r.waitingOn[w] = IF w = k \/ d.waitingOn[w] = k THEN NoTask
                                ELSE d.waitingOn[w]
      BY <3>3 DEF Ends
    <3>5. \A w \in TaskId : d.waitingOn[w] = k => d.state[w] = "Blocked"
      BY <1>2, <2>1, <3>2 DEF WellFormed, WaitersBlocked
    <3>6. ASSUME NEW u \in TaskId \ {t}
          PROVE  IF s.state[u] \in Alive
                   THEN IF u < k + 1 THEN r.state[u] = "Cancelled"
                        ELSE r.state[u] \in {"Ready", "Blocked"}
                   ELSE r.state[u] = s.state[u]
      <4>1. CASE u = k BY <2>1, <2>4, <3>4, <4>1
      <4>2. CASE u # k
        <5>1. u < k + 1 <=> u < k BY <2>1, <4>2
        <5>2. IF s.state[u] \in Alive
                THEN IF u < k THEN d.state[u] = "Cancelled"
                     ELSE d.state[u] \in {"Ready", "Blocked"}
                ELSE d.state[u] = s.state[u]
          BY <1>4
        <5> QED BY <3>4, <3>5, <4>2, <5>1, <5>2
      <4> QED BY <4>1, <4>2
    <3>7. IF s.waitingOn[t] # NoTask
            THEN \/ r.state[t] = "Blocked" /\ r.waitingOn[t] # NoTask
                 \/ r.state[t] = "Ready" /\ r.waitingOn[t] = NoTask
            ELSE r.state[t] = s.state[t] /\ r.waitingOn[t] = NoTask
      BY <1>2, <1>4, <2>1, <2>4, <3>4
    <3>8. Visited(r, k + 1) BY <3>3, <3>6, <3>7
    <3> HIDE DEF Visited
    <3> QED BY <2>4, <3>1, <3>8 DEF r
  <2> QED BY <2>2, <2>3, <2>4
<1>5. Visited(c[MaxTaskId], MaxTaskId)
  <2> HIDE DEF Visited
  <2>1. 0 \in Good BY <1>1, <1>3
  <2>2. ASSUME NEW k \in Nat, k \in Good PROVE k + 1 \in Good
    <3> SUFFICES ASSUME k + 1 <= MaxTaskId PROVE Visited(c[k + 1], k + 1)
      OBVIOUS
    <3>1. k < MaxTaskId /\ k + 1 \in 1..MaxTaskId /\ (k + 1) - 1 = k
      BY MaxTaskIdAssumption
    <3>2. Visited(c[k], k) BY <2>2, <3>1, MaxTaskIdAssumption
    <3>3. c[k + 1] = IF k = t \/ ~Known(s, k) THEN c[k] ELSE Cancel(c[k], k)
      BY <1>1, <3>1
    <3> QED BY <1>4, <3>1, <3>2, <3>3
  <2>3. MaxTaskId \in Good BY <2>1, <2>2, MaxTaskIdAssumption, NatSetInduction
  <2> QED BY <2>3, MaxTaskIdAssumption
<1> DEFINE r == c[MaxTaskId]
<1>6. CancelPendingExcept(s, t) = r BY DEF CancelPendingExcept, c
<1> HIDE DEF r
<1>7. Visited(r, MaxTaskId) BY <1>5 DEF r
<1>8. \A u \in TaskId : u < MaxTaskId BY MaxTaskIdAssumption DEF TaskId
<1>9. r \in Scheduler /\ WaitersBlocked(r) /\ TargetsLive(r)
  BY <1>7 DEF WellFormed
<1>10. \A u \in TaskId \ {t} :
         /\ r.state[u] = IF s.state[u] \in Alive THEN "Cancelled"
                         ELSE s.state[u]
         /\ r.state[u] \in Terminal \cup {"Absent"}
  BY <1>2, <1>7, <1>8 DEF Scheduler, TaskState, Terminal
<1>11. \A u \in TaskId \ {t} : r.waitingOn[u] = NoTask
  BY <1>9, <1>10 DEF WaitersBlocked, Terminal
<1>12. r.waitingOn[t] = NoTask
  <2> SUFFICES ASSUME r.waitingOn[t] # NoTask PROVE FALSE OBVIOUS
  <2> DEFINE g == r.waitingOn[t]
  <2>1. g \in TaskId \ {t} /\ Known(r, g) /\ ~IsTerminal(r, g)
    BY <1>9 DEF Scheduler, WaitersBlocked, TargetsLive
  <2> HIDE DEF g
  <2> QED BY <1>10, <2>1 DEF Known, IsTerminal
<1>13. r.state[t] = IF s.waitingOn[t] # NoTask THEN "Ready" ELSE s.state[t]
  BY <1>7, <1>12
<1>14. /\ r.state \in [TaskId -> TaskState]
       /\ r.waitingOn \in [TaskId -> TaskId \cup {NoTask}]
  BY <1>9 DEF Scheduler
<1>15. r.state = [u \in TaskId |->
         IF u = t
           THEN IF s.waitingOn[t] # NoTask THEN "Ready" ELSE s.state[t]
           ELSE IF s.state[u] \in Alive THEN "Cancelled" ELSE s.state[u]]
  BY <1>10, <1>13, <1>14
<1>16. r.waitingOn = [u \in TaskId |-> NoTask] BY <1>11, <1>12, <1>14
<1> QED BY <1>6, <1>7, <1>15, <1>16
=============================================================================
