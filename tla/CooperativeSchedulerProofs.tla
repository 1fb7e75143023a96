--------------------- MODULE CooperativeSchedulerProofs ---------------------
(***************************************************************************)
(* Theorems about CooperativeScheduler, for every identity space.          *)
(***************************************************************************)
EXTENDS CooperativeScheduler, SchedulerOpsProofs

\* The inductive step: every operation the host can call, and the two halves of
\* a dispatch, keep the scheduler well-formed.
LEMMA NextKeepsWellFormed ==
  ASSUME WellFormed(sched), [Next]_sched
  PROVE  WellFormed(sched)'
<1>1. CASE SpawnTask BY <1>1, SpawnWellFormed DEF SpawnTask
<1>2. CASE DispatchStarts
  BY <1>2, BeginDispatchWellFormed DEF DispatchStarts, Idle
<1>3. ASSUME NEW step \in TaskStep, DispatchEnds(step)
      PROVE  WellFormed(sched)'
  BY <1>3, EndDispatchWellFormed DEF DispatchEnds, Idle
<1>4. ASSUME NEW t \in TaskId, WakeTask(t)
      PROVE  WellFormed(sched)'
  BY <1>4, WakeWellFormed DEF WakeTask
<1>5. ASSUME NEW t \in TaskId, CancelTask(t)
      PROVE  WellFormed(sched)'
  BY <1>5, CancelWellFormed DEF CancelTask, Idle
<1>6. ASSUME NEW w \in TaskId, NEW t \in TaskId, JoinTasks(w, t)
      PROVE  WellFormed(sched)'
  BY <1>6, JoinWellFormed DEF JoinTasks
<1>7. ASSUME NEW t \in TaskId, CancelOthers(t)
      PROVE  WellFormed(sched)'
  BY <1>7, CancelPendingExceptWellFormed DEF CancelOthers, Idle
<1>8. CASE UNCHANGED sched BY <1>8
<1> QED BY <1>1, <1>2, <1>3, <1>4, <1>5, <1>6, <1>7, <1>8 DEF Next

\* Every reachable scheduler value is well-formed: the ready queue is exactly
\* the Ready tasks, the join tables mirror each other, no waiter waits for an
\* ended task, and no cancellation request is ever pending.
THEOREM AlwaysWellFormed == Spec => []WellFormed(sched)
<1>1. Init => WellFormed(sched) BY NewSchedulerWellFormed DEF Init
<1>2. WellFormed(sched) /\ [Next]_sched => WellFormed(sched)'
  BY NextKeepsWellFormed
<1> QED BY <1>1, <1>2, PTL DEF Spec

\* The scheduler's fields keep their types, for every MaxTaskId.
THEOREM TypeCorrect == Spec => []TypeOK
<1>1. WellFormed(sched) => TypeOK BY DEF WellFormed, TypeOK
<1> QED BY <1>1, AlwaysWellFormed, PTL

\* The queue invariant of the runs.
THEOREM QueueExact == Spec => []QueueHoldsReady
<1>1. WellFormed(sched) => QueueHoldsReady
  BY DEF WellFormed, QueueHoldsReady
<1> QED BY <1>1, AlwaysWellFormed, PTL

\* The join invariant of the runs: no wake-up can be lost.
THEOREM NoLostJoin == Spec => []JoinsMirrored
<1>1. WellFormed(sched) => JoinsMirrored
  BY DEF WellFormed, JoinsMirrored
<1> QED BY <1>1, AlwaysWellFormed, PTL

\* At most one task runs, identities are dense, and no cancellation request
\* outlives the call that made it.
THEOREM BooksAgree == Spec => []Bookkeeping
<1>1. WellFormed(sched) => Bookkeeping
  BY DEF WellFormed, Bookkeeping
<1> QED BY <1>1, AlwaysWellFormed, PTL

\* Everything the run checks of a state, in one statement.
THEOREM AlwaysConsistent == Spec => []Consistent
<1> QED BY TypeCorrect, QueueExact, NoLostJoin, BooksAgree, PTL DEF Consistent

\* An idle scheduler with nothing to dispatch is complete or has a blocked
\* task: dispatch never answers None while a task is stuck in another state.
THEOREM WaitingIsReal == Spec => []WaitingMeansBlocked
<1>1. WellFormed(sched) => WaitingMeansBlocked
  <2> SUFFICES ASSUME WellFormed(sched), Idle, ReadyPositions(sched) = {},
                      NEW t \in TaskId, Known(sched, t), ~IsTerminal(sched, t)
               PROVE  sched.state[t] = "Blocked"
    BY DEF WaitingMeansBlocked, IsComplete
  <2>1. sched \in Scheduler /\ ReadyQueued(sched) /\ Booked(sched)
    BY DEF WellFormed
  <2>2. sched.state[t] # "Running"
    BY <2>1, MaxTaskIdAssumption, NoTaskAssumption DEF Booked, Idle, TaskId
  <2>3. sched.state[t] # "Ready"
    <3>1. 1..Len(sched.ready) = {} BY HeadIsReady
    <3>2. Elements(sched.ready) = {} BY <3>1 DEF Elements
    <3> QED BY <2>1, <3>2 DEF ReadyQueued
  <2> QED BY <2>1, <2>2, <2>3
          DEF Known, IsTerminal, Scheduler, TaskState
<1> QED BY <1>1, AlwaysWellFormed, PTL

\* Outcomes are final: no operation moves a task out of Completed, Failed or
\* Cancelled, and spawn never reuses an identity.
THEOREM OutcomesNeverChange == Spec => OutcomesFinal
<1> DEFINE Kept == \A t \in TaskId :
             /\ IsTerminal(sched, t) => sched'.state[t] = sched.state[t]
             /\ Known(sched, t) => Known(sched, t)'
<1>1. ASSUME WellFormed(sched), [Next]_sched PROVE [Kept]_sched
  <2> SUFFICES ASSUME Next PROVE Kept BY <1>1
  <2>1. WellFormed(sched) BY <1>1
  <2>2. Keeps(sched, sched') => Kept BY DEF Keeps, Known
  <2>3. Keeps(sched, sched')
    BY <2>1, OperationsKeep
    DEF Next, SpawnTask, DispatchStarts, DispatchEnds, WakeTask, CancelTask,
        JoinTasks, CancelOthers, Idle
  <2> QED BY <2>2, <2>3
<1> QED BY <1>1, AlwaysWellFormed, PTL DEF Spec, OutcomesFinal
-----------------------------------------------------------------------------
\* Order in the queue.

\* retain keeps the order of what it keeps.
LEMMA RetainKeepsOrder ==
  ASSUME NEW S, NEW q \in Seq(S), NEW K, NEW t, NEW u,
         Before(Retain(q, K), t, u)
  PROVE  Before(q, t, u)
<1> DEFINE L == Len(q)
           kept == KeptPrefix(q, K)
           From(p, m) ==
             /\ p \in Seq(S)
             /\ \A i \in 1..Len(p) : \E a \in 1..m : p[i] = q[a]
             /\ \A i, j \in 1..Len(p) : i < j =>
                  \E a, b \in 1..m : a < b /\ p[i] = q[a] /\ p[j] = q[b]
           Good == {m \in Nat : m <= L => From(kept[m], m)}
<1>1. L \in Nat /\ \A i \in 1..L : q[i] \in S OBVIOUS
<1>2. /\ kept[0] = <<>>
      /\ \A n \in 1..L : kept[n] = IF q[n] \in K
                                     THEN Append(kept[n - 1], q[n])
                                     ELSE kept[n - 1]
  BY <1>1, KeptPrefixDef
<1>3. Retain(q, K) = kept[L] BY DEF Retain
<1> HIDE DEF kept
<1>4. 0 \in Good
  <2>1. From(<<>>, 0) OBVIOUS
  <2> HIDE DEF From
  <2> QED BY <1>2, <2>1
<1>5. ASSUME NEW m \in Nat, m \in Good PROVE m + 1 \in Good
  <2>0. m + 1 \in Nat /\ (m + 1 <= L => m <= L) BY <1>1
  <2> HIDE DEF From
  <2> SUFFICES ASSUME m + 1 <= L PROVE From(kept[m + 1], m + 1) BY <2>0
  <2> DEFINE p == kept[m]
             x == q[m + 1]
             r == Append(p, x)
  <2>1. From(p, m) /\ x \in S
    BY <1>1, <1>5, <2>0
  <2>2. kept[m + 1] = IF x \in K THEN r ELSE p BY <1>1, <1>2
  <2> HIDE DEF p, x
  <2> USE DEF From
  <2>3. From(p, m + 1)
    <3>1. \A a \in 1..m : a \in 1..(m + 1) OBVIOUS
    <3>2. \A i \in 1..Len(p) : \E a \in 1..(m + 1) : p[i] = q[a]
      BY <2>1, <3>1
    <3>3. ASSUME NEW i \in 1..Len(p), NEW j \in 1..Len(p), i < j
          PROVE \E a, b \in 1..(m + 1) : a < b /\ p[i] = q[a] /\ p[j] = q[b]
      <4>1. PICK a, b \in 1..m : a < b /\ p[i] = q[a] /\ p[j] = q[b]
        BY <2>1, <3>3
      <4> QED BY <3>1, <4>1
    <3> QED BY <2>1, <3>2, <3>3
  <2>4. /\ r \in Seq(S) /\ Len(r) = Len(p) + 1 /\ r[Len(p) + 1] = x
        /\ \A i \in 1..Len(p) : r[i] = p[i]
        /\ Len(p) \in Nat
    BY <2>1
  <2> HIDE DEF r
  <2>5. From(r, m + 1)
    <3>1. ASSUME NEW i \in 1..Len(r) PROVE \E a \in 1..(m + 1) : r[i] = q[a]
      BY <2>3, <2>4 DEF x
    <3>2. ASSUME NEW i \in 1..Len(r), NEW j \in 1..Len(r), i < j
          PROVE \E a, b \in 1..(m + 1) : a < b /\ r[i] = q[a] /\ r[j] = q[b]
      <4>1. CASE j \in 1..Len(p) 
        <5>1. i \in 1..Len(p) /\ r[i] = p[i] /\ r[j] = p[j]
          BY <2>4, <3>2, <4>1
        <5> QED BY <2>3, <3>2, <4>1, <5>1
      <4>2. CASE j \notin 1..Len(p)
        <5>1. i \in 1..Len(p) /\ r[i] = p[i] /\ r[j] = x
          BY <2>4, <3>2, <4>2
        <5>2. PICK a \in 1..m : p[i] = q[a] BY <2>1, <5>1
        <5>3. a < m + 1 /\ m + 1 \in 1..(m + 1) /\ a \in 1..(m + 1) OBVIOUS
        <5> QED BY <5>1, <5>2, <5>3 DEF x
      <4> QED BY <4>1, <4>2
    <3> QED BY <2>4, <3>1, <3>2
  <2> HIDE DEF From
  <2> QED BY <2>2, <2>3, <2>5
<1>6. From(kept[L], L)
  <2> HIDE DEF From
  <2>1. L \in Good BY <1>1, <1>4, <1>5, NatSetInduction
  <2> QED BY <1>1, <2>1
<1>7. PICK i, j \in 1..Len(kept[L]) :
        i < j /\ kept[L][i] = t /\ kept[L][j] = u
  BY <1>3 DEF Before
<1>8. PICK a, b \in 1..L : a < b /\ kept[L][i] = q[a] /\ kept[L][j] = q[b]
  BY <1>1, <1>6, <1>7
<1> QED BY <1>7, <1>8 DEF Before

\* What is pushed at the back comes behind what is there.
LEMMA ConcatOrder ==
  ASSUME NEW S, NEW p \in Seq(S), NEW q \in Seq(S), NEW t, NEW u,
         Before(p \o q, t, u)
  PROVE  \/ Before(p, t, u) \/ Before(q, t, u)
         \/ t \in Elements(p) /\ u \in Elements(q)
<1> DEFINE a == p \o q
<1>1. /\ Len(p) \in Nat /\ Len(q) \in Nat /\ Len(a) = Len(p) + Len(q)
      /\ \A i \in 1..Len(a) :
           a[i] = IF i <= Len(p) THEN p[i] ELSE q[i - Len(p)]
  BY ConcatProperties
<1>2. PICK i, j \in 1..Len(a) : i < j /\ a[i] = t /\ a[j] = u BY DEF Before
<1> HIDE DEF a
<1>3. CASE j <= Len(p)
  <2>1. /\ i \in 1..Len(p) /\ j \in 1..Len(p) /\ i < j
        /\ p[i] = t /\ p[j] = u
    BY <1>1, <1>2, <1>3
  <2> QED BY <2>1 DEF Before
<1>4. CASE i <= Len(p) /\ ~(j <= Len(p))
  <2>1. /\ i \in 1..Len(p) /\ p[i] = t
        /\ j - Len(p) \in 1..Len(q) /\ q[j - Len(p)] = u
    BY <1>1, <1>2, <1>4
  <2> QED BY <2>1 DEF Elements
<1>5. CASE ~(i <= Len(p))
  <2>1. /\ i - Len(p) \in 1..Len(q) /\ q[i - Len(p)] = t
        /\ j - Len(p) \in 1..Len(q) /\ q[j - Len(p)] = u
        /\ i - Len(p) < j - Len(p)
    BY <1>1, <1>2, <1>5
  <2> QED BY <2>1 DEF Before
<1> QED BY <1>3, <1>4, <1>5

LEMMA AppendOrder ==
  ASSUME NEW S, NEW q \in Seq(S), NEW e \in S, NEW t, NEW u,
         Before(Append(q, e), t, u)
  PROVE  \/ Before(q, t, u)
         \/ t \in Elements(q) /\ u = e
<1> DEFINE a == Append(q, e)
<1>1. /\ Len(a) = Len(q) + 1 /\ \A i \in 1..Len(q) : a[i] = q[i]
      /\ a[Len(q) + 1] = e /\ Len(q) \in Nat
  OBVIOUS
<1>2. PICK i, j \in 1..Len(a) : i < j /\ a[i] = t /\ a[j] = u BY DEF Before
<1> HIDE DEF a
<1>3. i \in 1..Len(q) /\ q[i] = t BY <1>1, <1>2
<1>4. CASE j \in 1..Len(q) BY <1>1, <1>2, <1>3, <1>4 DEF Before
<1>5. CASE j \notin 1..Len(q)
  <2>1. j = Len(q) + 1 BY <1>1, <1>5
  <2> QED BY <1>1, <1>2, <1>3, <2>1 DEF Elements
<1> QED BY <1>4, <1>5

LEMMA TailOrder ==
  ASSUME NEW S, NEW q \in Seq(S), q # <<>>, NEW t, NEW u,
         Before(Tail(q), t, u)
  PROVE  Before(q, t, u)
<1> DEFINE a == Tail(q)
<1>1. /\ Len(a) = Len(q) - 1 /\ \A i \in 1..Len(a) : a[i] = q[i + 1]
      /\ Len(q) \in Nat
  OBVIOUS
<1>2. PICK i, j \in 1..Len(a) : i < j /\ a[i] = t /\ a[j] = u BY DEF Before
<1> HIDE DEF a
<1>3. /\ i + 1 \in 1..Len(q) /\ j + 1 \in 1..Len(q) /\ i + 1 < j + 1
      /\ q[i + 1] = t /\ q[j + 1] = u
  BY <1>1, <1>2
<1> QED BY <1>3 DEF Before

\* Nobody is queued both before and after another.
LEMMA OneOrder ==
  ASSUME NEW S, NEW q \in Seq(S), Distinct(q), NEW t, NEW u, Before(q, t, u)
  PROVE  ~Before(q, u, t) /\ t \in Elements(q) /\ u \in Elements(q) /\ t # u
<1>1. PICK i, j \in 1..Len(q) : i < j /\ q[i] = t /\ q[j] = u BY DEF Before
<1>2. Len(q) \in Nat OBVIOUS
<1>3. t # u BY <1>1, <1>2 DEF Distinct
<1>4. ~Before(q, u, t) BY <1>1, <1>2 DEF Distinct, Before
<1> QED BY <1>1, <1>3, <1>4 DEF Elements

\* Where the order of a queue may come from: the queue before, an addition
\* behind what was queued, or the list of the waiters of one task.
QueueMoves(s, r) ==
  \A t, u \in TaskId :
    Before(r.ready, t, u) =>
      \/ Before(s.ready, t, u)
      \/ t \in Elements(s.ready) /\ u \notin Elements(s.ready)
      \/ \E x \in TaskId : Before(s.joinWaiters[x], t, u)

\* A queue that only lost entries, or gained some behind those it had.
LEMMA PushedMoves ==
  ASSUME NEW s, NEW r, s.ready \in Seq(TaskId), NEW e \in TaskId,
         e \notin Elements(s.ready), r.ready = Append(s.ready, e)
  PROVE  QueueMoves(s, r)
BY AppendOrder DEF QueueMoves

LEMMA RetainedMoves ==
  ASSUME NEW s, NEW r, s.ready \in Seq(TaskId), NEW K,
         r.ready = Retain(s.ready, K)
  PROVE  QueueMoves(s, r)
BY RetainKeepsOrder DEF QueueMoves

LEMMA ReleasedMoves ==
  ASSUME NEW s, NEW r, s.ready \in Seq(TaskId), NEW x \in TaskId, NEW K,
         s.joinWaiters[x] \in Seq(TaskId),
         Elements(s.joinWaiters[x]) \cap Elements(s.ready) = {},
         \/ r.ready = s.ready \o s.joinWaiters[x]
         \/ r.ready = Retain(s.ready, K) \o s.joinWaiters[x]
  PROVE  QueueMoves(s, r)
<1> SUFFICES ASSUME NEW t \in TaskId, NEW u \in TaskId, Before(r.ready, t, u)
             PROVE  \/ Before(s.ready, t, u)
                    \/ t \in Elements(s.ready) /\ u \notin Elements(s.ready)
                    \/ \E y \in TaskId : Before(s.joinWaiters[y], t, u)
  BY DEF QueueMoves
<1> DEFINE W == s.joinWaiters[x]
           kept == Retain(s.ready, K)
<1>1. /\ kept \in Seq(TaskId) /\ Elements(kept) \subseteq Elements(s.ready)
      /\ Before(kept, t, u) => Before(s.ready, t, u)
  BY RetainElements, RetainKeepsOrder
<1> HIDE DEF kept
<1>2. CASE r.ready = s.ready \o W
  <2>1. \/ Before(s.ready, t, u) \/ Before(W, t, u)
        \/ t \in Elements(s.ready) /\ u \in Elements(W)
    BY <1>2, ConcatOrder
  <2> QED BY <2>1
<1>3. CASE r.ready = kept \o W
  <2>1. \/ Before(kept, t, u) \/ Before(W, t, u)
        \/ t \in Elements(kept) /\ u \in Elements(W)
    BY <1>1, <1>3, ConcatOrder
  <2> QED BY <1>1, <2>1
<1> QED BY <1>2, <1>3 DEF kept

\* Every operation of the scheduler moves the queue like that.
LEMMA NextMovesQueue ==
  ASSUME WellFormed(sched), Next
  PROVE  QueueMoves(sched, sched')
<1>1. /\ sched \in Scheduler /\ ReadyQueued(sched) /\ Mirrored(sched)
      /\ WaitersBlocked(sched)
  BY DEF WellFormed
<1>2. /\ sched.ready \in Seq(TaskId)
      /\ \A x \in TaskId : sched.joinWaiters[x] \in Seq(TaskId)
  BY <1>1 DEF Scheduler
<1>3. \A x \in TaskId :
        Elements(sched.joinWaiters[x]) \cap Elements(sched.ready) = {}
  BY <1>1, MaxTaskIdAssumption, NoTaskAssumption
  DEF Mirrored, ReadyQueued, WaitersBlocked, TaskId
<1>4. sched'.ready = sched.ready => QueueMoves(sched, sched')
  BY DEF QueueMoves
<1>5. ASSUME NEW e \in TaskId, sched.state[e] # "Ready",
             sched'.ready = Append(sched.ready, e)
      PROVE  QueueMoves(sched, sched')
  <2>1. e \notin Elements(sched.ready) BY <1>1, <1>5 DEF ReadyQueued
  <2> QED BY <1>2, <1>5, <2>1, PushedMoves
<1>6. CASE SpawnTask
  <2>1. CASE sched.nextTaskId = MaxTaskId
    BY <1>4, <1>6, <2>1 DEF SpawnTask, Spawn
  <2>2. CASE sched.nextTaskId # MaxTaskId
    BY <1>5, <1>6, <2>2, SpawnEffect DEF SpawnTask
  <2> QED BY <2>1, <2>2
<1>7. CASE DispatchStarts
  <2>1. CASE ReadyPositions(sched) = {}
    <3>1. sched'.ready = <<>>
      BY <1>1, <1>7, <2>1 DEF DispatchStarts, BeginDispatch, Scheduler
    <3> QED BY <3>1 DEF QueueMoves, Before
  <2>2. CASE ReadyPositions(sched) # {}
    <3>1. sched.ready # <<>> /\ sched'.ready = Tail(sched.ready)
      BY <1>7, <2>2, BeginDispatchEffect DEF DispatchStarts, Idle
    <3> QED BY <1>2, <3>1, TailOrder DEF QueueMoves
  <2> QED BY <2>1, <2>2
<1>8. ASSUME NEW step \in TaskStep, DispatchEnds(step)
      PROVE  QueueMoves(sched, sched')
  <2> DEFINE x == sched.running
  <2>1. /\ x \in TaskId /\ sched.state[x] = "Running"
        /\ step = "Yield" => sched'.ready = Append(sched.ready, x)
        /\ step = "Block" => sched'.ready = sched.ready
        /\ step \notin {"Yield", "Block"} =>
             sched'.ready = sched.ready \o sched.joinWaiters[x]
    BY <1>8, EndDispatchOutcome DEF DispatchEnds, Idle
  <2> HIDE DEF x
  <2>2. CASE step = "Yield" BY <1>5, <2>1, <2>2
  <2>3. CASE step = "Block" BY <1>4, <2>1, <2>3
  <2>4. CASE step \notin {"Yield", "Block"}
    BY <1>2, <1>3, <2>1, <2>4, ReleasedMoves
  <2> QED BY <2>2, <2>3, <2>4
<1>9. ASSUME NEW t \in TaskId, WakeTask(t)
      PROVE  QueueMoves(sched, sched')
  <2>1. CASE sched.state[t] # "Blocked"
    BY <1>4, <1>9, <2>1 DEF WakeTask, Wake
  <2>2. CASE sched.state[t] = "Blocked"
    BY <1>5, <1>9, <2>2, WakeEffect DEF WakeTask
  <2> QED BY <2>1, <2>2
<1>10. ASSUME NEW t \in TaskId, CancelTask(t)
       PROVE  QueueMoves(sched, sched')
  <2>1. CASE sched.state[t] \in {"Ready", "Blocked"}
    <3>1. sched'.ready = Retain(sched.ready, TaskId \ {t})
                           \o sched.joinWaiters[t]
      BY <1>10, <2>1, CancelEffect DEF CancelTask
    <3> QED BY <1>2, <1>3, <3>1, ReleasedMoves
  <2>2. CASE sched.state[t] \notin {"Ready", "Blocked"}
    BY <1>1, <1>4, <1>10, <2>2 DEF CancelTask, Cancel, Scheduler
  <2> QED BY <2>1, <2>2
<1>11. ASSUME NEW w \in TaskId, NEW t \in TaskId, JoinTasks(w, t)
       PROVE  QueueMoves(sched, sched')
  <2>1. \/ sched' = sched
        \/ sched'.ready = Retain(sched.ready, TaskId \ {w})
    BY ZenonT(60), <1>11, JoinEffect DEF JoinTasks, Blocks
  <2> QED BY <1>2, <1>4, <2>1, RetainedMoves
<1>12. ASSUME NEW t \in TaskId, CancelOthers(t)
       PROVE  QueueMoves(sched, sched')
  <2>1. /\ WellFormed(sched')
        /\ \A u \in TaskId \ {t} : sched'.state[u] # "Ready"
    <3>1. /\ WellFormed(sched')
          /\ sched'.state = [u \in TaskId |->
               IF u = t THEN IF sched.waitingOn[t] # NoTask THEN "Ready"
                             ELSE sched.state[t]
               ELSE IF sched.state[u] \in {"Ready", "Running", "Blocked"}
                      THEN "Cancelled" ELSE sched.state[u]]
      BY <1>12, CancelPendingEffect DEF CancelOthers, Idle
    <3> QED BY <3>1
  <2>2. /\ sched'.ready \in Seq(TaskId) /\ Distinct(sched'.ready)
        /\ Elements(sched'.ready) \subseteq {t}
    BY <2>1 DEF WellFormed, ReadyQueued, Scheduler
  <2>3. \A a, b : ~Before(sched'.ready, a, b)
    BY <2>2, OneOrder
  <2> QED BY <2>3 DEF QueueMoves
<1> QED BY <1>6, <1>7, <1>8, <1>9, <1>10, <1>11, <1>12 DEF Next

\* The queue is first in, first out: yielding, waking, joining, cancelling and
\* releasing joiners never let one task overtake another that stays queued.
THEOREM QueueIsFifo == Spec => FifoOrder
<1> DEFINE Fair == \A t, u \in TaskId :
             /\ Before(sched.ready, t, u) => ~Before(sched'.ready, u, t)
             /\ t \in Elements(sched.ready) /\ u \notin Elements(sched.ready)
                  => ~Before(sched'.ready, u, t)
<1>1. ASSUME WellFormed(sched), [Next]_sched PROVE [Fair]_sched
  <2> SUFFICES ASSUME Next, NEW t \in TaskId, NEW u \in TaskId,
                      Before(sched'.ready, u, t)
               PROVE  /\ ~Before(sched.ready, t, u)
                      /\ ~(t \in Elements(sched.ready)
                             /\ u \notin Elements(sched.ready))
    BY <1>1
  <2>1. /\ sched \in Scheduler /\ ReadyQueued(sched) /\ Mirrored(sched)
        /\ WaitersBlocked(sched)
    BY <1>1 DEF WellFormed
  <2>2. sched.ready \in Seq(TaskId) /\ Distinct(sched.ready)
    BY <2>1 DEF Scheduler, ReadyQueued
  <2>3. \/ Before(sched.ready, u, t)
        \/ u \in Elements(sched.ready) /\ t \notin Elements(sched.ready)
        \/ \E x \in TaskId : Before(sched.joinWaiters[x], u, t)
    BY <1>1, NextMovesQueue DEF QueueMoves
  <2>4. Before(sched.ready, t, u) =>
          t \in Elements(sched.ready) /\ ~Before(sched.ready, u, t)
    BY <2>2, OneOrder
  <2>5. Before(sched.ready, u, t) => u \in Elements(sched.ready)
    BY <2>2, OneOrder
  <2>6. ASSUME NEW x \in TaskId, Before(sched.joinWaiters[x], u, t)
        PROVE  t \notin Elements(sched.ready)
    <3>1. sched.joinWaiters[x] \in Seq(TaskId) /\ x # NoTask
      BY SMTT(30), <2>1, MaxTaskIdAssumption, NoTaskAssumption
      DEF Scheduler, TaskId
    <3>2. Distinct(sched.joinWaiters[x]) BY <2>1 DEF Mirrored
    <3>3. t \in Elements(sched.joinWaiters[x])
      BY <2>6, <3>1, <3>2, OneOrder
    <3>4. sched.waitingOn[t] = x BY <2>1, <3>3 DEF Mirrored
    <3> QED BY <2>1, <3>1, <3>4 DEF WaitersBlocked, ReadyQueued
  <2> QED BY <2>3, <2>4, <2>5, <2>6
<1> QED BY <1>1, AlwaysWellFormed, PTL DEF Spec, FifoOrder
-----------------------------------------------------------------------------
\* The lifecycle contract.

\* Each operation is one step of TaskLifecycle, or none.
LEMMA StepOnLifecycle ==
  ASSUME WellFormed(sched), [Next]_sched
  PROVE  [Lifecycle!Next]_(Lifecycle!vars)
<1>1. /\ sched \in Scheduler /\ Booked(sched) /\ Mirrored(sched)
      /\ WaitersBlocked(sched)
  BY DEF WellFormed
<1>2. sched.running = NoTask => \A u \in TaskId : sched.state[u] # "Running"
  BY <1>1, MaxTaskIdAssumption, NoTaskAssumption DEF Booked, TaskId
<1>3. CASE sched'.state = sched.state /\ sched'.waitingOn = sched.waitingOn
  BY <1>3 DEF Lifecycle!vars
<1>4. CASE SpawnTask
  <2>1. CASE sched.nextTaskId = MaxTaskId
    BY <1>3, <1>4, <2>1 DEF SpawnTask, Spawn
  <2>2. CASE sched.nextTaskId # MaxTaskId
    <3> DEFINE n == sched.nextTaskId
    <3>1. /\ n \in TaskId /\ sched.state[n] = "Absent"
          /\ sched'.state = [sched.state EXCEPT ![n] = "Ready"]
          /\ sched'.waitingOn = sched.waitingOn
      BY <1>4, <2>2, SpawnEffect DEF SpawnTask
    <3> HIDE DEF n
    <3>2. Lifecycle!Create(n) BY <3>1 DEF Lifecycle!Create
    <3> QED BY <3>1, <3>2 DEF Lifecycle!Next
  <2> QED BY <2>1, <2>2
<1>5. CASE DispatchStarts
  <2>1. CASE ReadyPositions(sched) = {}
    BY <1>1, <1>3, <1>5, <2>1 DEF DispatchStarts, BeginDispatch, Scheduler
  <2>2. CASE ReadyPositions(sched) # {}
    <3> DEFINE t == Head(sched.ready)
    <3>1. /\ t \in TaskId /\ sched.state[t] = "Ready"
          /\ sched'.state = [sched.state EXCEPT ![t] = "Running"]
      BY <1>5, <2>2, BeginDispatchEffect DEF DispatchStarts, Idle
    <3>2. sched'.waitingOn = sched.waitingOn
      BY <1>1, <1>5, <2>2 DEF DispatchStarts, BeginDispatch, Scheduler
    <3>3. \A u \in TaskId : sched.state[u] # "Running"
      BY <1>2, <1>5 DEF DispatchStarts, Idle
    <3> HIDE DEF t
    <3>4. Lifecycle!Start(t) BY <3>1, <3>2, <3>3 DEF Lifecycle!Start
    <3> QED BY <3>1, <3>4 DEF Lifecycle!Next
  <2> QED BY <2>1, <2>2
<1>6. ASSUME NEW t \in TaskId, NEW f \in Terminal, Ends(sched, sched', t, f)
      PROVE  Lifecycle!Finish(t, f)
  BY <1>6 DEF Ends, Lifecycle!Finish
<1>7. ASSUME NEW step \in TaskStep, DispatchEnds(step)
      PROVE  Lifecycle!Next
  <2> DEFINE t == sched.running
  <2>1. /\ t \in TaskId /\ sched.state[t] = "Running"
        /\ step = "Yield" =>
             /\ sched'.state = [sched.state EXCEPT ![t] = "Ready"]
             /\ sched'.waitingOn = sched.waitingOn
        /\ step = "Block" =>
             /\ sched'.state = [sched.state EXCEPT ![t] = "Blocked"]
             /\ sched'.waitingOn = sched.waitingOn
        /\ step \notin {"Yield", "Block"} =>
             /\ StateAfter(step) \in Terminal
             /\ Ends(sched, sched', t, StateAfter(step))
    BY <1>7, EndDispatchOutcome DEF DispatchEnds, Idle
  <2> HIDE DEF t
  <2>2. CASE step = "Yield"
    <3>1. Lifecycle!Pause(t, "Ready") BY <2>1, <2>2 DEF Lifecycle!Pause
    <3> QED BY <2>1, <3>1 DEF Lifecycle!Next
  <2>3. CASE step = "Block"
    <3>1. Lifecycle!Pause(t, "Blocked") BY <2>1, <2>3 DEF Lifecycle!Pause
    <3> QED BY <2>1, <3>1 DEF Lifecycle!Next
  <2>4. CASE step \notin {"Yield", "Block"}
    <3>1. Lifecycle!Finish(t, StateAfter(step)) BY <1>6, <2>1, <2>4
    <3>2. Lifecycle!End(t)
      BY <2>1, <2>4, <3>1 DEF Lifecycle!End, Lifecycle!Final, Terminal
    <3> QED BY <2>1, <3>2 DEF Lifecycle!Next
  <2> QED BY <2>2, <2>3, <2>4
<1>8. ASSUME NEW t \in TaskId, WakeTask(t)
      PROVE  [Lifecycle!Next]_(Lifecycle!vars)
  <2>1. CASE sched.state[t] # "Blocked"
    BY <1>3, <1>8, <2>1 DEF WakeTask, Wake
  <2>2. CASE sched.state[t] = "Blocked"
    <3>1. /\ sched'.state = [sched.state EXCEPT ![t] = "Ready"]
          /\ sched'.waitingOn = [sched.waitingOn EXCEPT ![t] = NoTask]
      BY <1>8, <2>2, WakeEffect DEF WakeTask
    <3>2. Lifecycle!Resume(t) BY <2>2, <3>1 DEF Lifecycle!Resume
    <3> QED BY <3>2 DEF Lifecycle!Next
  <2> QED BY <2>1, <2>2
<1>9. ASSUME NEW t \in TaskId, CancelTask(t)
      PROVE  [Lifecycle!Next]_(Lifecycle!vars)
  <2>1. CASE sched.state[t] \in {"Ready", "Blocked"}
    <3>1. Ends(sched, sched', t, "Cancelled")
      BY <1>9, <2>1, CancelEffect DEF CancelTask
    <3>2. Lifecycle!Finish(t, "Cancelled") BY <1>6, <3>1 DEF Terminal
    <3>3. Lifecycle!Stop(t) BY <2>1, <3>2 DEF Lifecycle!Stop
    <3> QED BY <3>3 DEF Lifecycle!Next
  <2>2. CASE sched.state[t] \notin {"Ready", "Blocked"}
    <3>1. sched.state[t] # "Running" BY <1>2, <1>9 DEF CancelTask, Idle
    <3> QED BY <1>3, <1>9, <2>2, <3>1 DEF CancelTask, Cancel
  <2> QED BY <2>1, <2>2
<1>10. ASSUME NEW w \in TaskId, NEW t \in TaskId, JoinTasks(w, t)
       PROVE  [Lifecycle!Next]_(Lifecycle!vars)
  <2>1. CASE sched' = sched BY <1>3, <2>1
  <2>2. CASE sched' # sched
    <3>1. Blocks(sched, sched', w, t) BY <1>10, <2>2, JoinEffect DEF JoinTasks
    <3>2. Lifecycle!AwaitEnd(w, t)
      BY <3>1 DEF Blocks, Lifecycle!AwaitEnd, Lifecycle!Live
    <3> QED BY <3>2 DEF Lifecycle!Next
  <2> QED BY <2>1, <2>2
<1>11. ASSUME NEW t \in TaskId, CancelOthers(t)
       PROVE  Lifecycle!Next
  <2>1. /\ sched'.state = [u \in TaskId |->
             IF u = t THEN IF sched.waitingOn[t] # NoTask THEN "Ready"
                           ELSE sched.state[t]
             ELSE IF sched.state[u] \in {"Ready", "Running", "Blocked"}
                    THEN "Cancelled" ELSE sched.state[u]]
        /\ sched'.waitingOn = [u \in TaskId |-> NoTask]
    BY <1>11, CancelPendingEffect DEF CancelOthers, Idle
  <2>2. \A u \in TaskId : sched.state[u] # "Running"
    BY <1>2, <1>11 DEF CancelOthers, Idle
  <2>3. Lifecycle!StopOthers(t)
    BY <2>1, <2>2 DEF Lifecycle!StopOthers, Lifecycle!Live
  <2> QED BY <2>3 DEF Lifecycle!Next
<1> QED BY <1>3, <1>4, <1>5, <1>7, <1>8, <1>9, <1>10, <1>11 DEF Next

\* The scheduler implements the lifecycle contract: in the abstraction that
\* forgets the queue, the reverse index of joins and the identity order, every
\* operation is one lifecycle step or none.
THEOREM ImplementsLifecycle == Spec => LifecycleSpec
<1>1. Init => Lifecycle!Init
  BY DEF Init, NewScheduler, Lifecycle!Init
<1> QED BY <1>1, StepOnLifecycle, AlwaysWellFormed, PTL
        DEF Spec, LifecycleSpec, Lifecycle!Spec

\* No joiner misses the end of its target: a lifecycle step that ends a task
\* releases everyone who waits for it.
LEMMA LifecycleReleases ==
  ASSUME WellFormed(sched), Lifecycle!Next,
         NEW t \in TaskId, ~IsTerminal(sched, t), IsTerminal(sched', t),
         NEW w \in TaskId, sched.waitingOn[w] = t
  PROVE  sched'.waitingOn[w] = NoTask /\ sched'.state[w] # "Blocked"
<1>1. /\ sched \in Scheduler /\ sched.state[w] = "Blocked" /\ w # t
      /\ t # NoTask /\ sched.state \in [TaskId -> TaskState]
  BY MaxTaskIdAssumption, NoTaskAssumption
  DEF WellFormed, WaitersBlocked, Scheduler, TaskId
<1>2. sched.state[t] \notin Terminal /\ sched'.state[t] \in Terminal
  BY DEF IsTerminal
\* Only Finish and StopOthers make a task terminal.
<1>3. ASSUME NEW u \in TaskId, NEW x \in {"Ready", "Running", "Blocked"},
             sched'.state = [sched.state EXCEPT ![u] = x]
      PROVE  FALSE
  BY <1>1, <1>2, <1>3 DEF Terminal
<1>4. ASSUME NEW u \in TaskId, NEW f, Lifecycle!Finish(u, f)
      PROVE  sched'.waitingOn[w] = NoTask /\ sched'.state[w] # "Blocked"
  <2>1. u = t BY <1>1, <1>2, <1>4 DEF Lifecycle!Finish, Terminal
  <2> QED BY <1>1, <1>4, <2>1 DEF Lifecycle!Finish
<1>5. ASSUME NEW u \in TaskId, Lifecycle!StopOthers(u)
      PROVE  sched'.waitingOn[w] = NoTask /\ sched'.state[w] # "Blocked"
  BY <1>1, <1>5 DEF Lifecycle!StopOthers, Lifecycle!Live
<1>6. \E u, v \in TaskId :
        \/ Lifecycle!StopOthers(u)
        \/ \E f : Lifecycle!Finish(u, f)
        \/ \E x \in {"Ready", "Running", "Blocked"} :
             sched'.state = [sched.state EXCEPT ![u] = x]
  BY DEF Lifecycle!Next, Lifecycle!Create, Lifecycle!Start, Lifecycle!End,
         Lifecycle!Stop, Lifecycle!Resume, Lifecycle!Pause, Lifecycle!AwaitEnd
<1> QED BY <1>3, <1>4, <1>5, <1>6

\* The step that ends a task unblocks all its joiners, and they are queued in
\* the order in which they registered.
THEOREM NoJoinerMissed == Spec => JoinersReleased
<1> DEFINE Released ==
             /\ \A t \in TaskId : ~IsTerminal(sched, t) /\ IsTerminal(sched, t)' =>
                  \A w \in Elements(sched.joinWaiters[t]) :
                     sched'.waitingOn[w] = NoTask /\ sched'.state[w] # "Blocked"
             /\ \A t, v, w \in TaskId :
                  Before(sched.joinWaiters[t], v, w)
                    => ~Before(sched'.ready, w, v)
<1>1. ASSUME WellFormed(sched), [Next]_sched PROVE [Released]_sched
  <2> SUFFICES ASSUME Next PROVE Released BY <1>1
  <2>1. /\ sched \in Scheduler /\ ReadyQueued(sched) /\ Mirrored(sched)
        /\ WaitersBlocked(sched)
        /\ \A t \in TaskId : t # NoTask
    BY <1>1, MaxTaskIdAssumption, NoTaskAssumption DEF WellFormed, TaskId
  <2>2. ASSUME NEW t \in TaskId, ~IsTerminal(sched, t), IsTerminal(sched', t),
               NEW w \in Elements(sched.joinWaiters[t])
        PROVE  sched'.waitingOn[w] = NoTask /\ sched'.state[w] # "Blocked"
    <3>1. w \in TaskId /\ sched.waitingOn[w] = t BY <2>1 DEF Mirrored
    <3>2. sched'.state # sched.state BY <2>2 DEF IsTerminal
    <3>3. Lifecycle!Next BY <1>1, <3>2, StepOnLifecycle DEF Lifecycle!vars
    <3> QED BY <1>1, <2>2, <3>1, <3>3, LifecycleReleases
  <2>3. ASSUME NEW t \in TaskId, NEW v \in TaskId, NEW w \in TaskId,
               Before(sched.joinWaiters[t], v, w), Before(sched'.ready, w, v)
        PROVE  FALSE
    <3>1. \A x \in TaskId : /\ sched.joinWaiters[x] \in Seq(TaskId)
                            /\ Distinct(sched.joinWaiters[x])
      BY <2>1 DEF Scheduler, Mirrored
    <3>2. /\ v \in Elements(sched.joinWaiters[t])
          /\ w \in Elements(sched.joinWaiters[t])
          /\ ~Before(sched.joinWaiters[t], w, v)
      BY <2>3, <3>1, OneOrder
    <3>3. sched.waitingOn[v] = t /\ sched.waitingOn[w] = t
      BY <2>1, <3>2 DEF Mirrored
    <3>4. v \notin Elements(sched.ready) /\ w \notin Elements(sched.ready)
      BY <2>1, <3>3 DEF WaitersBlocked, ReadyQueued
    <3>5. ~Before(sched.ready, w, v)
      BY <2>1, <3>4, OneOrder DEF Scheduler, ReadyQueued
    <3>6. PICK x \in TaskId : Before(sched.joinWaiters[x], w, v)
      BY <1>1, <2>3, <3>4, <3>5, NextMovesQueue DEF QueueMoves
    <3>7. v \in Elements(sched.joinWaiters[x]) BY <3>1, <3>6, OneOrder
    <3>8. sched.waitingOn[v] = x BY <2>1, <3>7 DEF Mirrored
    <3> QED BY <3>2, <3>3, <3>6, <3>8
  <2> QED BY <2>2, <2>3 DEF IsTerminal
<1> QED BY <1>1, AlwaysWellFormed, PTL DEF Spec, JoinersReleased
=============================================================================
