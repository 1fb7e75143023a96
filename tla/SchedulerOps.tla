---------------------------- MODULE SchedulerOps ----------------------------
(***************************************************************************)
(* The operations of CooperativeScheduler<T> (vm-rs/src/scheduler.rs) as   *)
(* operators on a scheduler value s, a record with one field per field of  *)
(* the struct:                                                             *)
(*   nextTaskId              the identity the next spawn hands out         *)
(*   state                   tasks[t].state, "Absent" before t is spawned  *)
(*   cancellationRequested   tasks[t].cancellation_requested               *)
(*   ready                   the FIFO queue of task identities             *)
(*   running                 the dispatched task, or NoTask                *)
(*   joinWaiters             target |-> its waiters, <<>> for a missing key*)
(*   waitingOn               waiter |-> its target, NoTask for a missing   *)
(*                           key                                           *)
(* The payload type T is opaque to the scheduler and is not represented.   *)
(* An operation that returns an error leaves the value unchanged.          *)
(***************************************************************************)
EXTENDS Integers, Sequences

CONSTANTS MaxTaskId,   \* usize::MAX: the first identity spawn cannot hand out
          NoTask       \* the None of running and of waitingOn

ASSUME MaxTaskIdAssumption == MaxTaskId \in Nat
ASSUME NoTaskAssumption == NoTask \notin 0..MaxTaskId

TaskId == 0..(MaxTaskId - 1)
Terminal == {"Completed", "Failed", "Cancelled"}
TaskState == {"Absent", "Ready", "Running", "Blocked"} \cup Terminal
TaskStep == {"Yield", "Block", "Complete", "Fail", "Cancel"}

Scheduler ==
  [nextTaskId : 0..MaxTaskId,
   state : [TaskId -> TaskState],
   cancellationRequested : [TaskId -> BOOLEAN],
   ready : Seq(TaskId),
   running : TaskId \cup {NoTask},
   joinWaiters : [TaskId -> Seq(TaskId)],
   waitingOn : [TaskId -> TaskId \cup {NoTask}]]

NewScheduler ==
  [nextTaskId |-> 0,
   state |-> [t \in TaskId |-> "Absent"],
   cancellationRequested |-> [t \in TaskId |-> FALSE],
   ready |-> <<>>,
   running |-> NoTask,
   joinWaiters |-> [t \in TaskId |-> <<>>],
   waitingOn |-> [t \in TaskId |-> NoTask]]

Known(s, t) == s.state[t] # "Absent"
IsTerminal(s, t) == s.state[t] \in Terminal
IsComplete(s) == \A t \in TaskId : Known(s, t) => IsTerminal(s, t)

Distinct(seq) == \A i, j \in 1..Len(seq) : seq[i] = seq[j] => i = j
Elements(seq) == {seq[i] : i \in 1..Len(seq)}

\* VecDeque::retain and Vec::retain with a membership predicate.
\* The loop keeps a prefix per position visited.
KeptPrefix(seq, keep) ==
  LET kept[n \in 0..Len(seq)] ==
        IF n = 0 THEN <<>>
        ELSE IF seq[n] \in keep THEN Append(kept[n - 1], seq[n])
        ELSE kept[n - 1]
  IN  kept
Retain(seq, keep) == KeptPrefix(seq, keep)[Len(seq)]

Spawn(s) ==
  IF s.nextTaskId = MaxTaskId
    THEN s
    ELSE [s EXCEPT !.nextTaskId = @ + 1,
                   !.state[s.nextTaskId] = "Ready",
                   !.cancellationRequested[s.nextTaskId] = FALSE,
                   !.ready = Append(@, s.nextTaskId)]

RemoveJoinWaiter(s, waiter) ==
  IF s.waitingOn[waiter] = NoTask
    THEN s
    ELSE [s EXCEPT !.waitingOn[waiter] = NoTask,
                   !.joinWaiters[s.waitingOn[waiter]] =
                       Retain(@, TaskId \ {waiter})]

\* The listed waiters that still wait on the target are released; the blocked
\* ones among them are queued at the tail in registration order.
WakeJoiners(s, target) ==
  LET released == {w \in Elements(s.joinWaiters[target]) :
                     s.waitingOn[w] = target}
      blocked == {w \in released : s.state[w] = "Blocked"}
  IN  [s EXCEPT
        !.joinWaiters[target] = <<>>,
        !.waitingOn = [w \in TaskId |-> IF w \in released THEN NoTask
                                        ELSE s.waitingOn[w]],
        !.state = [w \in TaskId |-> IF w \in blocked THEN "Ready"
                                    ELSE s.state[w]],
        !.ready = @ \o Retain(s.joinWaiters[target], blocked)]

\* pop_front until the popped identity belongs to a Ready task.
ReadyPositions(s) == {i \in 1..Len(s.ready) : s.state[s.ready[i]] = "Ready"}
FirstReady(s) ==
  CHOOSE i \in ReadyPositions(s) : \A j \in ReadyPositions(s) : i <= j

\* Seeded fault: the newest Ready task is dispatched, not the oldest.
BeginDispatchNewest(s) ==
  IF s.ready = <<>> THEN s
  ELSE [s EXCEPT !.ready = SubSeq(@, 1, Len(@) - 1),
                 !.state[s.ready[Len(s.ready)]] = "Running",
                 !.running = s.ready[Len(s.ready)]]

\* dispatch up to the call of the executor: without a ready task it answers
\* None and only the stale queue entries are gone.
BeginDispatch(s) ==
  IF ReadyPositions(s) = {}
    THEN [s EXCEPT !.ready = <<>>]
    ELSE LET t == s.ready[FirstReady(s)]
         IN  [s EXCEPT !.ready = SubSeq(@, FirstReady(s) + 1, Len(@)),
                       !.state[t] = "Running",
                       !.running = t]

StateAfter(step) ==
  CASE step = "Yield" -> "Ready"
    [] step = "Block" -> "Blocked"
    [] step = "Complete" -> "Completed"
    [] step = "Fail" -> "Failed"
    [] step = "Cancel" -> "Cancelled"

\* Seeded fault: a yielding task goes back to the head of the queue.
EndDispatchToHead(s, step) ==
  LET ended == [s EXCEPT !.running = NoTask,
                         !.state[s.running] = StateAfter(step)]
  IN  CASE ended.state[s.running] = "Ready" ->
             [ended EXCEPT !.ready = <<s.running>> \o @]
        [] ended.state[s.running] \in Terminal ->
             WakeJoiners(ended, s.running)
        [] OTHER -> ended

\* Seeded fault: only a completed target releases its joiners.
EndDispatchFailureSilent(s, step) ==
  LET ended == [s EXCEPT !.running = NoTask,
                         !.state[s.running] = StateAfter(step)]
  IN  CASE step = "Yield" -> [ended EXCEPT !.ready = Append(@, s.running)]
        [] step = "Complete" -> WakeJoiners(ended, s.running)
        [] OTHER -> ended

\* dispatch after the executor returned step.
EndDispatch(s, step) ==
  LET t == s.running
      next == IF s.cancellationRequested[t] THEN "Cancelled"
              ELSE StateAfter(step)
      ended == [s EXCEPT !.running = NoTask, !.state[t] = next]
  IN  IF next = "Ready" THEN [ended EXCEPT !.ready = Append(@, t)]
      ELSE IF next \in Terminal THEN WakeJoiners(ended, t)
      ELSE ended

\* Seeded fault: an explicit wake leaves the join registration behind.
WakeKeepsJoin(s, t) ==
  IF s.state[t] # "Blocked" THEN s
  ELSE [s EXCEPT !.state[t] = "Ready", !.ready = Append(@, t)]

Wake(s, t) ==
  LET freed == RemoveJoinWaiter(s, t)
  IN  IF s.state[t] # "Blocked" THEN s
      ELSE IF s.cancellationRequested[t]
        THEN WakeJoiners([freed EXCEPT !.state[t] = "Cancelled"], t)
        ELSE [freed EXCEPT !.state[t] = "Ready", !.ready = Append(@, t)]

Cancel(s, t) ==
  CASE s.state[t] = "Ready" ->
         WakeJoiners([s EXCEPT !.ready = Retain(@, TaskId \ {t}),
                               !.state[t] = "Cancelled"], t)
    [] s.state[t] = "Running" ->
         [s EXCEPT !.cancellationRequested[t] = TRUE]
    [] s.state[t] = "Blocked" ->
         WakeJoiners([RemoveJoinWaiter(s, t) EXCEPT
                        !.state[t] = "Cancelled"], t)
    [] OTHER -> s

JoinReply(s, waiter, target) ==
  CASE waiter = target -> "SelfJoin"
    [] waiter # target /\ ~(Known(s, waiter) /\ Known(s, target)) ->
         "UnknownTask"
    [] OTHER ->
         IF IsTerminal(s, target) THEN "Ready"
         ELSE IF s.state[waiter] = "Ready" THEN "Waiting"
         ELSE IF s.state[waiter] # "Blocked" THEN "TaskNotJoinable"
         ELSE IF s.waitingOn[waiter] = target THEN "Waiting"
         ELSE "TaskAlreadyWaiting"

Join(s, waiter, target) ==
  IF JoinReply(s, waiter, target) = "Waiting" /\ s.state[waiter] = "Ready"
    THEN [s EXCEPT !.ready = Retain(@, TaskId \ {waiter}),
                   !.state[waiter] = "Blocked",
                   !.waitingOn[waiter] = target,
                   !.joinWaiters[target] = Append(@, waiter)]
    ELSE s

\* Seeded fault: only the tasks spawned before t are visited.
CancelledOlder(s, t) ==
  LET after[k \in 0..MaxTaskId] ==
        IF k = 0 THEN s
        ELSE IF k - 1 >= t \/ ~Known(s, k - 1) THEN after[k - 1]
        ELSE Cancel(after[k - 1], k - 1)
  IN  after

\* Cancels every other task in identity order: the value at k is the scheduler
\* once the identities below k were visited.
CancelledBelow(s, t) ==
  LET after[k \in 0..MaxTaskId] ==
        IF k = 0 THEN s
        ELSE IF k - 1 = t \/ ~Known(s, k - 1) THEN after[k - 1]
        ELSE Cancel(after[k - 1], k - 1)
  IN  after
CancelPendingExcept(s, t) == CancelledBelow(s, t)[MaxTaskId]
-----------------------------------------------------------------------------
\* What every operation keeps of a scheduler value.

\* The queue holds exactly the Ready tasks, each once.
ReadyQueued(s) ==
  /\ Distinct(s.ready)
  /\ Elements(s.ready) = {t \in TaskId : s.state[t] = "Ready"}

\* join_waiters and waiting_on are inverse to each other.
Mirrored(s) ==
  \A t \in TaskId :
    /\ Distinct(s.joinWaiters[t])
    /\ Elements(s.joinWaiters[t]) = {w \in TaskId : s.waitingOn[w] = t}

\* Only a Blocked task waits, and for another known task.
WaitersBlocked(s) ==
  \A w \in TaskId : s.waitingOn[w] # NoTask =>
    /\ s.state[w] = "Blocked"
    /\ s.waitingOn[w] # w
    /\ Known(s, s.waitingOn[w])

\* Nobody waits for a task that has already ended.
TargetsLive(s) ==
  \A w \in TaskId :
    s.waitingOn[w] # NoTask => ~IsTerminal(s, s.waitingOn[w])

\* running, the identity counter and the task map agree, and no cancellation
\* request is pending.
Booked(s) ==
  \A t \in TaskId : /\ s.state[t] = "Running" <=> s.running = t
                    /\ Known(s, t) <=> t < s.nextTaskId
                    /\ ~s.cancellationRequested[t]

WellFormed(s) == /\ s \in Scheduler
                 /\ ReadyQueued(s)
                 /\ Mirrored(s)
                 /\ WaitersBlocked(s)
                 /\ TargetsLive(s)
                 /\ Booked(s)
=============================================================================
