------------------------ MODULE CooperativeScheduler ------------------------
(***************************************************************************)
(* CooperativeScheduler<T> of vm-rs/src/scheduler.rs as a state machine:   *)
(* any host that owns one scheduler value and calls its operations in any  *)
(* legal order.  dispatch is two steps, because the executor callback runs *)
(* between them; it holds the only mutable borrow of the scheduler, so no  *)
(* other operation can be called until it returned.                        *)
(***************************************************************************)
EXTENDS SchedulerOps

VARIABLE sched

Init == sched = NewScheduler

\* No dispatch holds the borrow.
Idle == sched.running = NoTask

SpawnTask == Idle /\ sched' = Spawn(sched)

DispatchStarts == Idle /\ sched' = BeginDispatch(sched)

DispatchEnds(step) == ~Idle /\ sched' = EndDispatch(sched, step)

WakeTask(t) == Idle /\ sched' = Wake(sched, t)

CancelTask(t) == Idle /\ sched' = Cancel(sched, t)

JoinTasks(w, t) == Idle /\ sched' = Join(sched, w, t)

CancelOthers(t) ==
  Idle /\ Known(sched, t) /\ sched' = CancelPendingExcept(sched, t)

Next ==
  \/ SpawnTask
  \/ DispatchStarts
  \/ \E step \in TaskStep : DispatchEnds(step)
  \/ \E t \in TaskId : WakeTask(t)
  \/ \E t \in TaskId : CancelTask(t)
  \/ \E w, t \in TaskId : JoinTasks(w, t)
  \/ \E t \in TaskId : CancelOthers(t)

Spec == Init /\ [][Next]_sched

\* The executor runs at most a quantum of instructions and returns, and the
\* host keeps calling dispatch (run_until_waiting).
FairSpec == /\ Spec
            /\ WF_sched(DispatchStarts)
            /\ WF_sched(\E step \in TaskStep : DispatchEnds(step))
-----------------------------------------------------------------------------
TypeOK == sched \in Scheduler

\* spawn, yield, wake, cancel, join and wake_joiners keep the ready queue and
\* the task states in step: the queue holds exactly the Ready tasks, each once,
\* so no task is dispatched twice, forgotten, or dispatched after it ended.
QueueHoldsReady == ReadyQueued(sched)

\* join_waiters and waiting_on mirror each other, and each registration is of
\* a Blocked waiter on another task that can still end.  A registration on a
\* terminal task would be a wake-up lost for ever.
JoinsMirrored == Mirrored(sched) /\ WaitersBlocked(sched) /\ TargetsLive(sched)

\* The running field, the single Running state and the identity counter agree
\* with the task map, and no cancellation request outlives the call that made
\* it: cancel never meets a Running task, so a later dispatch or wake cannot
\* be turned into a cancellation nobody asked for.
Bookkeeping == Booked(sched)

\* The scheduler's fields agree after every operation, whichever one it was.
Consistent == TypeOK /\ QueueHoldsReady /\ JoinsMirrored /\ Bookkeeping

\* A host that sees dispatch answer None, and not everything complete, has a
\* blocked task to wake: Waiting is never reported with nothing to wait for.
WaitingMeansBlocked ==
  Idle /\ ReadyPositions(sched) = {} =>
    IsComplete(sched) \/ \E t \in TaskId : sched.state[t] = "Blocked"

\* Before(seq, t, u): t is queued ahead of u.
Before(seq, t, u) ==
  \E i, j \in 1..Len(seq) : i < j /\ seq[i] = t /\ seq[j] = u

\* FIFO creation and requeue order: a task that stays queued is never
\* overtaken, neither by another queued task nor by one the step queues.
FifoOrder ==
  [][\A t, u \in TaskId :
       /\ Before(sched.ready, t, u) => ~Before(sched'.ready, u, t)
       /\ t \in Elements(sched.ready) /\ u \notin Elements(sched.ready)
            => ~Before(sched'.ready, u, t)]_sched

\* Nobody misses the end of the task it joined: the step that makes a task
\* terminal (dispatch, cancel, or the cancellation of everyone else) also
\* unblocks all its joiners, and they are queued in registration order.
JoinersReleased ==
  [][/\ \A t \in TaskId : ~IsTerminal(sched, t) /\ IsTerminal(sched, t)' =>
          \A w \in Elements(sched.joinWaiters[t]) :
             sched'.waitingOn[w] = NoTask /\ sched'.state[w] # "Blocked"
     /\ \A t, v, w \in TaskId :
          Before(sched.joinWaiters[t], v, w) => ~Before(sched'.ready, w, v)]_sched

\* A terminal outcome is final, and spawn never hands an identity out twice.
OutcomesFinal ==
  [][\A t \in TaskId :
       /\ IsTerminal(sched, t) => sched'.state[t] = sched.state[t]
       /\ Known(sched, t) => Known(sched, t)']_sched

\* Nobody starves: the host's joins, wakes and spawns cannot keep a Ready task
\* in the queue for ever.
ReadyLeavesQueue ==
  \A t \in TaskId : sched.state[t] = "Ready" ~> sched.state[t] # "Ready"

\* The lifecycle contract: the scheduler implements TaskLifecycle.
Lifecycle == INSTANCE TaskLifecycle
               WITH Task <- TaskId, None <- NoTask,
                    state <- sched.state, waits <- sched.waitingOn
LifecycleSpec == Lifecycle!Spec
=============================================================================
