--------------------------- MODULE CooperativeRun ---------------------------
(***************************************************************************)
(* A cooperative session, CooperativeRun of vm-rs/src/vm.rs: one VM and    *)
(* one scheduler, driven by a host that spawns, joins, wakes, cancels,     *)
(* drains output and calls step or run_until_waiting.                      *)
(*                                                                         *)
(* Every method borrows the session, so host calls do not interleave with  *)
(* a step.  The one thing shared with other threads is the atomic flag of  *)
(* CancellationToken: a step is therefore split wherever it reads the flag *)
(* (the checkpoint of each instruction, an allocation, the end of step).   *)
(*                                                                         *)
(* What the program computes is left open.  An instruction is one of: a    *)
(* step inside the frame, an allocation, a print, a call, a return, or a   *)
(* runtime error.  A frame is represented by its place in the stack.       *)
(***************************************************************************)
EXTENDS SchedulerOps

CONSTANTS Quantum,           \* instructions per dispatch
          MaxSteps,          \* max_instruction_steps
          MaxCallDepth,      \* max_call_depth
          MaxElements,       \* max_runtime_elements
          MaxOutputBytes,    \* max_output_bytes
          PrintSizes,        \* lengths of the texts the program prints
          Modes              \* the ways this session may be started

ASSUME LimitsAssumption ==
  /\ Quantum \in Nat \ {0}
  /\ {MaxSteps, MaxCallDepth, MaxElements, MaxOutputBytes} \subseteq Nat
  /\ PrintSizes \subseteq Nat \ {0}
ASSUME ModesAssumption == Modes \subseteq {"plain", "trace", "debug"}

VARIABLES
  mode,        \* start_cooperative, start_cooperative_trace or .._debug
  sched,       \* the scheduler
  task,        \* the payload ScheduledVmTask of every task
  call,        \* how far the host's current step has come
  steps,       \* instruction_steps
  elements,    \* runtime_elements
  log,         \* output, output_bytes, the event lists and their sequence
  debugState,  \* active_cooperative_debug_state
  quit,        \* cooperative_debug_quit
  token,       \* the cancellation token is set
  driving      \* the host is inside run_until_waiting

vars == <<mode, sched, task, call, steps, elements, log, debugState, quit,
          token, driving>>

ErrorKind == {"Runtime", "Cancelled", "InstructionSteps", "CallDepth",
              "RuntimeElements", "OutputBytes"}

\* frames counts the frame stack; stack is the depth of the trace stack and
\* started tells whether the entry frame was pushed on it.
Payload == [frames : Nat, started : BOOLEAN, stack : Nat,
            result : BOOLEAN, error : ErrorKind \cup {"None"}]
NoPayload == [frames |-> 0, started |-> FALSE, stack |-> 0,
              result |-> FALSE, error |-> "None"]
NewTask == [NoPayload EXCEPT !.frames = 1]

\* task_trace_enabled and task_trace_collect_events.
Traced == mode \in {"trace", "debug"}
Collecting == mode = "trace"
\* What a debugger hook may answer; without a hook nobody asks.
Controls == IF mode = "debug" THEN {"Continue", "Quit"} ELSE {"Continue"}

IdleCall(t, reply) == [at |-> "idle", task |-> t, left |-> 0,
                       step |-> "Yield", reply |-> reply]
NoDebugState == [running |-> NoTask, ready |-> <<>>,
                 tasks |-> [t \in TaskId |-> "Absent"]]
NewLog == [output |-> 0, bytes |-> 0, next |-> 0, chunks |-> <<>>,
           trace |-> <<>>]

Init == /\ mode \in Modes
        /\ sched = NewScheduler
        /\ task = [t \in TaskId |-> NoPayload]
        /\ call = IdleCall(NoTask, "None")
        /\ steps = 0
        /\ elements = 0
        /\ log = NewLog
        /\ debugState = NoDebugState
        /\ quit = FALSE
        /\ token = FALSE
        /\ driving = FALSE
-----------------------------------------------------------------------------
\* Events.  A slice context c is [task, log] of the running task t.

Emit(events, t, kind, depth) ==
  IF Collecting
    THEN [events EXCEPT !.next = @ + 1,
                        !.trace = Append(@, [sequence |-> events.next,
                                             task |-> t, kind |-> kind,
                                             depth |-> depth])]
    ELSE events

TraceEnter(c, t) ==
  IF Traced
    THEN [task |-> [c.task EXCEPT !.started = TRUE, !.stack = @ + 1],
          log |-> Emit(c.log, t, "Enter", c.task.stack + 1)]
    ELSE c

\* The first iteration of a task's first slice enters its root frame.
TraceStart(c, t) == IF c.task.started THEN c ELSE TraceEnter(c, t)

\* A Line event only when the location changed.
TraceInstruction(c, t, moved) ==
  IF moved THEN [c EXCEPT !.log = Emit(@, t, "Line", c.task.stack)] ELSE c

\* Seeded fault: the left frame stays on the trace stack.
TraceLeaveKeepsFrame(c, t) ==
  [c EXCEPT !.log = Emit(@, t, "Exit", c.task.stack)]

TraceLeave(c, t) ==
  IF Traced
    THEN [task |-> [c.task EXCEPT !.stack = @ - 1],
          log |-> Emit(c.log, t, "Exit", c.task.stack)]
    ELSE c

\* Error and Exit for every frame, from the failing one outward: the value at
\* n is the log once n frames were left.
Unwound(c, t) ==
  LET unwound[n \in 0..c.task.stack] ==
        IF n = 0 THEN c.log
        ELSE LET depth == c.task.stack - n + 1
             IN  Emit(Emit(unwound[n - 1], t, "Error", depth), t, "Exit", depth)
  IN  unwound
TraceFailure(c, t) ==
  IF Traced
    THEN [task |-> [c.task EXCEPT !.stack = 0],
          log |-> Unwound(c, t)[c.task.stack]]
    ELSE c

\* Seeded fault: the sequence does not advance with an output.
AppendTaskOutputReused(events, t, size, depth) ==
  [events EXCEPT !.output = @ + size, !.bytes = @ + size,
                 !.chunks = Append(@, [sequence |-> events.next, task |-> t])]

\* The output event and its trace record share one sequence number.
AppendTaskOutput(events, t, size, depth) ==
  LET record == [sequence |-> events.next, task |-> t]
  IN  [output |-> events.output + size,
       bytes |-> events.bytes + size,
       next |-> events.next + 1,
       chunks |-> Append(events.chunks, record),
       trace |-> IF Collecting
                   THEN Append(events.trace,
                               [sequence |-> events.next, task |-> t,
                                kind |-> "Output", depth |-> depth])
                   ELSE events.trace]
-----------------------------------------------------------------------------
\* execute_scheduled_slice, one iteration of its loop at a time.

Running == sched.running
Context == [task |-> task[Running], log |-> log]

Keep(c) == /\ task' = [task EXCEPT ![Running] = c.task]
           /\ log' = c.log

ReturnStep(step) == [call EXCEPT !.at = "returning", !.step = step]

\* The next iteration, or Yield when the quantum is used up.
NextIteration ==
  IF call.left = 1 THEN ReturnStep("Yield")
  ELSE [call EXCEPT !.at = "top", !.left = @ - 1]

\* Seeded fault: the error is not stored in the task.
StopDropsError(c, error, control) ==
  /\ quit' = (quit \/ control = "Quit")
  /\ call' = ReturnStep(IF control = "Quit" \/ error = "Cancelled"
                          THEN "Cancel" ELSE "Fail")
  /\ Keep(c)

\* stop_scheduled_task: a hook that quits turns the error into a cancellation
\* without an error; otherwise the error is traced and kept.
Stop(c, error, control) ==
  IF control = "Quit"
    THEN /\ quit' = TRUE
         /\ call' = ReturnStep("Cancel")
         /\ Keep([c EXCEPT !.task.error = "None"])
    ELSE /\ quit' = quit
         /\ call' = ReturnStep(IF error = "Cancelled" THEN "Cancel" ELSE "Fail")
         /\ Keep([TraceFailure(c, Running) EXCEPT !.task.error = error])

\* Seeded fault: only the task's own request is looked at, not the token.
CheckpointErrorNoToken ==
  IF sched.cancellationRequested[Running] THEN "Cancelled"
  ELSE IF steps >= MaxSteps THEN "InstructionSteps"
  ELSE "None"

CheckpointError ==
  IF sched.cancellationRequested[Running] \/ token THEN "Cancelled"
  ELSE IF steps >= MaxSteps THEN "InstructionSteps"
  ELSE "None"

\* The part of an iteration before the instruction: trace, debugger pause,
\* checkpoint.
Observed(moved) ==
  TraceInstruction(TraceStart(Context, Running), Running, moved)

\* Seeded fault: the checkpoint does not charge the step.
CheckpointUncharged(moved) ==
  /\ call.at = "top"
  /\ CheckpointError = "None"
  /\ call' = [call EXCEPT !.at = "checked"]
  /\ Keep(Observed(moved))
  /\ UNCHANGED <<mode, sched, steps, elements, debugState, quit, token, driving>>

Checkpoint(moved) ==
  /\ call.at = "top"
  /\ CheckpointError = "None"
  /\ steps' = steps + 1
  /\ call' = [call EXCEPT !.at = "checked"]
  /\ Keep(Observed(moved))
  /\ UNCHANGED <<mode, sched, elements, debugState, quit, token, driving>>

\* The hook quits at the pause, before the checkpoint.
PauseQuits(moved) ==
  /\ call.at = "top"
  /\ mode = "debug"
  /\ Stop(Observed(moved), "None", "Quit")
  /\ UNCHANGED <<mode, sched, steps, elements, debugState, token, driving>>

CheckpointFails(moved, control) ==
  /\ call.at = "top"
  /\ CheckpointError # "None"
  /\ Stop(Observed(moved), CheckpointError, control)
  /\ UNCHANGED <<mode, sched, steps, elements, debugState, token, driving>>

\* FrameStack::return_value: the root's value is the task's result.
PopFrame(c) ==
  IF c.task.frames = 1
    THEN /\ call' = ReturnStep("Complete")
         /\ Keep([c EXCEPT !.task = [@ EXCEPT !.frames = 0, !.result = TRUE]])
    ELSE /\ call' = NextIteration
         /\ Keep([c EXCEPT !.task.frames = @ - 1])

\* The instruction pointer is past the end of the body: an implicit nil.
FallsOffEnd ==
  /\ call.at = "top"
  /\ PopFrame(TraceLeave(TraceStart(Context, Running), Running))
  /\ UNCHANGED <<mode, sched, steps, elements, debugState, quit, token, driving>>

Executing == call.at = "checked"
SliceUnchanged == UNCHANGED <<mode, sched, steps, debugState, token, driving>>

Continues == /\ Executing
             /\ call' = NextIteration
             /\ UNCHANGED <<task, elements, log, quit>>
             /\ SliceUnchanged

\* charge_runtime_elements reads the token once more.
AllocationError == IF token THEN "Cancelled"
                   ELSE IF elements + 1 > MaxElements THEN "RuntimeElements"
                   ELSE "None"
Allocates(control) ==
  /\ Executing
  /\ IF AllocationError = "None"
       THEN /\ elements' = elements + 1
            /\ call' = NextIteration
            /\ UNCHANGED <<task, log, quit>>
       ELSE /\ Stop(Context, AllocationError, control)
            /\ UNCHANGED elements
  /\ SliceUnchanged

Prints(size, control) ==
  /\ Executing
  /\ IF log.bytes + size > MaxOutputBytes
       THEN Stop(Context, "OutputBytes", control)
       ELSE /\ log' = AppendTaskOutput(log, Running, size, task[Running].stack)
            /\ call' = NextIteration
            /\ UNCHANGED <<task, quit>>
  /\ UNCHANGED elements
  /\ SliceUnchanged

\* Seeded fault: the call about to be made is not counted.
DepthExceededLate(frames) == frames - 1 > MaxCallDepth

\* check_call_depth_at: frames - 1 calls are active, one more is wanted.
DepthExceeded(frames) == (frames - 1) + 1 > MaxCallDepth

Calls(control) ==
  LET c == [Context EXCEPT !.task.frames = @ + 1]
  IN  /\ Executing
      /\ IF DepthExceeded(task[Running].frames)
           THEN Stop(Context, "CallDepth", control)
           ELSE /\ Keep(TraceEnter(c, Running))
                /\ call' = NextIteration
                /\ UNCHANGED quit
      /\ UNCHANGED elements
      /\ SliceUnchanged

Returns ==
  LET c == [Context EXCEPT !.log = Emit(@, Running, "Return",
                                        task[Running].stack)]
  IN  /\ Executing
      /\ PopFrame(TraceLeave(c, Running))
      /\ UNCHANGED <<elements, quit>>
      /\ SliceUnchanged

Raises(control) == /\ Executing
                   /\ Stop(Context, "Runtime", control)
                   /\ UNCHANGED elements
                   /\ SliceUnchanged
-----------------------------------------------------------------------------
\* step, around the slice.

\* release_terminal_frames: terminal tasks keep their outcome only.
ReleaseTerminal(s, payload) ==
  [t \in TaskId |-> IF IsTerminal(s, t)
                      THEN [payload[t] EXCEPT !.frames = 0, !.started = FALSE,
                                              !.stack = 0]
                      ELSE payload[t]]

\* debug_state_for_next_dispatch: what dispatch is about to do.
DebugState(s) ==
  LET ready == Retain(s.ready, {t \in TaskId : s.state[t] = "Ready"})
  IN  IF ready = <<>> THEN NoDebugState
      ELSE [running |-> Head(ready), ready |-> Tail(ready),
            tasks |-> [s.state EXCEPT ![Head(ready)] = "Running"]]

StepBegins ==
  /\ call.at = "idle"
  /\ debugState' = IF mode = "debug" THEN DebugState(sched) ELSE NoDebugState
  /\ ReadyPositions(sched) # {}
  /\ sched' = BeginDispatch(sched)
  /\ call' = [at |-> "top", task |-> sched'.running, left |-> Quantum,
              step |-> "Yield", reply |-> "None"]
  /\ UNCHANGED <<mode, task, steps, elements, log, quit, token, driving>>

\* Seeded fault: an empty queue is taken for completion.
StepFindsNoTaskComplete ==
  /\ call.at = "idle"
  /\ ReadyPositions(sched) = {}
  /\ sched' = BeginDispatch(sched)
  /\ call' = IdleCall(NoTask, "Complete")
  /\ driving' = FALSE
  /\ UNCHANGED <<mode, task, steps, elements, log, debugState, quit, token>>

StepFindsNoTask ==
  /\ call.at = "idle"
  /\ ReadyPositions(sched) = {}
  /\ sched' = BeginDispatch(sched)
  /\ task' = ReleaseTerminal(sched', task)
  /\ call' = IdleCall(NoTask, IF IsComplete(sched') THEN "Complete"
                              ELSE "Waiting")
  /\ driving' = FALSE
  /\ UNCHANGED <<mode, steps, elements, log, debugState, quit, token>>

DispatchReturns ==
  /\ call.at = "returning"
  /\ sched' = EndDispatch(sched, call.step)
  /\ call' = [call EXCEPT !.at = "ended"]
  /\ debugState' = NoDebugState
  /\ UNCHANGED <<mode, task, steps, elements, log, quit, token, driving>>

\* Seeded fault: a cancelled session goes on with the other tasks.
FailFastFailureOnly == sched.state[call.task] = "Failed"

\* Fail-fast: a failure, or a cancellation while the token is set.
FailFastNeeded == \/ sched.state[call.task] = "Failed"
                  \/ sched.state[call.task] = "Cancelled" /\ token

\* Seeded fault: fail-fast empties the queue instead of cancelling.
StepEndsDropsQueue ==
  /\ call.at = "ended"
  /\ sched' = IF quit \/ FailFastNeeded THEN [sched EXCEPT !.ready = <<>>]
              ELSE sched
  /\ task' = ReleaseTerminal(sched', task)
  /\ call' = IdleCall(call.task, IF quit THEN "Complete" ELSE "Dispatched")
  /\ driving' = (driving /\ ~quit)
  /\ UNCHANGED <<mode, steps, elements, log, debugState, quit, token>>

StepEnds ==
  /\ call.at = "ended"
  /\ sched' = IF quit \/ FailFastNeeded
                THEN CancelPendingExcept(sched, call.task) ELSE sched
  /\ task' = ReleaseTerminal(sched', task)
  /\ call' = IdleCall(call.task, IF quit THEN "Complete" ELSE "Dispatched")
  /\ driving' = (driving /\ ~quit)
  /\ UNCHANGED <<mode, steps, elements, log, debugState, quit, token>>
-----------------------------------------------------------------------------
\* The host's other calls.

HostReady == call.at = "idle" /\ ~driving
SessionUnchanged == UNCHANGED <<mode, steps, elements, debugState, quit, token,
                                driving>>

\* make_task, then spawn: on identity overflow the new payload is dropped.
SpawnTask ==
  /\ HostReady
  /\ sched' = Spawn(sched)
  /\ task' = IF sched'.nextTaskId = sched.nextTaskId THEN task
             ELSE [task EXCEPT ![sched.nextTaskId] = NewTask]
  /\ call' = IdleCall(NoTask, "None")
  /\ UNCHANGED log
  /\ SessionUnchanged

\* wake and cancel return their error before they release anything.
WakeTask(t) ==
  /\ HostReady
  /\ sched.state[t] = "Blocked"
  /\ sched' = Wake(sched, t)
  /\ task' = ReleaseTerminal(sched', task)
  /\ call' = IdleCall(NoTask, "None")
  /\ UNCHANGED log
  /\ SessionUnchanged

CancelTask(t) ==
  /\ HostReady
  /\ sched.state[t] \in {"Ready", "Blocked"}
  /\ sched' = Cancel(sched, t)
  /\ task' = ReleaseTerminal(sched', task)
  /\ call' = IdleCall(NoTask, "None")
  /\ UNCHANGED log
  /\ SessionUnchanged

JoinTasks(w, t) ==
  /\ HostReady
  /\ sched' = Join(sched, w, t)
  /\ call' = IdleCall(NoTask, "None")
  /\ UNCHANGED <<task, log>>
  /\ SessionUnchanged

\* take_output, take_output_events and take_trace_events.
Drain(field, empty) ==
  /\ HostReady
  /\ log' = [log EXCEPT ![field] = empty]
  /\ call' = IdleCall(NoTask, "None")
  /\ UNCHANGED <<sched, task>>
  /\ SessionUnchanged
TakeOutput == Drain("output", 0)
TakeOutputEvents == Drain("chunks", <<>>)
TakeTraceEvents == Drain("trace", <<>>)

RunUntilWaiting ==
  /\ HostReady
  /\ driving' = TRUE
  /\ UNCHANGED <<mode, sched, task, call, steps, elements, log, debugState,
                 quit, token>>

\* Another thread, or a debugger hook, sets the token at any time.
TokenCancelled ==
  /\ ~token
  /\ token' = TRUE
  /\ UNCHANGED <<mode, sched, task, call, steps, elements, log, debugState,
                 quit, driving>>

SliceStep ==
  \/ \E moved \in BOOLEAN : Checkpoint(moved)
  \/ \E moved \in BOOLEAN : PauseQuits(moved)
  \/ \E moved \in BOOLEAN, control \in Controls : CheckpointFails(moved, control)
  \/ FallsOffEnd
  \/ Continues
  \/ \E control \in Controls : Allocates(control)
  \/ \E size \in PrintSizes, control \in Controls : Prints(size, control)
  \/ \E control \in Controls : Calls(control)
  \/ Returns
  \/ \E control \in Controls : Raises(control)

HostCall ==
  \/ SpawnTask
  \/ \E t \in TaskId : WakeTask(t)
  \/ \E t \in TaskId : CancelTask(t)
  \/ \E w, t \in TaskId : JoinTasks(w, t)
  \/ TakeOutput
  \/ TakeOutputEvents
  \/ TakeTraceEvents
  \/ RunUntilWaiting

Next ==
  \/ StepBegins
  \/ StepFindsNoTask
  \/ SliceStep
  \/ DispatchReturns
  \/ StepEnds
  \/ HostCall
  \/ TokenCancelled

Spec == Init /\ [][Next]_vars

\* The thread inside step keeps running, and run_until_waiting calls step
\* again; the host owes nothing else.
FairSpec == /\ Spec
            /\ WF_vars(SliceStep)
            /\ WF_vars(DispatchReturns)
            /\ WF_vars(StepEnds)
            /\ WF_vars(driving /\ StepBegins)
            /\ WF_vars(driving /\ StepFindsNoTask)
-----------------------------------------------------------------------------
\* task_outcome.
TaskOutcome(t) ==
  CASE sched.state[t] = "Completed" ->
         IF task[t].result THEN "Completed" ELSE "MissingOutcome"
    [] sched.state[t] = "Failed" ->
         IF task[t].error # "None" THEN "Failed" ELSE "MissingOutcome"
    [] sched.state[t] = "Cancelled" -> "Cancelled"
    [] OTHER -> "None"

Event == [sequence : Nat, task : TaskId]
TraceEvent == [sequence : Nat, task : TaskId, depth : Nat,
               kind : {"Enter", "Line", "Output", "Return", "Exit", "Error"}]

TypeOK ==
  /\ mode \in Modes
  /\ sched \in Scheduler
  /\ task \in [TaskId -> Payload]
  /\ call \in [at : {"idle", "top", "checked", "returning", "ended"},
               task : TaskId \cup {NoTask}, left : 0..Quantum,
               step : TaskStep,
               reply : {"None", "Dispatched", "Waiting", "Complete"}]
  /\ steps \in Nat /\ elements \in Nat
  /\ log \in [output : Nat, bytes : Nat, next : Nat, chunks : Seq(Event),
              trace : Seq(TraceEvent)]
  /\ debugState \in [running : TaskId \cup {NoTask}, ready : Seq(TaskId),
                     tasks : [TaskId -> TaskState]]
  /\ {quit, token, driving} \subseteq BOOLEAN

\* The session-wide budgets (steps, elements, output bytes) and the per-task
\* call depth are never exceeded, however slices interleave and however often
\* the host drains the output.
BudgetsHold ==
  /\ steps <= MaxSteps
  /\ elements <= MaxElements
  /\ log.output <= log.bytes /\ log.bytes <= MaxOutputBytes
  /\ \A t \in TaskId : task[t].frames <= MaxCallDepth + 1

\* Between host calls exactly the live tasks own frames: a terminal task is
\* no garbage-collection root, whichever call ended it, and a live task can be
\* resumed.
FramesReleased ==
  call.at = "idle" =>
    \A t \in TaskId :
      task[t].frames > 0 <=> Known(sched, t) /\ ~IsTerminal(sched, t)

\* The fields have their types and no budget is exceeded.
Budgeted == TypeOK /\ BudgetsHold

\* task_outcome never meets a terminal task without its value or error, and
\* an outcome once reported does not change.
OutcomesKept ==
  [][\A t \in TaskId : /\ TaskOutcome(t)' # "MissingOutcome"
                       /\ TaskOutcome(t) # "None" =>
                            TaskOutcome(t)' = TaskOutcome(t)]_vars

\* A step that ran a task into failure, or into cancellation by the token or
\* by the debugger, leaves no live task behind.
FailFast ==
  call.at = "idle" /\ call.task # NoTask
    /\ sched.state[call.task] \in {"Failed", "Cancelled"} => IsComplete(sched)

\* A failure ends everyone, and whoever has ended holds nothing.
FailFastReleases == FailFast /\ FramesReleased

\* What step reports is so: Waiting means that nothing is ready and somebody
\* is blocked, Complete without a debugger's quit that everybody has ended.
RepliesHonest ==
  /\ call.reply = "Waiting" =>
       /\ \A t \in TaskId : sched.state[t] # "Ready"
       /\ \E t \in TaskId : sched.state[t] = "Blocked"
  /\ call.reply = "Complete" /\ ~quit => IsComplete(sched)

\* Once the token is set only an instruction already past its checkpoint still
\* runs, and it allocates nothing: no other step, output or frame.
CancelObserved ==
  [][token => /\ steps' = steps /\ elements' = elements
              /\ call.at # "checked" => /\ log'.bytes = log.bytes
                                        /\ \A t \in TaskId :
                                             task'[t].frames > task[t].frames
                                               => call.at = "idle"]_vars

\* One sequence for output and trace: numbers strictly increase in both lists,
\* and a number occurs in both only for an output and its own trace record.
SequenceShared ==
  /\ \A i, j \in 1..Len(log.trace) :
       i < j => log.trace[i].sequence < log.trace[j].sequence
  /\ \A i, j \in 1..Len(log.chunks) :
       i < j => log.chunks[i].sequence < log.chunks[j].sequence
  /\ \A i \in 1..Len(log.trace), j \in 1..Len(log.chunks) :
       log.trace[i].sequence = log.chunks[j].sequence =>
         log.trace[i].kind = "Output" /\ log.trace[i].task = log.chunks[j].task

\* Draining gives nothing back: a new event has a number never used before and
\* belongs to the dispatched task, and the bytes charged are the bytes written.
DrainKeepsCounting ==
  [][/\ \A i \in (Len(log.trace) + 1)..Len(log'.trace) :
          log'.trace[i].sequence >= log.next /\ log'.trace[i].task = Running
     /\ \A i \in (Len(log.chunks) + 1)..Len(log'.chunks) :
          log'.chunks[i].sequence >= log.next /\ log'.chunks[i].task = Running
     /\ log'.next >= log.next
     /\ log'.bytes - log.bytes =
          IF log'.output > log.output THEN log'.output - log.output ELSE 0]_vars

\* The events of one task, seen alone, are well nested whatever other tasks
\* emitted between them: each follows its predecessor's depth.
DepthAfter(e) == IF e.kind = "Exit" THEN e.depth - 1 ELSE e.depth
TraceNested ==
  \A i, j \in 1..Len(log.trace) :
    LET e == log.trace[i]
        f == log.trace[j]
        adjacent == /\ i < j /\ e.task = f.task
                    /\ \A k \in (i + 1)..(j - 1) : log.trace[k].task # e.task
    IN  adjacent =>
          f.depth = DepthAfter(e) + (IF f.kind = "Enter" THEN 1 ELSE 0)

\* The private trace stack of a task that can still run is its frame stack, so
\* a trace event or debugger pause shows the frames that really exist.
TraceMirrorsFrames ==
  \A t \in TaskId :
    task[t].started /\ ~IsTerminal(sched, t) /\ call.at # "returning" =>
      task[t].stack = task[t].frames

\* The events of a task are those of its frames.
TraceExact == TraceNested /\ TraceMirrorsFrames

\* A debugger pause shows the scheduler as it is while the task runs, although
\* the snapshot is taken before dispatch.
SnapshotExact ==
  mode = "debug" /\ call.at \in {"top", "checked"} =>
    debugState = [running |-> sched.running, ready |-> sched.ready,
                  tasks |-> sched.state]

\* What the host is told, by a reply or by a debugger pause, is so.
RepliesExact == RepliesHonest /\ SnapshotExact

\* run_until_waiting returns: every dispatch consumes the step budget or ends
\* a frame, so tasks cannot keep each other ready for ever.
DriveReturns == driving ~> ~driving

\* The session uses its scheduler as CooperativeScheduler allows: composed
\* with the slices, every step of the session is one operation or none.
Tasks == INSTANCE CooperativeScheduler
SchedulerSpec == Tasks!Spec
=============================================================================
