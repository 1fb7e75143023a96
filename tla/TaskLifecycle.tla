---------------------------- MODULE TaskLifecycle ----------------------------
(***************************************************************************)
(* What the cooperative scheduler promises about task lifecycles, with no  *)
(* queue, no reverse index of joins and no identity order: every task has  *)
(* a state, a blocked task may wait for one other task, and the step that  *)
(* makes a task terminal is the step that releases everyone waiting for    *)
(* it.  CooperativeScheduler implements this specification.                *)
(***************************************************************************)
CONSTANTS Task, None

VARIABLES state, waits
vars == <<state, waits>>

Final == {"Completed", "Failed", "Cancelled"}
Live(t) == state[t] \in {"Ready", "Running", "Blocked"}

Init == /\ state = [t \in Task |-> "Absent"]
        /\ waits = [t \in Task |-> None]

\* t ends in the final state f; its joiners continue, and it waits no longer.
Finish(t, f) ==
  /\ state' = [w \in Task |-> IF w = t THEN f
                              ELSE IF waits[w] = t THEN "Ready"
                              ELSE state[w]]
  /\ waits' = [w \in Task |-> IF w = t \/ waits[w] = t THEN None
                              ELSE waits[w]]

Create(t) == /\ state[t] = "Absent"
             /\ state' = [state EXCEPT ![t] = "Ready"]
             /\ UNCHANGED waits

Start(t) == /\ state[t] = "Ready"
            /\ \A u \in Task : state[u] # "Running"
            /\ state' = [state EXCEPT ![t] = "Running"]
            /\ UNCHANGED waits

Pause(t, s) == /\ state[t] = "Running"
               /\ s \in {"Ready", "Blocked"}
               /\ state' = [state EXCEPT ![t] = s]
               /\ UNCHANGED waits

End(t) == /\ state[t] = "Running"
          /\ \E f \in Final : Finish(t, f)

Stop(t) == /\ state[t] \in {"Ready", "Blocked"}
           /\ Finish(t, "Cancelled")

AwaitEnd(w, t) ==
  /\ w # t /\ state[w] = "Ready" /\ Live(t)
  /\ state' = [state EXCEPT ![w] = "Blocked"]
  /\ waits' = [waits EXCEPT ![w] = t]

Resume(t) == /\ state[t] = "Blocked"
             /\ state' = [state EXCEPT ![t] = "Ready"]
             /\ waits' = [waits EXCEPT ![t] = None]

\* Everyone but t is cancelled at once; t, if it waited, waits no longer.
StopOthers(t) ==
  /\ \A u \in Task : state[u] # "Running"
  /\ state' = [u \in Task |->
                 IF u = t THEN IF waits[t] # None THEN "Ready" ELSE state[t]
                 ELSE IF Live(u) THEN "Cancelled" ELSE state[u]]
  /\ waits' = [u \in Task |-> None]

Next ==
  \/ \E t \in Task : \/ Create(t) \/ Start(t) \/ End(t) \/ Stop(t)
                     \/ Resume(t) \/ StopOthers(t)
                     \/ Pause(t, "Ready") \/ Pause(t, "Blocked")
  \/ \E w, t \in Task : AwaitEnd(w, t)

Spec == Init /\ [][Next]_vars
=============================================================================
