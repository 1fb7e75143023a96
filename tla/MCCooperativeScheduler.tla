----------------------- MODULE MCCooperativeScheduler -----------------------
(* CooperativeScheduler with a small identity space, so that task-id       *)
(* overflow is reached.                                                    *)
EXTENDS CooperativeScheduler
=============================================================================
