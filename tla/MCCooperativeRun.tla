-------------------------- MODULE MCCooperativeRun --------------------------
(* CooperativeRun on small limits: each budget can be exhausted, a slice can *)
(* end in the middle of a call, and the identities can run out.            *)
EXTENDS CooperativeRun
=============================================================================
