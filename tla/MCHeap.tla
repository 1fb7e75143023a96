------------------------------- MODULE MCHeap -------------------------------
(* Root module for TLC. *)
EXTENDS Heap
=============================================================================
