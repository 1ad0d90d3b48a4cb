------------------------------- MODULE MCHeap -------------------------------
(***************************************************************************)
(* Instances of Heap for TLC: a header of two units and small pages.       *)
(***************************************************************************)
EXTENDS Heap
=============================================================================
