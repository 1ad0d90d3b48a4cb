------------------------------ MODULE MCTasks ------------------------------
(***************************************************************************)
(* Instances of Tasks for TLC.                                             *)
(***************************************************************************)
EXTENDS TasksRefine, TLC

\* The slots are interchangeable: used by the runs without liveness.
SlotSymmetry == Permutations(Nodes)
=============================================================================
