----------------------------- MODULE RoundRobin -----------------------------
(***************************************************************************)
(* What the kernel's scheduler promises, without links, nodes or contexts: *)
(* a set of queued tasks of different ages, one of which has the processor.*)
(* The turn goes from each task to the next younger one and from the       *)
(* youngest back to the first; a task leaves only after it has finished,   *)
(* and only on its own turn; a task that enters is the youngest.           *)
(***************************************************************************)
EXTENDS Naturals

CONSTANTS First,    \* the task that never finishes
          Others    \* the names of the other tasks

VARIABLES age,      \* the age stamp of each queued task (its domain: the queue)
          finished, \* the queued tasks that have finished
          turn      \* the task that has the processor

vars == <<age, finished, turn>>

Queue == DOMAIN age

\* The task whose turn follows t's: the oldest of those younger than t.
Younger(t) == {u \in Queue : age[t] < age[u]}
Follows(u, t) == IF Younger(t) = {}
                   THEN u = First
                   ELSE u \in Younger(t) /\ \A v \in Younger(t) : age[u] <= age[v]

Init == /\ age = [t \in {First} |-> 0]
        /\ finished = {}
        /\ turn = First

Admit(t) == /\ t \notin Queue
            /\ age' \in [Queue \cup {t} -> Nat]
            /\ \A u \in Queue : age'[u] = age[u] /\ age[u] < age'[t]
            /\ UNCHANGED <<finished, turn>>

Finish == /\ turn # First
          /\ finished' = finished \cup {turn}
          /\ UNCHANGED <<age, turn>>

Rotate == /\ turn \notin finished
          /\ Follows(turn', turn)
          /\ UNCHANGED <<age, finished>>

Retire == /\ turn \in finished
          /\ Follows(turn', turn)
          /\ age' = [u \in Queue \ {turn} |-> age[u]]
          /\ finished' = finished \ {turn}

Next == (\E t \in Others : Admit(t)) \/ Finish \/ Rotate \/ Retire

Spec == Init /\ [][Next]_vars
=============================================================================
