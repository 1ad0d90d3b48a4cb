---------------------------- MODULE TasksRefine ----------------------------
(***************************************************************************)
(* The run queue of module Tasks implements the round robin of module      *)
(* RoundRobin: the queued tasks are the nodes a walk from kernel_task      *)
(* meets, their ages are their identifiers, and the links of the C list    *)
(* are nothing but the order of the ages.                                  *)
(***************************************************************************)
EXTENDS Tasks

Age == [n \in Listed |-> id[n]]
Finished == {n \in Listed : ~running[n]}

RR == INSTANCE RoundRobin WITH
        First    <- Kernel,
        Others   <- Nodes,
        age      <- Age,
        finished <- Finished,
        turn     <- task_current

\* The scheduler of task.c and task.S is a round robin by age of creation:
\* every switch (task.S:17-43) hands over to the next younger queued task,
\* every removal (task.S:172-193) takes out the one finished task whose turn
\* it is, and the link write of task_create_impl (task.c:113) adds the new task
\* at the end or, when its tail was freed under it, not at all.
ImplementsRoundRobin == RR!Spec
=============================================================================
