------------------------------- MODULE Tasks -------------------------------
(***************************************************************************)
(* The kernel's tasks: the linked run queue of kernel/process/task.c, the  *)
(* context switch and the removal of an exited task of task.S, and the     *)
(* timer interrupt of time.c that drives both.                             *)
(*                                                                         *)
(* The code takes no lock.  The timer interrupt fires between any two      *)
(* statements executed with interrupts enabled, so every statement of      *)
(* task_create_impl and task_exit that touches shared state is an action   *)
(* of its own; the interrupt handler runs with interrupts disabled from    *)
(* the gate to iretq and is one action.                                    *)
(*                                                                         *)
(* The walk of task_create_impl reads each link twice.  When a tick has    *)
(* cut off the tail in between it goes on at address 0, where memory is    *)
(* mapped: Low and low stand for what it finds there.                      *)
(***************************************************************************)
EXTENDS Naturals

CONSTANTS
    Kernel,     \* the static node kernel_task
    Nodes,      \* heap slots that new_alloc hands out for a task_info_t
    NULL,       \* the null pointer
    Low,        \* addresses of low memory that a walk through NULL can come to
    WILD,       \* an address that no page maps
    PERIOD,     \* the 1000 of `__time % 1000`
    TIME_WRAP,  \* the modulus of the dword __time (2^32 in the code)
    ID_BOUND,   \* bound: __id_task stays below it (the code's dword wraps at 2^32)
    ExitPaths   \* how programs end: "call" of task_exit, "syscall" (int 0x80, rax 6)

\* Address 0 is low memory: the loader maps the first seven frames at their own
\* addresses (boot/UEFI/page.c:53-57), and the kernel leaves them mapped.
ASSUME NodesAssumption == /\ Kernel \notin Nodes
                          /\ Low \cap (Nodes \cup {Kernel}) = {}
                          /\ NULL \in Low
                          /\ WILD \notin Low \cup Nodes \cup {Kernel}
ASSUME ClockAssumption == /\ PERIOD \in Nat \ {0}
                          /\ TIME_WRAP \in Nat \ {0}
ASSUME IdAssumption    == ID_BOUND \in Nat
ASSUME ExitAssumption  == ExitPaths \subseteq {"call", "syscall"}

VARIABLES
    \* the fields of task_info_t; a freed slot keeps its last contents
    next, running, id, stack,
    alive,          \* the slots allocated now
    low,            \* low memory, read as nodes: the words at their `next`
    \* globals of task.c and time.c
    task_current, task_next, id_task, ticks,
    \* locals of task_create_impl (the kernel's stack) and of task_exit (each stack)
    new_task, crt, target,
    \* the processor: whose execution is loaded, where each execution stands,
    \* the interrupt flag, and whether the machine has stopped in hlt for good
    cpu, pc, int_flag, machine

nodeVars == <<next, running, id, stack, alive, low>>
schedVars == <<task_current, task_next, cpu>>
localVars == <<new_task, crt, target>>
vars == <<nodeVars, schedVars, id_task, ticks, localVars, pc, int_flag, machine>>

All == Nodes \cup {Kernel}
Links == All \cup {NULL}

\* What the kernel's walk can stand on, and the word it reads there.
Places == All \cup Low \cup {WILD}
LinkOf(p) == IF p \in All THEN next[p] ELSE low[p]

KernelLabels == {"fill", "frame", "walk", "test", "advance", "link"}
ExitLabels == {"exit_getid", "exit_target", "exit_flags"}
Labels == {"body", "spin"} \cup KernelLabels \cup ExitLabels

(***************************************************************************)
(* The run queue: the nodes a walk along `next` from kernel_task meets,    *)
(* stated as the least set that holds kernel_task and is closed under next.*)
(***************************************************************************)
Closed(S, nx) == /\ Kernel \in S
                 /\ \A n \in S : nx[n] # NULL => nx[n] \in S

Reachable(nx) == {n \in All : \A S \in SUBSET All : Closed(S, nx) => n \in S}

Listed == Reachable(next)

\* Mutant: the switch restarts from the kernel's task after every other task.
Successor_restarts(n) == IF n # Kernel \/ next[n] = NULL THEN Kernel ELSE next[n]

\* A NULL link stands for the way back to the kernel's task.
Successor(n) == IF next[n] = NULL THEN Kernel ELSE next[n]

-----------------------------------------------------------------------------
\* After task_init and idt_init: the kernel's task alone, interrupts on.  Low
\* memory holds what the firmware left there.
Init == /\ next = [n \in All |-> NULL]
        /\ running = [n \in All |-> n = Kernel]
        /\ id = [n \in All |-> 0]
        /\ stack = [n \in All |-> n]
        /\ alive = {}
        /\ low \in [Low -> Low \cup {WILD}]
        /\ task_current = Kernel
        /\ task_next = Kernel
        /\ id_task = 1
        /\ ticks = 0
        /\ new_task = NULL
        /\ crt = NULL
        /\ target = [n \in All |-> NULL]
        /\ cpu = Kernel
        /\ pc = [n \in All |-> "body"]
        /\ int_flag = TRUE
        /\ machine = "on"

\* The loaded execution stands at label l and goes to label m.
Step(l, m) == /\ machine = "on"
              /\ pc[cpu] = l
              /\ pc' = [pc EXCEPT ![cpu] = m]

-----------------------------------------------------------------------------
\* task_create_impl: only the kernel's own execution calls it (kernel_main and
\* the TASK command); new_alloc yields a slot that is not in use.
NewAlloc == /\ cpu = Kernel
            /\ Step("body", "fill")
            /\ id_task < ID_BOUND
            /\ \E n \in Nodes \ alive :
                  /\ alive' = alive \cup {n}
                  /\ new_task' = n
            /\ UNCHANGED <<next, running, id, stack, low, schedVars, id_task, ticks,
                           crt, target, int_flag, machine>>

\* Mutant: a recycled slot keeps the link of the task that had it before.
FillNode_keeps_link == /\ cpu = Kernel
                       /\ Step("fill", "frame")
                       /\ id' = [id EXCEPT ![new_task] = id_task]
                       /\ running' = [running EXCEPT ![new_task] = TRUE]
                       /\ id_task' = id_task + 1
                       /\ UNCHANGED <<next, stack, alive, low, schedVars, ticks,
                                      localVars, int_flag, machine>>

\* memzero, then the fields; the node is not linked yet.
FillNode == /\ cpu = Kernel
            /\ Step("fill", "frame")
            /\ id' = [id EXCEPT ![new_task] = id_task]
            /\ running' = [running EXCEPT ![new_task] = TRUE]
            /\ next' = [next EXCEPT ![new_task] = NULL]
            /\ id_task' = id_task + 1
            /\ UNCHANGED <<stack, alive, low, schedVars, ticks, localVars,
                           int_flag, machine>>

\* The interrupt frame on the new stack: the context that starts the program.
BuildFrame == /\ cpu = Kernel
              /\ machine = "on"
              /\ pc[Kernel] = "frame"
              /\ pc' = [pc EXCEPT ![Kernel] = "walk", ![new_task] = "body"]
              /\ stack' = [stack EXCEPT ![new_task] = new_task]
              /\ UNCHANGED <<next, running, id, alive, low, schedVars, id_task, ticks,
                             localVars, int_flag, machine>>

WalkStart == /\ cpu = Kernel
             /\ Step("walk", "test")
             /\ crt' = Kernel
             /\ UNCHANGED <<nodeVars, schedVars, id_task, ticks, new_task, target,
                            int_flag, machine>>

\* Mutant: the first node is taken for the tail.
WalkTest_stops == /\ cpu = Kernel
                  /\ crt # WILD
                  /\ Step("test", "link")
                  /\ UNCHANGED <<nodeVars, schedVars, id_task, ticks, localVars,
                                 int_flag, machine>>

\* while( crt->next != NULL ).  When the last advance read NULL, the word at
\* the bottom of low memory is the next link.
WalkTest == /\ cpu = Kernel
            /\ crt # WILD
            /\ Step("test", IF LinkOf(crt) = NULL THEN "link" ELSE "advance")
            /\ UNCHANGED <<nodeVars, schedVars, id_task, ticks, localVars,
                           int_flag, machine>>

\* The same test when a word of low memory was no address of a mapped page: the
\* page fault's handler prints the registers and halts with interrupts off.
WalkFault == /\ cpu = Kernel
             /\ machine = "on"
             /\ pc[Kernel] = "test"
             /\ crt = WILD
             /\ machine' = "fault"
             /\ int_flag' = FALSE
             /\ UNCHANGED <<nodeVars, schedVars, id_task, ticks, localVars, pc>>

\* crt = crt->next, a second read of the link the test has read
WalkAdvance == /\ cpu = Kernel
               /\ Step("advance", "test")
               /\ crt' = LinkOf(crt)
               /\ UNCHANGED <<nodeVars, schedVars, id_task, ticks, new_task,
                              target, int_flag, machine>>

\* crt->next = new_task, whatever has become of crt since the test
LinkTail == /\ cpu = Kernel
            /\ Step("link", "body")
            /\ \/ crt \in All /\ next' = [next EXCEPT ![crt] = new_task] /\ UNCHANGED low
               \/ crt \in Low /\ low' = [low EXCEPT ![crt] = new_task] /\ UNCHANGED next
            /\ UNCHANGED <<running, id, stack, alive, schedVars, id_task, ticks,
                           localVars, int_flag, machine>>

-----------------------------------------------------------------------------
\* task_exit, called by the code that runs as a task, or by the syscall handler
\* behind an interrupt gate (interrupts stay off until its iretq).
CallExit == /\ "call" \in ExitPaths
            /\ Step("body", "exit_getid")
            /\ UNCHANGED <<nodeVars, schedVars, id_task, ticks, localVars,
                           int_flag, machine>>

SyscallExit == /\ "syscall" \in ExitPaths
               /\ Step("body", "exit_getid")
               /\ int_flag' = FALSE
               /\ UNCHANGED <<nodeVars, schedVars, id_task, ticks, localVars,
                              machine>>

\* Task 0 returns to its caller (through int_syscall's sti and iretq, if that
\* is where it came from); any other task goes on.
ExitOfKernel == /\ id[task_current] = 0
                /\ Step("exit_getid", "body")
                /\ int_flag' = TRUE
                /\ UNCHANGED <<nodeVars, schedVars, id_task, ticks, localVars,
                               machine>>

\* Mutant: task 0 is not refused.
ExitOfTask_any == /\ Step("exit_getid", "exit_target")
                  /\ UNCHANGED <<nodeVars, schedVars, id_task, ticks, localVars,
                                 int_flag, machine>>

ExitOfTask == /\ id[task_current] # 0
              /\ Step("exit_getid", "exit_target")
              /\ UNCHANGED <<nodeVars, schedVars, id_task, ticks, localVars,
                             int_flag, machine>>

ExitTarget == /\ Step("exit_target", "exit_flags")
              /\ target' = [target EXCEPT ![cpu] = task_current]
              /\ UNCHANGED <<nodeVars, schedVars, id_task, ticks, new_task, crt,
                             int_flag, machine>>

\* Clear the running bit, then while( 1 ) until the timer takes the task away.
ExitFlags == /\ Step("exit_flags", "spin")
             /\ running' = [running EXCEPT ![target[cpu]] = FALSE]
             /\ UNCHANGED <<next, id, stack, alive, low, schedVars, id_task, ticks,
                            localVars, int_flag, machine>>

-----------------------------------------------------------------------------
\* Mutant: the interrupted execution is saved after task_current has moved on.
switch_task_saves_late ==
    /\ task_next' = Successor(task_current)
    /\ stack' = [stack EXCEPT ![task_next'] = cpu]
    /\ cpu' = stack[task_next']
    /\ task_current' = task_next'
    /\ UNCHANGED <<next, running, id, alive, low, machine, int_flag>>

\* Mutant: the NULL link is left in task_next when the turn goes back.
switch_task_keeps_NULL ==
    /\ task_next' = next[task_current]
    /\ task_current' = Successor(task_current)
    /\ stack' = [stack EXCEPT ![task_current] = cpu]
    /\ cpu' = stack'[task_current']
    /\ UNCHANGED <<next, running, id, alive, low, machine, int_flag>>

\* switch_task: save the interrupted execution in task_current, load the next.
switch_task == /\ task_next' = Successor(task_current)
               /\ stack' = [stack EXCEPT ![task_current] = cpu]
               /\ cpu' = stack'[task_next']
               /\ task_current' = task_next'
               /\ UNCHANGED <<next, running, id, alive, low, machine, int_flag>>

\* Mutant: the node is freed but stays linked.
task_remove_linked(prev) == /\ task_next' = Successor(task_current)
                            /\ alive' = alive \ {task_current}
                            /\ cpu' = stack[task_next']
                            /\ task_current' = task_next'
                            /\ UNCHANGED <<next, running, id, stack, low, machine,
                                           int_flag>>

\* Mutant: the freed task keeps the processor.
task_remove_stays(prev) == /\ next' = [next EXCEPT ![prev] = next[task_current]]
                           /\ task_next' = Successor(task_current)
                           /\ alive' = alive \ {task_current}
                           /\ UNCHANGED <<running, id, stack, low, machine, int_flag,
                                          task_current, cpu>>

\* task_remove: unlink task_current from the node the walk from kernel_task
\* finds in front of it, free it, and load the next task without saving.
task_remove(prev) == /\ next' = [next EXCEPT ![prev] = next[task_current]]
                     /\ task_next' = Successor(task_current)
                     /\ alive' = alive \ {task_current}
                     /\ cpu' = stack[task_next']
                     /\ task_current' = task_next'
                     /\ UNCHANGED <<running, id, stack, low, machine, int_flag>>

Predecessors == {p \in Listed : next[p] = task_current}

\* The walk met NULL first: print "Abort: Prev Task is NULL" and hlt for good.
remove_halt == /\ machine' = "lost"
               /\ int_flag' = FALSE
               /\ UNCHANGED <<nodeVars, schedVars>>

\* irq_time_handle counts, and switches on every tick but one in PERIOD.
Timer == /\ machine = "on"
         /\ int_flag
         /\ ticks' = (ticks + 1) % TIME_WRAP
         /\ UNCHANGED <<id_task, localVars, pc>>

TickKeep == /\ Timer
            /\ ticks' % PERIOD = 0
            /\ UNCHANGED <<nodeVars, schedVars, int_flag, machine>>

TickSwitch == /\ Timer
              /\ ticks' % PERIOD # 0
              /\ running[task_current]
              /\ switch_task

\* Mutant: the running bit is not looked at.
TickRemove_any == /\ Timer
                  /\ ticks' % PERIOD # 0
                  /\ IF Predecessors = {}
                       THEN remove_halt
                       ELSE \E prev \in Predecessors : task_remove(prev)

\* Mutant: the tick of an exited task returns without removing it.
TickRemove_returns == /\ Timer
                      /\ ticks' % PERIOD # 0
                      /\ ~running[task_current]
                      /\ UNCHANGED <<nodeVars, schedVars, int_flag, machine>>

TickRemove == /\ Timer
              /\ ticks' % PERIOD # 0
              /\ ~running[task_current]
              /\ IF Predecessors = {}
                   THEN remove_halt
                   ELSE \E prev \in Predecessors : task_remove(prev)

-----------------------------------------------------------------------------
task_create == \/ NewAlloc \/ FillNode \/ BuildFrame
               \/ WalkStart \/ WalkTest \/ WalkFault \/ WalkAdvance \/ LinkTail

task_exit == \/ CallExit \/ SyscallExit
             \/ ExitOfKernel \/ ExitOfTask \/ ExitTarget \/ ExitFlags

irq_time_handle == TickKeep \/ TickSwitch \/ TickRemove

Next == task_create \/ task_exit \/ irq_time_handle

Spec == Init /\ [][Next]_vars

\* What the execution of node n does when it has the processor and has begun
\* a call: the calls themselves (NewAlloc, CallExit) are the program's choice.
Progress(n) == /\ cpu = n
               /\ \/ FillNode \/ BuildFrame \/ WalkStart \/ WalkTest \/ WalkFault
                  \/ WalkAdvance \/ LinkTail
                  \/ ExitOfKernel \/ ExitOfTask \/ ExitTarget \/ ExitFlags

\* The timer keeps ticking while interrupts are on; an execution that gets the
\* processor again and again executes instructions between two ticks.
Fairness == /\ WF_vars(irq_time_handle)
            /\ \A n \in All : SF_vars(Progress(n))

FairSpec == Spec /\ Fairness

-----------------------------------------------------------------------------
(* Properties.                                                             *)

\* Every variable keeps its type; in particular task_current is never NULL.
TypeOK == /\ next \in [All -> Links]
          /\ running \in [All -> BOOLEAN]
          /\ id \in [All -> Nat]
          /\ stack \in [All -> All]
          /\ alive \subseteq Nodes
          /\ task_current \in All
          /\ task_next \in All
          /\ id_task \in Nat
          /\ ticks \in 0 .. TIME_WRAP - 1
          /\ low \in [Low -> Places]
          /\ new_task \in Nodes \cup {NULL}
          /\ crt \in Places
          /\ target \in [All -> Links]
          /\ cpu \in All
          /\ pc \in [All -> Labels]
          /\ int_flag \in BOOLEAN
          /\ machine \in {"on", "fault", "lost"}

\* The timer walks only memory it owns: no node that task_remove has freed is
\* left on the run queue, whatever statement of task_create it interrupted
\* (free_alloc at task.S:189-191 against the link written at task.c:113).
RunQueueAlive == Listed \subseteq alive \cup {Kernel}

\* The links of the run queue lead from older to younger tasks, so both walks
\* along it (task.c:109-111 and task.S:149-169) end, and a task that is
\* created while others exit is never spliced in front of an older one.
RunQueueByAge == \A n \in Listed : next[n] # NULL => id[n] < id[next[n]]

\* No two queued nodes lead to the same task: task_remove (task.S:164-175)
\* unlinks its target by rewriting the first link it finds.
RunQueueUnshared == \A m, n \in Listed : next[m] = next[n] /\ next[m] # NULL => m = n

\* The task the processor runs is on the run queue while the machine runs:
\* otherwise neither switch_task nor task_remove could go on from it.
CurrentListed == task_current \in Listed

\* task_remove always finds a predecessor of the task it removes, so the
\* "Prev Task is NULL" halt at task.S:157-163 is dead code.
RemoveFindsTarget == machine # "lost"

\* task_current names the execution that has the processor, and each queued
\* task that waits has its own execution saved in its stack field
\* (task.S:34-43 saves before it loads; task.S:103-105 does not save).
RightContext == /\ cpu = task_current
                /\ \A n \in Listed \ {cpu} : stack[n] = n

\* The kernel's task never loses its running bit: task_exit refuses task 0
\* (task.c:117-119), or task_remove would free a static node.
KernelRuns == running[Kernel] /\ id[Kernel] = 0

\* A step may take from the run queue only a task that has exited: the link
\* writes of task_create_impl and task_remove never cut off a running one.
OnlyExitedLeave == [][\A n \in Listed : n \notin Listed' => ~running[n]]_vars

\* task_remove frees only the node of a task that has exited (task.S:189-191).
OnlyExitedFreed == [][\A n \in alive : n \notin alive' => ~running[n]]_vars

\* A task that has called task_exit is unlinked and freed by a later tick,
\* unless the machine has stopped on a fault of the kernel's walk in low memory.
ExitedIsRemoved ==
    \A n \in Nodes : (n \in Listed /\ ~running[n])
                        ~> (n \notin alive \/ machine # "on")

\* No queued task starves: it gets the processor again, exits, or the machine
\* has stopped (the round robin of task.S:17-43, the kernel's task included).
QueuedRuns ==
    \A n \in All : (n \in Listed) ~> (cpu = n \/ n \notin Listed \/ machine # "on")

\* A task that task_create has finished with is on the run queue until it has
\* exited: kernel/term.c:209 starts it to "run file executable in Task".
CreatedIsListed ==
    pc[Kernel] = "body" => \A n \in alive : n \in Listed

-----------------------------------------------------------------------------
(* The inductive invariant: what else is true at every statement.          *)

Linking == {"frame", "walk", "test", "advance", "link"}

\* While task_create_impl works on a node, the node is allocated and not yet
\* reachable; once filled, it ends a list, runs, and is younger than every queued task.
CreationPrivate ==
    /\ pc[Kernel] \in KernelLabels => new_task \in alive \ Listed
    /\ pc[Kernel] \in Linking =>
          /\ next[new_task] = NULL
          /\ running[new_task]
          /\ id[new_task] < id_task
          /\ \A n \in Listed : id[n] < id[new_task]
    /\ pc[Kernel] \in Linking \ {"frame"} => stack[new_task] = new_task

\* Identifiers are handed out upwards.
IdsBelow == \A n \in Listed : id[n] < id_task

\* The walk stands on mapped memory where the code reads or writes there, and the
\* tail it has found stays the tail for as long as it is queued.
WalkPosition ==
    /\ pc[Kernel] \in {"advance", "link"} => crt # WILD
    /\ pc[Kernel] = "link" /\ crt \in Listed => next[crt] = NULL

\* An execution inside task_exit works on its own node, never on task 0.
ExitsItself ==
    /\ \A n \in All : pc[n] = "exit_flags" => target[n] = n
    /\ pc[Kernel] \notin {"exit_target", "exit_flags"}

IInv == /\ TypeOK
        /\ RunQueueAlive
        /\ RunQueueByAge
        /\ RunQueueUnshared
        /\ CurrentListed
        /\ RightContext
        /\ KernelRuns
        /\ RemoveFindsTarget
        /\ CreationPrivate
        /\ IdsBelow
        /\ WalkPosition
        /\ ExitsItself
=============================================================================
