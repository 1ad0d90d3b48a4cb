---------------------------- MODULE TasksProofs ----------------------------
(***************************************************************************)
(* Proofs about the run queue and the scheduler of module Tasks, for any   *)
(* set of heap slots and any values of the other constants.  The argument  *)
(* is about the least closed set Listed: three lemmas say what the only    *)
(* three kinds of link write do to it (a write outside the queue, the      *)
(* append of task_create_impl, the unlink of task_remove), and IInv is     *)
(* shown inductive one action at a time.  The last part proves that the    *)
(* linked queue implements the round robin by age of module RoundRobin.    *)
(***************************************************************************)
EXTENDS TasksRefine, TLAPS

\* The run queue holds kernel_task and follows the links; it is the least such
\* set, and each node but the first is the next of a queued node.
LEMMA ReachableBasics ==
    ASSUME NEW nx \in [All -> Links]
    PROVE  /\ Reachable(nx) \subseteq All
           /\ Closed(Reachable(nx), nx)
           /\ \A S \in SUBSET All : Closed(S, nx) => Reachable(nx) \subseteq S
           /\ \A n \in Reachable(nx) :
                 n # Kernel => \E p \in Reachable(nx) : nx[p] = n
<1> DEFINE R == Reachable(nx)
<1>1. R \subseteq All
  BY DEF Reachable
<1>2. \A S \in SUBSET All : Closed(S, nx) => R \subseteq S
  BY DEF Reachable
<1>3. Kernel \in R
  BY DEF Reachable, Closed, All
<1>4. ASSUME NEW n \in R, nx[n] # NULL
      PROVE  nx[n] \in R
  <2>1. nx[n] \in All
    BY <1>1, <1>4 DEF Links
  <2>2. \A S \in SUBSET All : Closed(S, nx) => nx[n] \in S
    BY <1>2, <1>4 DEF Closed
  <2> QED BY <2>1, <2>2 DEF Reachable
<1>5. Closed(R, nx)
  BY <1>3, <1>4 DEF Closed
<1>6. ASSUME NEW n \in R, n # Kernel, ~ \E p \in R : nx[p] = n
      PROVE  FALSE
  <2>1. Closed(R \ {n}, nx)
    BY <1>5, <1>6 DEF Closed
  <2>2. R \subseteq R \ {n}
    BY <1>1, <1>2, <2>1
  <2> QED BY <2>2, <1>6
<1> QED BY <1>1, <1>2, <1>5, <1>6

\* A write to the link of a node that is not queued leaves the queue as it is.
LEMMA WriteOutside ==
    ASSUME NEW nx \in [All -> Links], NEW c \in All, NEW v \in Links,
           c \notin Reachable(nx)
    PROVE  Reachable([nx EXCEPT ![c] = v]) = Reachable(nx)
<1> DEFINE nx2 == [nx EXCEPT ![c] = v]
           R == Reachable(nx)
           T == Reachable(nx2)
<1>1. nx2 \in [All -> Links]
  OBVIOUS
<1>2. \A m \in All : m # c => nx2[m] = nx[m]
  OBVIOUS
<1>3. R \subseteq All /\ T \subseteq All /\ Closed(R, nx) /\ Closed(T, nx2)
  BY <1>1, ReachableBasics
<1>4. Closed(R, nx2)
  BY <1>2, <1>3 DEF Closed
<1>5. T \subseteq R
  BY <1>1, <1>3, <1>4, ReachableBasics
<1>6. c \notin T
  BY <1>5
<1>7. Closed(T, nx)
  BY <1>2, <1>3, <1>6 DEF Closed
<1>8. R \subseteq T
  BY <1>3, <1>7, ReachableBasics
<1> QED BY <1>5, <1>8

\* A write to the last link of the queue appends the node it points to.
LEMMA AppendTail ==
    ASSUME NEW nx \in [All -> Links], NEW c \in Reachable(nx), NEW t \in All,
           nx[c] = NULL, nx[t] = NULL, t \notin Reachable(nx)
    PROVE  Reachable([nx EXCEPT ![c] = t]) = Reachable(nx) \cup {t}
<1> DEFINE nx2 == [nx EXCEPT ![c] = t]
           R == Reachable(nx)
           T == Reachable(nx2)
<1>1. c \in All /\ nx2 \in [All -> Links]
  BY ReachableBasics DEF Links
<1>2. nx2[c] = t /\ \A m \in All : m # c => nx2[m] = nx[m]
  BY <1>1
<1>3. R \subseteq All /\ T \subseteq All /\ Closed(R, nx) /\ Closed(T, nx2)
  BY <1>1, ReachableBasics
<1>4. Closed(R \cup {t}, nx2)
  <2>1. ASSUME NEW m \in R \cup {t}, nx2[m] # NULL
        PROVE  nx2[m] \in R \cup {t}
    <3>1. CASE m = c
      BY <3>1, <1>2
    <3>2. CASE m = t
      BY <3>2, <2>1, <1>2
    <3>3. CASE m # c /\ m # t
      BY <3>3, <2>1, <1>2, <1>3 DEF Closed
    <3> QED BY <3>1, <3>2, <3>3
  <2> QED BY <2>1, <1>3 DEF Closed
<1>5. T \subseteq R \cup {t}
  <2>1. \A S \in SUBSET All : Closed(S, nx2) => T \subseteq S
    BY <1>1, ReachableBasics
  <2> HIDE DEF R, T, nx2
  <2> QED BY <2>1, <1>3, <1>4
<1>6. Closed(T, nx)
  BY <1>2, <1>3 DEF Closed
<1>7. R \subseteq T
  BY <1>3, <1>6, ReachableBasics
<1>8. t \in T
  <2>1. t # NULL
    BY NodesAssumption DEF All
  <2> QED BY <2>1, <1>2, <1>3, <1>7 DEF Closed
<1> QED BY <1>5, <1>7, <1>8

\* Leading the one link to t past it takes t, and only t, from the queue.
LEMMA Unlink ==
    ASSUME NEW nx \in [All -> Links], NEW p \in Reachable(nx),
           NEW t \in Reachable(nx), t # Kernel, nx[p] = t, nx[t] # t,
           \A m \in Reachable(nx) : nx[m] = t => m = p
    PROVE  Reachable([nx EXCEPT ![p] = nx[t]]) = Reachable(nx) \ {t}
<1> DEFINE nx2 == [nx EXCEPT ![p] = nx[t]]
           R == Reachable(nx)
           T == Reachable(nx2)
<1>1. p \in All /\ t \in All /\ t # NULL /\ nx2 \in [All -> Links]
  BY ReachableBasics, NodesAssumption DEF Links, All
<1>2. nx2[p] = nx[t] /\ \A m \in All : m # p => nx2[m] = nx[m]
  BY <1>1
<1>3. R \subseteq All /\ T \subseteq All /\ Closed(R, nx) /\ Closed(T, nx2)
  BY <1>1, ReachableBasics
<1>4. Closed(R \ {t}, nx2)
  <2>1. ASSUME NEW m \in R \ {t}, nx2[m] # NULL
        PROVE  nx2[m] \in R \ {t}
    <3>1. CASE m = p
      BY <3>1, <2>1, <1>2, <1>3 DEF Closed
    <3>2. CASE m # p
      BY <3>2, <2>1, <1>2, <1>3 DEF Closed
    <3> QED BY <3>1, <3>2
  <2> QED BY <2>1, <1>3 DEF Closed
<1>5. T \subseteq R \ {t}
  <2>1. \A S \in SUBSET All : Closed(S, nx2) => T \subseteq S
    BY <1>1, ReachableBasics
  <2> HIDE DEF R, T, nx2
  <2> QED BY <2>1, <1>3, <1>4
<1>6. p \in T
  <2>1. SUFFICES ASSUME p \notin T
                 PROVE  FALSE
    OBVIOUS
  <2>2. Closed(T, nx)
    BY <2>1, <1>2, <1>3 DEF Closed
  <2> QED BY ZenonT(30), <2>1, <2>2, <1>3, ReachableBasics
<1>7. Closed(T \cup {t}, nx)
  <2>1. ASSUME NEW m \in T \cup {t}, nx[m] # NULL
        PROVE  nx[m] \in T \cup {t}
    <3>1. CASE m = p
      BY <3>1
    <3>2. CASE m = t
      BY <3>2, <2>1, <1>2, <1>3, <1>6 DEF Closed
    <3>3. CASE m # p /\ m # t
      BY <3>3, <2>1, <1>2, <1>3 DEF Closed
    <3> QED BY <3>1, <3>2, <3>3
  <2> QED BY <2>1, <1>3 DEF Closed
<1>8. R \subseteq T \cup {t}
  <2>1. \A S \in SUBSET All : Closed(S, nx) => R \subseteq S
    BY ReachableBasics
  <2> HIDE DEF R, T, nx2
  <2> QED BY <2>1, <1>1, <1>3, <1>7
<1> QED BY <1>5, <1>8

-----------------------------------------------------------------------------
\* The queue while next is unchanged, and what ReachableBasics says of it.
LEMMA ListedBasics ==
    ASSUME TypeOK
    PROVE  /\ Listed \subseteq All
           /\ Kernel \in Listed
           /\ \A n \in Listed : next[n] # NULL => next[n] \in Listed
           /\ \A n \in Listed : n # Kernel => \E p \in Listed : next[p] = n
BY ReachableBasics DEF TypeOK, Listed, Closed

\* The run queue depends on the links only.
LEMMA SameQueue == ASSUME next' = next PROVE Listed' = Listed
BY DEF Listed

\* The initial state satisfies the invariant: kernel_task is the whole queue.
LEMMA InitInvariant == Init => IInv
<1> SUFFICES ASSUME Init PROVE IInv
  OBVIOUS
<1>1. TypeOK
  BY NodesAssumption, ClockAssumption DEF Init, TypeOK, Links, All, Labels, Places
<1>2. Listed = {Kernel}
  <2>1. Closed({Kernel}, next)
    BY DEF Init, Closed, All
  <2>2. Listed \subseteq {Kernel}
    BY <2>1, <1>1, ReachableBasics DEF TypeOK, Listed, All
  <2> QED BY <2>2, <1>1, ListedBasics
<1>3. /\ RunQueueAlive /\ RunQueueByAge /\ RunQueueUnshared /\ CurrentListed
      /\ RightContext /\ RemoveFindsTarget
  BY <1>2
  DEF Init, RunQueueAlive, RunQueueByAge, RunQueueUnshared, CurrentListed,
      RightContext, RemoveFindsTarget, All
<1>4. KernelRuns /\ IdsBelow
  <2>1. Kernel \in All
    BY DEF All
  <2>2. running[Kernel]
    BY <2>1, Zenon DEF Init
  <2>3. id[Kernel] = 0 /\ id_task = 1
    BY <2>1 DEF Init
  <2>4. KernelRuns
    BY <2>2, <2>3 DEF KernelRuns
  <2>5. IdsBelow
    BY <1>2, <2>3 DEF IdsBelow
  <2> QED BY <2>4, <2>5
<1>5. \A n \in All : pc[n] = "body"
  BY DEF Init
<1>6. CreationPrivate /\ WalkPosition /\ ExitsItself
  BY <1>5 DEF CreationPrivate, WalkPosition, ExitsItself, All, KernelLabels, Linking
<1> QED BY <1>1, <1>3, <1>4, <1>6 DEF IInv

-----------------------------------------------------------------------------
\* The steps of task_create_impl up to the link write.
LEMMA CreateSteps ==
    ASSUME IInv,
           NewAlloc \/ FillNode \/ BuildFrame \/ WalkStart \/ WalkTest
             \/ WalkFault \/ WalkAdvance
    PROVE  IInv'
<1>1. TypeOK /\ Kernel \in Listed /\ Listed \subseteq All
  BY ListedBasics DEF IInv
<1>2. CASE NewAlloc
  <2>1. Listed' = Listed
    BY <1>2, SameQueue DEF NewAlloc
  <2>2. TypeOK'
    BY <1>1, <1>2 DEF NewAlloc, Step, TypeOK, Labels, KernelLabels, schedVars
  <2>3. CreationPrivate'
    BY <1>1, <1>2, <2>1, NodesAssumption
    DEF IInv, NewAlloc, Step, TypeOK, CreationPrivate, RunQueueAlive,
        KernelLabels, Linking, All
  <2>4. ExitsItself' /\ WalkPosition'
    BY <1>1, <1>2, <2>1
    DEF IInv, NewAlloc, Step, TypeOK, ExitsItself, WalkPosition, All
  <2> QED
    BY <1>2, <2>1, <2>2, <2>3, <2>4
    DEF IInv, NewAlloc, schedVars, RunQueueAlive, RunQueueByAge, RunQueueUnshared,
        CurrentListed, RightContext, KernelRuns, RemoveFindsTarget, IdsBelow
<1>3. CASE FillNode
  <2>1. new_task \in alive \ Listed /\ new_task \in Nodes
    BY <1>1, <1>3 DEF IInv, FillNode, Step, CreationPrivate, KernelLabels, TypeOK
  <2>2. Listed' = Listed
    BY <1>1, <1>3, <2>1, WriteOutside DEF FillNode, TypeOK, Listed, Links, All
  <2>3. TypeOK'
    <3>1. id' \in [All -> Nat] /\ id_task' \in Nat
      <4>1. id_task \in Nat /\ id \in [All -> Nat]
        BY <1>1 DEF TypeOK
      <4>2. id' = [id EXCEPT ![new_task] = id_task] /\ id_task' = id_task + 1
        BY <1>3 DEF FillNode
      <4>3. id' \in [All -> Nat]
        BY <4>1, <4>2
      <4>4. id_task' \in Nat
        BY <4>1, <4>2
      <4> QED BY <4>3, <4>4
    <3>2. running' \in [All -> BOOLEAN] /\ next' \in [All -> Links]
      BY <1>1, <1>3 DEF FillNode, TypeOK, Links
    <3>3. pc' \in [All -> Labels]
      BY <1>1, <1>3 DEF FillNode, Step, TypeOK, Labels, KernelLabels
    <3> QED BY <1>1, <1>3, <3>1, <3>2, <3>3
            DEF FillNode, TypeOK, schedVars, localVars
  <2>4. \A n \in Listed : next'[n] = next[n] /\ id'[n] = id[n]
                          /\ running'[n] = running[n]
    BY <1>1, <1>3, <2>1 DEF FillNode, TypeOK
  <2>5. next'[new_task] = NULL /\ id'[new_task] = id_task /\ id_task' = id_task + 1
    BY <1>1, <1>3, <2>1 DEF FillNode, TypeOK, All
  <2>6. CreationPrivate'
    BY <1>1, <1>3, <2>1, <2>2, <2>4, <2>5
    DEF IInv, FillNode, Step, TypeOK, CreationPrivate, IdsBelow, KernelLabels,
        Linking, localVars, All
  <2>7. RunQueueByAge' /\ RunQueueUnshared' /\ IdsBelow' /\ KernelRuns'
    BY <1>1, <1>3, <2>2, <2>4, <2>5, ListedBasics
    DEF IInv, TypeOK, RunQueueByAge, RunQueueUnshared, IdsBelow, KernelRuns
  <2>8. ExitsItself' /\ WalkPosition'
    BY <1>1, <1>3, <2>2
    DEF IInv, FillNode, Step, TypeOK, ExitsItself, WalkPosition, localVars, All
  <2> QED
    BY <1>3, <2>2, <2>3, <2>6, <2>7, <2>8
    DEF IInv, FillNode, schedVars, RunQueueAlive, CurrentListed, RightContext,
        RemoveFindsTarget
<1>4. CASE BuildFrame
  <2>1. new_task \in alive \ Listed /\ new_task \in Nodes /\ new_task # Kernel
    BY <1>1, <1>4, NodesAssumption
    DEF IInv, BuildFrame, CreationPrivate, KernelLabels, TypeOK
  <2>2. Listed' = Listed
    BY <1>4, SameQueue DEF BuildFrame
  <2>3. TypeOK'
    BY <1>1, <1>4, <2>1
    DEF BuildFrame, TypeOK, Labels, KernelLabels, schedVars, localVars, All
  <2>4. pc'[Kernel] = "walk" /\ stack'[new_task] = new_task
    BY <1>1, <1>4, <2>1 DEF BuildFrame, TypeOK, All
  <2>5. CreationPrivate'
    BY <1>1, <1>4, <2>1, <2>2, <2>4
    DEF IInv, BuildFrame, CreationPrivate, KernelLabels, Linking, localVars
  <2>6. RightContext'
    BY <1>1, <1>4, <2>1, <2>2
    DEF IInv, BuildFrame, TypeOK, RightContext, schedVars
  <2>7. ExitsItself' /\ WalkPosition'
    BY <1>1, <1>4, <2>4
    DEF IInv, BuildFrame, TypeOK, ExitsItself, WalkPosition, localVars, All
  <2> QED
    BY <1>4, <2>2, <2>3, <2>5, <2>6, <2>7
    DEF IInv, BuildFrame, schedVars, RunQueueAlive, RunQueueByAge,
        RunQueueUnshared, CurrentListed, KernelRuns, RemoveFindsTarget, IdsBelow
<1>5. CASE WalkStart \/ WalkTest \/ WalkFault \/ WalkAdvance
  <2> USE DEF WalkStart, WalkTest, WalkFault, WalkAdvance
  <2>1. UNCHANGED <<next, running, id, stack, alive, low, task_current, task_next,
                    cpu, id_task, ticks, new_task, target>>
    BY <1>5 DEF nodeVars, schedVars, localVars
  <2>2. Listed' = Listed
    BY <2>1, SameQueue
  <2>3. TypeOK'
    <3>1. crt' \in Places
      <4>1. CASE WalkAdvance
        <5>1. crt # WILD
          BY <4>1 DEF IInv, WalkPosition, Step
        <5>2. LinkOf(crt) \in Places
          BY <1>1, <5>1, NodesAssumption DEF TypeOK, LinkOf, Links, Places
        <5> QED BY <4>1, <5>2
      <4>2. CASE ~WalkAdvance
        BY <1>1, <1>5, <4>2 DEF TypeOK, localVars, Places, All
      <4> QED BY <4>1, <4>2
    <3>2. pc' \in [All -> Labels]
      BY <1>1, <1>5 DEF Step, TypeOK, Labels, KernelLabels
    <3>3. /\ int_flag' \in BOOLEAN /\ machine' \in {"on", "fault", "lost"}
          /\ ticks' = ticks
      BY <1>1, <1>5 DEF Step, TypeOK
    <3> QED BY <1>1, <2>1, <3>1, <3>2, <3>3 DEF TypeOK
  <2>4. /\ pc'[Kernel] \in KernelLabels => pc[Kernel] \in Linking \ {"frame"}
        /\ \A n \in All \ {Kernel} : pc'[n] = pc[n]
        /\ pc'[Kernel] \notin ExitLabels
    BY <1>1, <1>5 DEF Step, TypeOK, KernelLabels, Linking, ExitLabels, All
  <2>5. CreationPrivate'
    BY <2>1, <2>2, <2>4 DEF IInv, CreationPrivate, KernelLabels, Linking
  <2>6. WalkPosition'
    <3>1. pc'[Kernel] = "link" => \/ pc[Kernel] = "link" /\ crt' = crt
                                  \/ WalkTest /\ crt' = crt /\ LinkOf(crt) = NULL
      BY <1>1, <1>5 DEF Step, TypeOK, localVars, All
    <3>2. pc'[Kernel] = "advance" => WalkTest /\ crt' = crt
      BY <1>1, <1>5 DEF Step, TypeOK, localVars, All
    <3>3. WalkTest => crt # WILD
      OBVIOUS
    <3> HIDE DEF WalkTest
    <3> QED BY <1>1, <2>1, <2>2, <3>1, <3>2, <3>3 DEF IInv, WalkPosition, LinkOf
  <2>7. ExitsItself'
    BY <1>5, <2>1, <2>4 DEF IInv, ExitsItself, ExitLabels
  <2>8. RemoveFindsTarget'
    BY <1>5 DEF IInv, Step, RemoveFindsTarget
  <2> QED
    BY <2>1, <2>2, <2>3, <2>5, <2>6, <2>7, <2>8
    DEF IInv, RunQueueAlive, RunQueueByAge, RunQueueUnshared, CurrentListed,
        RightContext, KernelRuns, IdsBelow
<1> QED BY <1>2, <1>3, <1>4, <1>5

\* The link write of task_create_impl: it appends the new task, or, when the
\* tail the walk found has been freed, it leaves the queue as it is.
LEMMA LinkStep == IInv /\ LinkTail => IInv'
<1> SUFFICES ASSUME IInv, LinkTail PROVE IInv'
  OBVIOUS
<1>1. TypeOK /\ Kernel \in Listed /\ Listed \subseteq All
  BY ListedBasics DEF IInv
<1>2. /\ new_task \in Nodes /\ new_task \in alive \ Listed /\ next[new_task] = NULL
      /\ stack[new_task] = new_task /\ id[new_task] < id_task
      /\ \A n \in Listed : id[n] < id[new_task]
  BY <1>1 DEF IInv, LinkTail, Step, CreationPrivate, KernelLabels, Linking, TypeOK
<1>3. crt \in Listed => next[crt] = NULL
  BY <1>1 DEF IInv, LinkTail, Step, WalkPosition
<1>4. /\ \/ crt \in All /\ next' = [next EXCEPT ![crt] = new_task] /\ low' = low
         \/ crt \in Low /\ low' = [low EXCEPT ![crt] = new_task] /\ next' = next
      /\ UNCHANGED <<running, id, stack, alive, task_current, task_next, cpu,
                     id_task, ticks, new_task, crt, target, int_flag, machine>>
  BY DEF LinkTail, schedVars, localVars
<1>5. new_task \in All /\ new_task # NULL
  BY <1>2, NodesAssumption DEF All
<1>6. crt \in Listed => Listed' = Listed \cup {new_task}
  <2>1. crt \in Listed => next' = [next EXCEPT ![crt] = new_task]
    BY <1>1, <1>4, NodesAssumption DEF All
  <2> QED BY <1>1, <1>2, <1>3, <1>5, <2>1, AppendTail DEF TypeOK, Listed
<1>7. crt \notin Listed => Listed' = Listed
  BY <1>1, <1>4, <1>5, WriteOutside, SameQueue DEF TypeOK, Listed, Links
<1>8. /\ crt \in All => next'[crt] = new_task
      /\ \A n \in All : n # crt => next'[n] = next[n]
  BY <1>1, <1>4, NodesAssumption DEF TypeOK, All
<1>9. TypeOK'
  <2>1. next' \in [All -> Links] /\ low' \in [Low -> Places]
    BY <1>1, <1>4, <1>5 DEF TypeOK, Links, Places
  <2>2. pc' \in [All -> Labels]
    BY <1>1 DEF LinkTail, Step, TypeOK, Labels
  <2> QED BY <1>1, <1>4, <2>1, <2>2 DEF TypeOK
<1>10. RunQueueAlive' /\ CurrentListed' /\ IdsBelow'
  BY <1>2, <1>4, <1>6, <1>7 DEF IInv, RunQueueAlive, CurrentListed, IdsBelow
<1>11. RunQueueByAge'
  <2> SUFFICES ASSUME NEW n \in Listed', next'[n] # NULL
               PROVE  id[n] < id[next'[n]]
    BY <1>4 DEF RunQueueByAge
  <2>1. CASE n = crt
    BY <2>1, <1>1, <1>2, <1>5, <1>6, <1>7, <1>8
  <2>2. CASE n # crt
    BY <2>2, <1>1, <1>2, <1>5, <1>6, <1>7, <1>8 DEF IInv, RunQueueByAge
  <2> QED BY <2>1, <2>2
<1>12. RunQueueUnshared'
  <2> SUFFICES ASSUME NEW m \in Listed', NEW n \in Listed',
                      next'[m] = next'[n], next'[m] # NULL
               PROVE  m = n
    BY DEF RunQueueUnshared
  <2>1. \A k \in Listed : next[k] # new_task
    BY <1>1, <1>2, <1>5, ListedBasics
  <2>2. \A k \in Listed' : k # crt /\ next'[k] # NULL
                           => k \in Listed /\ next'[k] = next[k] /\ next[k] # new_task
    BY <2>1, <1>1, <1>2, <1>5, <1>6, <1>7, <1>8
  <2>3. CASE m = crt \/ n = crt
    <3>1. m \in All /\ n \in All
      BY <1>1, <1>5, <1>6, <1>7
    <3> QED BY <2>2, <2>3, <3>1, <1>5, <1>8
  <2>4. CASE m # crt /\ n # crt
    BY <2>2, <2>4 DEF IInv, RunQueueUnshared
  <2> QED BY <2>3, <2>4
<1>13. RightContext' /\ KernelRuns' /\ RemoveFindsTarget'
  BY <1>2, <1>4, <1>6, <1>7
  DEF IInv, RightContext, KernelRuns, RemoveFindsTarget
<1>14. pc'[Kernel] = "body" /\ \A n \in All \ {Kernel} : pc'[n] = pc[n]
  BY <1>1 DEF LinkTail, Step, TypeOK, All
<1>15. CreationPrivate' /\ WalkPosition' /\ ExitsItself'
  BY <1>4, <1>14
  DEF IInv, CreationPrivate, WalkPosition, ExitsItself, KernelLabels, Linking
<1> QED BY <1>9, <1>10, <1>11, <1>12, <1>13, <1>15 DEF IInv

-----------------------------------------------------------------------------
\* The steps of task_exit.
LEMMA ExitSteps == IInv /\ task_exit => IInv'
<1> SUFFICES ASSUME IInv, task_exit PROVE IInv'
  OBVIOUS
<1>1. /\ TypeOK /\ Kernel \in Listed /\ Listed \subseteq All
      /\ cpu = task_current /\ cpu \in Listed /\ machine = "on"
  BY ListedBasics
  DEF IInv, RightContext, CurrentListed, task_exit, CallExit, SyscallExit,
      ExitOfKernel, ExitOfTask, ExitTarget, ExitFlags, Step
<1>2. UNCHANGED <<next, id, stack, alive, low, task_current, task_next, cpu,
                  id_task, ticks, new_task, crt, machine>>
  BY DEF task_exit, CallExit, SyscallExit, ExitOfKernel, ExitOfTask, ExitTarget,
         ExitFlags, nodeVars, schedVars, localVars
<1>3. Listed' = Listed
  BY <1>2, SameQueue
<1>4. /\ pc[cpu] \in {"body"} \cup ExitLabels
      /\ pc'[cpu] \in {"body", "spin"} \cup ExitLabels
      /\ pc' = [pc EXCEPT ![cpu] = pc'[cpu]]
  BY <1>1 DEF TypeOK, task_exit, CallExit, SyscallExit, ExitOfKernel, ExitOfTask,
              ExitTarget, ExitFlags, Step, ExitLabels
<1>5. \A n \in All : n # cpu => pc'[n] = pc[n]
  BY <1>1, <1>4 DEF TypeOK
<1>6. pc'[Kernel] \in KernelLabels => pc'[Kernel] = pc[Kernel]
  BY <1>1, <1>4, <1>5 DEF KernelLabels, ExitLabels
<1>7. CASE ExitFlags
  <2>1. cpu # Kernel /\ target[cpu] = cpu
    BY <1>1, <1>7 DEF IInv, ExitsItself, ExitFlags, Step, TypeOK
  <2>2. running' = [running EXCEPT ![cpu] = FALSE] /\ target' = target
        /\ int_flag' = int_flag /\ pc'[cpu] = "spin"
    BY <2>1, <1>1, <1>7 DEF ExitFlags, Step, localVars, TypeOK
  <2>3. TypeOK'
    <3>1. running' \in [All -> BOOLEAN]
      BY <1>1, <2>2 DEF TypeOK
    <3>2. pc' \in [All -> Labels]
      BY <1>1, <1>4, <2>2 DEF TypeOK, Labels
    <3> QED BY <1>1, <1>2, <2>2, <3>1, <3>2 DEF TypeOK
  <2>4. running'[Kernel] = running[Kernel]
    BY <1>1, <2>1, <2>2 DEF TypeOK
  <2>5. ExitsItself' /\ WalkPosition'
    BY <1>1, <1>2, <1>3, <1>5, <1>6, <2>1, <2>2
    DEF IInv, ExitsItself, WalkPosition, KernelLabels
  <2>6. CreationPrivate'
    <3>1. pc[Kernel] \in Linking => running'[new_task] = running[new_task]
      <4>1. pc[Kernel] \in Linking => new_task \in All /\ new_task # cpu
        BY <1>1 DEF IInv, CreationPrivate, Linking, KernelLabels, TypeOK, All
      <4> QED BY <1>1, <2>2, <4>1 DEF TypeOK
    <3> QED
      BY <1>2, <1>3, <1>6, <3>1
      DEF IInv, CreationPrivate, KernelLabels, Linking
  <2> QED
    BY <1>2, <1>3, <2>3, <2>4, <2>5, <2>6
    DEF IInv, RunQueueAlive, RunQueueByAge, RunQueueUnshared, CurrentListed,
        RightContext, KernelRuns, RemoveFindsTarget, IdsBelow
<1>8. CASE ~ExitFlags
  <2>1. running' = running
    BY <1>8 DEF task_exit, CallExit, SyscallExit, ExitOfKernel, ExitOfTask,
                ExitTarget, nodeVars
  <2>2. /\ int_flag' \in BOOLEAN
        /\ target' \in [All -> Links]
        /\ \A n \in All : n # cpu => target'[n] = target[n]
    <3>1. CASE ExitTarget
      BY <1>1, <3>1 DEF TypeOK, ExitTarget, Links
    <3>2. CASE ~ExitTarget
      BY <1>1, <1>8, <3>2 DEF TypeOK, task_exit, CallExit, SyscallExit, ExitOfKernel,
                              ExitOfTask, localVars
    <3> QED BY <3>1, <3>2
  <2>3. TypeOK'
    <3>1. pc' \in [All -> Labels]
      BY <1>1, <1>4 DEF TypeOK, Labels
    <3> QED BY <1>1, <1>2, <2>1, <2>2, <3>1 DEF TypeOK
  <2>4. pc'[cpu] = "exit_flags" => target'[cpu] = cpu
    BY <1>1, <1>4, <1>8
    DEF TypeOK, task_exit, CallExit, SyscallExit, ExitOfKernel, ExitOfTask,
        ExitTarget, Step
  <2>5. pc'[Kernel] \notin {"exit_target", "exit_flags"}
    <3>1. CASE cpu = Kernel
      BY <1>1, <1>4, <1>8, <3>1
      DEF IInv, KernelRuns, ExitsItself, TypeOK, task_exit, CallExit, SyscallExit,
          ExitOfKernel, ExitOfTask, ExitTarget, Step
    <3>2. CASE cpu # Kernel
      BY <1>1, <1>5, <3>2 DEF IInv, ExitsItself
    <3> QED BY <3>1, <3>2
  <2>6. ExitsItself'
    BY <1>5, <2>2, <2>4, <2>5 DEF IInv, ExitsItself
  <2>7. WalkPosition' /\ CreationPrivate'
    BY <1>2, <1>3, <1>6, <2>1
    DEF IInv, WalkPosition, CreationPrivate, KernelLabels, Linking
  <2> QED
    BY <1>2, <1>3, <2>1, <2>3, <2>6, <2>7
    DEF IInv, RunQueueAlive, RunQueueByAge, RunQueueUnshared, CurrentListed,
        RightContext, KernelRuns, RemoveFindsTarget, IdsBelow
<1> QED BY <1>7, <1>8

-----------------------------------------------------------------------------
\* What the invariant says of the task the timer finds.
LEMMA CurrentFacts ==
    ASSUME IInv
    PROVE  /\ task_current \in Listed /\ cpu = task_current
           /\ Successor(task_current) \in Listed
           /\ \A n \in Listed : n # task_current => stack[n] = n
           /\ next[task_current] # task_current
<1>1. TypeOK /\ Kernel \in Listed /\ Listed \subseteq All
  BY ListedBasics DEF IInv
<1>2. task_current \in Listed /\ cpu = task_current
      /\ \A n \in Listed : n # task_current => stack[n] = n
  BY DEF IInv, CurrentListed, RightContext
<1>3. Successor(task_current) \in Listed
  BY <1>1, <1>2, ListedBasics DEF Successor
<1>4. ASSUME next[task_current] = task_current PROVE FALSE
  <2>1. task_current # NULL
    BY <1>1, <1>2, NodesAssumption DEF All
  <2>2. id[task_current] < id[task_current]
    BY <1>2, <1>4, <2>1 DEF IInv, RunQueueByAge
  <2> QED BY <1>1, <1>2, <2>2 DEF TypeOK
<1> QED BY <1>2, <1>3, <1>4

\* A tick that switches: the saved and the loaded executions stay in place.
LEMMA SwitchStep == IInv /\ TickSwitch => IInv'
<1> SUFFICES ASSUME IInv, TickSwitch PROVE IInv'
  OBVIOUS
<1>1. TypeOK /\ Kernel \in Listed /\ Listed \subseteq All
  BY ListedBasics DEF IInv
<1>2. UNCHANGED <<next, running, id, alive, low, id_task, new_task, crt, target,
                  pc, machine, int_flag>>
  BY DEF TickSwitch, Timer, switch_task, localVars
<1>3. Listed' = Listed
  BY <1>2, SameQueue
<1>4. /\ task_next' = Successor(task_current)
      /\ stack' = [stack EXCEPT ![task_current] = cpu]
      /\ cpu' = stack'[task_next'] /\ task_current' = task_next'
  BY DEF TickSwitch, switch_task
<1>5. /\ stack' \in [All -> All]
      /\ \A n \in Listed : stack'[n] = n
  BY <1>1, <1>4, CurrentFacts DEF TypeOK
<1>6. task_current' \in Listed /\ cpu' = task_current'
  BY <1>4, <1>5, CurrentFacts
<1>7. TypeOK'
  <2>1. ticks' \in 0 .. TIME_WRAP - 1
    BY <1>1, ClockAssumption DEF TickSwitch, Timer, TypeOK
  <2> QED BY <1>1, <1>2, <1>4, <1>5, <1>6, <2>1 DEF TypeOK
<1>8. RightContext' /\ CurrentListed'
  BY <1>3, <1>5, <1>6 DEF RightContext, CurrentListed
<1>9. CreationPrivate'
  <2>1. pc[Kernel] \in Linking \ {"frame"} => stack'[new_task] = new_task
    <3>1. CASE pc[Kernel] \in Linking \ {"frame"}
      <4>1. new_task \in All /\ new_task # task_current
        BY <1>1, <3>1, CurrentFacts
        DEF IInv, CreationPrivate, KernelLabels, Linking, TypeOK, All
      <4> QED BY <1>1, <1>4, <3>1, <4>1 DEF IInv, CreationPrivate, TypeOK
    <3> QED BY <3>1
  <2> QED BY <1>2, <1>3, <2>1 DEF IInv, CreationPrivate
<1> QED
  BY <1>2, <1>3, <1>7, <1>8, <1>9
  DEF IInv, RunQueueAlive, RunQueueByAge, RunQueueUnshared, KernelRuns,
      RemoveFindsTarget, IdsBelow, WalkPosition, ExitsItself

\* A tick that removes an exited task: task_remove finds the one node in front
\* of it, and the queue loses that task and nothing else.
LEMMA RemoveStep ==
    ASSUME IInv, TickRemove
    PROVE  IInv' /\ Listed' = Listed \ {task_current}
                 /\ alive' = alive \ {task_current} /\ ~running[task_current]
<1> DEFINE t == task_current
<1>1. TypeOK /\ Kernel \in Listed /\ Listed \subseteq All
  BY ListedBasics DEF IInv
<1>2. ~running[t] /\ t # Kernel /\ t \in Listed
  BY CurrentFacts DEF IInv, KernelRuns, TickRemove
<1>3. Predecessors # {}
  BY <1>1, <1>2, ListedBasics DEF Predecessors
<1>4. PICK p \in Predecessors : task_remove(p)
  BY <1>3 DEF TickRemove
<1>5. p \in Listed /\ next[p] = t /\ p \in All /\ t \in All /\ t # NULL /\ p # t
  BY <1>1, <1>2, <1>4, CurrentFacts, NodesAssumption DEF Predecessors, All
<1>6. /\ next' = [next EXCEPT ![p] = next[t]]
      /\ alive' = alive \ {t}
      /\ task_next' = Successor(t)
      /\ cpu' = stack[task_next'] /\ task_current' = task_next'
      /\ UNCHANGED <<running, id, stack, low, id_task, new_task, crt, target, pc,
                     machine, int_flag>>
  BY <1>4 DEF task_remove, TickRemove, Timer, localVars
<1>7. \A m \in Listed : next[m] = t => m = p
  BY <1>5 DEF IInv, RunQueueUnshared
<1>8. Listed' = Listed \ {t}
  BY <1>1, <1>2, <1>5, <1>6, <1>7, CurrentFacts, Unlink DEF TypeOK, Listed
<1>9. next'[p] = next[t] /\ \A m \in All : m # p => next'[m] = next[m]
  BY <1>1, <1>5, <1>6 DEF TypeOK
<1>10. Successor(t) \in Listed /\ Successor(t) # t
  BY <1>2, CurrentFacts DEF Successor
<1>11. task_current' \in Listed' /\ cpu' = task_current'
       /\ \A n \in Listed' : stack'[n] = n
  BY <1>6, <1>8, <1>10, CurrentFacts
<1>12. TypeOK'
  <2>1. ticks' \in 0 .. TIME_WRAP - 1
    BY <1>1, ClockAssumption DEF TickRemove, Timer, TypeOK
  <2>2. next' \in [All -> Links]
    BY <1>1, <1>5, <1>6 DEF TypeOK
  <2>3. alive' \subseteq Nodes /\ task_current' \in All /\ task_next' \in All
        /\ cpu' \in All
    BY <1>1, <1>6, <1>8, <1>11 DEF TypeOK
  <2> QED BY <1>1, <1>6, <2>1, <2>2, <2>3 DEF TypeOK
<1>13. RightContext' /\ CurrentListed'
  BY <1>11 DEF RightContext, CurrentListed
<1>14. RunQueueByAge'
  <2> SUFFICES ASSUME NEW n \in Listed', next'[n] # NULL
               PROVE  id[n] < id[next'[n]]
    BY <1>6 DEF RunQueueByAge
  <2>1. n \in Listed /\ n \in All
    BY <1>1, <1>8
  <2>2. CASE n = p
    <3>1. id[p] < id[t] /\ id[t] < id[next[t]] /\ next[t] \in Listed
      BY <1>2, <1>5, <1>9, <2>2, ListedBasics DEF IInv, RunQueueByAge
    <3>2. id[p] \in Nat /\ id[t] \in Nat /\ id[next[t]] \in Nat
      BY <1>1, <1>5, <3>1 DEF TypeOK
    <3> QED BY <1>9, <2>2, <3>1, <3>2
  <2>3. CASE n # p
    BY <1>9, <2>1, <2>3 DEF IInv, RunQueueByAge
  <2> QED BY <2>2, <2>3
<1>15. RunQueueUnshared'
  <2> SUFFICES ASSUME NEW m \in Listed', NEW n \in Listed',
                      next'[m] = next'[n], next'[m] # NULL
               PROVE  m = n
    BY DEF RunQueueUnshared
  <2>1. m \in Listed /\ n \in Listed /\ m \in All /\ n \in All /\ m # t /\ n # t
    BY <1>1, <1>8
  <2>2. CASE m # p /\ n # p
    BY <1>9, <2>1, <2>2 DEF IInv, RunQueueUnshared
  <2>3. CASE m = p \/ n = p
    BY <1>2, <1>9, <2>1, <2>3 DEF IInv, RunQueueUnshared
  <2> QED BY <2>2, <2>3
<1>16. RunQueueAlive' /\ IdsBelow' /\ KernelRuns' /\ RemoveFindsTarget'
  BY <1>6, <1>8
  DEF IInv, RunQueueAlive, IdsBelow, KernelRuns, RemoveFindsTarget
<1>17. CreationPrivate'
  <2>1. pc[Kernel] \in KernelLabels => new_task \in alive \ Listed /\ new_task \in All
    BY <1>1 DEF IInv, CreationPrivate, TypeOK, All
  <2>2. pc[Kernel] \in KernelLabels => next'[new_task] = next[new_task]
    BY <1>5, <1>9, <2>1
  <2> QED
    BY <1>2, <1>6, <1>8, <2>1, <2>2
    DEF IInv, CreationPrivate, KernelLabels, Linking
<1>18. WalkPosition'
  <2>1. pc[Kernel] = "link" /\ crt \in Listed' => next'[crt] = NULL
    BY <1>1, <1>5, <1>8, <1>9 DEF IInv, WalkPosition
  <2> QED BY <1>6, <2>1 DEF IInv, WalkPosition
<1>19. ExitsItself'
  BY <1>6 DEF IInv, ExitsItself
<1> QED
  BY <1>2, <1>6, <1>8, <1>12, <1>13, <1>14, <1>15, <1>16, <1>17, <1>18, <1>19
  DEF IInv

-----------------------------------------------------------------------------
\* IInv is inductive.
LEMMA NextInvariant == IInv /\ [Next]_vars => IInv'
<1> SUFFICES ASSUME IInv, [Next]_vars PROVE IInv'
  OBVIOUS
<1>1. CASE task_create
  BY <1>1, CreateSteps, LinkStep DEF task_create
<1>2. CASE task_exit
  BY <1>2, ExitSteps
<1>3. CASE TickKeep
  <2>1. UNCHANGED <<nodeVars, schedVars, id_task, localVars, pc, int_flag, machine>>
    BY <1>3 DEF TickKeep, Timer
  <2>2. Listed' = Listed
    BY <2>1, SameQueue DEF nodeVars
  <2>3. ticks' \in 0 .. TIME_WRAP - 1
    BY <1>3, ClockAssumption DEF IInv, TypeOK, TickKeep, Timer
  <2> QED
    BY <2>1, <2>2, <2>3
    DEF nodeVars, schedVars, localVars, IInv, TypeOK, RunQueueAlive, RunQueueByAge,
        RunQueueUnshared, CurrentListed, RightContext, KernelRuns,
        RemoveFindsTarget, CreationPrivate, IdsBelow, WalkPosition, ExitsItself
<1>4. CASE TickSwitch
  BY <1>4, SwitchStep
<1>5. CASE TickRemove
  BY <1>5, RemoveStep
<1>6. CASE UNCHANGED vars
  <2>1. Listed' = Listed
    BY <1>6, SameQueue DEF vars, nodeVars
  <2> QED
    BY <1>6, <2>1
    DEF vars, nodeVars, schedVars, localVars, IInv, TypeOK, RunQueueAlive,
        RunQueueByAge, RunQueueUnshared, CurrentListed, RightContext, KernelRuns,
        RemoveFindsTarget, CreationPrivate, IdsBelow, WalkPosition, ExitsItself
<1> QED BY <1>1, <1>2, <1>3, <1>4, <1>5, <1>6 DEF Next, irq_time_handle

-----------------------------------------------------------------------------
\* The inductive invariant holds in every reachable state.
THEOREM Invariance == Spec => []IInv
<1>1. Init => IInv
  BY InitInvariant
<1>2. IInv /\ [Next]_vars => IInv'
  BY NextInvariant
<1> QED BY <1>1, <1>2, PTL DEF Spec

\* Every variable of the task code keeps its type; task_current is a node.
THEOREM TypeCorrectness == Spec => []TypeOK
<1>1. IInv => TypeOK
  BY DEF IInv
<1> QED BY <1>1, Invariance, PTL

\* No freed node is on the run queue, wherever the timer interrupts task_create.
THEOREM NoFreedNodeQueued == Spec => []RunQueueAlive
<1>1. IInv => RunQueueAlive
  BY DEF IInv
<1> QED BY <1>1, Invariance, PTL

\* The links of the run queue lead from older to younger tasks: it has no cycle.
THEOREM QueueByAge == Spec => []RunQueueByAge
<1>1. IInv => RunQueueByAge
  BY DEF IInv
<1> QED BY <1>1, Invariance, PTL

\* The execution on the processor is task_current's, and every queued task that
\* waits has its own execution saved.
THEOREM ContextsMatch == Spec => []RightContext
<1>1. IInv => RightContext
  BY DEF IInv
<1> QED BY <1>1, Invariance, PTL

\* task_current is always on the run queue.
THEOREM CurrentIsListed == Spec => []CurrentListed
<1>1. IInv => CurrentListed
  BY DEF IInv
<1> QED BY <1>1, Invariance, PTL

\* task_remove never reaches its "Prev Task is NULL" halt.
THEOREM RemoveNeverHalts == Spec => []RemoveFindsTarget
<1>1. IInv => RemoveFindsTarget
  BY DEF IInv
<1> QED BY <1>1, Invariance, PTL

-----------------------------------------------------------------------------
\* What a step other than a removal does to the queue: nothing leaves it, and
\* no node is freed.
LEMMA OthersKeep ==
    ASSUME IInv, [Next]_vars, ~TickRemove
    PROVE  Listed \subseteq Listed' /\ alive \subseteq alive'
<1>1. TypeOK /\ Listed \subseteq All
  BY ListedBasics DEF IInv
<1>2. alive \subseteq alive'
  BY DEF Next, task_create, task_exit, irq_time_handle, NewAlloc, FillNode,
         BuildFrame, WalkStart, WalkTest, WalkFault, WalkAdvance, LinkTail,
         CallExit, SyscallExit, ExitOfKernel, ExitOfTask, ExitTarget, ExitFlags,
         TickKeep, TickSwitch, switch_task, nodeVars, vars
<1>3. CASE FillNode
  <2>1. new_task \in All \ Listed
    BY <1>1, <1>3
    DEF IInv, FillNode, Step, CreationPrivate, KernelLabels, TypeOK, All
  <2>2. Listed' = Listed
    BY <1>1, <1>3, <2>1, WriteOutside DEF FillNode, TypeOK, Listed, Links
  <2> QED BY <1>2, <2>2
<1>4. CASE LinkTail
  <2>1. /\ new_task \in All \ Listed /\ next[new_task] = NULL
        /\ new_task \in Links
    BY <1>1, <1>4 DEF IInv, LinkTail, Step, CreationPrivate, KernelLabels, Linking,
                      TypeOK, All, Links
  <2>2. crt \in Listed => next[crt] = NULL
    BY <1>1, <1>4 DEF IInv, LinkTail, Step, WalkPosition
  <2>3. \/ crt \in All /\ next' = [next EXCEPT ![crt] = new_task]
        \/ crt \notin All /\ next' = next
    BY <1>4, NodesAssumption DEF LinkTail, All
  <2>4. crt \in Listed => Listed' = Listed \cup {new_task}
    BY <1>1, <2>1, <2>2, <2>3, AppendTail DEF TypeOK, Listed
  <2>5. crt \notin Listed => Listed' = Listed
    BY <1>1, <2>1, <2>3, WriteOutside, SameQueue DEF TypeOK, Listed
  <2> QED BY <1>2, <2>4, <2>5
<1>5. CASE ~FillNode /\ ~LinkTail
  <2>1. next' = next
    BY <1>5 DEF Next, task_create, task_exit, irq_time_handle, NewAlloc, BuildFrame,
                WalkStart, WalkTest, WalkFault, WalkAdvance, CallExit, SyscallExit,
                ExitOfKernel, ExitOfTask, ExitTarget, ExitFlags, TickKeep,
                TickSwitch, switch_task, nodeVars, vars
  <2> QED BY <1>2, <2>1, SameQueue
<1> QED BY <1>3, <1>4, <1>5

\* Only a task that has exited leaves the run queue.
THEOREM NoRunningTaskCutOff == Spec => OnlyExitedLeave
<1>1. IInv /\ [Next]_vars => [\A n \in Listed : n \notin Listed' => ~running[n]]_vars
  <2> SUFFICES ASSUME IInv, [Next]_vars, NEW n \in Listed, n \notin Listed'
               PROVE  ~running[n]
    OBVIOUS
  <2>1. TickRemove
    BY OthersKeep
  <2> QED BY <2>1, RemoveStep
<1> QED BY <1>1, Invariance, PTL DEF Spec, OnlyExitedLeave

\* Only the node of a task that has exited is freed.
THEOREM NoRunningTaskFreed == Spec => OnlyExitedFreed
<1>1. IInv /\ [Next]_vars => [\A n \in alive : n \notin alive' => ~running[n]]_vars
  <2> SUFFICES ASSUME IInv, [Next]_vars, NEW n \in alive, n \notin alive'
               PROVE  ~running[n]
    OBVIOUS
  <2>1. TickRemove
    BY OthersKeep
  <2> QED BY <2>1, RemoveStep
<1> QED BY <1>1, Invariance, PTL DEF Spec, OnlyExitedFreed

-----------------------------------------------------------------------------
(* The linked run queue implements the round robin by age of RoundRobin.   *)

\* A step from a queued task lands on the next younger one.
LEMMA NoneBetween ==
    ASSUME IInv, NEW n \in Listed,
           \A m \in Listed : /\ id[m] < id[n] => /\ next[m] # NULL
                                                 /\ id[next[m]] <= id[n]
                             /\ id[m] = id[n] => m = n
    PROVE  /\ next[n] = NULL => \A m \in Listed : id[m] <= id[n]
           /\ next[n] # NULL => \A m \in Listed : id[n] < id[m] => id[next[n]] <= id[m]
<1>1. /\ Listed \subseteq All /\ Kernel \in Listed /\ id[Kernel] = 0
      /\ \A m \in Listed : id[m] \in Nat
      /\ \A m \in Listed : next[m] # NULL => next[m] \in Listed /\ id[m] < id[next[m]]
      /\ \A S \in SUBSET All : Closed(S, next) => Listed \subseteq S
  BY ReachableBasics, ListedBasics
  DEF IInv, TypeOK, RunQueueByAge, KernelRuns, Listed
<1>2. ASSUME next[n] = NULL
      PROVE  \A m \in Listed : id[m] <= id[n]
  <2> DEFINE S == {m \in Listed : id[m] <= id[n]}
  <2>1. Kernel \in S
    BY <1>1
  <2>2. \A m \in S : next[m] # NULL => next[m] \in S
    BY <1>1, <1>2
  <2>3. Listed \subseteq S
    <3>1. Closed(S, next) /\ S \in SUBSET All
      BY <1>1, <2>1, <2>2 DEF Closed
    <3> HIDE DEF S
    <3> QED BY <1>1, <3>1
  <2> QED BY <2>3
<1>3. ASSUME next[n] # NULL
      PROVE  \A m \in Listed : id[n] < id[m] => id[next[n]] <= id[m]
  <2> DEFINE S == {m \in Listed : id[m] <= id[n] \/ id[next[n]] <= id[m]}
  <2>1. Kernel \in S
    BY <1>1
  <2>2. ASSUME NEW m \in S, next[m] # NULL
        PROVE  next[m] \in S
    <3>1. m \in Listed /\ next[m] \in Listed /\ id[m] < id[next[m]]
      BY <1>1, <2>2
    <3>2. CASE m = n
      BY <1>1, <1>3, <3>1, <3>2
    <3>3. CASE id[m] < id[n]
      BY <1>1, <3>1, <3>3
    <3>4. CASE id[next[n]] <= id[m]
      BY <1>1, <1>3, <3>1, <3>4
    <3>5. id[m] <= id[n] => id[m] < id[n] \/ m = n
      BY <1>1, <3>1
    <3> QED BY <2>2, <3>2, <3>3, <3>4, <3>5
  <2>3. Listed \subseteq S
    <3>1. Closed(S, next) /\ S \in SUBSET All
      BY <1>1, <2>1, <2>2 DEF Closed
    <3> HIDE DEF S
    <3> QED BY <1>1, <3>1
  <2> QED BY <1>1, <1>3, <2>3
<1> QED BY <1>2, <1>3

\* The order of the links is the order of the ages, and ages are distinct.
LEMMA QueueOrder ==
    ASSUME IInv
    PROVE  \A n \in Listed :
             /\ \A m \in Listed : id[m] = id[n] => m = n
             /\ next[n] = NULL => \A m \in Listed : id[m] <= id[n]
             /\ next[n] # NULL =>
                  \A m \in Listed : id[n] < id[m] => id[next[n]] <= id[m]
<1> DEFINE Good(n) == \A m \in Listed :
                         /\ id[m] < id[n] => next[m] # NULL /\ id[next[m]] <= id[n]
                         /\ id[m] = id[n] => m = n
           G == {n \in Listed : Good(n)}
<1>1. /\ Listed \subseteq All /\ Kernel \in Listed /\ id[Kernel] = 0
      /\ \A m \in Listed : id[m] \in Nat
      /\ \A m \in Listed : next[m] # NULL => next[m] \in Listed /\ id[m] < id[next[m]]
      /\ \A m \in Listed : m # Kernel => \E p \in Listed : next[p] = m
      /\ \A m \in Listed : m # NULL
      /\ \A S \in SUBSET All : Closed(S, next) => Listed \subseteq S
  <2>1. \A m \in All : m # NULL
    BY NodesAssumption DEF All
  <2> QED BY <2>1, ReachableBasics, ListedBasics
          DEF IInv, TypeOK, RunQueueByAge, KernelRuns, Listed
<1>2. Kernel \in G
  <2>1. \A m \in Listed : ~(id[m] < id[Kernel])
    BY <1>1
  <2>2. ASSUME NEW m \in Listed, id[m] = 0, m # Kernel
        PROVE  FALSE
    <3>1. PICK p \in Listed : next[p] = m
      BY <1>1, <2>2
    <3> QED BY <1>1, <2>2, <3>1
  <2> QED BY <1>1, <2>1, <2>2
<1>3. ASSUME NEW n \in G, next[n] # NULL
      PROVE  next[n] \in G
  <2> DEFINE k == next[n]
  <2>1. /\ n \in Listed /\ k \in Listed /\ id[n] < id[k]
        /\ id[n] \in Nat /\ id[k] \in Nat
    BY <1>1, <1>3
  <2>2. \A m \in Listed : id[n] < id[m] => id[k] <= id[m]
    <3>1. Good(n)
      BY <1>3
    <3> QED BY <1>3, <2>1, <3>1, NoneBetween
  <2>3. ASSUME NEW m \in Listed, id[m] < id[k]
        PROVE  next[m] # NULL /\ id[next[m]] <= id[k] /\ (m = n \/ id[next[m]] < id[k])
    <3>1. id[m] <= id[n]
      BY <1>1, <2>1, <2>2, <2>3
    <3>2. CASE id[m] < id[n]
      BY <1>1, <1>3, <2>1, <3>2
    <3>3. CASE m = n
      BY <1>3, <2>1, <3>3
    <3>4. id[m] < id[n] \/ m = n
      BY <1>1, <1>3, <2>1, <3>1
    <3> QED BY <3>2, <3>3, <3>4
  <2>4. ASSUME NEW m \in Listed, id[m] = id[k]
        PROVE  m = k
    <3>1. m # Kernel
      BY <1>1, <2>1, <2>4
    <3>2. PICK p \in Listed : next[p] = m
      BY <1>1, <3>1
    <3>3. id[p] < id[k] /\ id[next[p]] = id[k]
      BY <1>1, <2>4, <3>2
    <3>4. p = n
      BY <1>1, <2>1, <2>3, <3>3
    <3> QED BY <3>2, <3>4
  <2> QED BY <2>1, <2>3, <2>4
<1>4. Listed \subseteq G
  <2>1. Closed(G, next) /\ G \in SUBSET All
    BY <1>1, <1>2, <1>3 DEF Closed
  <2> HIDE DEF G
  <2> QED BY <1>1, <2>1
<1>5. ASSUME NEW n \in Listed
      PROVE  /\ \A m \in Listed : id[m] = id[n] => m = n
             /\ next[n] = NULL => \A m \in Listed : id[m] <= id[n]
             /\ next[n] # NULL =>
                  \A m \in Listed : id[n] < id[m] => id[next[n]] <= id[m]
  <2>1. Good(n)
    BY <1>4
  <2> QED BY <2>1, NoneBetween
<1> QED BY <1>5

-----------------------------------------------------------------------------
\* The initial states are initial states of the round robin.
LEMMA InitRefines == Init => RR!Init
<1> SUFFICES ASSUME Init PROVE RR!Init
  OBVIOUS
<1>1. IInv
  BY InitInvariant
<1>2. Listed = {Kernel}
  <2>1. Closed({Kernel}, next)
    BY DEF Init, Closed, All
  <2>2. Listed \subseteq {Kernel}
    BY <2>1, <1>1, ReachableBasics DEF IInv, TypeOK, Listed, All
  <2> QED BY <2>2, <1>1, ListedBasics DEF IInv
<1>3. running[Kernel] /\ id[Kernel] = 0
  BY <1>1 DEF IInv, KernelRuns
<1>4. Age = [t \in {Kernel} |-> 0]
  BY <1>2, <1>3 DEF Age
<1>5. Finished = {}
  BY <1>2, <1>3 DEF Finished
<1>6. task_current = Kernel
  BY DEF Init
<1> QED BY <1>4, <1>5, <1>6 DEF RR!Init

\* The successor by link is the successor by age.
LEMMA SuccessorFollows == IInv => RR!Follows(Successor(task_current), task_current)
<1> SUFFICES ASSUME IInv
             PROVE  RR!Follows(Successor(task_current), task_current)
  OBVIOUS
<1> DEFINE t == task_current
<1>1. t \in Listed /\ DOMAIN Age = Listed /\ \A n \in Listed : Age[n] = id[n]
  BY CurrentFacts DEF Age
<1>2. \A m \in Listed : id[m] \in Nat
  BY ListedBasics DEF IInv, TypeOK
<1>3. RR!Younger(t) = {u \in Listed : id[t] < id[u]}
  BY <1>1 DEF RR!Younger, RR!Queue
<1>4. CASE next[t] = NULL
  <2>1. \A m \in Listed : id[m] <= id[t]
    BY <1>1, <1>4, QueueOrder
  <2>2. RR!Younger(t) = {}
    BY <1>1, <1>2, <1>3, <2>1
  <2> QED BY <1>4, <2>2 DEF RR!Follows, Successor
<1>5. CASE next[t] # NULL
  <2>1. \A m \in Listed : id[t] < id[m] => id[next[t]] <= id[m]
    BY <1>1, <1>5, QueueOrder
  <2>2. next[t] \in Listed /\ id[t] < id[next[t]]
    BY <1>1, <1>5, ListedBasics DEF IInv, RunQueueByAge
  <2>3. next[t] \in RR!Younger(t)
    BY <1>3, <2>2
  <2>4. \A v \in RR!Younger(t) : Age[next[t]] <= Age[v]
    BY <1>1, <1>3, <2>1, <2>2
  <2> QED BY <1>5, <2>3, <2>4 DEF RR!Follows, Successor
<1> QED BY <1>4, <1>5

\* The link write is the entry of the youngest task, or it is invisible.
LEMMA LinkRefines == IInv /\ LinkTail => RR!Next \/ UNCHANGED RR!vars
<1> SUFFICES ASSUME IInv, LinkTail PROVE RR!Next \/ UNCHANGED RR!vars
  OBVIOUS
<1>1. TypeOK /\ Listed \subseteq All
  BY ListedBasics DEF IInv
<1>2. /\ new_task \in Nodes /\ new_task \notin Listed /\ next[new_task] = NULL
      /\ running[new_task] /\ \A n \in Listed : id[n] < id[new_task]
  BY <1>1 DEF IInv, LinkTail, Step, CreationPrivate, KernelLabels, Linking, TypeOK
<1>3. crt \in Listed => next[crt] = NULL
  BY <1>1 DEF IInv, LinkTail, Step, WalkPosition
<1>4. /\ \/ crt \in All /\ next' = [next EXCEPT ![crt] = new_task]
         \/ crt \in Low /\ next' = next
      /\ running' = running /\ id' = id /\ task_current' = task_current
  BY DEF LinkTail, schedVars
<1>5. new_task \in All /\ new_task \in Links
  BY <1>2 DEF All, Links
<1>6. CASE crt \in Listed
  <2>1. Listed' = Listed \cup {new_task}
    <3>1. next' = [next EXCEPT ![crt] = new_task]
      BY <1>1, <1>4, <1>6, NodesAssumption DEF All
    <3> QED BY <1>1, <1>2, <1>3, <1>5, <1>6, <3>1, AppendTail DEF TypeOK, Listed
  <2>2. Finished' = Finished
    BY <1>2, <1>4, <2>1 DEF Finished
  <2>3. DOMAIN Age = Listed /\ \A u \in Listed : Age[u] = id[u]
    BY DEF Age
  <2>4. Age' = [u \in Listed \cup {new_task} |-> id[u]]
    BY <1>4, <2>1 DEF Age
  <2>5. \A u \in Listed \cup {new_task} : id[u] \in Nat
    BY <1>1, <1>5 DEF TypeOK
  <2>6. RR!Admit(new_task)
    BY <1>2, <1>4, <2>2, <2>3, <2>4, <2>5 DEF RR!Admit, RR!Queue
  <2> QED BY <1>2, <2>6 DEF RR!Next
<1>7. CASE crt \notin Listed
  <2>1. Listed' = Listed
    BY <1>1, <1>4, <1>5, <1>7, WriteOutside, SameQueue DEF TypeOK, Listed
  <2> QED BY <1>4, <2>1 DEF RR!vars, Age, Finished
<1> QED BY <1>6, <1>7

\* A step of task_exit is the end of the task whose turn it is, or invisible.
LEMMA ExitRefines == IInv /\ task_exit => RR!Next \/ UNCHANGED RR!vars
<1> SUFFICES ASSUME IInv, task_exit PROVE RR!Next \/ UNCHANGED RR!vars
  OBVIOUS
<1>1. /\ TypeOK /\ cpu = task_current /\ cpu \in Listed /\ Listed \subseteq All
  BY CurrentFacts, ListedBasics DEF IInv
<1>2. next' = next /\ id' = id /\ task_current' = task_current
  BY DEF task_exit, CallExit, SyscallExit, ExitOfKernel, ExitOfTask, ExitTarget,
         ExitFlags, nodeVars, schedVars
<1>3. Listed' = Listed /\ Age' = Age
  BY <1>2, SameQueue DEF Age
<1>4. CASE ExitFlags
  <2>1. cpu # Kernel /\ target[cpu] = cpu
    BY <1>1, <1>4 DEF IInv, ExitsItself, ExitFlags, Step, TypeOK
  <2>2. running' = [running EXCEPT ![task_current] = FALSE]
    BY <1>1, <1>4, <2>1 DEF ExitFlags
  <2>3. Finished' = Finished \cup {task_current}
    BY <1>1, <1>3, <2>2 DEF Finished, TypeOK
  <2>4. RR!Finish
    BY <1>1, <1>2, <1>3, <2>1, <2>3 DEF RR!Finish
  <2> QED BY <2>4 DEF RR!Next
<1>5. CASE ~ExitFlags
  <2>1. running' = running
    BY <1>5 DEF task_exit, CallExit, SyscallExit, ExitOfKernel, ExitOfTask,
                ExitTarget, nodeVars
  <2> QED BY <1>2, <1>3, <2>1 DEF RR!vars, Finished
<1> QED BY <1>4, <1>5

\* A tick gives the turn to the next younger task, taking out the one that has
\* it if that one has finished.
LEMMA TickRefines == IInv /\ irq_time_handle => RR!Next \/ UNCHANGED RR!vars
<1> SUFFICES ASSUME IInv, irq_time_handle PROVE RR!Next \/ UNCHANGED RR!vars
  OBVIOUS
<1>1. TypeOK /\ Listed \subseteq All /\ task_current \in Listed
  BY CurrentFacts, ListedBasics DEF IInv
<1>2. RR!Follows(Successor(task_current), task_current)
  BY SuccessorFollows
<1>3. CASE TickKeep
  <2>1. UNCHANGED <<next, running, id, task_current>>
    BY <1>3 DEF TickKeep, nodeVars, schedVars
  <2> QED BY <2>1, SameQueue DEF RR!vars, Age, Finished
<1>4. CASE TickSwitch
  <2>1. /\ UNCHANGED <<next, running, id>> /\ running[task_current]
        /\ task_current' = Successor(task_current)
    BY <1>4 DEF TickSwitch, switch_task
  <2>2. Age' = Age /\ Finished' = Finished /\ task_current \notin Finished
    BY <2>1, SameQueue DEF Age, Finished
  <2>3. RR!Rotate
    BY <1>2, <2>1, <2>2 DEF RR!Rotate
  <2> QED BY <2>3 DEF RR!Next
<1>5. CASE TickRemove
  <2>1. Listed' = Listed \ {task_current} /\ ~running[task_current]
    BY <1>5, RemoveStep
  <2>2. /\ UNCHANGED <<running, id>>
        /\ task_current' = Successor(task_current)
    <3>1. task_current # Kernel
      BY <2>1 DEF IInv, KernelRuns
    <3>2. Predecessors # {}
      BY <1>1, <3>1, ListedBasics DEF IInv, Predecessors
    <3>3. PICK p \in Predecessors : task_remove(p)
      BY <1>5, <3>2 DEF TickRemove
    <3> QED BY <3>3 DEF task_remove
  <2>3. Age' = [u \in Listed \ {task_current} |-> Age[u]]
    BY <2>1, <2>2 DEF Age
  <2>4. Finished' = Finished \ {task_current} /\ task_current \in Finished
    BY <1>1, <2>1, <2>2 DEF Finished
  <2>5. RR!Retire
    BY <1>2, <2>2, <2>3, <2>4 DEF RR!Retire, RR!Queue, Age
  <2> QED BY <2>5 DEF RR!Next
<1> QED BY <1>3, <1>4, <1>5 DEF irq_time_handle

\* The other statements of task_create_impl are invisible to the round robin.
LEMMA CreateRefines ==
    ASSUME IInv,
           NewAlloc \/ FillNode \/ BuildFrame \/ WalkStart \/ WalkTest
             \/ WalkFault \/ WalkAdvance
    PROVE  UNCHANGED RR!vars
<1>1. TypeOK /\ Listed \subseteq All
  BY ListedBasics DEF IInv
<1>2. task_current' = task_current
  BY DEF NewAlloc, FillNode, BuildFrame, WalkStart, WalkTest, WalkFault, WalkAdvance,
         schedVars
<1>3. CASE FillNode
  <2>1. new_task \in All /\ new_task \notin Listed
    BY <1>1, <1>3 DEF IInv, FillNode, Step, CreationPrivate, KernelLabels, TypeOK, All
  <2>2. Listed' = Listed
    BY <1>1, <1>3, <2>1, WriteOutside DEF FillNode, TypeOK, Listed, Links
  <2>3. \A n \in Listed : id'[n] = id[n] /\ running'[n] = running[n]
    BY <1>1, <1>3, <2>1 DEF FillNode, TypeOK
  <2>4. Age' = Age
    BY <2>2, <2>3 DEF Age
  <2>5. Finished' = Finished
    BY <2>2, <2>3 DEF Finished
  <2> QED BY <1>2, <2>4, <2>5 DEF RR!vars
<1>4. CASE ~FillNode
  <2>1. UNCHANGED <<next, running, id>>
    BY <1>4 DEF NewAlloc, BuildFrame, WalkStart, WalkTest, WalkFault, WalkAdvance,
                nodeVars
  <2> QED BY <1>2, <2>1, SameQueue DEF RR!vars, Age, Finished
<1> QED BY <1>3, <1>4

\* The scheduler implements the round robin.
THEOREM Refinement == Spec => ImplementsRoundRobin
<1>1. Init => RR!Init
  BY InitRefines
<1>2. IInv /\ [Next]_vars => [RR!Next]_RR!vars
  <2> SUFFICES ASSUME IInv, [Next]_vars
               PROVE  RR!Next \/ UNCHANGED RR!vars
    OBVIOUS
  <2>1. CASE task_create
    BY <2>1, CreateRefines, LinkRefines DEF task_create
  <2>2. CASE task_exit
    BY <2>2, ExitRefines
  <2>3. CASE irq_time_handle
    BY <2>3, TickRefines
  <2>4. CASE UNCHANGED vars
    <3>1. UNCHANGED <<next, running, id, task_current>>
      BY <2>4 DEF vars, nodeVars, schedVars
    <3> QED BY <3>1, SameQueue DEF RR!vars, Age, Finished
  <2> QED BY <2>1, <2>2, <2>3, <2>4 DEF Next
<1> QED BY <1>1, <1>2, Invariance, PTL DEF Spec, ImplementsRoundRobin, RR!Spec
=============================================================================
