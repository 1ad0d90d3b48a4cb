---------------------------- MODULE AddressSpace ----------------------------
(***************************************************************************)
(* What paging promises its clients: every page they hold is backed by a   *)
(* frame of its own, the same one from the request to the release.         *)
(***************************************************************************)
EXTENDS Naturals

CONSTANT Backing        \* the frames the memory manager may hand out

VARIABLE space          \* the pages held by clients -> their frames

Range == {space[v] : v \in DOMAIN space}

Init == space = [v \in {} |-> 0]

Hold(v, f) == /\ f \notin Range
              /\ space' = [w \in DOMAIN space \cup {v} |->
                              IF w = v THEN f ELSE space[w]]

Drop(v) == space' = [w \in DOMAIN space \ {v} |-> space[w]]

Next == \/ \E v \in DOMAIN space' \ DOMAIN space, f \in Backing : Hold(v, f)
        \/ \E v \in DOMAIN space : Drop(v)

Spec == Init /\ [][Next]_space
=============================================================================
