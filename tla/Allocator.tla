----------------------------- MODULE Allocator -----------------------------
(***************************************************************************)
(* What a heap promises its clients: a grant is a region of addresses that *)
(* no other live grant touches, and it stays the client's until released.  *)
(***************************************************************************)
EXTENDS Naturals

CONSTANT Lengths        \* the lengths a client may ask for

VARIABLE grants         \* live region start -> its length

Region(a) == a .. a + grants[a] - 1

Init == grants = [a \in {} |-> 0]

Grant(a, n) == /\ a \notin DOMAIN grants
               /\ \A b \in DOMAIN grants : Region(b) \cap (a .. a + n - 1) = {}
               /\ grants' = [b \in DOMAIN grants \cup {a} |->
                                IF b = a THEN n ELSE grants[b]]

Release(a) == grants' = [b \in DOMAIN grants \ {a} |-> grants[b]]

\* The region whose start is new in this step, if there is one.
Next == \/ \E a \in DOMAIN grants' \ DOMAIN grants, n \in Lengths : Grant(a, n)
        \/ \E a \in DOMAIN grants : Release(a)

Spec == Init /\ [][Next]_grants
=============================================================================
