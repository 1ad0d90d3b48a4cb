-------------------------------- MODULE Tlb ---------------------------------
(***************************************************************************)
(* Paging together with the processor's cache of translations.  The kernel *)
(* flushes only the window (page_mapframe, page_umapframe), never switches *)
(* cr3 and has no other flush, so a translation stays until the processor  *)
(* evicts it.                                                              *)
(***************************************************************************)
EXTENDS Paging

VARIABLE tlb    \* the translations of segment pages the processor has cached

Cached(v) == \E f \in Frames : <<v, f>> \in tlb

TlbInit == Init /\ tlb = {}

\* A program touches its page: a miss walks the tables and caches the result.
Touch(v) == /\ machine = "on"
            /\ holders[v] > 0 /\ ~Cached(v) /\ Leaf(mem, v) \in Frames
            /\ tlb' = tlb \cup {<<v, Leaf(mem, v)>>}
            /\ UNCHANGED vars

Evict == /\ machine = "on"
         /\ \E x \in tlb : tlb' = tlb \ {x}
         /\ UNCHANGED vars

TlbNext == \/ Next /\ UNCHANGED tlb
           \/ \E v \in Segments : Touch(v)
           \/ Evict

TlbSpec == TlbInit /\ [][TlbNext]_<<vars, tlb>>

\* What a held page's bytes are read from and written to: a frame that the
\* tables give to that page alone (page.h:22, "unmapped page", page.c:294-361).
TranslationsCurrent ==
    \A x \in tlb : holders[x[1]] > 0 => Leaf(mem, x[1]) = x[2]
=============================================================================
