-------------------------------- MODULE Heap --------------------------------
(***************************************************************************)
(* The kernel's heap, kernel/alloc.c: one chain of blocks, each a packed   *)
(* header followed by the client's bytes, searched first fit.  Addresses   *)
(* are offsets from heap_start, in units of the instance's choosing.       *)
(*                                                                         *)
(* new_alloc calls itself after growing the heap, so a request is a state  *)
(* of its own that Grow may visit any number of times.                     *)
(***************************************************************************)
EXTENDS Naturals, Sequences, SequencesExt, FiniteSets

CONSTANTS
    HEADER,     \* sizeof(alloc_block_t), 17 in the code
    PAGE,       \* the 0x1000 bytes the heap grows by
    Sizes,      \* the request sizes of the clients
    MAX_PAGES,  \* bound: page_mapv is asked for no more pages than this
    MAX_LIVE    \* bound: live blocks at a time

ASSUME HeapAssumption == /\ HEADER \in Nat \ {0}
                         /\ PAGE \in Nat /\ PAGE > HEADER
                         /\ Sizes \subseteq Nat \ {0}
                         /\ MAX_PAGES \in Nat \ {0} /\ MAX_LIVE \in Nat

VARIABLES
    chain,      \* the blocks in the order of their next links
    heap_size,  \* bytes mapped from heap_start on
    request,    \* the size new_alloc is working on, 0 when it is not running
    live        \* the payloads handed out and not freed: address -> size asked

vars == <<chain, heap_size, request, live>>

Block(a, s, av) == [addr |-> a, size |-> s, available |-> av]

\* init_alloc: one page, one free block
Init == /\ chain = <<Block(0, PAGE, TRUE)>>
        /\ heap_size = PAGE
        /\ request = 0
        /\ live = [a \in {} |-> 0]

\* A client calls new_alloc(n); a size of 0 returns NULL at once.
Call(n) == /\ request = 0
           /\ Cardinality(DOMAIN live) < MAX_LIVE
           /\ request' = n
           /\ UNCHANGED <<chain, heap_size, live>>

-----------------------------------------------------------------------------
Need == request + HEADER

\* The positions of the blocks new_alloc can take: exactly fitting or larger.
Fits == {i \in DOMAIN chain : chain[i].available /\ chain[i].size >= Need}
FirstFit(i) == i \in Fits /\ \A j \in Fits : i <= j

Return(a) == /\ request' = 0
             /\ live' = [p \in DOMAIN live \cup {a + HEADER} |->
                            IF p = a + HEADER THEN request ELSE live[p]]

\* The block fits exactly, or what would be left cannot hold a header.
TakeWhole == \E i \in Fits :
    /\ FirstFit(i)
    /\ chain[i].size < Need + HEADER
    /\ chain' = [chain EXCEPT ![i].available = FALSE]
    /\ Return(chain[i].addr)
    /\ UNCHANGED heap_size

\* Mutant: the new block is not told from what is left of the old one.
Split_keeps_size == \E i \in Fits :
    LET b == chain[i]
    IN  /\ FirstFit(i)
        /\ b.size >= Need + HEADER
        /\ chain' = InsertAt(
                      [chain EXCEPT ![i] = Block(b.addr, Need, FALSE)], i + 1,
                      Block(b.addr + Need, b.size, TRUE))
        /\ Return(b.addr)
        /\ UNCHANGED heap_size

\* The block is cut in two.  When another block of this size would not fit
\* between the new block and the end of the heap, the heap grows by a page and
\* the new block is given everything up to its end.
Split == \E i \in Fits :
    LET b    == chain[i]
        new  == b.addr + Need
        out  == heap_size < new + Need
        end  == IF out THEN heap_size + PAGE ELSE heap_size
        rest == IF out THEN end - new ELSE b.size - Need
    IN  /\ FirstFit(i)
        /\ b.size >= Need + HEADER
        /\ out => heap_size < MAX_PAGES * PAGE
        /\ heap_size' = end
        /\ chain' = InsertAt(
                      [chain EXCEPT ![i] = Block(b.addr, Need, FALSE)], i + 1,
                      Block(new, rest, TRUE))
        /\ Return(b.addr)

\* Mutant: the heap grows, its last block does not.
Grow_size_only == /\ request # 0
                  /\ Fits = {}
                  /\ heap_size < MAX_PAGES * PAGE
                  /\ heap_size' = heap_size + PAGE
                  /\ UNCHANGED <<chain, request, live>>

\* Nothing fits: the heap and its last block grow by a page, and new_alloc
\* starts over.
Grow == /\ request # 0
        /\ Fits = {}
        /\ heap_size < MAX_PAGES * PAGE
        /\ heap_size' = heap_size + PAGE
        /\ chain' = [chain EXCEPT ![Len(chain)].size = @ + PAGE]
        /\ UNCHANGED <<request, live>>

new_alloc == \/ request # 0 /\ TakeWhole
             \/ request # 0 /\ Split
             \/ Grow

-----------------------------------------------------------------------------
\* Mutant: the block joins the next one even when that is in use.
free_alloc_joins_any(p) == \E i \in DOMAIN chain :
    /\ request = 0
    /\ chain[i].addr = p - HEADER
    /\ LET joins == i < Len(chain)
           size  == chain[i].size + (IF joins THEN chain[i + 1].size ELSE 0)
           freed == [chain EXCEPT ![i] = Block(@.addr, size, TRUE)]
       IN  chain' = IF joins THEN RemoveAt(freed, i + 1) ELSE freed
    /\ live' = [q \in DOMAIN live \ {p} |-> live[q]]
    /\ UNCHANGED <<heap_size, request>>

\* Mutant: the flag of the block is not set.
free_alloc_keeps_flag(p) ==
    /\ request = 0
    /\ live' = [q \in DOMAIN live \ {p} |-> live[q]]
    /\ UNCHANGED <<chain, heap_size, request>>

\* free_alloc: the block joins the next one when that is free.  prev_block is
\* heap_start when it is compared with heap_start, so the branch that would join
\* the block to the one before it is never taken.
free_alloc(p) == \E i \in DOMAIN chain :
    /\ request = 0
    /\ chain[i].addr = p - HEADER
    /\ LET joins == i < Len(chain) /\ chain[i + 1].available
           size  == chain[i].size + (IF joins THEN chain[i + 1].size ELSE 0)
           freed == [chain EXCEPT ![i] = Block(@.addr, size, TRUE)]
       IN  chain' = IF joins THEN RemoveAt(freed, i + 1) ELSE freed
    /\ live' = [q \in DOMAIN live \ {p} |-> live[q]]
    /\ UNCHANGED <<heap_size, request>>

-----------------------------------------------------------------------------
Next == \/ \E n \in Sizes : Call(n)
        \/ new_alloc
        \/ \E p \in DOMAIN live : free_alloc(p)

Spec == Init /\ [][Next]_vars

\* new_alloc runs to its return: the caller's thread is scheduled.
FairSpec == Spec /\ WF_vars(new_alloc)

-----------------------------------------------------------------------------
(* Properties.                                                             *)

\* The last byte of a live payload, and the bytes of a block.
Payload(p) == p .. p + live[p] - 1
Extent(b) == b.addr .. b.addr + b.size - 1

\* The variables keep their types.
TypeOK == /\ chain \in Seq([addr : Nat, size : Nat, available : BOOLEAN])
          /\ chain # << >>
          /\ heap_size \in Nat
          /\ request \in Sizes \cup {0}
          /\ \A p \in DOMAIN live : live[p] \in Sizes

\* The chain of headers tiles the mapped bytes: each block ends where the next
\* one begins and the last ends at heap_start + heap_size (the sizes written at
\* alloc.c:64, 67, 71, 96 and 112 against each other).
Tiling == /\ chain[1].addr = 0
          /\ \A i \in 1 .. Len(chain) - 1 :
                chain[i].addr + chain[i].size = chain[i + 1].addr
          /\ LET z == chain[Len(chain)] IN z.addr + z.size = heap_size

\* The clients and the chain agree on what is handed out: the address free_alloc
\* computes from a live pointer (alloc.c:103) is a block in use, large enough for
\* what was asked, and a block in use is some client's: none is handed out twice
\* or forgotten, in whatever order blocks are freed and joined.
LiveIsInUse ==
    /\ \A p \in DOMAIN live : \E i \in DOMAIN chain :
          /\ chain[i].addr = p - HEADER
          /\ ~chain[i].available
          /\ chain[i].size >= live[p] + HEADER
    /\ \A i \in DOMAIN chain :
          ~chain[i].available => chain[i].addr + HEADER \in DOMAIN live

\* Two clients never share a byte, and none holds a byte of a header
\* (alloc.c:54-71: the new block lies inside the one it is cut from).
NoSharedBytes ==
    /\ \A p, q \in DOMAIN live : p # q => Payload(p) \cap Payload(q) = {}
    /\ \A p \in DOMAIN live, i \in DOMAIN chain :
          Payload(p) \cap (chain[i].addr .. chain[i].addr + HEADER - 1) = {}

\* As long as the last block of the chain is free, new_alloc returns, however
\* often it has to grow that block and start over (alloc.c:92-97); the rest of
\* the condition keeps the instance's bound on the heap out of reach.
RequestServed ==
    /\ request # 0
    /\ chain[Len(chain)].available
    /\ heap_size + Need + HEADER + PAGE <= MAX_PAGES * PAGE
    ~> request = 0

\* The hypothesis of the theorems about Heap: only the last block is ever cut within
\* one more request's length of the heap's end.  The test that makes the heap grow
\* (alloc.c:58) is meant for that block, and gives whatever block is cut there
\* everything up to the new end; nothing in alloc.c keeps a run from getting there.
CutsFitHeap ==
    request # 0 =>
        \A i \in 1 .. Len(chain) - 1 :
            FirstFit(i) /\ chain[i].size >= Need + HEADER =>
                chain[i].addr + Need + Need <= heap_size

A == INSTANCE Allocator WITH Lengths <- Sizes, grants <- live

\* The heap implements the allocator: every return of new_alloc grants bytes no
\* live grant touches, and free_alloc takes back exactly one grant.
ImplementsAllocator == A!Spec
=============================================================================
