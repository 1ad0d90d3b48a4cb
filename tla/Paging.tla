------------------------------- MODULE Paging -------------------------------
(***************************************************************************)
(* Physical frames and page tables, kernel/page.c: the bitmap of used      *)
(* frames, the four-level tables, and the one-page window <<0, 0, TOP, 0>>  *)
(* through which the code reads and writes them.                           *)
(*                                                                         *)
(* Frames are numbered by address / 4096.  A page is the sequence of its   *)
(* four indices.  Each call works on one page: page_mapv and its kin loop  *)
(* over a range, and every turn of their loops is an action.               *)
(***************************************************************************)
EXTENDS Naturals, FiniteSets

CONSTANTS
    LAST,       \* the last frame of the bitmap (32767 in the code)
    TOP,        \* the last index of a table (511 in the code)
    Segments,   \* the pages of program segments and of the heap
    Screen,     \* the pages of the framebuffer
    SHARE,      \* how many segments may have a page in common
    NONE, BAD   \* no frame; what page_getframe returns when all are in use (-1)

\* The frames the boot loader takes: 1 - 4 hold the first tables, 5 the
\* window's table, 6 the bitmap.
ROOT == 1
BootFrames == 0 .. 6
Frames == 0 .. LAST

ASSUME FramesAssumption == /\ LAST \in Nat /\ LAST > 6
                           /\ TOP \in Nat /\ TOP > 6
                           /\ LAST < TOP * (TOP + 1)
                           /\ SHARE \in Nat \ {0}
                           /\ NONE \notin Nat /\ BAD \notin Nat /\ NONE # BAD
ASSUME PagesAssumption ==
    \A v \in Segments \cup Screen :
        /\ v \in (0 .. TOP) \X (0 .. TOP) \X (0 .. TOP) \X (0 .. TOP)
        /\ ~(v[1] = 0 /\ v[2] = 0 /\ v[3] = TOP)

VARIABLES
    mem,        \* used: the bitmap; pt: <<table's frame, index>> -> entry
    holders,    \* how many segments hold a page now
    stacks,     \* the frames of task stacks (stack_provider)
    machine     \* "on", or "fault" when the kernel touched an unmapped address

vars == <<mem, holders, stacks, machine>>

\* page_alloc4K maps a frame at its own address.
Identity(f) == <<0, 0, f \div (TOP + 1), f % (TOP + 1)>>

\* The frame that is mapped at its own address in page v.
Own(v) == v[4] + (TOP + 1) * (v[3] + (TOP + 1) * (v[2] + (TOP + 1) * v[1]))

\* The framebuffer is the memory of a device: no frame of it is in the bitmap.
ScreenBeyond == \A v \in Screen : Own(v) > LAST

-----------------------------------------------------------------------------
BootEntries == {<<1, 0>>, <<2, 0>>, <<3, 0>>, <<3, TOP>>}
                    \cup {<<4, i>> : i \in BootFrames}

\* Kernel_createNewPage: tables for the first two megabytes, in which the low
\* seven frames are mapped at their own addresses, and the window's table.
Init ==
    /\ mem = [used |-> BootFrames,
              pt   |-> [e \in BootEntries |-> IF e[1] = 4 THEN e[2]
                                             ELSE IF e[2] = TOP THEN 5
                                             ELSE e[1] + 1]]
    /\ holders = [v \in Segments |-> 0]
    /\ stacks = {}
    /\ machine = "on"

-----------------------------------------------------------------------------
Entry(m, t, i) == IF <<t, i>> \in DOMAIN m.pt THEN m.pt[t, i] ELSE NONE

Set(m, t, i, x) == [m EXCEPT !.pt = [e \in DOMAIN @ \cup {<<t, i>>} |->
                                        IF e = <<t, i>> THEN x ELSE @[e]]]

Clear(m, t, i) ==
    [m EXCEPT !.pt = [e \in DOMAIN @ \ {<<t, i>>} |-> @[e]]]

\* page_mapframe and page_umapframe: the window's only entry
page_mapframe(m, f) == Set(m, 5, 0, f)
page_umapframe(m) == Clear(m, 5, 0)

\* Mutant: the search goes one frame too far.
Free_overruns(m) == (0 .. LAST + 1) \ m.used

\* page_getframe: the lowest frame whose bit is clear, marked, zeroed through
\* the window (a table zeroed so loses its entries) and the window closed.
Free(m) == Frames \ m.used
Lowest(m) == IF Free(m) = {} THEN BAD
             ELSE CHOOSE f \in Free(m) : \A g \in Free(m) : f <= g

\* Mutant: the bit of the frame is not set.
page_getframe_unmarked(m) ==
    IF Free(m) = {} THEN m
    ELSE page_umapframe(
            [m EXCEPT !.pt =
                [e \in {d \in DOMAIN @ : d[1] # Lowest(m)} |-> @[e]]])

page_getframe(m) ==
    IF Free(m) = {} THEN m
    ELSE page_umapframe(
            [used |-> m.used \cup {Lowest(m)},
             pt   |-> [e \in {d \in DOMAIN m.pt : d[1] # Lowest(m)} |->
                          m.pt[e]]])

\* A table as the code sees it: the root as it is, the others through the window.
View(m, t) == IF t = ROOT THEN m ELSE page_mapframe(m, t)

\* A table that is shown gets the entry it lacks: a frame is taken, which moves
\* the window, and the window shows the table again.
Link(m, t, i) == Set(View(page_getframe(m), t), t, i, Lowest(m))
Present(m, t, i) == IF Entry(m, t, i) # NONE THEN m ELSE Link(m, t, i)

\* One level down: create the next table where there is none.  An entry made of
\* BAD has reserved bits set: the next access faults.
Step(m, t, i) == [mem |-> m, at |-> Entry(m, t, i)]
Down(w, i) == IF w.at = BAD THEN w
              ELSE Step(Present(View(w.mem, w.at), w.at, i), w.at, i)

\* The walk to the page's last table, creating what is missing.
Walk(m, v) == Down(Down(Down([mem |-> m, at |-> ROOT], v[1]), v[2]), v[3])

\* The walk of page_umapv creates nothing: it gives up at a missing table.
Follow(m, t, i) == IF t \in Frames THEN Entry(m, t, i) ELSE t
LastTable(m, v) == Follow(m, Follow(m, Follow(m, ROOT, v[1]), v[2]), v[3])

\* The frame a page is mapped to.
Leaf(m, v) == Follow(m, LastTable(m, v), v[4])

Fault(m) == mem' = m /\ machine' = "fault"
Done(m) == mem' = m /\ UNCHANGED machine

-----------------------------------------------------------------------------
\* Mutant: a page that is mapped already gives the wrong frame back.
page_mapv_frees_entry(v) ==
    LET w == Walk(mem, v)
        m == page_mapframe(page_getframe(w.mem), w.at)
    IN  IF w.at = BAD THEN Fault(w.mem)
        ELSE IF Entry(m, w.at, v[4]) # NONE
          THEN Done([m EXCEPT !.used = @ \ {Entry(m, w.at, v[4])}])
        ELSE Done(page_umapframe(Set(m, w.at, v[4], Lowest(w.mem))))

\* page_mapv: the frame is taken before the entry is looked at; a page that is
\* mapped already keeps its entry, and the window stays open on its table.
page_mapv(v) ==
    LET w == Walk(mem, v)
        m == page_mapframe(page_getframe(w.mem), w.at)
    IN  IF w.at = BAD THEN Fault(w.mem)
        ELSE IF Entry(m, w.at, v[4]) # NONE THEN Done(m)
        ELSE Done(page_umapframe(Set(m, w.at, v[4], Lowest(w.mem))))

\* Mutant: the bit of the frame is not cleared.
page_umapv_keeps_bit(v) ==
    LET t == LastTable(mem, v)
    IN  Done(page_umapframe(IF t = NONE THEN mem ELSE Clear(mem, t, v[4])))

\* Mutant: the table goes with the entry, as the commented-out code would have
\* it, which looks at one entry where it means to look at all.
page_umapv_drops_table(v) ==
    LET d == Follow(mem, Entry(mem, ROOT, v[1]), v[2])
        t == LastTable(mem, v)
        f == Leaf(mem, v)
    IN  IF t = NONE \/ f = BAD THEN Fault(mem)
        ELSE Done([Clear(Clear(mem, t, v[4]), d, v[3])
                     EXCEPT !.used = @ \ {t, f}])

\* page_umapv: the entry goes and the bit of the frame it held; the bit of
\* frame 0 when there was none.  At a missing table the loop goes on with the
\* window open on the table above it.  (Of a frame beyond the bitmap the code
\* clears a bit behind the bitmap's page, which is left out: Screen is not given
\* back.)
page_umapv(v) ==
    LET p == Entry(mem, ROOT, v[1])
        d == Follow(mem, p, v[2])
        t == LastTable(mem, v)
        f == Leaf(mem, v)
        m == Clear(page_mapframe(mem, t), t, v[4])
    IN  CASE p = NONE -> Done(mem)
          [] p # NONE /\ d = NONE -> Done(page_mapframe(mem, p))
          [] d # NONE /\ t = NONE -> Done(page_mapframe(mem, d))
          [] t # NONE /\ f = BAD -> Fault(m)
          [] OTHER -> Done(page_umapframe(
                        [m EXCEPT !.used = @ \ {IF f = NONE THEN 0 ELSE f}]))

\* page_mapvp: a page that is mapped already keeps its entry.
page_mapvp(v, f) ==
    LET w == Walk(mem, v)
        m == page_mapframe(w.mem, w.at)
    IN  IF w.at = BAD THEN Fault(w.mem)
        ELSE IF Entry(m, w.at, v[4]) # NONE THEN Done(page_umapframe(m))
        ELSE Done(page_umapframe(Set(m, w.at, v[4], f)))

\* page_alloc4K: a frame, mapped at its own address whatever was there.
page_alloc4K(f) ==
    LET v == Identity(f)
        w == Walk(page_getframe(mem), v)
    IN  IF w.at = BAD THEN Fault(w.mem)
        ELSE Done(page_umapframe(Set(w.mem, w.at, v[4], f)))

-----------------------------------------------------------------------------
(* The callers.                                                            *)

\* elf64_load and the heap ask for a page of a segment, elf64_load gives it
\* back when the program has returned.
MapSegment(v) == /\ machine = "on"
                 /\ holders[v] < SHARE
                 /\ page_mapv(v)
                 /\ holders' = [holders EXCEPT ![v] = @ + 1]
                 /\ UNCHANGED stacks

UnmapSegment(v) == /\ machine = "on"
                   /\ holders[v] > 0
                   /\ page_umapv(v)
                   /\ holders' = [holders EXCEPT ![v] = @ - 1]
                   /\ UNCHANGED stacks

\* task_create_impl takes the stack of a task; with no frame left the call
\* writes its tables through the address -1.
TakeStack == /\ machine = "on"
             /\ IF Free(mem) = {}
                  THEN Fault(mem) /\ UNCHANGED stacks
                  ELSE /\ page_alloc4K(Lowest(mem))
                       /\ stacks' = stacks \cup {Lowest(mem)}
             /\ UNCHANGED holders

\* task_remove gives it back.
DropStack(f) == /\ machine = "on"
                /\ page_umapv(Identity(f))
                /\ stacks' = stacks \ {f}
                /\ UNCHANGED holders

\* video_driver_mapped maps the framebuffer at its own address, once, before
\* the kernel has a heap or a task.
MapScreen(v) == /\ machine = "on"
                /\ stacks = {} /\ \A s \in Segments : holders[s] = 0
                /\ page_mapvp(v, Own(v))
                /\ UNCHANGED <<holders, stacks>>

Next == \/ \E v \in Segments : MapSegment(v) \/ UnmapSegment(v)
        \/ TakeStack
        \/ \E f \in stacks : DropStack(f)
        \/ \E v \in Screen : MapScreen(v)

Spec == Init /\ [][Next]_vars

-----------------------------------------------------------------------------
(* What the theorems ask of the calls, and the code does not look at.      *)

\* page_umapv is called for a page that has a frame of its own: of a page with no
\* entry it frees frame 0 (page.c:337).
GivenBack(v) == Leaf(mem, v) \in (Frames \ BootFrames) \cup {BAD}
UnmapsMapped ==
    /\ \A v \in Segments : holders'[v] < holders[v] => GivenBack(v)
    /\ \A f \in stacks \ stacks' : GivenBack(Identity(f))

\* page_mapv and page_alloc4K are called for pages that are not mapped: the one
\* drops a frame otherwise, the other the page's (page.c:286, 226).
MapsFresh ==
    /\ \A v \in Segments : holders'[v] > holders[v] => Leaf(mem, v) = NONE
    /\ \A f \in stacks' \ stacks : Leaf(mem, Identity(f)) = NONE

-----------------------------------------------------------------------------
(* Properties.                                                             *)

\* Every variable keeps its type.
TypeOK ==
    /\ mem.used \subseteq Frames
    /\ \A e \in DOMAIN mem.pt : /\ e \in Frames \X (0 .. TOP)
                                /\ mem.pt[e] \in Nat \cup {BAD}
    /\ holders \in [Segments -> 0 .. SHARE]
    /\ stacks \subseteq Frames
    /\ machine \in {"on", "fault"}

\* The frames the tables in T point to; the window's table is not followed.
Below(T) == {mem.pt[e] : e \in {d \in DOMAIN mem.pt : d[1] \in T \ {5}}}

\* The frames behind the root: the tables of three levels and the mapped frames.
InTables == LET pdpts == Below({ROOT})
                pdts  == Below(pdpts)
                pts   == Below(pdts)
            IN  {ROOT} \cup pdpts \cup pdts \cup pts \cup Below(pts)

\* The bitmap tells exactly the frames that are a table or mapped: none is lost
\* and none that is in use can be handed out again (page.c:131, 281, 339).
BitmapExact ==
    machine = "on" => mem.used = BootFrames \cup (Frames \cap InTables)

\* No frame serves twice: the frame page_getframe found "available" (page.c:125)
\* is neither another page's, nor a table, nor one the boot loader took.
NoSharedFrame ==
    LET own == {e \in DOMAIN mem.pt \ BootEntries : e[1] # 5 /\ mem.pt[e] # BAD}
    IN  \A e \in own : /\ mem.pt[e] \notin BootFrames
                       /\ \A d \in own : mem.pt[d] = mem.pt[e] => d = e

Held == {v \in Segments : holders[v] > 0} \cup {Identity(f) : f \in stacks}

\* A page that a client asks for gets memory, as long as a frame is left when the
\* tables on its way have theirs, and keeps that memory through every call until it
\* is given back; the -1 of a failed page_getframe (page.c:145) is no memory.
HeldKeepMemory == [][machine' = "on" =>
    /\ \A v \in Held' \ Held : Leaf(mem', v) \in Frames \/ Frames \subseteq mem'.used
    /\ \A v \in Held' \cap Held : Leaf(mem', v) = Leaf(mem, v)]_vars

AS == INSTANCE AddressSpace WITH
        Backing <- Frames \ BootFrames,
        space   <- [v \in {w \in Held : Leaf(mem, w) # BAD} |-> Leaf(mem, v)]

\* Paging implements the address space: a frame of its own for every page held.
ImplementsAddressSpace == AS!Spec
=============================================================================
