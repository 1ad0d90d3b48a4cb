---------------------------- MODULE PagingProofs ----------------------------
(***************************************************************************)
(* Theorems about Paging, for every number of frames and size of tables:   *)
(* no frame has two users as long as no page is given back that has none   *)
(* of its own, and none is lost as long as pages are mapped once.          *)
(*                                                                         *)
(* The tables are described by the level of each table frame.  The entry   *)
(* <<5, 0>> is the window and may hold anything between two calls' steps.  *)
(***************************************************************************)
EXTENDS Paging, WellFoundedInduction, TLAPS

Indices == 0 .. TOP
InWindow(v) == v[1] = 0 /\ v[2] = 0 /\ v[3] = TOP
Pages == {v \in Indices \X Indices \X Indices \X Indices : ~InWindow(v)}

Entries(m) == DOMAIN m.pt \ {<<5, 0>>}
Later(m) == Entries(m) \ BootEntries
BootEntry(e) == IF e[1] = 4 THEN e[2] ELSE IF e[2] = TOP THEN 5 ELSE e[1] + 1

\* The used frames that nothing points to.
Lost(m) == {f \in m.used \ BootFrames : \A e \in Later(m) : m.pt[e] # f}

Memory(m) == m = [used |-> m.used, pt |-> m.pt]

Marked(m) == /\ Memory(m)
             /\ BootFrames \subseteq m.used /\ m.used \subseteq Frames
             /\ <<5, 0>> \in DOMAIN m.pt => m.pt[<<5, 0>>] \in Nat \cup {BAD}

\* The table frames and their levels.
Levels(m, L) == /\ DOMAIN L \subseteq m.used \ {0, 6}
                /\ \A t \in DOMAIN L : L[t] \in 1 .. 4
                /\ {1, 2, 3, 4, 5} \subseteq DOMAIN L
                /\ L[1] = 1 /\ L[2] = 2 /\ L[3] = 3 /\ L[4] = 4 /\ L[5] = 4
                /\ DOMAIN L \cap Lost(m) = {}

\* What the loader wrote stays.
Booted(m) == \A e \in BootEntries : e \in DOMAIN m.pt /\ m.pt[e] = BootEntry(e)

\* An entry of a table above the last level points to a table one level down.
Leveled(m, L) == \A e \in Entries(m) :
    /\ e = <<e[1], e[2]>> /\ e[1] \in DOMAIN L \ {5} /\ e[2] \in Indices
    /\ L[e[1]] < 4 => \/ m.pt[e] = BAD
                      \/ m.pt[e] \in DOMAIN L /\ L[m.pt[e]] = L[e[1]] + 1

\* A frame of the bitmap is pointed to once.
Owned(m, L) == \A e \in Later(m) :
    /\ m.pt[e] \in (Nat \ BootFrames) \cup {BAD}
    /\ m.pt[e] \in Frames => /\ m.pt[e] \in m.used
                             /\ \A d \in Later(m) : m.pt[d] = m.pt[e] => d = e
    /\ L[e[1]] = 4 => m.pt[e] \notin DOMAIN L

\* All other frames are the framebuffer's.
Shown(m) == \A e \in Later(m) : m.pt[e] \in Nat \ Frames =>
                \E v \in Screen : e = <<LastTable(m, v), v[4]>> /\ m.pt[e] = Own(v)

Shape(m, L) == Marked(m) /\ Levels(m, L) /\ Booted(m) /\ Leveled(m, L) /\ Owned(m, L) /\ Shown(m)

\* No walk ends at a table that could not be had.
Solid(m, L) == \A e \in Entries(m) : L[e[1]] < 4 => m.pt[e] # BAD

\* The tables are well formed, whatever is mapped twice.
Formed == /\ \E L : /\ Shape(mem, L)
                    /\ machine = "on" => Solid(mem, L)
          /\ holders \in [Segments -> 0 .. SHARE] /\ stacks \subseteq Frames \ BootFrames
          /\ machine \in {"on", "fault"}

\* A page that is held has one holder, and a frame or the -1 of a failed call.
Clients ==
    /\ \A v \in Segments : /\ holders[v] \in {0, 1}
                           /\ holders[v] = 1 => Leaf(mem, v) \in (Frames \ BootFrames) \cup {BAD}
    /\ \A f \in stacks : /\ Leaf(mem, Identity(f)) = f
                         /\ Identity(f) \in Segments => holders[Identity(f)] = 0

\* Every used frame is pointed to, and clients have what they hold.
IInv == Formed /\ (machine = "on" => Lost(mem) = {} /\ Clients)

-----------------------------------------------------------------------------
(* What the helpers of page.c do to the memory.                            *)

Writes(m, n, e, x) == /\ Memory(n) /\ n.used = m.used
                      /\ DOMAIN n.pt = DOMAIN m.pt \cup {e} /\ n.pt[e] = x
                      /\ \A d \in DOMAIN m.pt \ {e} : n.pt[d] = m.pt[d]

Erases(m, n, e) == /\ Memory(n) /\ n.used = m.used
                   /\ DOMAIN n.pt = DOMAIN m.pt \ {e}
                   /\ \A d \in DOMAIN n.pt : n.pt[d] = m.pt[d]

\* Only the window and the bitmap may differ.
SameEntries(m, n) == /\ Memory(n) /\ Entries(n) = Entries(m)
                     /\ \A e \in Entries(m) : n.pt[e] = m.pt[e]

\* NONE and BAD are no frames; the boot frames and the root are.
LEMMA Numbers == /\ NONE \notin Nat /\ BAD \notin Nat /\ NONE # BAD
                 /\ NONE \notin Frames /\ BAD \notin Frames /\ Frames \subseteq Nat
                 /\ BootFrames \subseteq Frames /\ BootFrames \subseteq Indices
                 /\ 5 \in Frames /\ ROOT = 1 /\ TOP \in Nat /\ TOP > 6
BY FramesAssumption DEF Frames, BootFrames, ROOT, Indices

\* Writing an entry.
LEMMA SetWrites ==
    ASSUME NEW m, Memory(m), NEW t, NEW i, NEW x
    PROVE  Writes(m, Set(m, t, i, x), <<t, i>>, x)
<1> DEFINE g == [e \in DOMAIN m.pt \cup {<<t, i>>} |-> IF e = <<t, i>> THEN x ELSE m.pt[e]]
<1>1. Set(m, t, i, x) = [used |-> m.used, pt |-> g]
  BY DEF Set, Memory
<1> HIDE DEF Memory
<1> QED BY <1>1 DEF Writes, Memory

\* Clearing an entry.
LEMMA ClearErases ==
    ASSUME NEW m, Memory(m), NEW t, NEW i
    PROVE  Erases(m, Clear(m, t, i), <<t, i>>)
<1> DEFINE g == [e \in DOMAIN m.pt \ {<<t, i>>} |-> m.pt[e]]
<1>1. Clear(m, t, i) = [used |-> m.used, pt |-> g]
  BY DEF Clear, Memory
<1> QED BY <1>1 DEF Erases, Memory

\* The window's entry is written and cleared.
LEMMA MapFrame ==
    ASSUME NEW m, Memory(m), NEW f
    PROVE  LET n == page_mapframe(m, f)
           IN  SameEntries(m, n) /\ n.used = m.used /\ n.pt[<<5, 0>>] = f
               /\ <<5, 0>> \in DOMAIN n.pt
BY SetWrites DEF page_mapframe, Writes, SameEntries, Entries

\* page_umapframe clears the window's entry and nothing else.
LEMMA UnmapFrame ==
    ASSUME NEW m, Memory(m)
    PROVE  LET n == page_umapframe(m)
           IN  SameEntries(m, n) /\ n.used = m.used /\ <<5, 0>> \notin DOMAIN n.pt
BY ClearErases DEF page_umapframe, Erases, SameEntries, Entries

\* The frame the bitmap is searched for is one that is free.
LEMMA LowestFree ==
    ASSUME NEW m, Free(m) # {}
    PROVE  Lowest(m) \in Free(m) /\ Lowest(m) \in Frames \ m.used
<1> DEFINE R == {p \in Nat \X Nat : p[1] < p[2]}
<1>1. \A k, l \in Nat : k < l <=> <<k, l>> \in R
  OBVIOUS
<1>2. IsWellFoundedOn(R, Nat)
  BY NatLessThanWellFounded DEF OpToRel
<1>3. Free(m) \subseteq Nat
  BY Numbers DEF Free
<1> HIDE DEF R
<1>4. PICK f \in Free(m) : \A g \in Free(m) : <<g, f>> \notin R
  BY <1>2, <1>3, WFMin
<1>5. \A g \in Free(m) : f <= g
  <2> TAKE g \in Free(m)
  <2>1. f \in Nat /\ g \in Nat /\ <<g, f>> \notin R
    BY <1>3, <1>4
  <2>2. ~(g < f)
    BY <1>1, <2>1
  <2> QED BY <2>1, <2>2
<1> QED BY <1>5 DEF Lowest, Free

-----------------------------------------------------------------------------
(* Walks through the tables.                                               *)

\* Where a walk may stand at level k.
At(L, t, k) == t \in {NONE, BAD} \/ (t \in DOMAIN L /\ L[t] = k)

\* Tables are frames with a level; the root and the window's table are fixed.
LEMMA TableFrames ==
    ASSUME NEW m, NEW L, Shape(m, L)
    PROVE  /\ DOMAIN L \subseteq Frames /\ DOMAIN L \subseteq Nat
           /\ NONE \notin DOMAIN L /\ BAD \notin DOMAIN L
           /\ 1 \in DOMAIN L /\ 5 \in DOMAIN L /\ L[1] = 1 /\ L[5] = 4
           /\ \A t \in DOMAIN L : L[t] \in 1 .. 4
           /\ Memory(m)
BY Numbers DEF Shape, Levels, Marked

\* An entry above the last level leads one level down or nowhere.
LEMMA OneDown ==
    ASSUME NEW m, NEW L, Shape(m, L), NEW k \in 1 .. 3, NEW t, At(L, t, k),
           NEW j
    PROVE  /\ At(L, Follow(m, t, j), k + 1)
           /\ Solid(m, L) /\ t # BAD => Follow(m, t, j) # BAD
<1>1. CASE t \in {NONE, BAD}
  BY <1>1, Numbers DEF Follow, At
<1>2. CASE t \in DOMAIN L /\ L[t] = k
  <2>1. Follow(m, t, j) = Entry(m, t, j)
    BY <1>2, TableFrames DEF Follow
  <2>2. CASE <<t, j>> \notin DOMAIN m.pt
    BY <2>1, <2>2, Numbers DEF Entry, At
  <2>3. CASE <<t, j>> \in DOMAIN m.pt
    <3>1. <<t, j>> \in Entries(m)
      BY <1>2, <2>3, TableFrames DEF Entries
    <3>2. Follow(m, t, j) = m.pt[<<t, j>>]
      BY <2>1, <2>3 DEF Entry
    <3>3. \/ m.pt[<<t, j>>] = BAD
          \/ m.pt[<<t, j>>] \in DOMAIN L /\ L[m.pt[<<t, j>>]] = L[t] + 1
      BY <1>2, <3>1 DEF Shape, Leveled
    <3>4. Solid(m, L) => m.pt[<<t, j>>] # BAD
      BY <1>2, <3>1 DEF Solid
    <3> QED BY <1>2, <3>2, <3>3, <3>4 DEF At
  <2> QED BY <2>2, <2>3
<1> QED BY <1>1, <1>2 DEF At

\* The tables that a walk to v passes.
T2(m, v) == Follow(m, ROOT, v[1])
T3(m, v) == Follow(m, T2(m, v), v[2])

\* The walk to a page meets tables of the levels 1 to 4.
LEMMA Paths ==
    ASSUME NEW m, NEW L, Shape(m, L), NEW v
    PROVE  /\ At(L, ROOT, 1) /\ ROOT \in DOMAIN L
           /\ At(L, T2(m, v), 2) /\ At(L, T3(m, v), 3) /\ At(L, LastTable(m, v), 4)
           /\ LastTable(m, v) = Follow(m, T3(m, v), v[3])
           /\ Solid(m, L) => LastTable(m, v) # BAD
<1>1. At(L, ROOT, 1) /\ ROOT \in DOMAIN L /\ ROOT # BAD
  BY TableFrames, Numbers DEF At
<1>2. At(L, T2(m, v), 2) /\ (Solid(m, L) => T2(m, v) # BAD)
  <2>1. At(L, Follow(m, ROOT, v[1]), 1 + 1) /\ (Solid(m, L) => Follow(m, ROOT, v[1]) # BAD)
    BY <1>1, OneDown
  <2> QED BY <2>1 DEF T2
<1>3. At(L, T3(m, v), 3) /\ (Solid(m, L) => T3(m, v) # BAD)
  <2>1. At(L, Follow(m, T2(m, v), v[2]), 2 + 1)
        /\ (Solid(m, L) => Follow(m, T2(m, v), v[2]) # BAD)
    BY <1>2, OneDown
  <2> QED BY <2>1 DEF T3
<1>4. At(L, Follow(m, T3(m, v), v[3]), 3 + 1)
      /\ (Solid(m, L) => Follow(m, T3(m, v), v[3]) # BAD)
  BY <1>3, OneDown
<1>5. LastTable(m, v) = Follow(m, T3(m, v), v[3])
  BY DEF LastTable, T2, T3
<1> QED BY <1>1, <1>2, <1>3, <1>4, <1>5

\* A walk that finds a table comes from the one entry that points to it.
LEMMA Entered ==
    ASSUME NEW m, NEW L, Shape(m, L), NEW k \in 1 .. 3, NEW t, At(L, t, k), NEW j,
           Follow(m, t, j) \in DOMAIN L
    PROVE  /\ t \in DOMAIN L /\ L[t] = k /\ <<t, j>> \in Entries(m)
           /\ Follow(m, t, j) = m.pt[<<t, j>>]
<1>1. t \in DOMAIN L /\ L[t] = k
  BY TableFrames, Numbers DEF At, Follow
<1>2. Follow(m, t, j) = Entry(m, t, j) /\ t # 5
  BY <1>1, TableFrames DEF Follow
<1>3. <<t, j>> \in DOMAIN m.pt
  BY <1>2, TableFrames DEF Entry
<1> QED BY <1>1, <1>2, <1>3 DEF Entry, Entries

\* Two entries that point to one table are one entry.
LEMMA PointedOnce ==
    ASSUME NEW m, NEW L, Shape(m, L), NEW e \in Entries(m), NEW d \in Entries(m),
           L[e[1]] < 4, L[d[1]] < 4, m.pt[e] = m.pt[d], m.pt[e] \in DOMAIN L
    PROVE  e = d
<1>1. CASE e \in BootEntries /\ d \in BootEntries
  <2>1. m.pt[e] = BootEntry(e) /\ m.pt[d] = BootEntry(d)
    BY <1>1 DEF Shape, Booted
  <2>2. e[1] # 4 /\ d[1] # 4
    BY DEF Shape, Levels
  <2>3. e \in {<<1, 0>>, <<2, 0>>, <<3, 0>>, <<3, TOP>>} /\ d \in {<<1, 0>>, <<2, 0>>, <<3, 0>>, <<3, TOP>>}
    BY <1>1, <2>2 DEF BootEntries
  <2>4. /\ BootEntry(<<1, 0>>) = 2 /\ BootEntry(<<2, 0>>) = 3 /\ BootEntry(<<3, 0>>) = 4
        /\ BootEntry(<<3, TOP>>) = 5
    BY Numbers DEF BootEntry
  <2>5. BootEntry(e) = BootEntry(d)
    BY <2>1
  <2>6. ASSUME NEW x \in {<<1, 0>>, <<2, 0>>, <<3, 0>>, <<3, TOP>>}
        PROVE  \/ x = <<1, 0>> /\ BootEntry(x) = 2
               \/ x = <<2, 0>> /\ BootEntry(x) = 3
               \/ x = <<3, 0>> /\ BootEntry(x) = 4
               \/ x = <<3, TOP>> /\ BootEntry(x) = 5
    BY <2>4
  <2>7. /\ \/ e = <<1, 0>> /\ BootEntry(e) = 2
           \/ e = <<2, 0>> /\ BootEntry(e) = 3
           \/ e = <<3, 0>> /\ BootEntry(e) = 4
           \/ e = <<3, TOP>> /\ BootEntry(e) = 5
        /\ \/ d = <<1, 0>> /\ BootEntry(d) = 2
           \/ d = <<2, 0>> /\ BootEntry(d) = 3
           \/ d = <<3, 0>> /\ BootEntry(d) = 4
           \/ d = <<3, TOP>> /\ BootEntry(d) = 5
    BY <2>3, <2>6
  <2> HIDE DEF BootEntry
  <2> QED BY <2>5, <2>7
<1>2. CASE e \in BootEntries /\ d \notin BootEntries
  <2>1. m.pt[e] = BootEntry(e) /\ BootEntry(e) \in BootFrames
    BY <1>2, Numbers DEF Shape, Booted, BootEntry, BootEntries, BootFrames
  <2>2. m.pt[d] \notin BootFrames
    BY <1>2, Numbers DEF Shape, Owned, Later, BootFrames
  <2> QED BY <2>1, <2>2
<1>3. CASE e \notin BootEntries /\ d \in BootEntries
  <2>1. m.pt[d] = BootEntry(d) /\ BootEntry(d) \in BootFrames
    BY <1>3, Numbers DEF Shape, Booted, BootEntry, BootEntries, BootFrames
  <2>2. m.pt[e] \notin BootFrames
    BY <1>3, Numbers DEF Shape, Owned, Later, BootFrames
  <2> QED BY <2>1, <2>2
<1>4. CASE e \notin BootEntries /\ d \notin BootEntries
  BY <1>4, TableFrames DEF Shape, Owned, Later
<1> QED BY <1>1, <1>2, <1>3, <1>4

\* The same for an entry given by its table and its index.
LEMMA PointedOnceAt ==
    ASSUME NEW m, NEW L, Shape(m, L), NEW k \in 1 .. 3,
           NEW t, NEW i, NEW s, NEW j,
           <<t, i>> \in Entries(m), <<s, j>> \in Entries(m), L[t] = k, L[s] = k,
           m.pt[<<t, i>>] = m.pt[<<s, j>>], m.pt[<<t, i>>] \in DOMAIN L
    PROVE  t = s /\ i = j
<1>1. <<t, i>>[1] = t /\ <<s, j>>[1] = s
  OBVIOUS
<1>2. <<t, i>> = <<s, j>>
  BY <1>1, PointedOnce
<1> QED BY <1>2

\* Pages with one last table have the same first three indices.
LEMMA OnePath ==
    ASSUME NEW m, NEW L, Shape(m, L), NEW u, NEW v,
           LastTable(m, u) = LastTable(m, v), LastTable(m, u) \in DOMAIN L
    PROVE  u[1] = v[1] /\ u[2] = v[2] /\ u[3] = v[3]
<1>1. /\ T3(m, u) \in DOMAIN L /\ <<T3(m, u), u[3]>> \in Entries(m) /\ L[T3(m, u)] = 3
      /\ LastTable(m, u) = m.pt[<<T3(m, u), u[3]>>]
  BY Entered, Paths
<1>2. /\ T3(m, v) \in DOMAIN L /\ <<T3(m, v), v[3]>> \in Entries(m) /\ L[T3(m, v)] = 3
      /\ LastTable(m, v) = m.pt[<<T3(m, v), v[3]>>]
  BY Entered, Paths
<1>3. T3(m, u) = T3(m, v) /\ u[3] = v[3]
  <2>1. m.pt[<<T3(m, u), u[3]>>] = m.pt[<<T3(m, v), v[3]>>]
    BY <1>1, <1>2
  <2>2. m.pt[<<T3(m, u), u[3]>>] \in DOMAIN L
    BY <1>1
  <2> QED BY <1>1, <1>2, <2>1, <2>2, PointedOnceAt
<1>4. /\ T2(m, u) \in DOMAIN L /\ <<T2(m, u), u[2]>> \in Entries(m) /\ L[T2(m, u)] = 2
      /\ T3(m, u) = m.pt[<<T2(m, u), u[2]>>]
  BY <1>1, Entered, Paths DEF T3
<1>5. /\ T2(m, v) \in DOMAIN L /\ <<T2(m, v), v[2]>> \in Entries(m) /\ L[T2(m, v)] = 2
      /\ T3(m, v) = m.pt[<<T2(m, v), v[2]>>]
  BY <1>2, Entered, Paths DEF T3
<1>6. T2(m, u) = T2(m, v) /\ u[2] = v[2]
  <2>1. m.pt[<<T2(m, u), u[2]>>] = m.pt[<<T2(m, v), v[2]>>]
    BY <1>3, <1>4, <1>5
  <2>2. m.pt[<<T2(m, u), u[2]>>] \in DOMAIN L
    BY <1>1, <1>4
  <2> QED BY <1>4, <1>5, <2>1, <2>2, PointedOnceAt
<1>7. <<ROOT, u[1]>> \in Entries(m) /\ L[ROOT] = 1 /\ T2(m, u) = m.pt[<<ROOT, u[1]>>]
  BY <1>4, Entered, Paths DEF T2
<1>8. <<ROOT, v[1]>> \in Entries(m) /\ T2(m, v) = m.pt[<<ROOT, v[1]>>]
  BY <1>5, Entered, Paths DEF T2
<1>9. u[1] = v[1]
  <2>1. m.pt[<<ROOT, u[1]>>] = m.pt[<<ROOT, v[1]>>]
    BY <1>6, <1>7, <1>8
  <2>2. m.pt[<<ROOT, u[1]>>] \in DOMAIN L
    BY <1>4, <1>7
  <2> QED BY <1>7, <1>8, <2>1, <2>2, PointedOnceAt
<1> QED BY <1>3, <1>6, <1>9

\* The walk to the identity-mapped pages and to the window.
LEMMA BootPath ==
    ASSUME NEW m, NEW L, Shape(m, L), NEW v, v[1] = 0, v[2] = 0
    PROVE  /\ T3(m, v) = 3
           /\ v[3] = 0 => LastTable(m, v) = 4
           /\ v[3] = TOP => LastTable(m, v) = 5
<1>1. /\ m.pt[<<1, 0>>] = 2 /\ m.pt[<<2, 0>>] = 3 /\ m.pt[<<3, 0>>] = 4 /\ m.pt[<<3, TOP>>] = 5
      /\ <<1, 0>> \in DOMAIN m.pt /\ <<2, 0>> \in DOMAIN m.pt /\ <<3, 0>> \in DOMAIN m.pt
      /\ <<3, TOP>> \in DOMAIN m.pt
  <2>1. /\ <<1, 0>> \in BootEntries /\ <<2, 0>> \in BootEntries /\ <<3, 0>> \in BootEntries
        /\ <<3, TOP>> \in BootEntries
    BY DEF BootEntries
  <2>2. /\ BootEntry(<<1, 0>>) = 2 /\ BootEntry(<<2, 0>>) = 3 /\ BootEntry(<<3, 0>>) = 4
        /\ BootEntry(<<3, TOP>>) = 5
    BY Numbers DEF BootEntry
  <2> QED BY <2>1, <2>2 DEF Shape, Booted
<1>2. 1 \in Frames /\ 2 \in Frames /\ 3 \in Frames
  BY Numbers DEF BootFrames
<1>3. T2(m, v) = 2
  BY <1>1, <1>2, Numbers DEF T2, Follow, Entry
<1>4. T3(m, v) = 3
  BY <1>1, <1>2, <1>3 DEF T3, Follow, Entry
<1>5. LastTable(m, v) = Entry(m, 3, v[3])
  BY <1>2, <1>4, Paths DEF Follow
<1>6. v[3] = 0 => LastTable(m, v) = 4
  BY <1>1, <1>5 DEF Entry
<1>7. v[3] = TOP => LastTable(m, v) = 5
  BY <1>1, <1>5 DEF Entry
<1> QED BY <1>4, <1>6, <1>7

\* Only the window's pages lie behind the window's table, and only the pages of the
\* first TOP + 1 frames behind table 4.
LEMMA PathTo ==
    ASSUME NEW m, NEW L, Shape(m, L), NEW v
    PROVE  /\ LastTable(m, v) = 5 => InWindow(v)
           /\ LastTable(m, v) = 4 => v[1] = 0 /\ v[2] = 0 /\ v[3] = 0
<1> DEFINE w == <<0, 0, TOP, 0>>
           z == <<0, 0, 0, 0>>
<1>1. LastTable(m, w) = 5 /\ LastTable(m, z) = 4
  BY BootPath
<1>2. 5 \in DOMAIN L /\ 4 \in DOMAIN L
  BY DEF Shape, Levels
<1>3. w[1] = 0 /\ w[2] = 0 /\ w[3] = TOP /\ z[1] = 0 /\ z[2] = 0 /\ z[3] = 0
  OBVIOUS
<1> HIDE DEF w, z
<1>4. LastTable(m, v) = 5 => InWindow(v)
  BY <1>1, <1>2, <1>3, OnePath DEF InWindow
<1>5. LastTable(m, v) = 4 => v[1] = 0 /\ v[2] = 0 /\ v[3] = 0
  BY <1>1, <1>2, <1>3, OnePath
<1> QED BY <1>4, <1>5

-----------------------------------------------------------------------------
(* One entry changes.                                                      *)

\* Apart from the window, n has the entries of m except at <<t, i>>.
DiffersAt(m, n, t, i) ==
    /\ Memory(n)
    /\ Entries(n) \ {<<t, i>>} = Entries(m) \ {<<t, i>>}
    /\ \A e \in Entries(m) \ {<<t, i>>} : n.pt[e] = m.pt[e]

\* An entry leads elsewhere only if it was written.
LEMMA SameFollow ==
    ASSUME NEW m, NEW n, NEW t, NEW i, DiffersAt(m, n, t, i),
           NEW s, s # 5, NEW j, s # t \/ j # i
    PROVE  Follow(n, s, j) = Follow(m, s, j)
<1>1. <<s, j>> # <<5, 0>> /\ <<s, j>> # <<t, i>>
  OBVIOUS
<1>2. <<s, j>> \in DOMAIN n.pt <=> <<s, j>> \in DOMAIN m.pt
  BY <1>1 DEF DiffersAt, Entries
<1>3. <<s, j>> \in DOMAIN m.pt => n.pt[<<s, j>>] = m.pt[<<s, j>>]
  BY <1>1 DEF DiffersAt, Entries
<1> QED BY <1>2, <1>3 DEF Follow, Entry

\* A change in a last table moves no other page.
LEMMA LastChanged ==
    ASSUME NEW m, NEW L, Shape(m, L), NEW n, NEW t \in DOMAIN L, L[t] = 4, NEW i,
           DiffersAt(m, n, t, i), NEW u
    PROVE  /\ T2(n, u) = T2(m, u) /\ T3(n, u) = T3(m, u) /\ LastTable(n, u) = LastTable(m, u)
           /\ ~InWindow(u) /\ (LastTable(m, u) # t \/ u[4] # i) => Leaf(n, u) = Leaf(m, u)
<1>1. \A k \in 1 .. 3 : \A s : At(L, s, k) => s # 5 /\ s # t
  BY TableFrames, Numbers DEF At
<1>2. T2(n, u) = T2(m, u)
  BY <1>1, Paths, SameFollow DEF T2
<1>3. T3(n, u) = T3(m, u)
  BY <1>1, <1>2, Paths, SameFollow DEF T3
<1>4. LastTable(n, u) = LastTable(m, u)
  <2>1. LastTable(n, u) = Follow(n, T3(n, u), u[3]) /\ LastTable(m, u) = Follow(m, T3(m, u), u[3])
    BY DEF LastTable, T2, T3
  <2>2. T3(m, u) # 5 /\ T3(m, u) # t
    BY <1>1, Paths
  <2> QED BY <1>3, <2>1, <2>2, SameFollow
<1>5. ASSUME ~InWindow(u), LastTable(m, u) # t \/ u[4] # i
      PROVE  Leaf(n, u) = Leaf(m, u)
  <2>1. LastTable(m, u) # 5
    BY <1>5, PathTo
  <2> QED BY <1>4, <1>5, <2>1, SameFollow DEF Leaf
<1> QED BY <1>2, <1>3, <1>4, <1>5

\* Nothing but the window has changed.
LEMMA Unmoved ==
    ASSUME NEW m, NEW L, Shape(m, L), NEW n, SameEntries(m, n), NEW u
    PROVE  /\ T2(n, u) = T2(m, u) /\ T3(n, u) = T3(m, u) /\ LastTable(n, u) = LastTable(m, u)
           /\ ~InWindow(u) => Leaf(n, u) = Leaf(m, u)
<1>1. 4 \in DOMAIN L /\ L[4] = 4
  BY DEF Shape, Levels
<1>2. u[4] # u[4] + 1 \/ u[4] # 0 
  OBVIOUS
<1>3. PICK i : i # u[4]
  BY <1>2
<1>4. DiffersAt(m, n, 4, i)
  BY DEF SameEntries, DiffersAt
<1> QED BY <1>1, <1>3, <1>4, LastChanged

\* What a walk finds in n where it found s in m: the new link's end, if nothing.
Beyond(s, r, x) == r = s \/ (s = NONE /\ r \in {x, NONE})

\* n has one more link, from <<t, i>> to x.
Links(m, L, n, t, i, x) ==
    /\ DiffersAt(m, n, t, i)
    /\ t \in DOMAIN L /\ L[t] < 4 /\ <<t, i>> \notin Entries(m)
    /\ <<t, i>> \in Entries(n) /\ n.pt[<<t, i>>] = x
    /\ x = BAD \/ x \in Frames \ DOMAIN L

\* A table just linked is empty.
LEMMA LinkEnd ==
    ASSUME NEW m, NEW L, Shape(m, L), NEW n, NEW t, NEW i, NEW x, Links(m, L, n, t, i, x), NEW j
    PROVE  Follow(n, x, j) = IF x = BAD THEN BAD ELSE NONE
<1>1. CASE x = BAD
  BY <1>1, Numbers DEF Follow
<1>2. CASE x \in Frames \ DOMAIN L
  <2>1. x # 5 /\ x # t
    BY <1>2, TableFrames DEF Links
  <2>2. <<x, j>> \notin Entries(m)
    <3>1. <<x, j>>[1] = x
      OBVIOUS
    <3> QED BY <1>2, <3>1 DEF Shape, Leveled
  <2>3. <<x, j>> \notin DOMAIN n.pt
    <3>1. <<x, j>> # <<t, i>> /\ <<x, j>> # <<5, 0>>
      BY <2>1
    <3> QED BY <2>2, <3>1 DEF Links, DiffersAt, Entries
  <2> QED BY <1>2, <2>3, Numbers DEF Follow, Entry
<1> QED BY <1>1, <1>2 DEF Links

\* A walk before and after a link differs only beyond the new table.
LEMMA BeyondDown ==
    ASSUME NEW m, NEW L, Shape(m, L), NEW n, NEW t, NEW i, NEW x, Links(m, L, n, t, i, x),
           NEW k \in 1 .. 3, NEW s, At(L, s, k), NEW r, Beyond(s, r, x), NEW j
    PROVE  Beyond(Follow(m, s, j), Follow(n, r, j), x)
<1>1. CASE r = s /\ s \in DOMAIN L /\ <<s, j>> # <<t, i>>
  <2>1. s # 5
    BY <1>1, TableFrames, Numbers DEF At
  <2>2. s # t \/ j # i
    BY <1>1
  <2> QED BY <1>1, <2>1, <2>2, SameFollow DEF Beyond, Links
<1>2. CASE r = s /\ s \in DOMAIN L /\ <<s, j>> = <<t, i>>
  <2>1. s = t /\ j = i /\ t # 5 /\ t \in Frames
    BY <1>2, TableFrames DEF Links
  <2>2. <<t, i>> \notin DOMAIN m.pt /\ <<t, i>> \in DOMAIN n.pt
    BY <2>1 DEF Links, Entries
  <2>3. Follow(m, s, j) = NONE
    BY <2>1, <2>2 DEF Follow, Entry
  <2>4. Follow(n, r, j) = x
    BY <1>2, <2>1, <2>2 DEF Follow, Entry, Links
  <2> QED BY <2>3, <2>4 DEF Beyond
<1>3. CASE r = s /\ s \in {NONE, BAD}
  BY <1>3, Numbers DEF Follow, Beyond
<1>4. CASE s = NONE /\ r = NONE
  BY <1>4, Numbers DEF Follow, Beyond
<1>5. CASE s = NONE /\ r = x
  <2>1. Follow(m, s, j) = NONE
    BY <1>5, Numbers DEF Follow
  <2>2. Follow(n, r, j) = IF x = BAD THEN BAD ELSE NONE
    BY <1>5, LinkEnd
  <2> QED BY <2>1, <2>2 DEF Beyond
<1> QED BY <1>1, <1>2, <1>3, <1>4, <1>5 DEF Beyond, At

\* A new link keeps every page that is mapped; with BAD at its end, walks that
\* found nothing now fault.
LEMMA LinkAdded ==
    ASSUME NEW m, NEW L, Shape(m, L), NEW n, NEW t, NEW i, NEW x, Links(m, L, n, t, i, x),
           NEW u
    PROVE  /\ T2(m, u) # NONE => T2(n, u) = T2(m, u)
           /\ T3(m, u) # NONE => T3(n, u) = T3(m, u)
           /\ LastTable(m, u) # NONE => LastTable(n, u) = LastTable(m, u)
           /\ ~InWindow(u) => \/ Leaf(n, u) = Leaf(m, u)
                              \/ x = BAD /\ Leaf(m, u) = NONE /\ Leaf(n, u) = BAD
<1>1. Beyond(ROOT, ROOT, x)
  BY DEF Beyond
<1>2. Beyond(T2(m, u), T2(n, u), x)
  BY <1>1, Paths, BeyondDown DEF T2
<1>3. Beyond(T3(m, u), T3(n, u), x)
  BY <1>2, Paths, BeyondDown DEF T3
<1>4. Beyond(LastTable(m, u), LastTable(n, u), x)
  <2>1. LastTable(n, u) = Follow(n, T3(n, u), u[3]) /\ LastTable(m, u) = Follow(m, T3(m, u), u[3])
    BY DEF LastTable, T2, T3
  <2> QED BY <1>3, <2>1, Paths, BeyondDown
<1> DEFINE a == LastTable(m, u)
           b == LastTable(n, u)
<1>5. Leaf(m, u) = Follow(m, a, u[4]) /\ Leaf(n, u) = Follow(n, b, u[4])
  BY DEF Leaf
<1>6. At(L, a, 4) /\ (~InWindow(u) => a # 5)
  BY Paths, PathTo
<1> HIDE DEF a, b
<1>11. /\ T2(m, u) # NONE => T2(n, u) = T2(m, u)
       /\ T3(m, u) # NONE => T3(n, u) = T3(m, u)
       /\ LastTable(m, u) # NONE => LastTable(n, u) = LastTable(m, u)
  BY <1>2, <1>3, <1>4 DEF Beyond
<1> SUFFICES ASSUME ~InWindow(u)
             PROVE  \/ Leaf(n, u) = Leaf(m, u)
                    \/ x = BAD /\ Leaf(m, u) = NONE /\ Leaf(n, u) = BAD
  BY <1>11
<1>7. CASE b = a /\ a \in DOMAIN L
  <2>1. a # t
    BY <1>6, <1>7, TableFrames, Numbers DEF At, Links
  <2> QED BY <1>4, <1>5, <1>6, <1>7, <2>1, SameFollow DEF Links, a, b
<1>8. CASE b = a /\ a \in {NONE, BAD}
  BY <1>5, <1>8, Numbers DEF Follow, a, b
<1>9. CASE a = NONE /\ b = x
  BY <1>5, <1>9, LinkEnd, Numbers DEF Follow, a
<1>10. CASE a = NONE /\ b = NONE
  BY <1>5, <1>10, Numbers DEF Follow, a
<1> QED BY <1>4, <1>6, <1>7, <1>8, <1>9, <1>10 DEF Beyond, At, a, b

-----------------------------------------------------------------------------
(* The shape of the tables is kept.                                        *)

\* The entries, the boot frames and the frames in hand are apart.
LEMMA Separate ==
    ASSUME NEW m, NEW L, Shape(m, L)
    PROVE  /\ <<5, 0>> \notin BootEntries /\ BootEntries \subseteq Entries(m)
           /\ \A e \in Entries(m) : e[1] \in DOMAIN L
           /\ \A f \in Lost(m) : f \in m.used \ BootFrames /\ f \notin DOMAIN L /\ f \in Frames
BY Numbers DEF Shape, Booted, BootEntries, Entries, Leveled, Levels, Marked, Lost

\* Frames are marked, and the window moves.
LEMMA MarkedShape ==
    ASSUME NEW m, NEW L, Shape(m, L), NEW n, SameEntries(m, n),
           m.used \subseteq n.used, n.used \subseteq Frames,
           <<5, 0>> \in DOMAIN n.pt => n.pt[<<5, 0>>] \in Nat \cup {BAD}
    PROVE  /\ Shape(n, L) /\ (Solid(m, L) => Solid(n, L))
           /\ Lost(n) = Lost(m) \cup ((n.used \ m.used) \ BootFrames)
<1>1. Entries(n) = Entries(m) /\ Later(n) = Later(m) /\ \A e \in Entries(m) : n.pt[e] = m.pt[e]
  BY DEF SameEntries, Later
<1>2. \A e \in Later(m) : n.pt[e] = m.pt[e] /\ e \in Entries(m)
  BY <1>1 DEF Later
<1>3. Marked(n)
  BY DEF SameEntries, Marked, Shape
<1>4. Lost(n) = Lost(m) \cup ((n.used \ m.used) \ BootFrames)
  <2>1. \A e \in Later(m) : m.pt[e] \in Frames => m.pt[e] \in m.used
    BY DEF Shape, Owned
  <2>2. n.used \subseteq Frames
    OBVIOUS
  <2> QED BY <1>1, <1>2, <2>1, <2>2 DEF Lost
<1>5. Levels(n, L)
  BY <1>4 DEF Shape, Levels
<1>6. Booted(n)
  BY <1>1, Separate DEF Shape, Booted, Entries
<1>7. Leveled(n, L)
  BY <1>1 DEF Shape, Leveled
<1>8. Owned(n, L)
  BY <1>1, <1>2 DEF Shape, Owned
<1>9. Shown(n)
  BY <1>1, <1>2, Unmoved DEF Shape, Shown
<1>10. Solid(m, L) => Solid(n, L)
  BY <1>1 DEF Solid
<1> QED BY <1>3, <1>4, <1>5, <1>6, <1>7, <1>8, <1>9, <1>10 DEF Shape

\* The levels when x has become a table below t.
Deeper(L, t, x) == [s \in DOMAIN L \cup {x} |-> IF s = x THEN L[t] + 1 ELSE L[s]]

\* Linking the frame in hand as a table keeps the tables well formed.
LEMMA LinkedShape ==
    ASSUME NEW m, NEW L, Shape(m, L), NEW n, NEW t, NEW i \in Indices, NEW x \in Lost(m),
           Links(m, L, n, t, i, x), n.used = m.used,
           <<5, 0>> \in DOMAIN n.pt => n.pt[<<5, 0>>] \in Nat \cup {BAD}
    PROVE  LET M == Deeper(L, t, x)
           IN  /\ Shape(n, M) /\ (Solid(m, L) => Solid(n, M)) /\ Lost(n) = Lost(m) \ {x}
               /\ x \in DOMAIN M /\ M[x] = L[t] + 1
<1> DEFINE M == Deeper(L, t, x)
<1>1. /\ DOMAIN M = DOMAIN L \cup {x} /\ x \notin DOMAIN L /\ M[x] = L[t] + 1
      /\ \A s \in DOMAIN L : M[s] = L[s]
  BY Separate DEF Deeper
<1> HIDE DEF M
<1>2. /\ <<t, i>> \notin BootEntries /\ <<t, i>> \notin Entries(m) /\ <<t, i>> # <<5, 0>>
      /\ Entries(n) = Entries(m) \cup {<<t, i>>} /\ Later(n) = Later(m) \cup {<<t, i>>}
      /\ n.pt[<<t, i>>] = x /\ t \in DOMAIN L \ {5} /\ L[t] \in 1 .. 3 /\ x # BAD
      /\ x \in Frames /\ x \in m.used \ BootFrames
  BY Separate, TableFrames, Numbers DEF Links, DiffersAt, Entries, Later
<1>3. \A e \in Entries(m) : n.pt[e] = m.pt[e]
  BY <1>2 DEF Links, DiffersAt
<1>4. \A e \in Later(m) : n.pt[e] = m.pt[e] /\ m.pt[e] # x
  BY <1>3 DEF Later, Lost
<1>5. Marked(n)
  BY DEF Links, DiffersAt, Marked, Shape
<1>6. Lost(n) = Lost(m) \ {x}
  BY <1>2, <1>4 DEF Lost
<1>7. Levels(n, M)
  <2>1. /\ DOMAIN L \subseteq m.used \ {0, 6} /\ {1, 2, 3, 4, 5} \subseteq DOMAIN L
        /\ L[1] = 1 /\ L[2] = 2 /\ L[3] = 3 /\ L[4] = 4 /\ L[5] = 4
        /\ DOMAIN L \cap Lost(m) = {}
    BY DEF Shape, Levels
  <2>2. x # 0 /\ x # 6
    BY <1>2, Numbers DEF BootFrames
  <2>3. \A s \in DOMAIN M : M[s] \in 1 .. 4
    BY <1>1, <1>2, TableFrames
  <2>4. M[1] = 1 /\ M[2] = 2 /\ M[3] = 3 /\ M[4] = 4 /\ M[5] = 4
    BY <1>1, <2>1
  <2> QED BY <1>1, <1>2, <1>6, <2>1, <2>2, <2>3, <2>4 DEF Levels
<1>8. Booted(n)
  BY <1>2, <1>3, Separate DEF Shape, Booted, Entries
<1>9. Leveled(n, M)
  <2> SUFFICES ASSUME NEW e \in Entries(n)
               PROVE  /\ e = <<e[1], e[2]>> /\ e[1] \in DOMAIN M \ {5} /\ e[2] \in Indices
                      /\ M[e[1]] < 4 => \/ n.pt[e] = BAD
                                        \/ n.pt[e] \in DOMAIN M /\ M[n.pt[e]] = M[e[1]] + 1
    BY DEF Leveled
  <2>1. CASE e = <<t, i>>
    <3>1. e[1] = t /\ e[2] = i
      BY <2>1
    <3> QED BY <1>1, <1>2, <2>1, <3>1
  <2>2. CASE e \in Entries(m)
    <3>1. /\ e = <<e[1], e[2]>> /\ e[1] \in DOMAIN L \ {5} /\ e[2] \in Indices
          /\ L[e[1]] < 4 => \/ m.pt[e] = BAD
                            \/ m.pt[e] \in DOMAIN L /\ L[m.pt[e]] = L[e[1]] + 1
      BY <2>2 DEF Shape, Leveled
    <3>2. n.pt[e] = m.pt[e]
      BY <1>3, <2>2
    <3> QED BY <1>1, <3>1, <3>2
  <2> QED BY <1>2, <2>1, <2>2
<1>10. Owned(n, M)
  <2> SUFFICES ASSUME NEW e \in Later(n)
               PROVE  /\ n.pt[e] \in (Nat \ BootFrames) \cup {BAD}
                      /\ n.pt[e] \in Frames =>
                            /\ n.pt[e] \in n.used
                            /\ \A d \in Later(n) : n.pt[d] = n.pt[e] => d = e
                      /\ M[e[1]] = 4 => n.pt[e] \notin DOMAIN M
    BY DEF Owned
  <2>1. CASE e = <<t, i>>
    <3>1. e[1] = t
      BY <2>1
    <3> QED BY <1>1, <1>2, <1>4, <2>1, <3>1, Numbers
  <2>2. CASE e \in Later(m)
    <3>1. /\ m.pt[e] \in (Nat \ BootFrames) \cup {BAD}
          /\ m.pt[e] \in Frames => /\ m.pt[e] \in m.used
                                   /\ \A d \in Later(m) : m.pt[d] = m.pt[e] => d = e
          /\ L[e[1]] = 4 => m.pt[e] \notin DOMAIN L
      BY <2>2 DEF Shape, Owned
    <3>2. n.pt[e] = m.pt[e] /\ m.pt[e] # x /\ e[1] \in DOMAIN L
      BY <1>4, <2>2, Separate DEF Later
    <3> QED BY <1>1, <1>2, <1>4, <3>1, <3>2
  <2> QED BY <1>2, <2>1, <2>2
<1>11. Shown(n)
  <2> SUFFICES ASSUME NEW e \in Later(n), n.pt[e] \in Nat \ Frames
               PROVE  \E v \in Screen : e = <<LastTable(n, v), v[4]>> /\ n.pt[e] = Own(v)
    BY DEF Shown
  <2>1. e \in Later(m) /\ n.pt[e] = m.pt[e]
    BY <1>2, <1>4
  <2>2. PICK v \in Screen : e = <<LastTable(m, v), v[4]>> /\ m.pt[e] = Own(v)
    BY <2>1 DEF Shape, Shown
  <2>3. LastTable(m, v) # NONE
    BY <2>1, <2>2, Separate, TableFrames DEF Later
  <2>4. LastTable(n, v) = LastTable(m, v)
    BY <2>3, LinkAdded
  <2> QED BY <2>1, <2>2, <2>4
<1>12. Solid(m, L) => Solid(n, M)
  BY <1>1, <1>2, <1>3, Separate DEF Solid
<1>13. Shape(n, M)
  BY <1>5, <1>7, <1>8, <1>9, <1>10, <1>11 DEF Shape
<1> QED BY <1>1, <1>6, <1>12, <1>13 DEF M

\* A link to nowhere: the machine faults at the next access.
LEMMA BrokenShape ==
    ASSUME NEW m, NEW L, Shape(m, L), NEW n, NEW t, NEW i \in Indices,
           Links(m, L, n, t, i, BAD), n.used = m.used,
           <<5, 0>> \in DOMAIN n.pt => n.pt[<<5, 0>>] \in Nat \cup {BAD}
    PROVE  Shape(n, L)
<1>2. /\ <<t, i>> \notin BootEntries /\ <<t, i>> \notin Entries(m) /\ <<t, i>> # <<5, 0>>
      /\ Entries(n) = Entries(m) \cup {<<t, i>>} /\ Later(n) = Later(m) \cup {<<t, i>>}
      /\ n.pt[<<t, i>>] = BAD /\ t \in DOMAIN L \ {5} /\ BAD \notin Frames
      /\ BAD \notin Nat /\ BAD \notin DOMAIN L
  BY Separate, TableFrames, Numbers DEF Links, DiffersAt, Entries, Later
<1>3. \A e \in Entries(m) : n.pt[e] = m.pt[e]
  BY <1>2 DEF Links, DiffersAt
<1>4. \A e \in Later(m) : n.pt[e] = m.pt[e]
  BY <1>3 DEF Later
<1>5. Marked(n)
  BY DEF Links, DiffersAt, Marked, Shape
<1>6. Lost(n) = Lost(m)
  BY <1>2, <1>4, Separate DEF Lost, Shape, Marked
<1>7. Levels(n, L)
  BY <1>6 DEF Shape, Levels
<1>8. Booted(n)
  BY <1>2, <1>3, Separate DEF Shape, Booted, Entries
<1>9. Leveled(n, L)
  BY <1>2, <1>3 DEF Shape, Leveled
<1>10. Owned(n, L)
  BY <1>2, <1>4, Numbers DEF Shape, Owned
<1>11. Shown(n)
  <2> SUFFICES ASSUME NEW e \in Later(n), n.pt[e] \in Nat \ Frames
               PROVE  \E v \in Screen : e = <<LastTable(n, v), v[4]>> /\ n.pt[e] = Own(v)
    BY DEF Shown
  <2>1. e \in Later(m) /\ n.pt[e] = m.pt[e]
    BY <1>2, <1>4
  <2>2. PICK v \in Screen : e = <<LastTable(m, v), v[4]>> /\ m.pt[e] = Own(v)
    BY <2>1 DEF Shape, Shown
  <2>3. LastTable(m, v) # NONE
    BY <2>1, <2>2, Separate, TableFrames DEF Later
  <2>4. LastTable(n, v) = LastTable(m, v)
    BY <2>3, LinkAdded
  <2> QED BY <2>1, <2>2, <2>4
<1> QED BY <1>5, <1>7, <1>8, <1>9, <1>10, <1>11 DEF Shape

\* A page's entry is written: with a frame that nothing points to, with the page's
\* own frame beyond the bitmap, or with BAD.
LEMMA MappedShape ==
    ASSUME NEW m, NEW L, Shape(m, L), NEW v \in Pages, NEW t, t = LastTable(m, v), t \in DOMAIN L,
           <<t, v[4]>> \notin Entries(m),
           NEW n, DiffersAt(m, n, t, v[4]), <<t, v[4]>> \in Entries(n), n.used = m.used,
           <<5, 0>> \in DOMAIN n.pt => n.pt[<<5, 0>>] \in Nat \cup {BAD},
           NEW x, n.pt[<<t, v[4]>>] = x,
           x \in Lost(m) \/ x = BAD \/ (v \in Screen /\ x = Own(v) /\ x \in Nat \ Frames)
    PROVE  /\ Shape(n, L) /\ (Solid(m, L) => Solid(n, L)) /\ Lost(n) = Lost(m) \ {x}
           /\ Leaf(n, v) = x
           /\ \A u \in Pages \ {v} : Leaf(n, u) = Leaf(m, u)
<1> DEFINE i == v[4]
<1>1. /\ L[t] = 4 /\ t # 5 /\ t \in Frames /\ i \in Indices
  <2>1. At(L, t, 4) /\ ~InWindow(v) /\ v[4] \in Indices
    BY Paths DEF Pages
  <2> QED BY <2>1, PathTo, TableFrames DEF At
<1> HIDE DEF i
<1>2. /\ <<t, i>> \notin BootEntries /\ <<t, i>> \notin Entries(m) /\ <<t, i>> # <<5, 0>>
      /\ Entries(n) = Entries(m) \cup {<<t, i>>} /\ Later(n) = Later(m) \cup {<<t, i>>}
      /\ n.pt[<<t, i>>] = x
  BY <1>1, Separate DEF DiffersAt, Entries, Later, i
<1>3. \A e \in Entries(m) : n.pt[e] = m.pt[e]
  BY <1>2 DEF DiffersAt, i
<1>4. \A e \in Later(m) : n.pt[e] = m.pt[e]
  BY <1>3 DEF Later
<1>5. Marked(n)
  BY DEF DiffersAt, Marked, Shape
<1>6. Lost(n) = Lost(m) \ {x}
  BY <1>2, <1>4 DEF Lost
<1>7. Levels(n, L)
  BY <1>6 DEF Shape, Levels
<1>8. Booted(n)
  BY <1>2, <1>3, Separate DEF Shape, Booted, Entries
<1>9. Leveled(n, L)
  <2>1. <<t, i>>[1] = t /\ <<t, i>>[2] = i
    OBVIOUS
  <2> QED BY <1>1, <1>2, <1>3, <2>1 DEF Shape, Leveled
<1>10. \A u : LastTable(n, u) = LastTable(m, u)
  BY <1>1, LastChanged DEF i
<1>11. Owned(n, L)
  <2> SUFFICES ASSUME NEW e \in Later(n)
               PROVE  /\ n.pt[e] \in (Nat \ BootFrames) \cup {BAD}
                      /\ n.pt[e] \in Frames =>
                            /\ n.pt[e] \in n.used
                            /\ \A d \in Later(n) : n.pt[d] = n.pt[e] => d = e
                      /\ L[e[1]] = 4 => n.pt[e] \notin DOMAIN L
    BY DEF Owned
  <2>1. \A d \in Later(m) : x \in Frames => m.pt[d] # x
    BY Numbers DEF Lost
  <2>2. CASE e = <<t, i>>
    <3>1. x \in (Nat \ BootFrames) \cup {BAD} /\ (x \in Frames => x \in m.used) /\ x \notin DOMAIN L
      <4>1. CASE x \in Lost(m)
        BY <4>1, Separate, Numbers
      <4>2. CASE x = BAD
        BY <4>2, Numbers, TableFrames
      <4>3. CASE x \in Nat \ Frames
        BY <4>3, Numbers, TableFrames
      <4> QED BY <4>1, <4>2, <4>3
    <3> QED BY <1>2, <1>4, <2>1, <2>2, <3>1
  <2>3. CASE e \in Later(m)
    <3>1. /\ m.pt[e] \in (Nat \ BootFrames) \cup {BAD}
          /\ m.pt[e] \in Frames => /\ m.pt[e] \in m.used
                                   /\ \A d \in Later(m) : m.pt[d] = m.pt[e] => d = e
          /\ L[e[1]] = 4 => m.pt[e] \notin DOMAIN L
      BY <2>3 DEF Shape, Owned
    <3> QED BY <1>2, <1>4, <2>1, <2>3, <3>1
  <2> QED BY <1>2, <2>2, <2>3
<1>12. Shown(n)
  <2> SUFFICES ASSUME NEW e \in Later(n), n.pt[e] \in Nat \ Frames
               PROVE  \E w \in Screen : e = <<LastTable(n, w), w[4]>> /\ n.pt[e] = Own(w)
    BY DEF Shown
  <2>1. CASE e \in Later(m)
    BY <1>4, <1>10, <2>1 DEF Shape, Shown
  <2>2. CASE e = <<t, i>>
    BY <1>2, <1>10, <2>2, Separate, Numbers DEF i
  <2> QED BY <1>2, <2>1, <2>2
<1>13. Solid(m, L) => Solid(n, L)
  <2>1. <<t, i>>[1] = t
    OBVIOUS
  <2> QED BY <1>1, <1>2, <1>3, <2>1 DEF Solid
<1>14. Leaf(n, v) = x
  <2>1. Leaf(n, v) = Entry(n, t, i)
    BY <1>1, <1>10 DEF Leaf, Follow, i
  <2> QED BY <1>2, <2>1 DEF Entry, Entries
<1>15. ASSUME NEW u \in Pages \ {v}
       PROVE  Leaf(n, u) = Leaf(m, u)
  <2>1. LastTable(m, u) # t \/ u[4] # i
    <3> SUFFICES ASSUME LastTable(m, u) = t, u[4] = i PROVE u = v
      OBVIOUS
    <3>1. u[1] = v[1] /\ u[2] = v[2] /\ u[3] = v[3]
      BY OnePath
    <3> QED BY <3>1 DEF Pages, i
  <2> QED BY <1>1, <2>1, LastChanged DEF Pages, i
<1> QED BY <1>5, <1>6, <1>7, <1>8, <1>9, <1>11, <1>12, <1>13, <1>14, <1>15 DEF Shape

\* A page's entry goes, and the mark of the frame it held.
LEMMA UnmappedShape ==
    ASSUME NEW m, NEW L, Shape(m, L), NEW v \in Pages, NEW t, t = LastTable(m, v),
           <<t, v[4]>> \in Later(m),
           NEW n, DiffersAt(m, n, t, v[4]), <<t, v[4]>> \notin Entries(n),
           n.used = m.used \ {m.pt[<<t, v[4]>>]},
           <<5, 0>> \in DOMAIN n.pt => n.pt[<<5, 0>>] \in Nat \cup {BAD}
    PROVE  /\ Shape(n, L) /\ (Solid(m, L) => Solid(n, L)) /\ Lost(n) = Lost(m)
           /\ Leaf(n, v) = NONE
           /\ \A u \in Pages \ {v} : Leaf(n, u) = Leaf(m, u)
<1> DEFINE i == v[4]
           x == m.pt[<<t, i>>]
<1>1. /\ t \in DOMAIN L /\ L[t] = 4 /\ t # 5 /\ t \in Frames
  <2>1. At(L, t, 4) /\ ~InWindow(v)
    BY Paths DEF Pages
  <2>2. <<t, i>> \in Entries(m) /\ <<t, i>>[1] = t
    BY DEF Later
  <2> QED BY <2>1, <2>2, PathTo, Separate, TableFrames DEF At
<1> HIDE DEF i
<1>2. /\ <<t, i>> \notin BootEntries /\ <<t, i>> \in Later(m) /\ <<t, i>> # <<5, 0>>
      /\ Entries(n) = Entries(m) \ {<<t, i>>} /\ Later(n) = Later(m) \ {<<t, i>>}
  BY <1>1, Separate DEF DiffersAt, Entries, Later, i
<1>3. \A e \in Entries(n) : n.pt[e] = m.pt[e] /\ e \in Entries(m)
  BY <1>2 DEF DiffersAt, i
<1>4. \A e \in Later(n) : n.pt[e] = m.pt[e] /\ e \in Later(m) /\ e \in Entries(n)
  BY <1>2, <1>3 DEF Later
<1>5. /\ x \notin DOMAIN L /\ x \notin BootFrames /\ (x \in Frames => x \in m.used)
      /\ \A e \in Later(n) : x \in Frames => n.pt[e] # x
  <2>1. <<t, i>>[1] = t
    OBVIOUS
  <2>2. /\ x \in (Nat \ BootFrames) \cup {BAD} /\ x \notin DOMAIN L
        /\ x \in Frames => x \in m.used /\ \A d \in Later(m) : m.pt[d] = x => d = <<t, i>>
    BY <1>1, <1>2, <2>1 DEF Shape, Owned
  <2>3. x \notin BootFrames
    BY <2>2, Numbers
  <2> QED BY <1>2, <1>4, <2>2, <2>3
<1>6. n.used = m.used \ {x}
  BY DEF i
<1> HIDE DEF x
<1>7. Marked(n)
  BY <1>5, <1>6 DEF DiffersAt, Marked, Shape
<1>8. Lost(n) = Lost(m)
  <2>1. \A f \in Lost(m) : f \in n.used /\ \A e \in Later(n) : n.pt[e] # f
    BY <1>2, <1>4, <1>6 DEF Lost, x
  <2>2. \A f \in Lost(n) : f # x /\ f \in m.used /\ \A e \in Later(m) : m.pt[e] # f
    <3> TAKE f \in Lost(n)
    <3>1. f # x /\ f \in m.used
      BY <1>6 DEF Lost
    <3>2. \A e \in Later(m) \ {<<t, i>>} : m.pt[e] # f
      BY <1>2, <1>4 DEF Lost
    <3> QED BY <3>1, <3>2 DEF x
  <2> QED BY <2>1, <2>2 DEF Lost
<1>9. Levels(n, L)
  BY <1>5, <1>6, <1>8 DEF Shape, Levels
<1>10. Booted(n)
  BY <1>2, <1>3, Separate DEF Shape, Booted, Entries
<1>11. Leveled(n, L)
  BY <1>3 DEF Shape, Leveled
<1>12. Owned(n, L)
  BY <1>4, <1>5, <1>6 DEF Shape, Owned
<1>13. \A u : LastTable(n, u) = LastTable(m, u)
  BY <1>1, LastChanged DEF i
<1>14. Shown(n)
  BY <1>4, <1>13 DEF Shape, Shown
<1>15. Solid(m, L) => Solid(n, L)
  BY <1>3 DEF Solid
<1>16. Leaf(n, v) = NONE
  <2>1. Leaf(n, v) = Entry(n, t, i)
    BY <1>1, <1>13 DEF Leaf, Follow, i
  <2> QED BY <1>2, <2>1 DEF Entry, Entries
<1>17. ASSUME NEW u \in Pages \ {v}
       PROVE  Leaf(n, u) = Leaf(m, u)
  <2>1. LastTable(m, u) # t \/ u[4] # i
    <3> SUFFICES ASSUME LastTable(m, u) = t, u[4] = i PROVE u = v
      OBVIOUS
    <3>1. u[1] = v[1] /\ u[2] = v[2] /\ u[3] = v[3]
      BY <1>1, OnePath
    <3> QED BY <3>1 DEF Pages, i
  <2> QED BY <1>1, <2>1, LastChanged DEF Pages, i
<1> QED BY <1>7, <1>8, <1>9, <1>10, <1>11, <1>12, <1>14, <1>15, <1>16, <1>17 DEF Shape

-----------------------------------------------------------------------------
(* The calls of page.c.                                                    *)

\* What a walk and its parts may assume: every used frame but those of S is
\* pointed to, and no table is missing for want of frames.
Sound(m, L, S) == Shape(m, L) /\ Solid(m, L) /\ Lost(m) = S

\* What they leave: every walk and every page where it was.
SamePaths(m, n) == \A u : /\ T2(m, u) # NONE => T2(n, u) = T2(m, u)
                          /\ T3(m, u) # NONE => T3(n, u) = T3(m, u)
                          /\ LastTable(m, u) # NONE => LastTable(n, u) = LastTable(m, u)

Kept(m, n) == /\ m.used \subseteq n.used /\ SamePaths(m, n)
              /\ \A u \in Pages : Leaf(n, u) = Leaf(m, u)

\* What a walk leaves that ran out of frames: no page that was mapped is moved.
Broken(m, n) == /\ SamePaths(m, n)
                /\ \A u \in Pages : \/ Leaf(n, u) = Leaf(m, u)
                                    \/ Leaf(m, u) = NONE /\ Leaf(n, u) = BAD

\* page_getframe marks a frame that nothing uses, and changes no table.
LEMMA FrameTaken ==
    ASSUME NEW m, NEW L, Shape(m, L), Free(m) # {}
    PROVE  LET n == page_getframe(m)
               f == Lowest(m)
           IN  /\ SameEntries(m, n) /\ n.used = m.used \cup {f} /\ <<5, 0>> \notin DOMAIN n.pt
               /\ f \in Frames \ m.used /\ f \notin BootFrames
               /\ Shape(n, L) /\ (Solid(m, L) => Solid(n, L)) /\ Lost(n) = Lost(m) \cup {f}
<1> DEFINE f == Lowest(m)
           g == [e \in {d \in DOMAIN m.pt : d[1] # f} |-> m.pt[e]]
           k == [used |-> m.used \cup {f}, pt |-> g]
           n == page_getframe(m)
<1>1. f \in Frames \ m.used /\ f \notin BootFrames /\ f \notin DOMAIN L
  BY LowestFree DEF Shape, Marked, Levels
<1>2. n = page_umapframe(k)
  BY DEF page_getframe
<1> HIDE DEF f, n
<1>3. Memory(k) /\ k.used = m.used \cup {f} /\ Entries(k) = Entries(m)
      /\ \A e \in Entries(m) : k.pt[e] = m.pt[e]
  BY <1>1, Separate DEF Memory, Entries
<1> HIDE DEF k, g
<1>4. SameEntries(m, n) /\ n.used = m.used \cup {f} /\ <<5, 0>> \notin DOMAIN n.pt
  BY <1>2, <1>3, UnmapFrame DEF SameEntries
<1>5. n.used \subseteq Frames
  BY <1>1, <1>4 DEF Shape, Marked
<1>6. /\ Shape(n, L) /\ (Solid(m, L) => Solid(n, L))
      /\ Lost(n) = Lost(m) \cup ((n.used \ m.used) \ BootFrames)
  BY <1>4, <1>5, MarkedShape
<1>7. Lost(n) = Lost(m) \cup {f}
  BY <1>1, <1>4, <1>6
<1> QED BY <1>1, <1>4, <1>6, <1>7 DEF f, n

\* Writing the window.
LEMMA WindowMoved ==
    ASSUME NEW m, NEW L, Shape(m, L), NEW f, f \in Nat \cup {BAD}
    PROVE  LET n == page_mapframe(m, f)
           IN  /\ SameEntries(m, n) /\ n.used = m.used
               /\ Shape(n, L) /\ (Solid(m, L) => Solid(n, L)) /\ Lost(n) = Lost(m)
<1> DEFINE n == page_mapframe(m, f)
<1>1. SameEntries(m, n) /\ n.used = m.used /\ n.pt[<<5, 0>>] = f
  BY TableFrames, MapFrame
<1>2. n.used \subseteq Frames
  BY <1>1 DEF Shape, Marked
<1> HIDE DEF n
<1>3. /\ Shape(n, L) /\ (Solid(m, L) => Solid(n, L))
      /\ Lost(n) = Lost(m) \cup ((n.used \ m.used) \ BootFrames)
  BY <1>1, <1>2, MarkedShape
<1>4. Lost(n) = Lost(m)
  BY <1>1, <1>3
<1> QED BY <1>1, <1>3, <1>4 DEF n

\* Closing the window keeps the tables well formed.
LEMMA WindowShut ==
    ASSUME NEW m, NEW L, Shape(m, L)
    PROVE  LET n == page_umapframe(m)
           IN  /\ SameEntries(m, n) /\ n.used = m.used
               /\ Shape(n, L) /\ (Solid(m, L) => Solid(n, L)) /\ Lost(n) = Lost(m)
<1> DEFINE n == page_umapframe(m)
<1>1. SameEntries(m, n) /\ n.used = m.used /\ <<5, 0>> \notin DOMAIN n.pt
  BY TableFrames, UnmapFrame
<1>2. n.used \subseteq Frames
  BY <1>1 DEF Shape, Marked
<1> HIDE DEF n
<1>3. /\ Shape(n, L) /\ (Solid(m, L) => Solid(n, L))
      /\ Lost(n) = Lost(m) \cup ((n.used \ m.used) \ BootFrames)
  BY <1>1, <1>2, MarkedShape
<1>4. Lost(n) = Lost(m)
  BY <1>1, <1>3
<1> QED BY <1>1, <1>3, <1>4 DEF n

\* An entry is zero exactly if it is not kept.
LEMMA NoEntry ==
    ASSUME NEW m, NEW L, Shape(m, L), NEW t \in DOMAIN L, t # 5, NEW i
    PROVE  Entry(m, t, i) = NONE <=> <<t, i>> \notin Entries(m)
<1>1. <<t, i>> # <<5, 0>> /\ <<t, i>>[1] = t
  OBVIOUS
<1>2. CASE <<t, i>> \in Entries(m)
  <2>1. Entry(m, t, i) = m.pt[<<t, i>>]
    BY <1>2 DEF Entry, Entries
  <2>2. CASE <<t, i>> \in BootEntries
    <3>1. m.pt[<<t, i>>] = BootEntry(<<t, i>>)
      BY <2>2 DEF Shape, Booted
    <3>2. BootEntry(<<t, i>>) \in Nat
      BY <2>2, Numbers DEF BootEntry, BootEntries, BootFrames
    <3> QED BY <1>2, <2>1, <3>1, <3>2, Numbers
  <2>3. CASE <<t, i>> \in Later(m)
    <3>1. m.pt[<<t, i>>] \in (Nat \ BootFrames) \cup {BAD}
      BY <2>3 DEF Shape, Owned
    <3> QED BY <1>2, <2>1, <3>1, Numbers
  <2> QED BY <1>2, <2>2, <2>3 DEF Later
<1>3. CASE <<t, i>> \notin Entries(m)
  BY <1>1, <1>3 DEF Entry, Entries
<1> QED BY <1>2, <1>3

\* Writing an entry of a table changes what that entry shows, and no other.
LEMMA SetDiffers ==
    ASSUME NEW m, NEW L, Shape(m, L), NEW t \in DOMAIN L, t # 5, NEW i, NEW x
    PROVE  LET n == Set(m, t, i, x)
           IN  /\ DiffersAt(m, n, t, i) /\ n.used = m.used
               /\ <<t, i>> \in Entries(n) /\ n.pt[<<t, i>>] = x
               /\ <<5, 0>> \in DOMAIN n.pt => n.pt[<<5, 0>>] \in Nat \cup {BAD}
               /\ Entry(n, t, i) = x /\ Follow(n, t, i) = x
<1> DEFINE n == Set(m, t, i, x)
<1>1. Writes(m, n, <<t, i>>, x)
  BY SetWrites, TableFrames
<1>2. <<t, i>> # <<5, 0>>
  OBVIOUS
<1>3. <<5, 0>> \in DOMAIN m.pt => m.pt[<<5, 0>>] \in Nat \cup {BAD}
  BY DEF Shape, Marked
<1> HIDE DEF n
<1>4. DiffersAt(m, n, t, i) /\ n.used = m.used /\ <<t, i>> \in Entries(n) /\ n.pt[<<t, i>>] = x
  BY <1>1, <1>2 DEF Writes, DiffersAt, Entries
<1>5. <<5, 0>> \in DOMAIN n.pt => n.pt[<<5, 0>>] \in Nat \cup {BAD}
  BY <1>1, <1>2, <1>3 DEF Writes
<1>6. Entry(n, t, i) = x
  BY <1>4 DEF Entry, Entries
<1>7. Follow(n, t, i) = x
  BY <1>6, TableFrames DEF Follow
<1> QED BY <1>4, <1>5, <1>6, <1>7 DEF n

\* Opening the window on a table keeps the tables well formed.
LEMMA Viewed ==
    ASSUME NEW m, NEW L, Shape(m, L), NEW t \in DOMAIN L
    PROVE  LET n == View(m, t)
           IN  /\ SameEntries(m, n) /\ n.used = m.used
               /\ Shape(n, L) /\ (Solid(m, L) => Solid(n, L)) /\ Lost(n) = Lost(m)
<1>1. CASE t = ROOT
  BY <1>1, TableFrames DEF View, SameEntries
<1>2. CASE t # ROOT
  BY <1>2, TableFrames, WindowMoved DEF View
<1> QED BY <1>1, <1>2

\* With the entries unchanged every page keeps its frame.
LEMMA UnmovedKept ==
    ASSUME NEW m, NEW L, Shape(m, L), NEW n, SameEntries(m, n), m.used \subseteq n.used
    PROVE  Kept(m, n)
BY Unmoved DEF Kept, SamePaths, Pages

\* What Down does at a table.
LEMMA DownOn ==
    ASSUME NEW m, NEW t, t # BAD, NEW i
    PROVE  Down([mem |-> m, at |-> t], i) =
           LET shown == View(m, t)
               n     == Set(View(page_getframe(shown), t), t, i, Lowest(shown))
               mm    == IF Entry(shown, t, i) # NONE THEN shown ELSE n
           IN  [mem |-> mm, at |-> Entry(mm, t, i)]
BY DEF Down, Step, Present, Link

\* One level down: either the next table is there, or no frame was left for it.
LEMMA DownStep ==
    ASSUME NEW m, NEW L, NEW S, Sound(m, L, S), NEW t \in DOMAIN L, L[t] < 4, NEW i \in Indices
    PROVE  LET r == Down([mem |-> m, at |-> t], i)
           IN  /\ r = [mem |-> r.mem, at |-> r.at] /\ r.at = Follow(r.mem, t, i)
               /\ \/ /\ Kept(m, r.mem)
                     /\ \E M : Sound(r.mem, M, S) /\ r.at \in DOMAIN M /\ M[r.at] = L[t] + 1
                  \/ Broken(m, r.mem) /\ Shape(r.mem, L) /\ r.at = BAD
<1> DEFINE r == Down([mem |-> m, at |-> t], i)
           shown == View(m, t)
           got == page_getframe(shown)
           back == View(got, t)
           f == Lowest(shown)
           n == Set(back, t, i, f)
<1>1. Shape(m, L) /\ Solid(m, L) /\ Lost(m) = S /\ t # BAD /\ t # 5 /\ t \in Frames
  <2> HIDE DEF r, shown, got, back, f, n
  <2>1. Shape(m, L) /\ Solid(m, L) /\ Lost(m) = S
    BY DEF Sound
  <2> QED BY <2>1, TableFrames
<1>2. r = LET mm == IF Entry(shown, t, i) # NONE THEN shown ELSE n
          IN  [mem |-> mm, at |-> Entry(mm, t, i)]
  <2> HIDE DEF back
  <2>1. t # BAD
    BY <1>1
  <2> QED BY <2>1, DownOn DEF back
<1>3. /\ SameEntries(m, shown) /\ shown.used = m.used
      /\ Shape(shown, L) /\ Solid(shown, L) /\ Lost(shown) = S
  BY <1>1, Viewed
<1>4. Kept(m, shown)
  BY <1>1, <1>3, UnmovedKept
<1>5. r = [mem |-> r.mem, at |-> r.at] /\ r.at = Follow(r.mem, t, i)
  BY <1>1, <1>2 DEF Follow
<1> HIDE DEF r
<1>6. CASE Entry(shown, t, i) # NONE
  <2>1. r.mem = shown /\ r.at = Follow(shown, t, i) /\ Follow(shown, t, i) = Entry(shown, t, i)
    BY <1>1, <1>2, <1>6 DEF Follow
  <2>2. L[t] \in 1 .. 3 /\ At(L, t, L[t])
    BY TableFrames, <1>1 DEF At
  <2>3. At(L, Follow(shown, t, i), L[t] + 1) /\ Follow(shown, t, i) # BAD
    BY <1>1, <1>3, <2>2, OneDown
  <2>4. r.at \in DOMAIN L /\ L[r.at] = L[t] + 1
    BY <1>6, <2>1, <2>3 DEF At
  <2>5. Sound(shown, L, S)
    BY <1>3 DEF Sound
  <2> QED BY <1>4, <1>5, <2>1, <2>4, <2>5 DEF r
<1>7. CASE Entry(shown, t, i) = NONE /\ Free(shown) = {}
  <2>1. got = shown /\ f = BAD
    BY <1>7 DEF page_getframe, Lowest
  <2>2. SameEntries(shown, back) /\ back.used = shown.used /\ Shape(back, L)
    BY <1>3, <2>1, Viewed
  <2>3. r.mem = n
    BY <1>2, <1>7
  <2> HIDE DEF got, back, f, shown
  <2>4. /\ DiffersAt(back, n, t, i) /\ n.used = back.used
        /\ <<t, i>> \in Entries(n) /\ n.pt[<<t, i>>] = BAD
        /\ <<5, 0>> \in DOMAIN n.pt => n.pt[<<5, 0>>] \in Nat \cup {BAD}
        /\ Follow(n, t, i) = BAD
    BY <1>1, <2>1, <2>2, SetDiffers
  <2>5. <<t, i>> \notin Entries(back)
    BY <1>1, <1>3, <1>7, <2>2, NoEntry DEF SameEntries
  <2> HIDE DEF n
  <2>6. Links(back, L, n, t, i, BAD)
    BY <2>4, <2>5 DEF Links
  <2>7. Shape(n, L)
    BY <2>2, <2>4, <2>6, BrokenShape
  <2>8. Broken(m, n)
    <3>1. Broken(back, n)
      <4>1. SamePaths(back, n)
        BY <2>2, <2>6, LinkAdded DEF SamePaths
      <4>2. ASSUME NEW u \in Pages
            PROVE  \/ Leaf(n, u) = Leaf(back, u)
                   \/ Leaf(back, u) = NONE /\ Leaf(n, u) = BAD
        BY <2>2, <2>6, LinkAdded DEF Pages
      <4> QED BY <4>1, <4>2 DEF Broken
    <3>2. Kept(shown, back)
      BY <1>3, <2>2, UnmovedKept
    <3> QED BY <1>4, <3>1, <3>2 DEF Broken, Kept, SamePaths
  <2> QED BY <1>5, <2>3, <2>4, <2>7, <2>8 DEF r
<1>8. CASE Entry(shown, t, i) = NONE /\ Free(shown) # {}
  <2>1. /\ SameEntries(shown, got) /\ got.used = shown.used \cup {f} /\ f \notin shown.used
        /\ Shape(got, L) /\ Solid(got, L) /\ Lost(got) = S \cup {f}
    <3> HIDE DEF shown
    <3>1. Free(shown) # {} /\ Shape(shown, L) /\ Solid(shown, L) /\ Lost(shown) = S
      BY <1>3, <1>8
    <3>2. /\ SameEntries(shown, got) /\ got.used = shown.used \cup {f} /\ f \notin shown.used
          /\ Shape(got, L) /\ (Solid(shown, L) => Solid(got, L)) /\ Lost(got) = Lost(shown) \cup {f}
      BY <3>1, FrameTaken
    <3> HIDE DEF got, f
    <3> QED BY <3>1, <3>2
  <2>2. r.mem = n
    BY <1>2, <1>8
  <2> HIDE DEF got, f, shown
  <2>3. /\ SameEntries(got, back) /\ back.used = got.used
        /\ Shape(back, L) /\ Solid(back, L) /\ Lost(back) = S \cup {f}
    BY <2>1, Viewed
  <2> HIDE DEF back
  <2>4. /\ DiffersAt(back, n, t, i) /\ n.used = back.used
        /\ <<t, i>> \in Entries(n) /\ n.pt[<<t, i>>] = f
        /\ <<5, 0>> \in DOMAIN n.pt => n.pt[<<5, 0>>] \in Nat \cup {BAD}
        /\ Follow(n, t, i) = f
    BY <1>1, <2>3, SetDiffers
  <2>5. <<t, i>> \notin Entries(back)
    BY <1>1, <1>3, <1>8, <2>1, <2>3, NoEntry DEF SameEntries
  <2> HIDE DEF n
  <2>6. f \in Lost(back) /\ f \in Frames /\ f \notin DOMAIN L
    BY <2>3, Separate
  <2>7. Links(back, L, n, t, i, f)
    BY <2>4, <2>5, <2>6 DEF Links
  <2> DEFINE M == Deeper(L, t, f)
  <2>8. /\ Shape(n, M) /\ Solid(n, M) /\ Lost(n) = Lost(back) \ {f}
        /\ f \in DOMAIN M /\ M[f] = L[t] + 1
    BY SMTT(30), <2>3, <2>4, <2>6, <2>7, LinkedShape
  <2>9. Lost(n) = S
    <3>1. f \notin S
      BY <1>3, <2>1 DEF Lost
    <3> QED BY <2>3, <2>8, <3>1
  <2>10. Sound(n, M, S)
    BY <2>8, <2>9 DEF Sound
  <2>11. Kept(m, n)
    <3>1. Kept(shown, got) /\ Kept(got, back)
      BY <1>3, <2>1, <2>3, UnmovedKept
    <3>2. Kept(back, n)
      BY <2>3, <2>4, <2>6, <2>7, LinkAdded, Numbers DEF Kept, SamePaths, Pages
    <3> QED BY <1>4, <3>1, <3>2 DEF Kept, SamePaths
  <2> HIDE DEF M
  <2>12. r.at = f
    BY <1>5, <2>2, <2>4
  <2> QED BY <1>5, <2>2, <2>8, <2>10, <2>11, <2>12 DEF r
<1> QED BY <1>6, <1>7, <1>8

\* The same with the level by name.
LEMMA DownTo ==
    ASSUME NEW m, NEW L, NEW S, Sound(m, L, S), NEW k, NEW l, k \in 1 .. 3, l = k + 1,
           NEW t \in DOMAIN L, L[t] = k, NEW i \in Indices, NEW r,
           r = Down([mem |-> m, at |-> t], i)
    PROVE  /\ r = [mem |-> r.mem, at |-> r.at] /\ r.at = Follow(r.mem, t, i)
           /\ \/ /\ Kept(m, r.mem)
                 /\ \E M : Sound(r.mem, M, S) /\ r.at \in DOMAIN M /\ M[r.at] = l
              \/ Broken(m, r.mem) /\ Shape(r.mem, L) /\ r.at = BAD
<1>1. L[t] < 4
  OBVIOUS
<1> QED BY <1>1, DownStep

\* A walk that has ended at BAD stays there.
LEMMA DownBad ==
    ASSUME NEW w, w.at = BAD, NEW i
    PROVE  Down(w, i) = w
BY DEF Down

\* A walk that has a table does not end at BAD.
LEMMA NotBad ==
    ASSUME NEW m, NEW L, NEW S, Sound(m, L, S)
    PROVE  BAD \notin DOMAIN L /\ NONE \notin DOMAIN L
<1>1. Shape(m, L)
  BY DEF Sound
<1> QED BY <1>1, TableFrames

\* What two steps of a walk leave alone, the two together leave alone.
LEMMA Composed ==
    ASSUME NEW m, NEW k, NEW n, Kept(m, k)
    PROVE  /\ Kept(k, n) => Kept(m, n)
           /\ Broken(k, n) => Broken(m, n)
BY DEF Kept, Broken, SamePaths

\* A walk reaches the page's last table, with all pages where they were, or the
\* machine is about to fault there.
LEMMA Walked ==
    ASSUME NEW m, NEW L, NEW S, Sound(m, L, S), NEW v \in Pages
    PROVE  LET w == Walk(m, v)
           IN  \/ /\ Kept(m, w.mem) /\ w.at = LastTable(w.mem, v)
                  /\ \E M : Sound(w.mem, M, S) /\ w.at \in DOMAIN M /\ M[w.at] = 4
               \/ /\ Broken(m, w.mem) /\ w.at = BAD /\ Leaf(w.mem, v) = BAD
                  /\ \E M : Shape(w.mem, M)
<1> DEFINE r1 == Down([mem |-> m, at |-> ROOT], v[1])
           r2 == Down(r1, v[2])
           r3 == Down(r2, v[3])
<1>1. Walk(m, v) = r3
  BY DEF Walk
<1>2. v[1] \in Indices /\ v[2] \in Indices /\ v[3] \in Indices
  BY DEF Pages
<1>3. \A n : T2(n, v) = BAD => T3(n, v) = BAD
  BY Numbers DEF T3, Follow
<1>4. \A n : T3(n, v) = BAD => LastTable(n, v) = BAD
  BY Numbers DEF LastTable, T3, T2, Follow
<1>5. \A n : LastTable(n, v) = BAD => Leaf(n, v) = BAD
  BY Numbers DEF Leaf, Follow
<1> HIDE DEF r1, r2, r3
<1>6. /\ r1 = [mem |-> r1.mem, at |-> r1.at] /\ r1.at = T2(r1.mem, v)
      /\ \/ /\ Kept(m, r1.mem)
            /\ \E M : Sound(r1.mem, M, S) /\ r1.at \in DOMAIN M /\ M[r1.at] = 2
         \/ Broken(m, r1.mem) /\ Shape(r1.mem, L) /\ r1.at = BAD
  <2>1. ROOT \in DOMAIN L /\ L[ROOT] = 1
    BY TableFrames, Numbers DEF Sound
  <2>2. r1 = Down([mem |-> m, at |-> ROOT], v[1])
    BY DEF r1
  <2>3. /\ r1 = [mem |-> r1.mem, at |-> r1.at] /\ r1.at = Follow(r1.mem, ROOT, v[1])
        /\ \/ /\ Kept(m, r1.mem)
              /\ \E M : Sound(r1.mem, M, S) /\ r1.at \in DOMAIN M /\ M[r1.at] = 2
           \/ Broken(m, r1.mem) /\ Shape(r1.mem, L) /\ r1.at = BAD
    BY <1>2, <2>1, <2>2, DownTo
  <2>4. T2(r1.mem, v) = Follow(r1.mem, ROOT, v[1])
    BY DEF T2
  <2> QED BY <2>3, <2>4
<1>7. CASE r1.at = BAD
  <2>1. r2 = r1 /\ r3 = r1
    BY <1>7, DownBad DEF r2, r3
  <2>2. ~\E M : Sound(r1.mem, M, S) /\ r1.at \in DOMAIN M /\ M[r1.at] = 2
    BY <1>7, NotBad
  <2>3. Broken(m, r1.mem) /\ Shape(r1.mem, L)
    BY <1>6, <2>2
  <2>4. Leaf(r1.mem, v) = BAD
    BY <1>3, <1>4, <1>5, <1>6, <1>7
  <2> QED BY ZenonT(40), <1>1, <1>7, <2>1, <2>3, <2>4
<1>8. CASE r1.at # BAD
  <2>1. PICK M1 : Kept(m, r1.mem) /\ Sound(r1.mem, M1, S) /\ r1.at \in DOMAIN M1 /\ M1[r1.at] = 2
    BY <1>6, <1>8
  <2>2. /\ r2 = [mem |-> r2.mem, at |-> r2.at] /\ r2.at = Follow(r2.mem, r1.at, v[2])
        /\ \/ /\ Kept(r1.mem, r2.mem)
              /\ \E M : Sound(r2.mem, M, S) /\ r2.at \in DOMAIN M /\ M[r2.at] = 3
           \/ Broken(r1.mem, r2.mem) /\ Shape(r2.mem, M1) /\ r2.at = BAD
    <3>1. r2 = Down([mem |-> r1.mem, at |-> r1.at], v[2])
      BY <1>6 DEF r2
    <3> QED BY <1>2, <2>1, <3>1, DownTo
  <2>3. r1.at # NONE
    BY <2>1, NotBad
  <2>4. r2.at = T3(r2.mem, v)
    <3>1. T2(r2.mem, v) = r1.at
      BY <1>6, <2>2, <2>3 DEF Kept, Broken, SamePaths
    <3>2. T3(r2.mem, v) = Follow(r2.mem, T2(r2.mem, v), v[2])
      BY DEF T3
    <3> QED BY <2>2, <3>1, <3>2
  <2>5. CASE r2.at = BAD
    <3>1. r3 = r2
      BY <2>5, DownBad DEF r3
    <3>2. ~\E M : Sound(r2.mem, M, S) /\ r2.at \in DOMAIN M /\ M[r2.at] = 3
      BY <2>5, NotBad
    <3>3. Broken(m, r2.mem) /\ Shape(r2.mem, M1)
      BY <2>1, <2>2, <3>2, Composed
    <3>4. Leaf(r2.mem, v) = BAD
      BY <1>4, <1>5, <2>4, <2>5
    <3> QED BY ZenonT(40), <1>1, <2>5, <3>1, <3>3, <3>4
  <2>6. CASE r2.at # BAD
    <3>1. PICK M2 : Kept(r1.mem, r2.mem) /\ Sound(r2.mem, M2, S) /\ r2.at \in DOMAIN M2 /\ M2[r2.at] = 3
      BY <2>2, <2>6
    <3>2. /\ r3.at = Follow(r3.mem, r2.at, v[3])
          /\ \/ /\ Kept(r2.mem, r3.mem)
                /\ \E M : Sound(r3.mem, M, S) /\ r3.at \in DOMAIN M /\ M[r3.at] = 4
             \/ Broken(r2.mem, r3.mem) /\ Shape(r3.mem, M2) /\ r3.at = BAD
      <4>1. r3 = Down([mem |-> r2.mem, at |-> r2.at], v[3])
        BY <2>2 DEF r3
      <4> QED BY <1>2, <3>1, <4>1, DownTo
    <3>3. r3.at = LastTable(r3.mem, v)
      <4>1. r2.at # NONE
        BY <3>1, TableFrames DEF Sound
      <4>2. T3(r3.mem, v) = r2.at
        BY <2>4, <3>2, <4>1 DEF Kept, Broken, SamePaths
      <4>3. LastTable(r3.mem, v) = Follow(r3.mem, T3(r3.mem, v), v[3])
        BY DEF LastTable, T3, T2
      <4> QED BY <3>2, <4>2, <4>3
    <3>4. Kept(m, r2.mem)
      BY <2>1, <3>1, Composed
    <3>5. CASE Kept(r2.mem, r3.mem) /\ \E M : Sound(r3.mem, M, S) /\ r3.at \in DOMAIN M /\ M[r3.at] = 4
      BY <1>1, <3>3, <3>4, <3>5, Composed
    <3>6. CASE Broken(r2.mem, r3.mem) /\ Shape(r3.mem, M2) /\ r3.at = BAD
      BY <1>1, <1>5, <3>3, <3>4, <3>6, Composed
    <3> QED BY <3>2, <3>5, <3>6
  <2> QED BY <2>5, <2>6
<1> QED BY <1>7, <1>8

-----------------------------------------------------------------------------
(* The pages of the clients.                                               *)

\* Division with remainder.
LEMMA Division ==
    ASSUME NEW f \in Nat, NEW n \in Nat, n > 0
    PROVE  /\ f \div n \in Nat /\ f % n \in 0 .. n - 1
           /\ f = n * (f \div n) + (f % n)
           /\ f < n => f \div n = 0 /\ f % n = f
<1>1. f \div n \in Nat /\ f % n \in 0 .. n - 1
  BY Z3
<1>2. f = n * (f \div n) + (f % n)
  OBVIOUS
<1>3. f < n => f \div n = 0 /\ f % n = f
  BY Z3
<1> QED BY <1>1, <1>2, <1>3

\* Each frame has a page at its own address.
LEMMA IdentityPages ==
    /\ \A f \in Frames : Identity(f) \in Pages
    /\ \A f, g \in Frames : Identity(f) = Identity(g) => f = g
    /\ \A f \in BootFrames : Identity(f) = <<0, 0, 0, f>>
<1> DEFINE N == TOP + 1
<1>1. N \in Nat /\ N > 0 /\ N = TOP + 1 /\ TOP \in Nat /\ Frames = 0 .. LAST /\ LAST \in Nat
      /\ LAST < TOP * N /\ Frames \subseteq Nat
  BY FramesAssumption DEF Frames
<1>2. \A f : Identity(f) = <<0, 0, f \div N, f % N>>
  BY DEF Identity
<1> HIDE DEF N
<1>3. ASSUME NEW f \in Frames
      PROVE  Identity(f) \in Pages
  <2> DEFINE q == f \div N
             r == f % N
  <2>1. q \in Nat /\ r \in 0 .. N - 1 /\ f = N * q + r
    BY <1>1, Division
  <2>2. f \in Nat /\ f <= LAST
    BY <1>1
  <2>3. Identity(f) = <<0, 0, q, r>>
    BY <1>2
  <2> HIDE DEF q, r
  <2>4. q < TOP
    <3> SUFFICES ASSUME q >= TOP PROVE FALSE
      BY <1>1, <2>1
    <3>1. q = TOP + (q - TOP) /\ q - TOP \in Nat
      BY <1>1, <2>1
    <3>2. N * q = TOP * N + N * (q - TOP) /\ N * (q - TOP) \in Nat /\ TOP * N \in Nat
      BY <1>1, <2>1, <3>1, Z3
    <3> QED BY <1>1, <2>1, <2>2, <3>2
  <2>5. 0 \in Indices /\ q \in Indices /\ r \in Indices /\ q # TOP
    BY <1>1, <2>1, <2>4 DEF Indices
  <2> QED BY <2>3, <2>5 DEF Pages, InWindow
<1>4. ASSUME NEW f \in Frames, NEW g \in Frames, Identity(f) = Identity(g)
      PROVE  f = g
  <2> DEFINE q(h) == h \div N
             r(h) == h % N
  <2>1. q(f) = q(g) /\ r(f) = r(g)
    BY <1>2, <1>4
  <2>2. f = N * q(f) + r(f) /\ g = N * q(g) + r(g)
    BY <1>1, Division
  <2> HIDE DEF q, r
  <2> QED BY <2>1, <2>2
<1>5. ASSUME NEW f \in BootFrames
      PROVE  Identity(f) = <<0, 0, 0, f>>
  <2>1. f \in Nat /\ f < N
    BY <1>1, FramesAssumption DEF BootFrames
  <2> QED BY <1>1, <1>2, <2>1, Division
<1> QED BY <1>3, <1>4, <1>5

\* The last digit of a number to the base n, and the number before it.
Number(n, a, b) == a + n * b

\* Two digits are determined by the number they make.
LEMMA Digits ==
    ASSUME NEW n \in Nat, NEW a \in Nat, NEW b \in Nat, NEW c \in Nat, NEW d \in Nat,
           a < n, c < n, Number(n, a, b) = Number(n, c, d)
    PROVE  a = c /\ b = d
<1>0. a + n * b = c + n * d
  BY DEF Number
<1>1. CASE b < d
  <2>1. d - b \in Nat /\ d - b >= 1 /\ d = b + (d - b)
    BY <1>1
  <2>2. n * d = n * b + n * (d - b) /\ n * (d - b) >= n /\ n * b \in Nat /\ n * d \in Nat
    BY <2>1, Z3
  <2> QED BY <1>0, <2>2
<1>2. CASE d < b
  <2>1. b - d \in Nat /\ b - d >= 1 /\ b = d + (b - d)
    BY <1>2
  <2>2. n * b = n * d + n * (b - d) /\ n * (b - d) >= n /\ n * b \in Nat /\ n * d \in Nat
    BY <2>1, Z3
  <2> QED BY <1>0, <2>2
<1>3. CASE b = d
  <2>1. n * b \in Nat /\ n * b = n * d
    BY <1>3
  <2> QED BY <1>0, <1>3, <2>1
<1> QED BY <1>1, <1>2, <1>3

\* Pages have different addresses.
LEMMA OwnOnce ==
    ASSUME NEW u \in Pages, NEW v \in Pages
    PROVE  Own(u) \in Nat /\ (Own(u) = Own(v) => u = v)
<1> DEFINE N == TOP + 1
           x(w) == Number(N, w[2], w[1])
           y(w) == Number(N, w[3], x(w))
<1>1. N \in Nat /\ \A k \in Indices : k \in Nat /\ k < N
  BY Numbers DEF Indices
<1>2. \A w \in Pages : /\ w[1] \in Indices /\ w[2] \in Indices
                       /\ w[3] \in Indices /\ w[4] \in Indices
                       /\ w = <<w[1], w[2], w[3], w[4]>>
  BY DEF Pages
<1>3. \A w : Own(w) = Number(N, w[4], y(w))
  BY DEF Own, Number
<1>4. \A a, b \in Nat : Number(N, a, b) \in Nat
  BY <1>1 DEF Number
<1> HIDE DEF N
<1>5. \A w \in Pages : x(w) \in Nat /\ y(w) \in Nat /\ Own(w) \in Nat
  BY <1>1, <1>2, <1>3, <1>4
<1>6. ASSUME Own(u) = Own(v) PROVE u = v
  <2>1. Number(N, u[4], y(u)) = Number(N, v[4], y(v))
    BY <1>3, <1>6
  <2>2. Number(N, u[3], x(u)) = y(u) /\ Number(N, v[3], x(v)) = y(v)
        /\ Number(N, u[2], u[1]) = x(u) /\ Number(N, v[2], v[1]) = x(v)
    OBVIOUS
  <2> HIDE DEF x, y
  <2>3. u[4] = v[4] /\ y(u) = y(v)
    <3>1. /\ u[4] \in Nat /\ u[4] < N /\ v[4] \in Nat /\ v[4] < N
          /\ y(u) \in Nat /\ y(v) \in Nat /\ N \in Nat
      BY <1>1, <1>2, <1>5
    <3> QED BY <2>1, <3>1, Digits
  <2>4. u[3] = v[3] /\ x(u) = x(v)
    <3>1. /\ u[3] \in Nat /\ u[3] < N /\ v[3] \in Nat /\ v[3] < N
          /\ x(u) \in Nat /\ x(v) \in Nat /\ N \in Nat
      BY <1>1, <1>2, <1>5
    <3>2. Number(N, u[3], x(u)) = Number(N, v[3], x(v))
      BY <2>2, <2>3
    <3> QED BY <3>1, <3>2, Digits
  <2>5. u[2] = v[2] /\ u[1] = v[1]
    <3>1. /\ u[2] \in Nat /\ u[2] < N /\ v[2] \in Nat /\ v[2] < N
          /\ u[1] \in Nat /\ v[1] \in Nat /\ N \in Nat
      BY <1>1, <1>2
    <3>2. Number(N, u[2], u[1]) = Number(N, v[2], v[1])
      BY <2>2, <2>4
    <3> QED BY <3>1, <3>2, Digits
  <2> QED BY <1>2, <2>3, <2>4, <2>5
<1> QED BY <1>5, <1>6

\* A page's frame is in the entry of its last table.
LEMMA LeafEntry ==
    ASSUME NEW m, NEW L, Shape(m, L), NEW v \in Pages, NEW t, t = LastTable(m, v), t \in DOMAIN L
    PROVE  /\ L[t] = 4 /\ t # 5 /\ Leaf(m, v) = Entry(m, t, v[4])
           /\ Leaf(m, v) = NONE <=> <<t, v[4]>> \notin Entries(m)
           /\ <<t, v[4]>> \in Entries(m) => Leaf(m, v) = m.pt[<<t, v[4]>>]
<1>1. L[t] = 4 /\ t # 5
  <2>1. At(L, t, 4) /\ ~InWindow(v)
    BY Paths DEF Pages
  <2> QED BY <2>1, PathTo, TableFrames DEF At
<1>2. Leaf(m, v) = Entry(m, t, v[4])
  BY TableFrames DEF Leaf, Follow
<1>3. Leaf(m, v) = NONE <=> <<t, v[4]>> \notin Entries(m)
  BY <1>1, <1>2, NoEntry
<1>4. <<t, v[4]>> \in Entries(m) => Leaf(m, v) = m.pt[<<t, v[4]>>]
  BY <1>2 DEF Entry, Entries
<1> QED BY <1>1, <1>2, <1>3, <1>4

\* A page that is mapped has an entry, and a frame that the bitmap knows.
LEMMA LeafUsed ==
    ASSUME NEW m, NEW L, Shape(m, L), NEW v \in Pages, Leaf(m, v) \notin {NONE, BAD}
    PROVE  /\ LastTable(m, v) \in DOMAIN L /\ <<LastTable(m, v), v[4]>> \in Entries(m)
           /\ Leaf(m, v) \in Nat /\ (Leaf(m, v) \in Frames => Leaf(m, v) \in m.used)
<1> DEFINE t == LastTable(m, v)
           e == <<t, v[4]>>
<1>1. t \in DOMAIN L
  <2>1. At(L, t, 4)
    BY Paths
  <2>2. t \notin {NONE, BAD}
    BY Numbers DEF Leaf, Follow
  <2> QED BY <2>1, <2>2 DEF At
<1> HIDE DEF t
<1>2. e \in Entries(m) /\ Leaf(m, v) = m.pt[e]
  BY <1>1, LeafEntry DEF t
<1>3. CASE e \in BootEntries
  <2>1. m.pt[e] = BootEntry(e) /\ BootEntry(e) \in BootFrames
    BY <1>3, Numbers DEF Shape, Booted, BootEntry, BootEntries, BootFrames
  <2> QED BY <1>1, <1>2, <2>1, Numbers DEF Shape, Marked, t
<1>4. CASE e \in Later(m)
  <2>1. /\ m.pt[e] \in (Nat \ BootFrames) \cup {BAD}
        /\ m.pt[e] \in Frames => m.pt[e] \in m.used
    BY <1>4 DEF Shape, Owned
  <2> QED BY <1>1, <1>2, <2>1 DEF t
<1> QED BY <1>2, <1>3, <1>4 DEF Later

\* The loader mapped the low seven pages only.
LEMMA BootPages ==
    ASSUME NEW m, NEW L, Shape(m, L), NEW v \in Pages,
           <<LastTable(m, v), v[4]>> \in BootEntries
    PROVE  /\ v[4] \in BootFrames /\ v = Identity(v[4])
           /\ <<LastTable(m, v), v[4]>> \in Entries(m) => Leaf(m, v) = v[4]
<1> DEFINE t == LastTable(m, v)
<1>1. At(L, t, 4)
  BY Paths
<1> HIDE DEF t
<1>2. <<t, v[4]>>[1] = t /\ <<t, v[4]>>[2] = v[4] /\ <<t, v[4]>> \in BootEntries
  BY DEF t
<1>3. t \in {1, 2, 3, 4}
  BY <1>2 DEF BootEntries
<1>4. L[1] = 1 /\ L[2] = 2 /\ L[3] = 3 /\ L[4] = 4 /\ 4 \in DOMAIN L
  BY DEF Shape, Levels
<1>5. t = 4
  BY <1>1, <1>3, <1>4, Numbers DEF At
<1>6. v[1] = 0 /\ v[2] = 0 /\ v[3] = 0
  BY <1>5, PathTo DEF t
<1>7. v[4] \in BootFrames
  BY <1>2, <1>5 DEF BootEntries
<1>8. v = <<0, 0, 0, v[4]>>
  BY <1>6 DEF Pages
<1>9. ASSUME <<t, v[4]>> \in Entries(m) PROVE Leaf(m, v) = v[4]
  <2>1. Leaf(m, v) = m.pt[<<t, v[4]>>]
    BY <1>4, <1>5, <1>9, LeafEntry DEF t
  <2>2. m.pt[<<t, v[4]>>] = BootEntry(<<t, v[4]>>)
    BY <1>2 DEF Shape, Booted
  <2> QED BY <1>2, <1>5, <2>1, <2>2 DEF BootEntry
<1> QED BY <1>7, <1>8, <1>9, IdentityPages DEF t

\* A mapped page that is not the loader's has an entry of its own.
LEMMA LeafLater ==
    ASSUME NEW m, NEW L, Shape(m, L), Solid(m, L), NEW v \in Pages,
           Leaf(m, v) # NONE, Leaf(m, v) \notin BootFrames
    PROVE  /\ LastTable(m, v) \in DOMAIN L /\ <<LastTable(m, v), v[4]>> \in Later(m)
           /\ Leaf(m, v) = m.pt[<<LastTable(m, v), v[4]>>]
<1>1. LastTable(m, v) \in DOMAIN L
  <2>1. At(L, LastTable(m, v), 4) /\ LastTable(m, v) # BAD
    BY Paths
  <2>2. LastTable(m, v) # NONE
    BY Numbers DEF Leaf, Follow
  <2> QED BY <2>1, <2>2 DEF At
<1> QED BY <1>1, LeafEntry, BootPages DEF Later

\* The end of a call that maps a page.
LEMMA PageSet ==
    ASSUME NEW m, NEW L, Shape(m, L), Solid(m, L), NEW v \in Pages,
           NEW t, t = LastTable(m, v), t \in DOMAIN L, Leaf(m, v) = NONE,
           NEW x, x \in Lost(m) \/ x = BAD \/ (v \in Screen /\ x = Own(v) /\ x \in Nat \ Frames),
           NEW n, n = page_umapframe(Set(m, t, v[4], x))
    PROVE  /\ Sound(n, L, Lost(m) \ {x}) /\ n.used = m.used /\ Leaf(n, v) = x
           /\ \A u \in Pages \ {v} : Leaf(n, u) = Leaf(m, u)
<1> DEFINE k == Set(m, t, v[4], x)
<1>0. n = page_umapframe(k)
  OBVIOUS
<1>1. t # 5 /\ <<t, v[4]>> \notin Entries(m)
  BY LeafEntry
<1>2. /\ DiffersAt(m, k, t, v[4]) /\ k.used = m.used
      /\ <<t, v[4]>> \in Entries(k) /\ k.pt[<<t, v[4]>>] = x
      /\ <<5, 0>> \in DOMAIN k.pt => k.pt[<<5, 0>>] \in Nat \cup {BAD}
  BY <1>1, SetDiffers
<1> HIDE DEF k
<1>3. /\ Shape(k, L) /\ Solid(k, L) /\ Lost(k) = Lost(m) \ {x} /\ Leaf(k, v) = x
      /\ \A u \in Pages \ {v} : Leaf(k, u) = Leaf(m, u)
  BY <1>1, <1>2, MappedShape
<1>4. /\ SameEntries(k, n) /\ n.used = k.used
      /\ Shape(n, L) /\ Solid(n, L) /\ Lost(n) = Lost(k)
  BY <1>0, <1>3, WindowShut
<1>5. \A u \in Pages : Leaf(n, u) = Leaf(k, u)
  BY <1>3, <1>4, Unmoved DEF Pages
<1>6. Sound(n, L, Lost(m) \ {x}) /\ Leaf(n, v) = x
  BY <1>3, <1>4, <1>5 DEF Sound
<1>7. \A u \in Pages \ {v} : Leaf(n, u) = Leaf(m, u)
  BY <1>3, <1>5
<1> QED BY <1>2, <1>4, <1>6, <1>7

\* A call has given page v a frame of X, and left every other page alone; the
\* used frames that nothing points to are those of S.
Gave(m, n, v, X, S) == /\ \E L : Sound(n, L, S)
                       /\ Leaf(n, v) \in X
                       /\ \A u \in Pages \ {v} : Leaf(n, u) = Leaf(m, u)

\* A call has found no frame for a table on the way to v, and faults.
Failed(m, n, v) == (\E L : Shape(n, L)) /\ Broken(m, n) /\ Leaf(n, v) = BAD

\* A page without an entry gets a frame that nothing points to.
LEMMA LostSet ==
    ASSUME NEW m, NEW L, Shape(m, L), Solid(m, L), NEW v \in Pages,
           NEW t, t = LastTable(m, v), t \in DOMAIN L, Leaf(m, v) = NONE,
           NEW f, f \in Lost(m), NEW n, n = page_umapframe(Set(m, t, v[4], f))
    PROVE  Gave(m, n, v, {f}, Lost(m) \ {f})
<1>1. f \in Lost(m) \/ f = BAD \/ (v \in Screen /\ f = Own(v) /\ f \in Nat \ Frames)
  OBVIOUS
<1>2. /\ Sound(n, L, Lost(m) \ {f}) /\ n.used = m.used /\ Leaf(n, v) = f
      /\ \A u \in Pages \ {v} : Leaf(n, u) = Leaf(m, u)
  BY <1>1, PageSet
<1> QED BY <1>2 DEF Gave

\* A frame is taken for a page, with the window on the page's last table.
LEMMA FrameSet ==
    ASSUME NEW m, NEW L, NEW S, Sound(m, L, S), NEW v \in Pages,
           NEW t, t = LastTable(m, v), t \in DOMAIN L
    PROVE  LET b == page_mapframe(page_getframe(m), t)
               n == page_umapframe(Set(b, t, v[4], Lowest(m)))
           IN  /\ Entry(b, t, v[4]) = Leaf(m, v)
               /\ Leaf(m, v) # NONE => /\ \E R : Sound(b, L, R)
                                       /\ \A u \in Pages : Leaf(b, u) = Leaf(m, u)
               /\ Leaf(m, v) = NONE =>
                    /\ Gave(m, n, v, (Frames \ (BootFrames \cup m.used)) \cup {BAD}, S)
                    /\ Leaf(n, v) = BAD => Frames \subseteq n.used
<1> DEFINE g == page_getframe(m)
           b == page_mapframe(g, t)
           f == Lowest(m)
           n == page_umapframe(Set(b, t, v[4], f))
<1>1. Shape(m, L) /\ Solid(m, L) /\ Lost(m) = S /\ t \in Nat /\ BootFrames \subseteq m.used
  BY TableFrames DEF Sound, Shape, Marked
<1>2. /\ SameEntries(m, g) /\ Shape(g, L) /\ Solid(g, L)
      /\ \/ f = BAD /\ Lost(g) = S /\ Frames \subseteq g.used
         \/ f \in Frames \ m.used /\ f \notin BootFrames /\ Lost(g) = S \cup {f}
  <2>1. CASE Free(m) = {}
    <3>1. g = m /\ f = BAD /\ Frames \subseteq m.used
      BY <2>1 DEF page_getframe, Lowest, Free
    <3>2. SameEntries(m, m)
      BY <1>1, TableFrames DEF SameEntries
    <3> HIDE DEF g, f
    <3> QED BY <1>1, <3>1, <3>2
  <2>2. CASE Free(m) # {}
    BY <1>1, <2>2, FrameTaken
  <2> QED BY <2>1, <2>2
<1> HIDE DEF g, f
<1>3. /\ SameEntries(g, b) /\ Shape(b, L) /\ Solid(b, L) /\ Lost(b) = Lost(g)
      /\ b.used = g.used
  BY <1>1, <1>2, WindowMoved
<1> HIDE DEF b
<1>4. LastTable(b, v) = t /\ \A u \in Pages : Leaf(b, u) = Leaf(m, u)
  BY <1>1, <1>2, <1>3, Unmoved DEF Pages
<1>5. Entry(b, t, v[4]) = Leaf(m, v)
  <2>1. Leaf(b, v) = Entry(b, t, v[4])
    BY ZenonT(30), <1>3, <1>4, LeafEntry
  <2> QED BY <1>4, <2>1
<1>6. \E R : Sound(b, L, R)
  BY <1>3 DEF Sound
<1> HIDE DEF n
<1> SUFFICES ASSUME Leaf(m, v) = NONE
             PROVE  /\ Gave(m, n, v, (Frames \ (BootFrames \cup m.used)) \cup {BAD}, S)
                    /\ Leaf(n, v) = BAD => Frames \subseteq n.used
  BY <1>4, <1>5, <1>6 DEF n, b, g, f
<1>7. /\ Sound(n, L, Lost(b) \ {f}) /\ n.used = b.used /\ Leaf(n, v) = f
      /\ \A u \in Pages \ {v} : Leaf(n, u) = Leaf(b, u)
  <2>1. f \in Lost(b) \/ f = BAD
    BY <1>2, <1>3
  <2>2. n = page_umapframe(Set(b, t, v[4], f))
    BY DEF n
  <2>3. Shape(b, L) /\ Solid(b, L) /\ t = LastTable(b, v) /\ t \in DOMAIN L /\ Leaf(b, v) = NONE
    BY <1>3, <1>4
  <2> QED BY <2>1, <2>2, <2>3, PageSet
<1> HIDE DEF n
<1>8. Sound(n, L, S)
  <2>1. S \subseteq m.used /\ S \subseteq Frames
    BY <1>1, Separate DEF Lost
  <2>2. Lost(b) \ {f} = S
    BY <1>2, <1>3, <2>1, Numbers
  <2> QED BY <1>7, <2>2
<1>9. /\ f \in (Frames \ (BootFrames \cup m.used)) \cup {BAD}
      /\ f = BAD => Frames \subseteq b.used
  BY <1>2, <1>3, Numbers
<1> QED BY <1>4, <1>7, <1>8, <1>9 DEF Gave, n, b, g, f

\* What a walk has left unmoved.
LEMMA GaveKept ==
    ASSUME NEW m, NEW k, NEW n, NEW v, Kept(m, k), NEW X, NEW S, Gave(k, n, v, X, S)
    PROVE  Gave(m, n, v, X, S)
BY DEF Gave, Kept

\* The same of a frame that page_mapv takes, named step by step.
LEMMA FramePut ==
    ASSUME NEW m, NEW L, NEW S, Sound(m, L, S), NEW v \in Pages,
           NEW t, t = LastTable(m, v), t \in DOMAIN L,
           NEW b, b = page_mapframe(page_getframe(m), t),
           NEW n, n = page_umapframe(Set(b, t, v[4], Lowest(m))),
           NEW X, X = (Frames \ (BootFrames \cup m.used)) \cup {BAD}
    PROVE  /\ Entry(b, t, v[4]) = Leaf(m, v)
           /\ Leaf(m, v) # NONE => \E R : Sound(b, L, R)
           /\ Leaf(m, v) = NONE => Gave(m, n, v, X, S) /\ (Leaf(n, v) = BAD => Frames \subseteq n.used)
BY FrameSet, ZenonT(90)

\* page_mapv gives the page a free frame, BAD when none is left, or faults on the way.
LEMMA MapCall ==
    ASSUME NEW L, NEW S, Sound(mem, L, S), NEW v \in Pages, page_mapv(v)
    PROVE  \/ machine' = "fault" /\ Failed(mem, mem', v)
           \/ /\ machine' = machine /\ Leaf(mem, v) = NONE
              /\ Gave(mem, mem', v, (Frames \ (BootFrames \cup mem.used)) \cup {BAD}, S)
              /\ Leaf(mem', v) = BAD => Frames \subseteq mem'.used
           \/ /\ machine' = machine /\ Leaf(mem, v) # NONE
              /\ \E M, R : Sound(mem', M, R)
<1> DEFINE w == Walk(mem, v)
           k == w.mem
           t == w.at
           b == page_mapframe(page_getframe(k), t)
           n == page_umapframe(Set(b, t, v[4], Lowest(k)))
<1>1. IF t = BAD THEN mem' = k /\ machine' = "fault"
      ELSE IF Entry(b, t, v[4]) # NONE THEN mem' = b /\ machine' = machine
      ELSE mem' = n /\ machine' = machine
  BY DEF page_mapv, Fault, Done
<1>2. \/ /\ Kept(mem, k) /\ t = LastTable(k, v)
         /\ \E M : Sound(k, M, S) /\ t \in DOMAIN M /\ M[t] = 4
      \/ /\ Broken(mem, k) /\ t = BAD /\ Leaf(k, v) = BAD
         /\ \E M : Shape(k, M)
  BY Walked
<1> HIDE DEF w
<1>3. CASE t = BAD
  <2>1. ~\E M : Sound(k, M, S) /\ t \in DOMAIN M
    BY <1>3, TableFrames DEF Sound
  <2> QED BY <1>1, <1>2, <1>3, <2>1 DEF Failed
<1>4. CASE t # BAD
  <2>1. PICK M : Kept(mem, k) /\ t = LastTable(k, v) /\ Sound(k, M, S) /\ t \in DOMAIN M
    BY <1>2, <1>4
  <2>2. Leaf(k, v) = Leaf(mem, v) /\ mem.used \subseteq k.used
    BY <2>1 DEF Kept
  <2> HIDE DEF k, t
  <2> DEFINE X == (Frames \ (BootFrames \cup k.used)) \cup {BAD}
  <2>3. /\ b = page_mapframe(page_getframe(k), t) /\ n = page_umapframe(Set(b, t, v[4], Lowest(k)))
        /\ X = (Frames \ (BootFrames \cup k.used)) \cup {BAD}
    BY DEF b, n, X
  <2> HIDE DEF b, n, X
  <2>4. /\ Entry(b, t, v[4]) = Leaf(k, v)
        /\ Leaf(k, v) # NONE => \E R : Sound(b, M, R)
        /\ Leaf(k, v) = NONE => Gave(k, n, v, X, S) /\ (Leaf(n, v) = BAD => Frames \subseteq n.used)
    BY <2>1, <2>3, FramePut
  <2>5. CASE Leaf(mem, v) # NONE
    BY <1>1, <1>4, <2>2, <2>4, <2>5
  <2>6. CASE Leaf(mem, v) = NONE
    <3>1. mem' = n /\ machine' = machine
      BY <1>1, <1>4, <2>2, <2>4, <2>6
    <3>2. Gave(k, n, v, X, S) /\ (Leaf(n, v) = BAD => Frames \subseteq n.used)
      BY <2>2, <2>4, <2>6
    <3>3. Gave(mem, n, v, X, S)
      BY <2>1, <3>2, GaveKept
    <3>4. Gave(mem, n, v, (Frames \ (BootFrames \cup mem.used)) \cup {BAD}, S)
      BY <2>2, <3>3 DEF Gave, X
    <3> QED BY <2>6, <3>1, <3>2, <3>4
  <2> QED BY <2>5, <2>6
<1> QED BY <1>3, <1>4

\* A page of the framebuffer.
LEMMA ScreenCall ==
    ASSUME NEW L, NEW S, Sound(mem, L, S), NEW v \in Pages, v \in Screen, Own(v) > LAST,
           page_mapvp(v, Own(v))
    PROVE  \/ machine' = "fault" /\ Failed(mem, mem', v)
           \/ /\ machine' = machine
              /\ Gave(mem, mem', v, {IF Leaf(mem, v) = NONE THEN Own(v) ELSE Leaf(mem, v)}, S)
<1> DEFINE w == Walk(mem, v)
           k == w.mem
           t == w.at
           b == page_mapframe(k, t)
           n == page_umapframe(Set(b, t, v[4], Own(v)))
           c == page_umapframe(b)
<1>1. IF t = BAD THEN mem' = k /\ machine' = "fault"
      ELSE IF Entry(b, t, v[4]) # NONE THEN mem' = c /\ machine' = machine
      ELSE mem' = n /\ machine' = machine
  BY DEF page_mapvp, Fault, Done
<1>2. \/ /\ Kept(mem, k) /\ t = LastTable(k, v)
         /\ \E M : Sound(k, M, S) /\ t \in DOMAIN M /\ M[t] = 4
      \/ /\ Broken(mem, k) /\ t = BAD /\ Leaf(k, v) = BAD
         /\ \E M : Shape(k, M)
  BY Walked
<1> HIDE DEF w
<1>3. CASE t = BAD
  <2>1. ~\E M : Sound(k, M, S) /\ t \in DOMAIN M
    BY <1>3, TableFrames DEF Sound
  <2> QED BY <1>1, <1>2, <1>3, <2>1 DEF Failed
<1>4. CASE t # BAD
  <2>1. PICK M : Kept(mem, k) /\ t = LastTable(k, v) /\ Sound(k, M, S) /\ t \in DOMAIN M
    BY <1>2, <1>4
  <2> HIDE DEF k, t
  <2>2. Shape(k, M) /\ Solid(k, M) /\ Lost(k) = S /\ t \in Nat /\ S \subseteq Frames
    BY <2>1, TableFrames, Separate DEF Sound
  <2>3. SameEntries(k, b) /\ Shape(b, M) /\ Solid(b, M) /\ Lost(b) = S
    BY <2>2, WindowMoved
  <2> HIDE DEF b
  <2>4. LastTable(b, v) = t /\ \A u \in Pages : Leaf(b, u) = Leaf(mem, u)
    BY <2>1, <2>2, <2>3, Unmoved DEF Pages, Kept
  <2>5. Leaf(b, v) = Entry(b, t, v[4])
    BY ZenonT(30), <2>1, <2>3, <2>4, LeafEntry
  <2>6. CASE Leaf(b, v) # NONE
    <3>1. mem' = c /\ machine' = machine
      BY <1>1, <1>4, <2>5, <2>6
    <3>2. SameEntries(b, c) /\ Shape(c, M) /\ Solid(c, M) /\ Lost(c) = S
      BY <2>3, WindowShut
    <3> HIDE DEF c
    <3>3. \A u \in Pages : Leaf(c, u) = Leaf(mem, u)
      BY <2>3, <2>4, <3>2, Unmoved DEF Pages
    <3>4. Sound(c, M, S)
      BY <3>2 DEF Sound
    <3> QED BY <2>4, <2>6, <3>1, <3>3, <3>4 DEF Gave
  <2>7. CASE Leaf(b, v) = NONE
    <3>1. mem' = n /\ machine' = machine
      BY <1>1, <1>4, <2>5, <2>7
    <3>2. Own(v) \in Nat \ Frames
      BY OwnOnce, FramesAssumption DEF Frames
    <3>3. /\ Sound(n, M, Lost(b) \ {Own(v)}) /\ n.used = b.used /\ Leaf(n, v) = Own(v)
          /\ \A u \in Pages \ {v} : Leaf(n, u) = Leaf(b, u)
      <4>1. n = page_umapframe(Set(b, t, v[4], Own(v)))
        OBVIOUS
      <4> HIDE DEF n
      <4>2. /\ Leaf(b, v) = NONE /\ t = LastTable(b, v) /\ t \in DOMAIN M
            /\ v \in Screen /\ Own(v) = Own(v) /\ Own(v) \in Nat \ Frames
        BY <2>1, <2>4, <2>7, <3>2
      <4> QED BY <2>3, <4>1, <4>2, PageSet
    <3> HIDE DEF n
    <3>4. Sound(n, M, S)
      <4>1. Lost(b) \ {Own(v)} = S
        BY <2>2, <2>3, <3>2
      <4> QED BY <3>3, <4>1
    <3> QED BY <2>4, <2>7, <3>1, <3>3, <3>4 DEF Gave
  <2> QED BY <2>6, <2>7
<1> QED BY <1>3, <1>4

\* Clearing an entry of a table empties that entry, and no other.
LEMMA ClearDiffers ==
    ASSUME NEW m, NEW L, Shape(m, L), NEW t \in DOMAIN L, t # 5, NEW i
    PROVE  LET n == Clear(m, t, i)
           IN  /\ DiffersAt(m, n, t, i) /\ n.used = m.used /\ <<t, i>> \notin Entries(n)
               /\ <<5, 0>> \in DOMAIN n.pt => n.pt[<<5, 0>>] \in Nat \cup {BAD}
<1> DEFINE n == Clear(m, t, i)
<1>1. Erases(m, n, <<t, i>>)
  BY ClearErases, TableFrames
<1>2. <<t, i>> # <<5, 0>>
  OBVIOUS
<1>3. <<5, 0>> \in DOMAIN m.pt => m.pt[<<5, 0>>] \in Nat \cup {BAD}
  BY DEF Shape, Marked
<1> HIDE DEF n
<1>4. DiffersAt(m, n, t, i) /\ n.used = m.used /\ <<t, i>> \notin Entries(n)
  BY <1>1, <1>2 DEF Erases, DiffersAt, Entries
<1>5. <<5, 0>> \in DOMAIN n.pt => n.pt[<<5, 0>>] \in Nat \cup {BAD}
  BY <1>1, <1>2, <1>3 DEF Erases
<1> QED BY <1>4, <1>5 DEF n

\* An entry is written whatever it held: what it held stays marked.
LEMMA PageReset ==
    ASSUME NEW m, NEW L, Shape(m, L), Solid(m, L), NEW v \in Pages,
           NEW t, t = LastTable(m, v), t \in DOMAIN L, NEW f \in Lost(m),
           \A g \in BootFrames : v # Identity(g),
           NEW n, n = page_umapframe(Set(m, t, v[4], f))
    PROVE  \E S : Gave(m, n, v, {f}, S)
<1> DEFINE e == <<t, v[4]>>
           y == m.pt[e]
           c == Clear(m, t, v[4])
           k == [used |-> m.used \ {y}, pt |-> c.pt]
<1>1. t # 5 /\ (Leaf(m, v) = NONE <=> e \notin Entries(m))
  BY LeafEntry
<1>2. CASE Leaf(m, v) = NONE
  <2> HIDE DEF e, y, c, k
  <2>1. Gave(m, n, v, {f}, Lost(m) \ {f})
    BY <1>2, LostSet
  <2> QED BY <2>1
<1>3. CASE Leaf(m, v) # NONE
  <2>1. e \in Later(m)
    BY <1>1, <1>3, BootPages DEF Later
  <2>2. /\ DiffersAt(m, c, t, v[4]) /\ c.used = m.used /\ e \notin Entries(c)
        /\ <<5, 0>> \in DOMAIN c.pt => c.pt[<<5, 0>>] \in Nat \cup {BAD}
    BY <1>1, ClearDiffers
  <2>3. c = [used |-> m.used, pt |-> [d \in DOMAIN m.pt \ {e} |-> m.pt[d]]]
    BY TableFrames DEF Clear, Memory
  <2>4. Set(c, t, v[4], f) = Set(m, t, v[4], f)
    <3>1. DOMAIN c.pt \cup {e} = DOMAIN m.pt \cup {e}
      BY <2>3
    <3>2. \A d \in DOMAIN m.pt \ {e} : c.pt[d] = m.pt[d]
      BY <2>3
    <3>3. Memory(c) /\ Memory(m)
      BY <2>2, TableFrames DEF DiffersAt
    <3> HIDE DEF c, e
    <3>4. Set(c, t, v[4], f) = [used |-> c.used, pt |-> [d \in DOMAIN c.pt \cup {e} |->
                                                IF d = e THEN f ELSE c.pt[d]]]
      BY <3>3 DEF Set, Memory, e
    <3>5. Set(m, t, v[4], f) = [used |-> m.used, pt |-> [d \in DOMAIN m.pt \cup {e} |->
                                                IF d = e THEN f ELSE m.pt[d]]]
      BY <3>3 DEF Set, Memory, e
    <3> QED BY <2>2, <3>1, <3>2, <3>4, <3>5
  <2> HIDE DEF c
  <2>5. k.used = m.used \ {y} /\ k.pt = c.pt /\ Memory(k)
    BY DEF Memory
  <2> HIDE DEF k
  <2>6. /\ DiffersAt(m, k, t, v[4]) /\ e \notin Entries(k) /\ Entries(k) = Entries(c)
        /\ <<5, 0>> \in DOMAIN k.pt => k.pt[<<5, 0>>] \in Nat \cup {BAD}
    BY <2>2, <2>5 DEF DiffersAt, Entries
  <2>7. /\ Shape(k, L) /\ Solid(k, L) /\ Lost(k) = Lost(m) /\ Leaf(k, v) = NONE
        /\ \A u \in Pages \ {v} : Leaf(k, u) = Leaf(m, u)
    BY <2>1, <2>5, <2>6, UnmappedShape
  <2>8. SameEntries(k, c) /\ k.used \subseteq c.used /\ c.used \subseteq Frames
    BY <2>2, <2>5, <2>6 DEF SameEntries, DiffersAt, Shape, Marked
  <2>9. /\ Shape(c, L) /\ Solid(c, L) /\ Lost(k) \subseteq Lost(c)
    BY <2>2, <2>7, <2>8, MarkedShape
  <2>10. \A u \in Pages : Leaf(c, u) = Leaf(k, u) 
    BY <2>7, <2>8, Unmoved DEF Pages
  <2>11. LastTable(c, v) = t
    BY <1>1, <2>2, LeafEntry, LastChanged
  <2>12. Gave(c, n, v, {f}, Lost(c) \ {f})
    <3>1. Leaf(c, v) = NONE /\ f \in Lost(c) /\ n = page_umapframe(Set(c, t, v[4], f))
      BY <2>4, <2>7, <2>9, <2>10
    <3> QED BY <2>9, <2>11, <3>1, LostSet
  <2> QED BY <2>7, <2>10, <2>12 DEF Gave
<1> QED BY <1>2, <1>3

\* The stack of a task: the frame is taken first, then its own page is mapped.
LEMMA StackCall ==
    ASSUME NEW L, NEW S, Sound(mem, L, S), Free(mem) # {}, NEW f, f = Lowest(mem),
           NEW v, v = Identity(f), v \in Pages, page_alloc4K(f)
    PROVE  /\ f \in Frames \ (BootFrames \cup mem.used)
           /\ \/ machine' = "fault" /\ Failed(mem, mem', v)
              \/ /\ machine' = machine
                 /\ \E R : Gave(mem, mem', v, {f}, R)
                 /\ Leaf(mem, v) = NONE => Gave(mem, mem', v, {f}, S)
<1> DEFINE g == page_getframe(mem)
           w == Walk(g, v)
           k == w.mem
           t == w.at
           n == page_umapframe(Set(k, t, v[4], f))
<1>1. IF t = BAD THEN mem' = k /\ machine' = "fault" ELSE mem' = n /\ machine' = machine
  BY DEF page_alloc4K, Fault, Done
<1>2. /\ SameEntries(mem, g) /\ Sound(g, L, S \cup {f}) /\ mem.used \subseteq g.used
      /\ f \in Frames \ (BootFrames \cup mem.used)
  BY FrameTaken DEF Sound
<1>3. f \notin S
  BY <1>2 DEF Sound, Lost
<1>4. Kept(mem, g)
  BY <1>2, UnmovedKept DEF Sound
<1> HIDE DEF g
<1> DEFINE R == S \cup {f}
<1>5. \/ /\ Kept(g, k) /\ t = LastTable(k, v)
         /\ \E M : Sound(k, M, R) /\ t \in DOMAIN M /\ M[t] = 4
      \/ /\ Broken(g, k) /\ t = BAD /\ Leaf(k, v) = BAD
         /\ \E M : Shape(k, M)
  BY <1>2, Walked
<1> HIDE DEF w
<1>6. CASE t = BAD
  <2>1. ~\E M : Sound(k, M, R) /\ t \in DOMAIN M
    BY <1>6, TableFrames DEF Sound
  <2> QED BY <1>1, <1>2, <1>4, <1>5, <1>6, <2>1, Composed DEF Failed
<1>7. CASE t # BAD
  <2>1. PICK M : Kept(g, k) /\ t = LastTable(k, v) /\ Sound(k, M, R) /\ t \in DOMAIN M
    BY <1>5, <1>7
  <2> HIDE DEF k, t
  <2>2. Kept(mem, k)
    BY <1>4, <2>1, Composed
  <2>3. /\ Leaf(k, v) = Leaf(mem, v) /\ f \in Lost(k) /\ Lost(k) \ {f} = S
        /\ Shape(k, M) /\ Solid(k, M)
    BY <1>3, <2>1, <2>2 DEF Kept, Sound
  <2> HIDE DEF R
  <2>4. ASSUME Leaf(mem, v) = NONE
        PROVE  Gave(mem, n, v, {f}, S)
    <3>1. n = page_umapframe(Set(k, t, v[4], f))
      OBVIOUS
    <3> HIDE DEF n
    <3>2. Gave(k, n, v, {f}, Lost(k) \ {f})
      BY <2>1, <2>3, <2>4, <3>1, LostSet
    <3>3. Gave(k, n, v, {f}, S)
      BY <2>3, <3>2
    <3> QED BY <2>2, <3>3, GaveKept
  <2>5. \E Q : Gave(mem, n, v, {f}, Q)
    <3>1. \A h \in BootFrames : v # Identity(h)
      BY <1>2, IdentityPages, Numbers
    <3>2. n = page_umapframe(Set(k, t, v[4], f))
      OBVIOUS
    <3> HIDE DEF n
    <3>3. PICK Q : Gave(k, n, v, {f}, Q)
      BY <2>1, <2>3, <3>1, <3>2, PageReset
    <3> QED BY <2>2, <3>3, GaveKept
  <2> HIDE DEF n
  <2> QED BY <1>1, <1>2, <1>7, <2>4, <2>5
<1> QED BY <1>6, <1>7

\* A page with a frame of its own is given back, or the call faults if there was
\* none left for it.
LEMMA UnmapCall ==
    ASSUME NEW L, NEW S, Sound(mem, L, S), NEW v \in Pages, GivenBack(v), page_umapv(v)
    PROVE  \/ /\ machine' = "fault" /\ Leaf(mem, v) = BAD /\ \E M : Shape(mem', M)
              /\ Leaf(mem', v) = NONE /\ \A u \in Pages \ {v} : Leaf(mem', u) = Leaf(mem, u)
           \/ machine' = machine /\ Leaf(mem, v) # BAD /\ Gave(mem, mem', v, {NONE}, S)
<1> DEFINE p == Entry(mem, ROOT, v[1])
           d == Follow(mem, p, v[2])
           t == LastTable(mem, v)
           f == Leaf(mem, v)
           b == page_mapframe(mem, t)
           m == Clear(b, t, v[4])
           k == [m EXCEPT !.used = @ \ {f}]
           n == page_umapframe(k)
<1>1. Shape(mem, L) /\ Solid(mem, L) /\ Lost(mem) = S /\ f # NONE /\ f \notin BootFrames
  BY Numbers DEF Sound, GivenBack
<1>2. t \in DOMAIN L /\ <<t, v[4]>> \in Later(mem) /\ f = mem.pt[<<t, v[4]>>]
  BY <1>1, LeafLater
<1>3. t # 5 /\ t \in Nat /\ t # NONE
  BY <1>1, <1>2, LeafEntry, TableFrames
<1>4. p # NONE /\ d # NONE
  <2>1. ROOT \in Frames
    BY Numbers DEF BootFrames
  <2>2. p = Follow(mem, ROOT, v[1]) /\ t = Follow(mem, d, v[3])
    BY <2>1 DEF LastTable, Follow
  <2> QED BY <1>3, <2>2, Numbers DEF Follow
<1>5. IF f = BAD THEN mem' = m /\ machine' = "fault" ELSE mem' = n /\ machine' = machine
  <2>1. f # NONE
    BY <1>1
  <2>2. page_umapv(v) = CASE p = NONE -> Done(mem)
          [] p # NONE /\ d = NONE -> Done(page_mapframe(mem, p))
          [] d # NONE /\ t = NONE -> Done(page_mapframe(mem, d))
          [] t # NONE /\ f = BAD -> Fault(m)
          [] OTHER -> Done(page_umapframe(
                        [m EXCEPT !.used = @ \ {IF f = NONE THEN 0 ELSE f}]))
    BY DEF page_umapv
  <2> HIDE DEF p, d, t, f, m
  <2>3. IF f = BAD THEN Fault(m) ELSE Done(n)
    BY <1>3, <1>4, <2>1, <2>2
  <2> QED BY <2>3 DEF Fault, Done
<1> HIDE DEF t, f
<1>6. SameEntries(mem, b) /\ Shape(b, L) /\ Solid(b, L) /\ Lost(b) = S /\ b.used = mem.used
  BY <1>1, <1>3, WindowMoved
<1> HIDE DEF b
<1>7. LastTable(b, v) = t /\ \A u \in Pages : Leaf(b, u) = Leaf(mem, u)
  BY <1>1, <1>6, Unmoved DEF Pages, t
<1>8. /\ DiffersAt(b, m, t, v[4]) /\ m.used = b.used /\ <<t, v[4]>> \notin Entries(m)
      /\ <<5, 0>> \in DOMAIN m.pt => m.pt[<<5, 0>>] \in Nat \cup {BAD}
  BY <1>2, <1>3, <1>6, ClearDiffers
<1>9. <<t, v[4]>> \in Later(b) /\ b.pt[<<t, v[4]>>] = f
  BY <1>2, <1>6 DEF SameEntries, Later
<1> HIDE DEF m
<1>10. CASE f = BAD
  <2>1. m.used = b.used \ {b.pt[<<t, v[4]>>]}
    BY <1>6, <1>8, <1>9, <1>10, Numbers DEF Shape, Marked
  <2>2. /\ Shape(m, L) /\ Leaf(m, v) = NONE
        /\ \A u \in Pages \ {v} : Leaf(m, u) = Leaf(b, u)
    BY <1>6, <1>7, <1>8, <1>9, <2>1, UnmappedShape
  <2> QED BY <1>5, <1>7, <1>10, <2>2 DEF f
<1>11. CASE f # BAD
  <2>1. k.used = b.used \ {b.pt[<<t, v[4]>>]} /\ k.pt = m.pt /\ Memory(k)
    <3>1. Memory(m) /\ m.used = b.used /\ b.pt[<<t, v[4]>>] = f
      BY <1>8, <1>9 DEF DiffersAt
    <3>2. k = [used |-> m.used \ {f}, pt |-> m.pt]
      BY SMTT(30), <3>1 DEF Memory
    <3> HIDE DEF k
    <3> QED BY <3>1, <3>2 DEF Memory
  <2> HIDE DEF k
  <2>2. /\ DiffersAt(b, k, t, v[4]) /\ <<t, v[4]>> \notin Entries(k)
        /\ <<5, 0>> \in DOMAIN k.pt => k.pt[<<5, 0>>] \in Nat \cup {BAD}
    BY <1>8, <2>1 DEF DiffersAt, Entries
  <2>3. /\ Shape(k, L) /\ Solid(k, L) /\ Lost(k) = S /\ Leaf(k, v) = NONE
        /\ \A u \in Pages \ {v} : Leaf(k, u) = Leaf(b, u)
    BY <1>6, <1>7, <1>9, <2>1, <2>2, UnmappedShape
  <2>4. SameEntries(k, n) /\ Shape(n, L) /\ Solid(n, L) /\ Lost(n) = S
    BY <2>3, WindowShut
  <2> HIDE DEF n
  <2>5. \A u \in Pages : Leaf(n, u) = Leaf(k, u)
    BY <2>3, <2>4, Unmoved DEF Pages
  <2>6. Sound(n, L, S)
    BY <2>4 DEF Sound
  <2>7. Gave(mem, n, v, {NONE}, S)
    BY <1>7, <2>3, <2>4, <2>5, <2>6 DEF Gave
  <2> QED BY <1>5, <1>11, <2>7 DEF f
<1> QED BY <1>10, <1>11

-----------------------------------------------------------------------------
(* The tables stay well formed, whatever is mapped twice, as long as every *)
(* page that is given back has a frame of its own.                         *)

\* The callers' pages are none of the window's.
LEMMA CallersPages == Segments \subseteq Pages /\ Screen \subseteq Pages
BY PagesAssumption DEF Pages, InWindow, Indices

\* The tables the loader left, and the pages they map.
LEMMA BootTables ==
    ASSUME Init
    PROVE  /\ \E L : Sound(mem, L, {})
           /\ \A v \in Pages : Leaf(mem, v) # NONE => /\ v[4] \in BootFrames /\ v = Identity(v[4])
                                                      /\ Leaf(mem, v) = v[4]
<1> DEFINE L == [t \in 1 .. 5 |-> IF t = 5 THEN 4 ELSE t]
           g == [e \in BootEntries |-> IF e[1] = 4 THEN e[2]
                                       ELSE IF e[2] = TOP THEN 5 ELSE e[1] + 1]
<1>1. mem = [used |-> BootFrames, pt |-> g] /\ machine = "on" /\ stacks = {}
      /\ holders = [v \in Segments |-> 0]
  BY DEF Init
<1>2. \A e \in BootEntries : g[e] = BootEntry(e)
  BY DEF BootEntry
<1> HIDE DEF g
<1>3. /\ mem.used = BootFrames /\ mem.pt = g /\ DOMAIN g = BootEntries /\ Memory(mem)
  BY <1>1 DEF Memory, g
<1>4. DOMAIN L = 1 .. 5 /\ L[1] = 1 /\ L[2] = 2 /\ L[3] = 3 /\ L[4] = 4 /\ L[5] = 4
      /\ \A t \in DOMAIN L : L[t] \in 1 .. 4
  OBVIOUS
<1> HIDE DEF L
<1>5. /\ <<5, 0>> \notin BootEntries /\ Entries(mem) = BootEntries /\ Later(mem) = {}
  BY <1>3 DEF BootEntries, Entries, Later
<1>6. Marked(mem)
  BY <1>3, <1>5, Numbers DEF Marked
<1>7. Lost(mem) = {}
  BY <1>3 DEF Lost
<1>8. Levels(mem, L)
  <2>1. DOMAIN L = {1, 2, 3, 4, 5}
    BY <1>4
  <2>2. DOMAIN L \subseteq mem.used \ {0, 6}
    BY <1>3, <2>1 DEF BootFrames
  <2> QED BY <1>4, <1>7, <2>1, <2>2 DEF Levels
<1>9. Booted(mem)
  BY <1>2, <1>3 DEF Booted
<1>10. ASSUME NEW e \in BootEntries
       PROVE  /\ e = <<e[1], e[2]>> /\ e[1] \in DOMAIN L \ {5} /\ e[2] \in Indices
              /\ L[e[1]] < 4 => BootEntry(e) \in DOMAIN L /\ L[BootEntry(e)] = L[e[1]] + 1
  <2>1. CASE e \in {<<4, i>> : i \in BootFrames}
    BY <1>4, <2>1, Numbers
  <2>2. CASE e = <<1, 0>>
    BY <1>4, <2>2, Numbers DEF BootEntry, Indices
  <2>3. CASE e = <<2, 0>>
    BY <1>4, <2>3, Numbers DEF BootEntry, Indices
  <2>4. CASE e = <<3, 0>>
    BY <1>4, <2>4, Numbers DEF BootEntry, Indices
  <2>5. CASE e = <<3, TOP>>
    BY <1>4, <2>5, Numbers DEF BootEntry, Indices
  <2> QED BY <2>1, <2>2, <2>3, <2>4, <2>5 DEF BootEntries
<1>11. Leveled(mem, L)
  BY <1>2, <1>3, <1>5, <1>10 DEF Leveled
<1>12. Owned(mem, L) /\ Shown(mem)
  BY <1>5 DEF Owned, Shown
<1>13. Shape(mem, L)
  BY <1>6, <1>8, <1>9, <1>11, <1>12 DEF Shape
<1>14. Solid(mem, L)
  <2> SUFFICES ASSUME NEW e \in BootEntries, L[e[1]] < 4 PROVE g[e] # BAD
    BY <1>3, <1>5 DEF Solid
  <2>1. BootEntry(e) \in DOMAIN L
    BY <1>10
  <2> QED BY <1>2, <1>4, <2>1, Numbers
<1>15. \A v \in Pages : Leaf(mem, v) # NONE => /\ v[4] \in BootFrames /\ v = Identity(v[4])
                                               /\ Leaf(mem, v) = v[4]
  <2> SUFFICES ASSUME NEW v \in Pages, Leaf(mem, v) # NONE
               PROVE  /\ v[4] \in BootFrames /\ v = Identity(v[4])
                      /\ Leaf(mem, v) = v[4]
    OBVIOUS
  <2> DEFINE t == LastTable(mem, v)
  <2>1. At(L, t, 4) /\ t # BAD
    BY <1>13, <1>14, Paths
  <2>2. t # NONE
    BY Numbers DEF Leaf, Follow
  <2>3. t \in DOMAIN L
    BY <2>1, <2>2 DEF At
  <2>4. <<t, v[4]>> \in Entries(mem)
    BY <1>13, <2>3, LeafEntry
  <2> QED BY <1>5, <1>13, <2>4, BootPages
<1> QED BY <1>7, <1>13, <1>14, <1>15 DEF Sound

\* The pages at their own addresses, when the loader is done with the first tables.
LEMMA BootIdentity ==
    ASSUME Init, NEW f \in Frames
    PROVE  Leaf(mem, Identity(f)) \in {NONE, f}
<1> DEFINE v == Identity(f)
<1>1. v \in Pages
  BY IdentityPages
<1> HIDE DEF v
<1>2. Leaf(mem, v) # NONE => v[4] \in BootFrames /\ v = Identity(v[4]) /\ Leaf(mem, v) = v[4]
  BY <1>1, BootTables
<1>3. v[4] \in BootFrames /\ v = Identity(v[4]) => v[4] = f
  BY IdentityPages, Numbers DEF v
<1> QED BY <1>2, <1>3 DEF v

\* The first state.
LEMMA InitOK ==
    ASSUME Init
    PROVE  IInv
<1>1. /\ holders = [v \in Segments |-> 0] /\ stacks = {} /\ machine = "on"
      /\ 0 \in 0 .. SHARE
  BY FramesAssumption DEF Init
<1>2. PICK L : Sound(mem, L, {})
  BY BootTables
<1>3. Formed
  BY <1>1, <1>2 DEF Formed, Sound
<1>4. Clients
  BY <1>1 DEF Clients
<1> QED BY <1>2, <1>3, <1>4 DEF IInv, Sound

\* What every step may assume.
LEMMA OnSound ==
    ASSUME Formed, machine = "on"
    PROVE  /\ \E L : Sound(mem, L, Lost(mem))
           /\ holders \in [Segments -> 0 .. SHARE] /\ stacks \subseteq Frames \ BootFrames
BY DEF Formed, Sound

\* What a step has to leave.
LEMMA FormedOK ==
    ASSUME \/ machine' = "fault" /\ \E L : Shape(mem', L)
           \/ machine' = "on" /\ \E L, S : Sound(mem', L, S),
           holders' \in [Segments -> 0 .. SHARE], stacks' \subseteq Frames \ BootFrames
    PROVE  Formed'
BY DEF Formed, Sound

\* Mapping a segment: the page gets a free frame, or keeps the one it has.
LEMMA MapSegmentStep ==
    ASSUME Formed, NEW v \in Segments, MapSegment(v)
    PROVE  /\ machine = "on" /\ v \in Pages /\ stacks' = stacks
           /\ holders[v] \in Nat /\ holders[v] < SHARE
           /\ holders' = [holders EXCEPT ![v] = @ + 1] /\ holders'[v] > holders[v]
           /\ \/ machine' = "fault" /\ Failed(mem, mem', v)
              \/ /\ machine' = "on" /\ Leaf(mem, v) = NONE
                 /\ Gave(mem, mem', v, (Frames \ (BootFrames \cup mem.used)) \cup {BAD}, Lost(mem))
                 /\ Leaf(mem', v) = BAD => Frames \subseteq mem'.used
              \/ machine' = "on" /\ Leaf(mem, v) # NONE /\ \E M, R : Sound(mem', M, R)
<1>1. machine = "on" /\ holders[v] < SHARE /\ page_mapv(v) /\ stacks' = stacks
      /\ holders' = [holders EXCEPT ![v] = @ + 1] /\ v \in Pages
  BY CallersPages DEF MapSegment
<1>2. PICK L : Sound(mem, L, Lost(mem))
  BY <1>1, OnSound
<1>3. holders[v] \in Nat /\ holders'[v] > holders[v]
  <2>1. holders \in [Segments -> 0 .. SHARE]
    BY <1>1, OnSound
  <2> QED BY <1>1, <2>1
<1>4. \/ machine' = "fault" /\ Failed(mem, mem', v)
      \/ /\ machine' = machine /\ Leaf(mem, v) = NONE
         /\ Gave(mem, mem', v, (Frames \ (BootFrames \cup mem.used)) \cup {BAD}, Lost(mem))
         /\ Leaf(mem', v) = BAD => Frames \subseteq mem'.used
      \/ /\ machine' = machine /\ Leaf(mem, v) # NONE
         /\ \E M, R : Sound(mem', M, R)
  BY <1>1, <1>2, MapCall
<1> QED BY <1>1, <1>3, <1>4

\* Giving a segment back: the page loses its frame.
LEMMA UnmapSegmentStep ==
    ASSUME Formed, NEW v \in Segments, UnmapSegment(v)
    PROVE  /\ machine = "on" /\ v \in Pages /\ stacks' = stacks
           /\ holders[v] \in Nat /\ holders[v] > 0
           /\ holders' = [holders EXCEPT ![v] = @ - 1] /\ holders'[v] < holders[v]
           /\ GivenBack(v) =>
                \/ /\ machine' = "fault" /\ Leaf(mem, v) = BAD /\ \E L : Shape(mem', L)
                   /\ Leaf(mem', v) = NONE
                   /\ \A u \in Pages \ {v} : Leaf(mem', u) = Leaf(mem, u)
                \/ machine' = "on" /\ Leaf(mem, v) # BAD /\ Gave(mem, mem', v, {NONE}, Lost(mem))
<1>1. machine = "on" /\ holders[v] > 0 /\ page_umapv(v) /\ stacks' = stacks
      /\ holders' = [holders EXCEPT ![v] = @ - 1] /\ v \in Pages
  BY CallersPages DEF UnmapSegment
<1>2. PICK L : Sound(mem, L, Lost(mem))
  BY <1>1, OnSound
<1>3. holders[v] \in Nat /\ holders'[v] < holders[v]
  <2>1. holders \in [Segments -> 0 .. SHARE]
    BY <1>1, OnSound
  <2> QED BY <1>1, <2>1
<1>4. ASSUME GivenBack(v)
      PROVE  \/ /\ machine' = "fault" /\ Leaf(mem, v) = BAD /\ \E M : Shape(mem', M)
                /\ Leaf(mem', v) = NONE /\ \A u \in Pages \ {v} : Leaf(mem', u) = Leaf(mem, u)
             \/ machine' = machine /\ Leaf(mem, v) # BAD /\ Gave(mem, mem', v, {NONE}, Lost(mem))
  BY <1>1, <1>2, <1>4, UnmapCall
<1> QED BY <1>1, <1>3, <1>4

\* A task's stack: a free frame is mapped at its own address.
LEMMA TakeStackStep ==
    ASSUME Formed, TakeStack, NEW f, f = Lowest(mem), NEW v, v = Identity(f)
    PROVE  /\ machine = "on" /\ holders' = holders
           /\ \/ machine' = "fault" /\ mem' = mem /\ stacks' = stacks
              \/ /\ f \in Frames \ (BootFrames \cup mem.used)
                 /\ stacks' = stacks \cup {f} /\ v \in Pages
                 /\ \/ machine' = "fault" /\ Failed(mem, mem', v)
                    \/ /\ machine' = "on" /\ \E R : Gave(mem, mem', v, {f}, R)
                       /\ Leaf(mem, v) = NONE => Gave(mem, mem', v, {f}, Lost(mem))
<1>1. machine = "on" /\ holders' = holders
  BY DEF TakeStack
<1>2. CASE Free(mem) = {}
  BY <1>1, <1>2 DEF TakeStack, Fault
<1>3. CASE Free(mem) # {}
  <2>1. page_alloc4K(f) /\ stacks' = stacks \cup {f}
    BY <1>3 DEF TakeStack
  <2>2. v \in Pages
    BY <1>3, LowestFree, IdentityPages
  <2>3. PICK L : Sound(mem, L, Lost(mem))
    BY <1>1, OnSound
  <2>4. /\ f \in Frames \ (BootFrames \cup mem.used)
        /\ \/ machine' = "fault" /\ Failed(mem, mem', v)
           \/ /\ machine' = machine
              /\ \E R : Gave(mem, mem', v, {f}, R)
              /\ Leaf(mem, v) = NONE => Gave(mem, mem', v, {f}, Lost(mem))
    BY <1>3, <2>1, <2>2, <2>3, StackCall
  <2> QED BY <1>1, <2>1, <2>2, <2>4
<1> QED BY <1>2, <1>3

\* A removed task's stack: its page loses its frame.
LEMMA DropStackStep ==
    ASSUME Formed, NEW f \in stacks, DropStack(f), NEW v, v = Identity(f)
    PROVE  /\ machine = "on" /\ holders' = holders /\ stacks' = stacks \ {f}
           /\ f \in Frames \ BootFrames /\ v \in Pages
           /\ GivenBack(v) =>
                \/ machine' = "fault" /\ Leaf(mem, v) = BAD /\ \E L : Shape(mem', L)
                \/ machine' = "on" /\ Leaf(mem, v) # BAD /\ Gave(mem, mem', v, {NONE}, Lost(mem))
<1>1. machine = "on" /\ page_umapv(v) /\ holders' = holders /\ stacks' = stacks \ {f}
  BY DEF DropStack
<1>2. f \in Frames \ BootFrames /\ v \in Pages
  BY <1>1, OnSound, IdentityPages
<1>3. PICK L : Sound(mem, L, Lost(mem))
  BY <1>1, OnSound
<1>4. ASSUME GivenBack(v)
      PROVE  \/ machine' = "fault" /\ Leaf(mem, v) = BAD /\ \E M : Shape(mem', M)
             \/ machine' = machine /\ Leaf(mem, v) # BAD /\ Gave(mem, mem', v, {NONE}, Lost(mem))
  BY <1>1, <1>2, <1>3, <1>4, UnmapCall
<1> QED BY <1>1, <1>2, <1>4

\* Mapping the framebuffer at its own address takes frames for tables only.
LEMMA MapScreenStep ==
    ASSUME ScreenBeyond, Formed, NEW v \in Screen, MapScreen(v)
    PROVE  /\ machine = "on" /\ holders' = holders /\ stacks' = stacks
           /\ stacks = {} /\ \A s \in Segments : holders[s] = 0
           /\ \/ machine' = "fault" /\ Failed(mem, mem', v)
              \/ /\ machine' = "on"
                 /\ Gave(mem, mem', v, {IF Leaf(mem, v) = NONE THEN Own(v) ELSE Leaf(mem, v)},
                         Lost(mem))
<1>1. /\ machine = "on" /\ page_mapvp(v, Own(v)) /\ holders' = holders /\ stacks' = stacks
      /\ stacks = {} /\ \A s \in Segments : holders[s] = 0
  BY DEF MapScreen
<1>2. v \in Pages /\ Own(v) > LAST
  BY CallersPages DEF ScreenBeyond
<1>3. PICK L : Sound(mem, L, Lost(mem))
  BY <1>1, OnSound
<1>4. \/ machine' = "fault" /\ Failed(mem, mem', v)
      \/ /\ machine' = machine
         /\ Gave(mem, mem', v, {IF Leaf(mem, v) = NONE THEN Own(v) ELSE Leaf(mem, v)}, Lost(mem))
  BY <1>1, <1>2, <1>3, ScreenCall
<1> QED BY <1>1, <1>4

\* Every step keeps the tables well formed.
LEMMA FormedStep ==
    ASSUME ScreenBeyond, Formed, [Next]_vars, UnmapsMapped \/ UNCHANGED vars
    PROVE  Formed'
<1>1. CASE UNCHANGED vars
  BY <1>1 DEF Formed, vars
<1>2. ASSUME NEW v \in Segments, MapSegment(v) PROVE Formed'
  <2>1. /\ machine = "on" /\ stacks' = stacks /\ holders[v] \in Nat /\ holders[v] < SHARE
        /\ holders' = [holders EXCEPT ![v] = @ + 1]
        /\ \/ machine' = "fault" /\ Failed(mem, mem', v)
           \/ machine' = "on" /\ \E L, S : Sound(mem', L, S)
    BY <1>2, MapSegmentStep DEF Gave
  <2>2. holders' \in [Segments -> 0 .. SHARE] /\ stacks' \subseteq Frames \ BootFrames
    BY <2>1, OnSound, FramesAssumption
  <2> QED BY <2>1, <2>2, FormedOK DEF Failed
<1>3. ASSUME NEW v \in Segments, UnmapSegment(v), UnmapsMapped PROVE Formed'
  <2>1. holders'[v] < holders[v]
    BY <1>3, UnmapSegmentStep
  <2>2. GivenBack(v)
    BY <1>3, <2>1 DEF UnmapsMapped
  <2>3. /\ machine = "on" /\ stacks' = stacks /\ holders[v] \in Nat /\ holders[v] > 0
        /\ holders' = [holders EXCEPT ![v] = @ - 1]
        /\ \/ machine' = "fault" /\ \E L : Shape(mem', L)
           \/ machine' = "on" /\ \E L, S : Sound(mem', L, S)
    BY <1>3, <2>2, UnmapSegmentStep DEF Gave
  <2>4. holders' \in [Segments -> 0 .. SHARE] /\ stacks' \subseteq Frames \ BootFrames
    BY <2>3, OnSound, FramesAssumption
  <2> QED BY <2>3, <2>4, FormedOK
<1>4. CASE TakeStack
  <2> DEFINE f == Lowest(mem)
  <2>1. /\ machine = "on" /\ holders' = holders
        /\ \/ machine' = "fault" /\ mem' = mem /\ stacks' = stacks
           \/ /\ f \in Frames \ BootFrames /\ stacks' = stacks \cup {f}
              /\ \/ machine' = "fault" /\ Failed(mem, mem', Identity(f))
                 \/ machine' = "on" /\ \E L, S : Sound(mem', L, S)
    BY <1>4, TakeStackStep DEF Gave
  <2> HIDE DEF f
  <2>2. holders' \in [Segments -> 0 .. SHARE] /\ stacks' \subseteq Frames \ BootFrames
    BY <2>1, OnSound
  <2>3. \/ machine' = "fault" /\ \E L : Shape(mem', L)
        \/ machine' = "on" /\ \E L, S : Sound(mem', L, S)
    BY <2>1, OnSound DEF Failed, Sound
  <2> QED BY <2>2, <2>3, FormedOK
<1>5. ASSUME NEW f \in stacks, DropStack(f), UnmapsMapped PROVE Formed'
  <2>1. f \in stacks \ stacks'
    BY <1>5, DropStackStep
  <2>2. GivenBack(Identity(f))
    BY <1>5, <2>1 DEF UnmapsMapped
  <2>3. /\ machine = "on" /\ holders' = holders /\ stacks' = stacks \ {f}
        /\ \/ machine' = "fault" /\ \E L : Shape(mem', L)
           \/ machine' = "on" /\ \E L, S : Sound(mem', L, S)
    BY <1>5, <2>2, DropStackStep DEF Gave
  <2>4. holders' \in [Segments -> 0 .. SHARE] /\ stacks' \subseteq Frames \ BootFrames
    BY <2>3, OnSound
  <2> QED BY <2>3, <2>4, FormedOK
<1>6. ASSUME NEW v \in Screen, MapScreen(v) PROVE Formed'
  <2>1. /\ machine = "on" /\ holders' = holders /\ stacks' = stacks
        /\ \/ machine' = "fault" /\ \E L : Shape(mem', L)
           \/ machine' = "on" /\ \E L, S : Sound(mem', L, S)
    BY <1>6, MapScreenStep DEF Gave, Failed
  <2>2. holders' \in [Segments -> 0 .. SHARE] /\ stacks' \subseteq Frames \ BootFrames
    BY <2>1, OnSound
  <2> QED BY <2>1, <2>2, FormedOK
<1> QED BY <1>1, <1>2, <1>3, <1>4, <1>5, <1>6 DEF Next

-----------------------------------------------------------------------------
(* Pages that are mapped once: no frame is lost, and what is given back    *)
(* has a frame of its own.                                                 *)

\* What every step may assume.
LEMMA OnClients ==
    ASSUME IInv, machine = "on"
    PROVE  /\ Formed /\ Lost(mem) = {}
           /\ \A v \in Segments : holders[v] \in {0, 1}
           /\ \A v \in Segments : holders[v] = 1 => Leaf(mem, v) \in (Frames \ BootFrames) \cup {BAD}
           /\ \A f \in stacks : Leaf(mem, Identity(f)) = f
           /\ \A f \in stacks : Identity(f) \in Segments => holders[Identity(f)] = 0
<1>1. Formed /\ Lost(mem) = {} /\ Clients
  BY DEF IInv
<1> QED BY <1>1 DEF Clients

\* A page that is held is a page with memory, or with the -1 of a failed call.
LEMMA Backed ==
    ASSUME IInv, machine = "on"
    PROVE  /\ \A v \in Segments : holders[v] # 0 => GivenBack(v) /\ Leaf(mem, v) # NONE
           /\ \A f \in stacks : /\ GivenBack(Identity(f)) /\ f \in Frames \ BootFrames
                                /\ Leaf(mem, Identity(f)) = f /\ f # NONE /\ f # BAD
                                /\ f \in mem.used
<1>1. stacks \subseteq Frames \ BootFrames
  BY OnClients, OnSound
<1>2. ASSUME NEW f \in stacks
      PROVE  Leaf(mem, Identity(f)) = f /\ f \in Frames \ BootFrames /\ f # NONE /\ f # BAD
  BY <1>1, OnClients, Numbers
<1>3. PICK L : Shape(mem, L)
  BY OnClients DEF Formed
<1>4. ASSUME NEW f \in stacks PROVE f \in mem.used
  <2> DEFINE v == Identity(f)
  <2>1. v \in Pages
    BY <1>2, IdentityPages
  <2>2. Leaf(mem, v) = f /\ f \in Frames /\ f # NONE /\ f # BAD
    BY <1>2
  <2> HIDE DEF v
  <2> QED BY <1>3, <2>1, <2>2, LeafUsed
<1>5. ASSUME NEW v \in Segments, holders[v] # 0 PROVE GivenBack(v) /\ Leaf(mem, v) # NONE
  BY <1>5, OnClients, Numbers DEF GivenBack
<1> QED BY <1>2, <1>4, <1>5 DEF GivenBack

\* No page is given back that has no frame of its own.
LEMMA Unmaps ==
    ASSUME IInv, [Next]_vars
    PROVE  UnmapsMapped \/ UNCHANGED vars
<1> SUFFICES ASSUME Next PROVE UnmapsMapped
  OBVIOUS
<1>1. machine = "on"
  BY DEF Next, MapSegment, UnmapSegment, TakeStack, DropStack, MapScreen
<1>2. Formed /\ holders \in [Segments -> 0 .. SHARE]
  BY <1>1, OnClients, OnSound
<1>3. \A f \in stacks \ stacks' : GivenBack(Identity(f))
  BY <1>1, Backed
<1>4. ASSUME NEW u \in Segments, holders'[u] < holders[u] PROVE holders[u] # 0
  <2>1. ASSUME NEW v \in Segments, MapSegment(v) PROVE holders[u] # 0
    BY <1>2, <1>4, <2>1 DEF MapSegment
  <2>2. ASSUME NEW v \in Segments, UnmapSegment(v) PROVE holders[u] # 0
    BY <1>2, <1>4, <2>2 DEF UnmapSegment
  <2>3. CASE holders' = holders
    BY <1>2, <1>4, <2>3
  <2> QED BY <2>1, <2>2, <2>3 DEF Next, TakeStack, DropStack, MapScreen
<1> QED BY <1>1, <1>3, <1>4, Backed DEF UnmapsMapped

\* Mapping a segment for the first time.
LEMMA MapSegmentFresh ==
    ASSUME IInv, NEW v \in Segments, MapSegment(v), MapsFresh
    PROVE  /\ machine = "on" /\ holders[v] = 0 /\ Leaf(mem, v) = NONE /\ v \in Pages
           /\ holders' = [holders EXCEPT ![v] = 1] /\ stacks' = stacks
           /\ \/ machine' = "fault" /\ Failed(mem, mem', v)
              \/ /\ machine' = "on"
                 /\ Gave(mem, mem', v, (Frames \ (BootFrames \cup mem.used)) \cup {BAD}, {})
                 /\ Leaf(mem', v) = BAD => Frames \subseteq mem'.used
<1>1. Formed
  BY DEF IInv
<1>2. machine = "on" /\ holders'[v] > holders[v]
      /\ holders' = [holders EXCEPT ![v] = @ + 1]
  BY <1>1, MapSegmentStep
<1>3. Leaf(mem, v) = NONE
  BY <1>2 DEF MapsFresh
<1>4. holders[v] = 0
  BY <1>2, <1>3, Backed
<1>5. Lost(mem) = {}
  BY <1>2, OnClients
<1>6. holders' = [holders EXCEPT ![v] = 1]
  BY <1>2, <1>4
<1> QED BY <1>1, <1>3, <1>4, <1>5, <1>6, MapSegmentStep

\* It gets memory, and the others keep theirs.
LEMMA MapSegmentOK ==
    ASSUME IInv, NEW v \in Segments, MapSegment(v), MapsFresh, machine' = "on"
    PROVE  Lost(mem') = {} /\ Clients'
<1> DEFINE X == (Frames \ (BootFrames \cup mem.used)) \cup {BAD}
<1>1. /\ machine = "on" /\ holders[v] = 0 /\ Leaf(mem, v) = NONE /\ v \in Pages
      /\ holders' = [holders EXCEPT ![v] = 1] /\ stacks' = stacks
      /\ Gave(mem, mem', v, X, {})
  BY MapSegmentFresh
<1>2. /\ Lost(mem') = {} /\ Leaf(mem', v) \in X
      /\ \A u \in Pages \ {v} : Leaf(mem', u) = Leaf(mem, u)
  BY <1>1 DEF Gave, Sound
<1>3. Leaf(mem', v) \in (Frames \ BootFrames) \cup {BAD} /\ holders \in [Segments -> 0 .. SHARE]
  BY <1>1, <1>2, OnClients, OnSound
<1>4. ASSUME NEW u \in Segments
      PROVE  /\ holders'[u] \in {0, 1}
             /\ holders'[u] = 1 => Leaf(mem', u) \in (Frames \ BootFrames) \cup {BAD}
  BY <1>1, <1>2, <1>3, CallersPages, OnClients
<1>5. ASSUME NEW f \in stacks'
      PROVE  /\ Leaf(mem', Identity(f)) = f
             /\ Identity(f) \in Segments => holders'[Identity(f)] = 0
  <2>1. Leaf(mem, Identity(f)) = f /\ f # NONE /\ f \in Frames
    BY <1>1, Backed
  <2>2. Identity(f) # v /\ Identity(f) \in Pages
    BY <1>1, <2>1, IdentityPages
  <2> QED BY <1>1, <1>2, <1>3, <2>1, <2>2, OnClients
<1> QED BY <1>2, <1>4, <1>5 DEF Clients

\* Giving back a segment that is mapped once.
LEMMA UnmapSegmentFresh ==
    ASSUME IInv, NEW v \in Segments, UnmapSegment(v)
    PROVE  /\ machine = "on" /\ holders[v] = 1 /\ v \in Pages
           /\ holders' = [holders EXCEPT ![v] = 0] /\ stacks' = stacks
           /\ \/ /\ machine' = "fault" /\ Leaf(mem, v) = BAD /\ Leaf(mem', v) = NONE
                 /\ \A u \in Pages \ {v} : Leaf(mem', u) = Leaf(mem, u)
              \/ machine' = "on" /\ Leaf(mem, v) # BAD /\ Gave(mem, mem', v, {NONE}, {})
<1>1. Formed
  BY DEF IInv
<1>2. machine = "on" /\ holders[v] > 0 /\ holders' = [holders EXCEPT ![v] = @ - 1]
  BY <1>1, UnmapSegmentStep
<1>3. holders[v] = 1
  BY <1>2, OnClients
<1>4. GivenBack(v) /\ Lost(mem) = {}
  BY <1>2, <1>3, Backed, OnClients
<1>5. holders' = [holders EXCEPT ![v] = 0]
  BY <1>2, <1>3
<1> QED BY <1>1, <1>3, <1>4, <1>5, UnmapSegmentStep

\* The others keep their memory.
LEMMA UnmapSegmentOK ==
    ASSUME IInv, NEW v \in Segments, UnmapSegment(v), machine' = "on"
    PROVE  Lost(mem') = {} /\ Clients'
<1>1. /\ machine = "on" /\ holders[v] = 1 /\ v \in Pages
      /\ holders' = [holders EXCEPT ![v] = 0] /\ stacks' = stacks
      /\ Gave(mem, mem', v, {NONE}, {})
  BY UnmapSegmentFresh
<1>2. Lost(mem') = {} /\ \A u \in Pages \ {v} : Leaf(mem', u) = Leaf(mem, u)
  BY <1>1 DEF Gave, Sound
<1>3. holders \in [Segments -> 0 .. SHARE]
  BY <1>1, OnClients, OnSound
<1>4. ASSUME NEW u \in Segments
      PROVE  /\ holders'[u] \in {0, 1}
             /\ holders'[u] = 1 => Leaf(mem', u) \in (Frames \ BootFrames) \cup {BAD}
  BY <1>1, <1>2, <1>3, CallersPages, OnClients
<1>5. ASSUME NEW f \in stacks'
      PROVE  /\ Leaf(mem', Identity(f)) = f
             /\ Identity(f) \in Segments => holders'[Identity(f)] = 0
  <2>1. /\ Leaf(mem, Identity(f)) = f /\ f \in Frames
        /\ Identity(f) \in Segments => holders[Identity(f)] = 0
    BY <1>1, Backed, OnClients
  <2>2. Identity(f) # v /\ Identity(f) \in Pages
    BY <1>1, <2>1, IdentityPages
  <2> QED BY <1>1, <1>2, <1>3, <2>1, <2>2
<1> QED BY <1>2, <1>4, <1>5 DEF Clients

\* A stack whose page is not mapped.
LEMMA TakeStackFresh ==
    ASSUME IInv, TakeStack, MapsFresh, NEW f, f = Lowest(mem), NEW v, v = Identity(f)
    PROVE  /\ machine = "on" /\ holders' = holders
           /\ \/ machine' = "fault" /\ mem' = mem /\ stacks' = stacks
              \/ /\ f \in Frames \ (BootFrames \cup mem.used) /\ f \notin stacks
                 /\ stacks' = stacks \cup {f} /\ v \in Pages /\ Leaf(mem, v) = NONE
                 /\ \/ machine' = "fault" /\ Failed(mem, mem', v)
                    \/ machine' = "on" /\ Gave(mem, mem', v, {f}, {})
<1>1. Formed
  BY DEF IInv
<1>2. /\ machine = "on" /\ holders' = holders
      /\ \/ machine' = "fault" /\ mem' = mem /\ stacks' = stacks
         \/ /\ f \in Frames \ (BootFrames \cup mem.used)
            /\ stacks' = stacks \cup {f} /\ v \in Pages
            /\ \/ machine' = "fault" /\ Failed(mem, mem', v)
               \/ /\ machine' = "on" /\ \E R : Gave(mem, mem', v, {f}, R)
                  /\ Leaf(mem, v) = NONE => Gave(mem, mem', v, {f}, Lost(mem))
  BY <1>1, TakeStackStep
<1>3. Lost(mem) = {}
  BY <1>2, OnClients
<1>4. ASSUME f \in Frames \ (BootFrames \cup mem.used), stacks' = stacks \cup {f}
      PROVE  f \notin stacks /\ Leaf(mem, v) = NONE
  <2>1. f \notin stacks
    BY <1>2, <1>4, Backed
  <2> QED BY <1>4, <2>1 DEF MapsFresh
<1> QED BY <1>2, <1>3, <1>4

\* It is mapped at its own address, and the others keep their memory.
LEMMA TakeStackOK ==
    ASSUME IInv, TakeStack, MapsFresh, machine' = "on"
    PROVE  Lost(mem') = {} /\ Clients'
<1> DEFINE f == Lowest(mem)
           v == Identity(f)
<1>1. /\ machine = "on" /\ holders' = holders /\ v \in Pages /\ Leaf(mem, v) = NONE
      /\ f \in Frames /\ stacks' = stacks \cup {f} /\ Gave(mem, mem', v, {f}, {})
  BY TakeStackFresh
<1> HIDE DEF f
<1>2. /\ Lost(mem') = {} /\ Leaf(mem', v) = f
      /\ \A u \in Pages \ {v} : Leaf(mem', u) = Leaf(mem, u)
  BY <1>1 DEF Gave, Sound
<1> DEFINE Q(u) == /\ holders'[u] \in {0, 1}
                   /\ holders'[u] = 1 => Leaf(mem', u) \in (Frames \ BootFrames) \cup {BAD}
           W(g) == /\ Leaf(mem', Identity(g)) = g
                   /\ Identity(g) \in Segments => holders'[Identity(g)] = 0
<1>3. ASSUME NEW u \in Segments PROVE Q(u)
  <2>1. u = v => holders[u] = 0
    BY <1>1, Backed
  <2> QED BY <1>1, <1>2, <2>1, CallersPages, OnClients
<1>4. W(f)
  <2>1. v \in Segments => holders[v] = 0
    BY <1>1, Backed
  <2> QED BY <1>1, <1>2, <2>1
<1>5. ASSUME NEW g \in stacks' PROVE W(g)
  <2>1. CASE g = f
    BY <1>4, <2>1
  <2>2. CASE g # f
    <3>1. /\ Leaf(mem, Identity(g)) = g /\ g \in Frames
          /\ Identity(g) \in Segments => holders[Identity(g)] = 0
      BY <1>1, <2>2, Backed, OnClients
    <3>2. Identity(g) # v /\ Identity(g) \in Pages
      BY <1>1, <2>2, <3>1, IdentityPages
    <3> QED BY <1>1, <1>2, <3>1, <3>2
  <2> QED BY <2>1, <2>2
<1> QED BY <1>2, <1>3, <1>5 DEF Clients

\* A stack that is given back has the frame of its address.
LEMMA DropStackFresh ==
    ASSUME IInv, NEW f \in stacks, DropStack(f), NEW v, v = Identity(f)
    PROVE  /\ machine = "on" /\ machine' = "on" /\ holders' = holders /\ stacks' = stacks \ {f}
           /\ f \in Frames \ BootFrames /\ v \in Pages /\ Gave(mem, mem', v, {NONE}, {})
<1>1. Formed
  BY DEF IInv
<1>2. machine = "on"
  BY <1>1, DropStackStep
<1>3. GivenBack(v) /\ Leaf(mem, v) # BAD /\ Lost(mem) = {}
  BY <1>2, Backed, OnClients
<1> QED BY <1>1, <1>3, DropStackStep

\* The others keep their memory.
LEMMA DropStackOK ==
    ASSUME IInv, NEW f \in stacks, DropStack(f)
    PROVE  Lost(mem') = {} /\ Clients'
<1> DEFINE v == Identity(f)
<1>1. /\ machine = "on" /\ holders' = holders /\ stacks' = stacks \ {f}
      /\ f \in Frames /\ v \in Pages /\ Gave(mem, mem', v, {NONE}, {})
  BY DropStackFresh
<1>2. Lost(mem') = {} /\ \A u \in Pages \ {v} : Leaf(mem', u) = Leaf(mem, u)
  BY <1>1 DEF Gave, Sound
<1>3. ASSUME NEW u \in Segments
      PROVE  /\ holders'[u] \in {0, 1}
             /\ holders'[u] = 1 => Leaf(mem', u) \in (Frames \ BootFrames) \cup {BAD}
  <2>1. u = v => holders[u] = 0
    BY <1>1, OnClients
  <2> QED BY <1>1, <1>2, <2>1, CallersPages, OnClients
<1>4. ASSUME NEW g \in stacks'
      PROVE  /\ Leaf(mem', Identity(g)) = g
             /\ Identity(g) \in Segments => holders'[Identity(g)] = 0
  <2>1. /\ Leaf(mem, Identity(g)) = g /\ g \in Frames /\ g # f
        /\ Identity(g) \in Segments => holders[Identity(g)] = 0
    BY <1>1, Backed, OnClients
  <2>2. Identity(g) # v /\ Identity(g) \in Pages
    BY <1>1, <2>1, IdentityPages
  <2> QED BY <1>1, <1>2, <2>1, <2>2
<1> QED BY <1>2, <1>3, <1>4 DEF Clients

\* The framebuffer is mapped when nothing else is held.
LEMMA MapScreenOK ==
    ASSUME ScreenBeyond, IInv, NEW v \in Screen, MapScreen(v), machine' = "on"
    PROVE  Lost(mem') = {} /\ Clients'
<1>1. Formed
  BY DEF IInv
<1>2. /\ machine = "on" /\ holders' = holders /\ stacks' = stacks
      /\ stacks = {} /\ \A s \in Segments : holders[s] = 0
      /\ \E X : Gave(mem, mem', v, X, Lost(mem))
  BY <1>1, MapScreenStep
<1>3. Lost(mem') = {}
  BY <1>2, OnClients DEF Gave, Sound
<1> QED BY <1>2, <1>3 DEF Clients

\* Every step keeps the invariant.
LEMMA StepOK ==
    ASSUME ScreenBeyond, IInv, [Next]_vars, MapsFresh \/ UNCHANGED vars
    PROVE  IInv'
<1>1. Formed'
  BY FormedStep, Unmaps DEF IInv
<1>2. CASE UNCHANGED vars
  BY <1>2 DEF IInv, Formed, Clients, vars
<1>3. ASSUME Next, MapsFresh, machine' = "on" PROVE Lost(mem') = {} /\ Clients'
  BY <1>3, MapSegmentOK, UnmapSegmentOK, TakeStackOK, DropStackOK, MapScreenOK DEF Next
<1> QED BY <1>1, <1>2, <1>3 DEF IInv

\* The tables are well formed in every reachable state.
LEMMA AlwaysFormed ==
    ASSUME ScreenBeyond
    PROVE  Spec /\ [][UnmapsMapped]_vars => []Formed
<1>1. Init => Formed
  BY InitOK DEF IInv
<1>2. Formed /\ [Next]_vars /\ [UnmapsMapped]_vars => Formed'
  BY FormedStep
<1> QED BY <1>1, <1>2, PTL DEF Spec

\* The invariant holds in every reachable state.
LEMMA Inductive ==
    ASSUME ScreenBeyond
    PROVE  Spec /\ [][MapsFresh]_vars => []IInv
<1>1. Init => IInv
  BY InitOK
<1>2. IInv /\ [Next]_vars /\ [MapsFresh]_vars => IInv'
  BY StepOK
<1> QED BY <1>1, <1>2, PTL DEF Spec

-----------------------------------------------------------------------------
(* The theorems.                                                           *)

\* The invariant gives the types.
LEMMA Typed ==
    ASSUME Formed
    PROVE  TypeOK
<1>1. PICK L : Shape(mem, L)
  BY DEF Formed
<1>2. ASSUME NEW e \in DOMAIN mem.pt
      PROVE  e \in Frames \X (0 .. TOP) /\ mem.pt[e] \in Nat \cup {BAD}
  <2>1. CASE e = <<5, 0>>
    BY <1>1, <1>2, <2>1, Numbers DEF Shape, Marked
  <2>2. CASE e # <<5, 0>>
    <3>1. e \in Entries(mem)
      BY <1>2, <2>2 DEF Entries
    <3>2. e = <<e[1], e[2]>> /\ e[1] \in DOMAIN L /\ e[2] \in 0 .. TOP
      BY <1>1, <3>1 DEF Shape, Leveled, Indices
    <3>3. e[1] \in Frames
      BY <1>1, <3>2, TableFrames
    <3>4. CASE e \in BootEntries
      <4>1. mem.pt[e] = BootEntry(e) /\ BootEntry(e) \in BootFrames
        BY <1>1, <3>4, Numbers DEF Shape, Booted, BootEntry, BootEntries, BootFrames
      <4> QED BY <3>2, <3>3, <4>1, Numbers
    <3>5. CASE e \notin BootEntries
      <4>1. mem.pt[e] \in Nat \cup {BAD}
        BY <1>1, <3>1, <3>5 DEF Shape, Owned, Later
      <4> QED BY <3>2, <3>3, <4>1
    <3> QED BY <3>4, <3>5
  <2> QED BY <2>1, <2>2
<1>3. mem.used \subseteq Frames
  BY <1>1 DEF Shape, Marked
<1> QED BY <1>2, <1>3 DEF Formed, TypeOK

\* A frame of the bitmap is pointed to once, one beyond it by its own page only.
LEMMA OneUser ==
    ASSUME ScreenBeyond, Formed
    PROVE  NoSharedFrame
<1>1. PICK L : Shape(mem, L)
  BY DEF Formed
<1> DEFINE own == {e \in DOMAIN mem.pt \ BootEntries : e[1] # 5 /\ mem.pt[e] # BAD}
<1>2. ASSUME NEW e \in own
      PROVE  /\ e \in Later(mem) /\ mem.pt[e] \in Nat \ BootFrames
             /\ mem.pt[e] \in Frames => \A d \in Later(mem) : mem.pt[d] = mem.pt[e] => d = e
  <2>1. e # <<5, 0>>
    OBVIOUS
  <2>2. e \in Later(mem) /\ mem.pt[e] # BAD
    BY <2>1 DEF Entries, Later
  <2> QED BY <1>1, <2>2 DEF Shape, Owned
<1> HIDE DEF own
<1>3. ASSUME NEW e \in own, NEW d \in own, mem.pt[d] = mem.pt[e]
      PROVE  d = e
  <2>1. CASE mem.pt[e] \in Frames
    BY <1>2, <1>3, <2>1
  <2>2. CASE mem.pt[e] \notin Frames
    <3>1. PICK v \in Screen : e = <<LastTable(mem, v), v[4]>> /\ mem.pt[e] = Own(v)
      BY <1>1, <1>2, <2>2 DEF Shape, Shown
    <3>2. PICK u \in Screen : d = <<LastTable(mem, u), u[4]>> /\ mem.pt[d] = Own(u)
      BY <1>1, <1>2, <1>3, <2>2 DEF Shape, Shown
    <3>3. u = v
      BY <1>3, <3>1, <3>2, CallersPages, OwnOnce
    <3> QED BY <3>1, <3>2, <3>3
  <2> QED BY <2>1, <2>2
<1> QED BY <1>2, <1>3 DEF NoSharedFrame, own

\* Every table hangs from the root, so that the frames behind the root are the
\* used ones.
LEMMA Hanging ==
    ASSUME NEW L, Shape(mem, L), Lost(mem) = {}
    PROVE  mem.used = BootFrames \cup (Frames \cap InTables)
<1> DEFINE pdpts == Below({ROOT})
           pdts  == Below(pdpts)
           pts   == Below(pdts)
<1>1. InTables = {ROOT} \cup pdpts \cup pdts \cup pts \cup Below(pts)
  BY DEF InTables
<1>2. ASSUME NEW T, NEW e \in Entries(mem), e[1] \in T
      PROVE  mem.pt[e] \in Below(T)
  <2>1. e[1] # 5 /\ e \in DOMAIN mem.pt
    BY DEF Shape, Leveled, Entries
  <2> QED BY <1>2, <2>1 DEF Below
<1>3. ASSUME NEW T PROVE Below(T) \cap Frames \subseteq mem.used
  <2> SUFFICES ASSUME NEW e \in DOMAIN mem.pt, e[1] # 5, mem.pt[e] \in Frames
               PROVE  mem.pt[e] \in mem.used
    BY DEF Below
  <2>1. e \in Entries(mem)
    BY DEF Entries
  <2>2. CASE e \in BootEntries
    <3>1. mem.pt[e] = BootEntry(e) /\ BootEntry(e) \in BootFrames
      BY <2>2, Numbers DEF Shape, Booted, BootEntry, BootEntries, BootFrames
    <3> QED BY <3>1 DEF Shape, Marked
  <2>3. CASE e \notin BootEntries
    BY <2>1, <2>3 DEF Shape, Owned, Later
  <2> QED BY <2>2, <2>3
<1>4. BootFrames \subseteq mem.used /\ mem.used \subseteq Frames /\ ROOT \in BootFrames
  BY DEF Shape, Marked, BootFrames, ROOT
<1>5. ASSUME NEW f \in mem.used \ BootFrames
      PROVE  \E e \in Later(mem) : mem.pt[e] = f
  BY DEF Lost
<1>6. /\ <<1, 0>> \in Entries(mem) /\ mem.pt[<<1, 0>>] = 2
      /\ <<2, 0>> \in Entries(mem) /\ mem.pt[<<2, 0>>] = 3
      /\ <<3, 0>> \in Entries(mem) /\ mem.pt[<<3, 0>>] = 4
      /\ <<3, TOP>> \in Entries(mem) /\ mem.pt[<<3, TOP>>] = 5
  <2>1. /\ <<1, 0>> \in BootEntries /\ <<2, 0>> \in BootEntries /\ <<3, 0>> \in BootEntries
        /\ <<3, TOP>> \in BootEntries
    BY DEF BootEntries
  <2>2. /\ BootEntry(<<1, 0>>) = 2 /\ BootEntry(<<2, 0>>) = 3 /\ BootEntry(<<3, 0>>) = 4
        /\ BootEntry(<<3, TOP>>) = 5
    BY Numbers DEF BootEntry
  <2> QED BY <2>1, <2>2, Separate DEF Shape, Booted
<1>7. ASSUME NEW t \in DOMAIN L, t \notin {1, 2, 3, 4, 5}
      PROVE  \E e \in Entries(mem) : /\ mem.pt[e] = t /\ e[1] \in DOMAIN L
                                     /\ L[e[1]] \in 1 .. 3 /\ L[t] = L[e[1]] + 1
  <2>1. t \in mem.used \ BootFrames
    BY <1>7 DEF Shape, Levels, BootFrames
  <2>2. PICK e \in Later(mem) : mem.pt[e] = t
    BY <1>5, <2>1
  <2>3. e \in Entries(mem) /\ e[1] \in DOMAIN L /\ L[e[1]] \in 1 .. 4
    BY <2>2, Separate, TableFrames DEF Later
  <2>4. L[e[1]] # 4
    BY <2>2 DEF Shape, Owned
  <2>5. L[e[1]] < 4
    BY <2>3, <2>4
  <2>6. t # BAD
    BY TableFrames
  <2>7. L[t] = L[e[1]] + 1
    BY <2>2, <2>3, <2>5, <2>6 DEF Shape, Leveled
  <2> QED BY <2>2, <2>3, <2>4, <2>7
<1>8. L[1] = 1 /\ L[2] = 2 /\ L[3] = 3 /\ L[4] = 4 /\ L[5] = 4
  BY DEF Shape, Levels
<1> HIDE DEF pdpts, pdts, pts
<1>9. ASSUME NEW t \in DOMAIN L, L[t] = 1 PROVE t = ROOT
  <2>1. ASSUME t \notin {1, 2, 3, 4, 5} PROVE FALSE
    BY <1>7, <1>9, <2>1
  <2> QED BY <1>8, <1>9, <2>1 DEF ROOT
<1>10. ASSUME NEW t \in DOMAIN L, L[t] = 2 PROVE t \in pdpts
  <2>1. CASE t \in {1, 2, 3, 4, 5}
    <3>1. t = 2
      BY <1>8, <1>10, <2>1
    <3>2. <<1, 0>>[1] \in {ROOT}
      BY DEF ROOT
    <3> QED BY <1>2, <1>6, <3>1, <3>2 DEF pdpts
  <2>2. CASE t \notin {1, 2, 3, 4, 5}
    <3>1. PICK e \in Entries(mem) : /\ mem.pt[e] = t /\ e[1] \in DOMAIN L
                                    /\ L[e[1]] \in 1 .. 3 /\ L[t] = L[e[1]] + 1
      BY <1>7, <2>2
    <3>2. L[e[1]] = 1
      BY <1>10, <3>1
    <3>3. e[1] \in {ROOT}
      BY <1>9, <3>1, <3>2
    <3> QED BY <1>2, <3>1, <3>3 DEF pdpts
  <2> QED BY <2>1, <2>2
<1>11. ASSUME NEW t \in DOMAIN L, L[t] = 3 PROVE t \in pdts
  <2>1. CASE t \in {1, 2, 3, 4, 5}
    <3>1. t = 3
      BY <1>8, <1>11, <2>1
    <3>2. <<2, 0>>[1] \in pdpts
      BY <1>8, <1>10 DEF Shape, Levels
    <3> QED BY <1>2, <1>6, <3>1, <3>2 DEF pdts
  <2>2. CASE t \notin {1, 2, 3, 4, 5}
    <3>1. PICK e \in Entries(mem) : /\ mem.pt[e] = t /\ e[1] \in DOMAIN L
                                    /\ L[e[1]] \in 1 .. 3 /\ L[t] = L[e[1]] + 1
      BY <1>7, <2>2
    <3>2. L[e[1]] = 2
      BY <1>11, <3>1
    <3>3. e[1] \in pdpts
      BY <1>10, <3>1, <3>2
    <3> QED BY <1>2, <3>1, <3>3 DEF pdts
  <2> QED BY <2>1, <2>2
<1>12. ASSUME NEW t \in DOMAIN L, L[t] = 4 PROVE t \in pts
  <2>1. CASE t \in {1, 2, 3, 4, 5}
    <3>1. t = 4 \/ t = 5
      BY <1>8, <1>12, <2>1
    <3>2. <<3, 0>>[1] \in pdts /\ <<3, TOP>>[1] \in pdts
      BY <1>8, <1>11 DEF Shape, Levels
    <3> QED BY <1>2, <1>6, <3>1, <3>2 DEF pts
  <2>2. CASE t \notin {1, 2, 3, 4, 5}
    <3>1. PICK e \in Entries(mem) : /\ mem.pt[e] = t /\ e[1] \in DOMAIN L
                                    /\ L[e[1]] \in 1 .. 3 /\ L[t] = L[e[1]] + 1
      BY <1>7, <2>2
    <3>2. L[e[1]] = 3
      BY <1>12, <3>1
    <3>3. e[1] \in pdts
      BY <1>11, <3>1, <3>2
    <3> QED BY <1>2, <3>1, <3>3 DEF pts
  <2> QED BY <2>1, <2>2
<1>13. ASSUME NEW f \in mem.used \ BootFrames
       PROVE  f \in InTables
  <2>1. PICK e \in Later(mem) : mem.pt[e] = f
    BY <1>5
  <2>2. e \in Entries(mem) /\ e[1] \in DOMAIN L /\ L[e[1]] \in 1 .. 4
    BY <2>1, Separate, TableFrames DEF Later
  <2>3. e[1] \in {ROOT} \/ e[1] \in pdpts \/ e[1] \in pdts \/ e[1] \in pts
    BY <1>9, <1>10, <1>11, <1>12, <2>2
  <2>4. f \in Below({ROOT}) \/ f \in Below(pdpts) \/ f \in Below(pdts) \/ f \in Below(pts)
    BY <1>2, <2>1, <2>2, <2>3
  <2> QED BY <1>1, <2>4 DEF pdpts, pdts, pts
<1>14. Frames \cap InTables \subseteq mem.used
  BY <1>1, <1>3, <1>4 DEF pdpts, pdts, pts
<1> QED BY <1>4, <1>13, <1>14

\* page_getframe, page_mapv and page_umapv (page.c:124-158, 232-292, 294-361) keep
\* the tables and the bitmap well formed for every number of frames and size of the
\* tables, as long as no page is given back that has no frame of its own.
THEOREM PagesTyped ==
    ASSUME ScreenBeyond PROVE Spec /\ [][UnmapsMapped]_vars => []TypeOK
<1>1. Formed => TypeOK
  BY Typed
<1> QED BY <1>1, AlwaysFormed, PTL

\* No frame serves twice, as a page or as a table, whatever is mapped twice
\* (page.c:226, 286) and not even after the memory has run out, as long as no page
\* is given back that has no frame of its own (page.c:337).
THEOREM FramesApart ==
    ASSUME ScreenBeyond PROVE Spec /\ [][UnmapsMapped]_vars => []NoSharedFrame
<1>1. Formed => NoSharedFrame
  BY OneUser
<1> QED BY <1>1, AlwaysFormed, PTL

\* The bitmap tells exactly the frames that are a table or mapped, in whatever
\* order pages are mapped, given back and taken for stacks, as long as each is
\* mapped once before it is given back (page.c:133, 281, 339).
THEOREM NoFrameLost ==
    ASSUME ScreenBeyond PROVE Spec /\ [][MapsFresh]_vars => []BitmapExact
<1>1. IInv => BitmapExact
  BY Hanging DEF IInv, Formed, BitmapExact
<1> QED BY <1>1, Inductive, PTL

-----------------------------------------------------------------------------
(* What a step does to the pages that are held.                            *)

\* The pages that are held at the start of a step.
LEMMA HeldPages ==
    ASSUME IInv, machine = "on"
    PROVE  /\ Held \subseteq Pages
           /\ \A v \in Held : Leaf(mem, v) # NONE
           /\ \A x \in Frames \ mem.used : \A v \in Pages : Leaf(mem, v) # x
<1>1. stacks \subseteq Frames /\ holders \in [Segments -> 0 .. SHARE]
  BY OnClients, OnSound
<1>2. Held \subseteq Pages
  BY <1>1, CallersPages, IdentityPages DEF Held
<1>3. \A v \in Held : Leaf(mem, v) # NONE
  BY <1>1, Backed DEF Held
<1>4. PICK L : Shape(mem, L)
  BY OnClients DEF Formed
<1>5. ASSUME NEW x \in Frames \ mem.used, NEW v \in Pages PROVE Leaf(mem, v) # x
  BY <1>4, <1>5, LeafUsed, Numbers
<1> QED BY <1>2, <1>3, <1>5

Stay(H) == \A u \in H : Leaf(mem', u) = Leaf(mem, u)

\* A page is held that was not, and has memory if there was some.
Joins(v) == /\ v \notin Held /\ Held' = Held \cup {v} /\ Stay(Held)
            /\ \/ Leaf(mem', v) \in Frames \ (BootFrames \cup mem.used)
               \/ Leaf(mem', v) = BAD /\ (machine' = "on" => Frames \subseteq mem'.used)

Leaves(v) == v \in Held /\ Held' = Held \ {v} /\ Stay(Held \ {v})

\* A failed walk moves no page that is held.
LEMMA FailedKeeps ==
    ASSUME IInv, machine = "on", NEW v, Failed(mem, mem', v)
    PROVE  Stay(Held) /\ Leaf(mem', v) = BAD
BY HeldPages DEF Failed, Broken, Stay

\* Mapping a segment.
LEMMA MapSegmentJoins ==
    ASSUME IInv, NEW v \in Segments, MapSegment(v), MapsFresh
    PROVE  Joins(v)
<1> DEFINE X == (Frames \ (BootFrames \cup mem.used)) \cup {BAD}
<1>1. /\ machine = "on" /\ holders[v] = 0 /\ Leaf(mem, v) = NONE /\ v \in Pages
      /\ holders' = [holders EXCEPT ![v] = 1] /\ stacks' = stacks
      /\ \/ machine' = "fault" /\ Failed(mem, mem', v)
         \/ /\ machine' = "on" /\ Gave(mem, mem', v, X, {})
            /\ Leaf(mem', v) = BAD => Frames \subseteq mem'.used
  BY MapSegmentFresh
<1>2. v \notin Held
  BY <1>1, HeldPages
<1>3. Held' = Held \cup {v}
  <2>1. holders \in [Segments -> 0 .. SHARE]
    BY <1>1, OnClients, OnSound
  <2> QED BY <1>1, <2>1 DEF Held
<1>4. CASE machine' = "fault" /\ Failed(mem, mem', v)
  BY <1>1, <1>2, <1>3, <1>4, FailedKeeps DEF Joins
<1>5. CASE machine' = "on" /\ Gave(mem, mem', v, X, {})
  <2>1. Leaf(mem', v) \in X /\ Stay(Held)
    BY <1>2, <1>5, <1>1, HeldPages DEF Gave, Stay
  <2> QED BY <1>1, <1>2, <1>3, <1>5, <2>1 DEF Joins
<1> QED BY <1>1, <1>4, <1>5

\* Giving a segment back.
LEMMA UnmapSegmentLeaves ==
    ASSUME IInv, NEW v \in Segments, UnmapSegment(v)
    PROVE  Leaves(v)
<1>1. /\ machine = "on" /\ holders[v] = 1 /\ v \in Pages
      /\ holders' = [holders EXCEPT ![v] = 0] /\ stacks' = stacks
      /\ \A u \in Pages \ {v} : Leaf(mem', u) = Leaf(mem, u)
  BY UnmapSegmentFresh DEF Gave
<1>2. v \in Held /\ Stay(Held \ {v})
  BY <1>1, HeldPages DEF Held, Stay
<1>3. Held' = Held \ {v}
  <2>1. holders \in [Segments -> 0 .. SHARE]
    BY <1>1, OnClients, OnSound
  <2>2. \A f \in stacks : Identity(f) # v
    BY <1>1, OnClients
  <2> QED BY <1>1, <2>1, <2>2 DEF Held
<1> QED BY <1>2, <1>3 DEF Leaves

\* Taking a stack.
LEMMA TakeStackJoins ==
    ASSUME IInv, TakeStack, MapsFresh
    PROVE  (Held' = Held /\ Stay(Held)) \/ \E v : Joins(v)
<1> DEFINE f == Lowest(mem)
           v == Identity(f)
<1>1. /\ machine = "on" /\ holders' = holders
      /\ \/ machine' = "fault" /\ mem' = mem /\ stacks' = stacks
         \/ /\ f \in Frames \ (BootFrames \cup mem.used) /\ f \notin stacks
            /\ stacks' = stacks \cup {f} /\ v \in Pages /\ Leaf(mem, v) = NONE
            /\ \/ machine' = "fault" /\ Failed(mem, mem', v)
               \/ machine' = "on" /\ Gave(mem, mem', v, {f}, {})
  BY TakeStackFresh
<1> HIDE DEF f
<1>2. CASE mem' = mem /\ stacks' = stacks
  BY <1>1, <1>2 DEF Held, Stay
<1>3. CASE /\ f \in Frames \ (BootFrames \cup mem.used)
           /\ stacks' = stacks \cup {f} /\ v \in Pages /\ Leaf(mem, v) = NONE
           /\ \/ machine' = "fault" /\ Failed(mem, mem', v)
              \/ machine' = "on" /\ Gave(mem, mem', v, {f}, {})
  <2>1. v \notin Held
    BY <1>1, <1>3, HeldPages
  <2>2. Held' = Held \cup {v}
    BY <1>1, <1>3 DEF Held
  <2> HIDE DEF v
  <2>3. CASE machine' = "fault" /\ Failed(mem, mem', v)
    BY <1>1, <2>1, <2>2, <2>3, FailedKeeps DEF Joins
  <2>4. CASE machine' = "on" /\ Gave(mem, mem', v, {f}, {})
    <3>1. Leaf(mem', v) = f /\ Stay(Held)
      BY <1>1, <2>1, <2>4, HeldPages DEF Gave, Stay
    <3> QED BY <1>3, <2>1, <2>2, <3>1 DEF Joins
  <2> QED BY <1>3, <2>3, <2>4
<1> QED BY <1>1, <1>2, <1>3

\* Giving a stack back.
LEMMA DropStackLeaves ==
    ASSUME IInv, NEW f \in stacks, DropStack(f)
    PROVE  Leaves(Identity(f))
<1> DEFINE v == Identity(f)
<1>1. /\ machine = "on" /\ holders' = holders /\ stacks' = stacks \ {f}
      /\ f \in Frames /\ \A u \in Pages \ {v} : Leaf(mem', u) = Leaf(mem, u)
  BY DropStackFresh DEF Gave
<1>2. v \in Held /\ Stay(Held \ {v})
  BY <1>1, HeldPages DEF Held, Stay
<1>3. v \in Segments => ~(holders[v] > 0)
  BY <1>1, OnClients
<1>4. \A g \in stacks \ {f} : Identity(g) # v
  BY <1>1, OnClients, OnSound, IdentityPages
<1>5. Held' = Held \ {v}
  BY <1>1, <1>3, <1>4 DEF Held
<1> QED BY <1>2, <1>5 DEF Leaves

\* Mapping the framebuffer: nothing is held yet.
LEMMA MapScreenKeeps ==
    ASSUME IInv, NEW v \in Screen, MapScreen(v)
    PROVE  Held' = Held /\ Stay(Held)
BY DEF MapScreen, Held, Stay

\* A step lets one page join, or one leave, or none.
LEMMA HeldStep ==
    ASSUME IInv, [Next]_vars, MapsFresh \/ UNCHANGED vars
    PROVE  \/ Held' = Held /\ Stay(Held)
           \/ \E v : Joins(v)
           \/ \E v : Leaves(v)
<1>1. CASE UNCHANGED vars
  BY <1>1 DEF vars, Held, Stay
<1>2. CASE Next /\ MapsFresh
  BY <1>2, MapSegmentJoins, UnmapSegmentLeaves, TakeStackJoins, DropStackLeaves,
     MapScreenKeeps DEF Next
<1> QED BY <1>1, <1>2

\* A page that is asked for gets memory while there is some, and keeps it until it
\* is given back: a task finds its stack at its own address (task.c:43-44).
THEOREM ClientsKeepPages ==
    ASSUME ScreenBeyond PROVE Spec /\ [][MapsFresh]_vars => HeldKeepMemory
<1> DEFINE A == machine' = "on" =>
                  /\ \A v \in Held' \ Held : Leaf(mem', v) \in Frames \/ Frames \subseteq mem'.used
                  /\ \A v \in Held' \cap Held : Leaf(mem', v) = Leaf(mem, v)
<1>1. IInv /\ [Next]_vars /\ [MapsFresh]_vars => [A]_vars
  BY HeldStep DEF Joins, Leaves, Stay
<1> QED BY <1>1, Inductive, PTL DEF Spec, HeldKeepMemory

-----------------------------------------------------------------------------
(* Paging implements the address space.                                    *)

Space == [v \in {w \in Held : Leaf(mem, w) # BAD} |-> Leaf(mem, v)]

\* The space depends on the pages that are held.
LEMMA SameSpace ==
    ASSUME Held' = Held, \A u \in Held : Leaf(mem', u) = Leaf(mem, u)
    PROVE  Space' = Space
BY DEF Space

\* A page joins the space, unless no frame was left for it.
LEMMA SpaceGrows ==
    ASSUME NEW v, v \notin Held, Held' = Held \cup {v},
           \A u \in Held : Leaf(mem', u) = Leaf(mem, u),
           NEW x, x = Leaf(mem', v), x = BAD \/ (x \in Frames \ BootFrames /\ x \notin AS!Range)
    PROVE  [AS!Next]_Space
<1>1. Space' = [u \in {w \in Held' : Leaf(mem', w) # BAD} |-> Leaf(mem', u)]
  BY DEF Space
<1>2. CASE x = BAD
  <2>1. {w \in Held' : Leaf(mem', w) # BAD} = {w \in Held : Leaf(mem, w) # BAD}
    BY <1>2
  <2>2. Space' = Space
    BY <1>1, <2>1 DEF Space
  <2> QED BY <2>2
<1>3. CASE x # BAD
  <2>1. {w \in Held' : Leaf(mem', w) # BAD} = {w \in Held : Leaf(mem, w) # BAD} \cup {v}
    BY <1>3
  <2>2. DOMAIN Space = {w \in Held : Leaf(mem, w) # BAD} /\ v \notin DOMAIN Space
        /\ \A w \in DOMAIN Space : Space[w] = Leaf(mem, w)
    BY DEF Space
  <2>3. Space' = [w \in DOMAIN Space \cup {v} |-> IF w = v THEN x ELSE Space[w]]
    BY <1>1, <2>1, <2>2
  <2>4. v \in DOMAIN Space' \ DOMAIN Space
    BY <2>2, <2>3
  <2>5. x \in Frames \ BootFrames /\ x \notin AS!Range
    BY <1>3
  <2>6. AS!Hold(v, x)
    BY <2>3, <2>5 DEF AS!Hold, Space
  <2>7. AS!Next
    BY <2>4, <2>5, <2>6 DEF AS!Next, Space
  <2> QED BY <2>7
<1> QED BY <1>2, <1>3

\* A page leaves it.
LEMMA SpaceShrinks ==
    ASSUME NEW v \in Held, Held' = Held \ {v},
           \A u \in Held \ {v} : Leaf(mem', u) = Leaf(mem, u)
    PROVE  [AS!Next]_Space
<1>1. Space' = [u \in {w \in Held' : Leaf(mem', w) # BAD} |-> Leaf(mem', u)]
  BY DEF Space
<1>2. {w \in Held' : Leaf(mem', w) # BAD} = {w \in Held : Leaf(mem, w) # BAD} \ {v}
  OBVIOUS
<1>3. DOMAIN Space = {w \in Held : Leaf(mem, w) # BAD}
      /\ \A w \in DOMAIN Space : Space[w] = Leaf(mem, w)
  BY DEF Space
<1>4. Space' = [w \in DOMAIN Space \ {v} |-> Space[w]]
  BY <1>1, <1>2, <1>3
<1>5. CASE v \notin DOMAIN Space
  <2>1. Space' = Space
    BY <1>1, <1>2, <1>3, <1>5 DEF Space
  <2> QED BY <2>1
<1>6. CASE v \in DOMAIN Space
  <2>1. AS!Drop(v)
    BY <1>4 DEF AS!Drop, Space
  <2>2. AS!Next
    BY <1>6, <2>1 DEF AS!Next, Space
  <2> QED BY <2>2
<1> QED BY <1>5, <1>6

\* Every step of paging is a step of the abstract space, or none.
LEMMA StepRefines ==
    ASSUME IInv, [Next]_vars, MapsFresh \/ UNCHANGED vars
    PROVE  [AS!Next]_Space
<1>1. CASE UNCHANGED vars
  BY <1>1 DEF vars, Space, Held
<1>2. CASE Held' = Held /\ Stay(Held)
  BY <1>2, SameSpace DEF Stay
<1>3. ASSUME NEW v, Joins(v), machine = "on" PROVE [AS!Next]_Space
  <2> DEFINE x == Leaf(mem', v)
  <2>1. x \in Frames \ mem.used => x \notin AS!Range
    BY <1>3, HeldPages DEF AS!Range
  <2>2. /\ v \notin Held /\ Held' = Held \cup {v} /\ \A u \in Held : Leaf(mem', u) = Leaf(mem, u)
        /\ x = BAD \/ (x \in Frames \ BootFrames /\ x \notin AS!Range)
    BY <1>3, <2>1 DEF Joins, Stay
  <2>3. x = Leaf(mem', v)
    OBVIOUS
  <2> HIDE DEF x
  <2> QED BY <2>2, <2>3, SpaceGrows
<1>4. ASSUME NEW v, Leaves(v) PROVE [AS!Next]_Space
  BY <1>4, SpaceShrinks DEF Leaves, Stay
<1>5. Next => machine = "on"
  BY DEF Next, MapSegment, UnmapSegment, TakeStack, DropStack, MapScreen
<1> QED BY <1>1, <1>2, <1>3, <1>4, <1>5, HeldStep

\* Paging gives every page that is held a frame of its own and leaves it there
\* until the page is given back, with every step of it.
THEOREM PagingRefines ==
    ASSUME ScreenBeyond PROVE Spec /\ [][MapsFresh]_vars => ImplementsAddressSpace
<1>1. Init => AS!Init
  <2> SUFFICES ASSUME Init PROVE AS!Init
    OBVIOUS
  <2>1. Held = {}
    BY DEF Init, Held
  <2> QED BY <2>1 DEF AS!Init
<1>2. IInv /\ [Next]_vars /\ [MapsFresh]_vars => [AS!Next]_Space
  BY StepRefines
<1> QED BY <1>1, <1>2, Inductive, PTL DEF Spec, ImplementsAddressSpace, AS!Spec, Space
=============================================================================
