----------------------------- MODULE BootProofs -----------------------------
(***************************************************************************)
(* Theorems about UefiBoot: the tables that the loader builds, whatever the*)
(* firmware refuses, are tables as the kernel's paging keeps them, and what*)
(* it has placed stays where it is.                                        *)
(***************************************************************************)
EXTENDS UefiBoot, PagingProofs

KernelPages == 0 .. (KERNELPAGES - 1)
FontPages == 0 .. (FONTPAGES - 1)

\* Where the loader is.
Early == phase \in {"open", "read", "image"}
FontPlaced == phase \in {"exit", "jump", "kernel"}
GkrnlPlaced == phase \in {"font", "mapfont"} \/ FontPlaced
ImagePlaced == phase = "gkrnl" \/ GkrnlPlaced

\* The first pages of the image are mapped, nothing is at the others and their
\* frames are free; before the first is mapped no table has been made.
ImageInv == /\ page \in KernelPages /\ (page = 0 => mem.used = BootFrames)
            /\ \A i \in KernelPages :
                  IF i < page THEN Leaf(mem, KernelPage(i)) = IMAGE + i
                  ELSE Leaf(mem, KernelPage(i)) = NONE /\ IMAGE + i \notin mem.used
            /\ GKRNL \notin mem.used

\* The font has been given, its first pages are mapped and its other frames free.
FontInv == /\ page \in FontPages /\ font \in AnyPages
           /\ \A i \in FontPages :
                 /\ font + i \in firmware \ BootFrames
                 /\ IF i < page
                      THEN font + i \in Frames /\ Leaf(mem, Identity(font + i)) = font + i
                      ELSE font + i \notin mem.used

\* The loader has no window, and maps a low page to its own frame only.
Plain(m) == /\ <<5, 0>> \notin DOMAIN m.pt
            /\ \A f \in Frames : Leaf(m, Identity(f)) \in {NONE, f}

\* The kernel has not begun.
Loading == machine = "on" /\ stacks = {} /\ holders = [v \in Segments |-> 0] /\ Plain(mem)

\* No client has the page p of the loader's, or its frame for a stack.
Unheld(p) == p[2] \notin stacks /\ (p[1] \in Segments => holders[p[1]] = 0)

BootInv ==
    /\ IInv
    /\ phase # "kernel" => Loading
    /\ Early => ImageInv /\ (phase # "image" => page = 0)
    /\ phase = "gkrnl" => page = 0 /\ GKRNL \notin mem.used
    /\ phase = "font" => page = 0
    /\ phase = "mapfont" => FontInv
    /\ FontPlaced => font \in AnyPages /\ \A i \in FontPages : font + i \in Frames \ BootFrames
    /\ machine = "on" =>
        /\ ImagePlaced => \A i \in KernelPages : Leaf(mem, KernelPage(i)) = IMAGE + i
        /\ GkrnlPlaced => Leaf(mem, Identity(GKRNL)) = GKRNL
        /\ FontPlaced => /\ \A i \in FontPages : Leaf(mem, Identity(font + i)) = font + i
                         /\ \A p \in Placed : Unheld(p)

-----------------------------------------------------------------------------
(* The loader's walk.                                                      *)

\* A walk that began with the memory m has marked the frames it took, and stands
\* at a table of level k.
WalkAt(m, w, k) ==
    /\ w = [mem |-> w.mem, at |-> w.at, taken |-> w.taken]
    /\ w.mem.used = m.used \cup w.taken /\ w.taken \cap m.used = {}
    /\ <<5, 0>> \notin DOMAIN w.mem.pt
    /\ \E M : Sound(w.mem, M, {}) /\ w.at \in DOMAIN M /\ M[w.at] = k

\* Marking frames, with the window closed, leaves the shape of the tables.
LEMMA MarkedOnly ==
    ASSUME NEW m, NEW L, Shape(m, L), Solid(m, L), NEW n, SameEntries(m, n),
           m.used \subseteq n.used, n.used \subseteq Frames, <<5, 0>> \notin DOMAIN n.pt
    PROVE  /\ Shape(n, L) /\ Solid(n, L)
           /\ Lost(n) = Lost(m) \cup ((n.used \ m.used) \ BootFrames)
BY MarkedShape

\* A frame is marked, and nothing else changes.
LEMMA FrameMarked ==
    ASSUME NEW m, NEW L, Sound(m, L, {}), NEW f \in Frames \ m.used,
           NEW n, n = [m EXCEPT !.used = @ \cup {f}], <<5, 0>> \notin DOMAIN m.pt
    PROVE  /\ SameEntries(m, n) /\ n.used = m.used \cup {f} /\ <<5, 0>> \notin DOMAIN n.pt
           /\ n.pt = m.pt /\ Memory(n) /\ Sound(n, L, {f}) /\ Kept(m, n)
<1>1. Shape(m, L) /\ Solid(m, L) /\ Lost(m) = {} /\ Memory(m) /\ BootFrames \subseteq m.used
      /\ m.used \subseteq Frames
  BY DEF Sound, Shape, Marked
<1>2. n = [used |-> m.used \cup {f}, pt |-> m.pt]
  BY <1>1 DEF Memory
<1>3. n.used = m.used \cup {f} /\ n.pt = m.pt /\ Memory(n) /\ n.used \subseteq Frames
  BY <1>1, <1>2 DEF Memory
<1>4. SameEntries(m, n) /\ <<5, 0>> \notin DOMAIN n.pt
  BY <1>3 DEF SameEntries, Entries
<1>5. /\ Shape(n, L) /\ Solid(n, L)
      /\ Lost(n) = Lost(m) \cup ((n.used \ m.used) \ BootFrames)
  <2>1. m.used \subseteq n.used
    BY <1>3
  <2> QED BY <1>1, <1>3, <1>4, <2>1, MarkedOnly
<1>6. Lost(n) = {f}
  BY <1>1, <1>3, <1>5
<1>7. Kept(m, n)
  BY <1>1, <1>3, <1>4, UnmovedKept
<1> QED BY <1>3, <1>4, <1>5, <1>6, <1>7 DEF Sound

\* An entry is written and the window stays closed.
LEMMA SetClosed ==
    ASSUME NEW m, Memory(m), <<5, 0>> \notin DOMAIN m.pt, NEW t, t # 5, NEW i, NEW x
    PROVE  <<5, 0>> \notin DOMAIN Set(m, t, i, x).pt
<1>1. Writes(m, Set(m, t, i, x), <<t, i>>, x) /\ <<5, 0>> # <<t, i>>
  BY SetWrites
<1> QED BY <1>1 DEF Writes

\* The lowest free frame follows the used ones.
LEMMA LowestBelow ==
    ASSUME NEW m, NEW n \in Nat, n < LAST, m.used \subseteq 0 .. n
    PROVE  Free(m) # {} /\ Lowest(m) \in 0 .. n + 1
<1>1. n + 1 \in Free(m)
  BY FramesAssumption DEF Free, Frames
<1>2. \E f \in Free(m) : \A g \in Free(m) : f <= g
  <2> DEFINE R == {p \in Nat \X Nat : p[1] < p[2]}
  <2>1. \A k, l \in Nat : k < l <=> <<k, l>> \in R
    OBVIOUS
  <2>2. IsWellFoundedOn(R, Nat)
    BY NatLessThanWellFounded DEF OpToRel
  <2>3. Free(m) \subseteq Nat
    BY Numbers DEF Free
  <2> HIDE DEF R
  <2>4. PICK f \in Free(m) : \A g \in Free(m) : <<g, f>> \notin R
    BY <1>1, <2>2, <2>3, WFMin
  <2>5. \A g \in Free(m) : f <= g
    <3> TAKE g \in Free(m)
    <3>1. f \in Nat /\ g \in Nat /\ ~(g < f)
      BY <2>1, <2>3, <2>4
    <3> QED BY <3>1
  <2> QED BY <2>5
<1>3. Lowest(m) \in Free(m) /\ \A g \in Free(m) : Lowest(m) <= g
  BY <1>1, <1>2 DEF Lowest
<1>4. Lowest(m) \in Nat /\ Lowest(m) <= n + 1
  BY <1>1, <1>3, Numbers DEF Free
<1> QED BY <1>1, <1>4

\* One level down: the table that is there, a new one, or none for want of frames.
LEMMA TableStep ==
    ASSUME NEW m, NEW w, NEW k \in 1 .. 3, NEW l, l = k + 1, WalkAt(m, w, k),
           NEW i \in Indices, NEW r, r = CHECK_AND_CREATE_FRAME(w, i), r.at # BAD
    PROVE  /\ WalkAt(m, r, l) /\ Kept(w.mem, r.mem) /\ r.at = Follow(r.mem, w.at, i)
           /\ Entry(w.mem, w.at, i) # NONE => r.mem = w.mem /\ r.taken = w.taken
           /\ \A n \in Nat : w.mem.used \subseteq 0 .. n /\ n < LAST => r.mem.used \subseteq 0 .. n + 1
<1> DEFINE a == w.mem
           t == w.at
           f == Lowest(a)
<1>1. PICK L : Sound(a, L, {}) /\ t \in DOMAIN L /\ L[t] = k
  BY DEF WalkAt
<1>2. /\ w = [mem |-> a, at |-> t, taken |-> w.taken] /\ a.used = m.used \cup w.taken
      /\ w.taken \cap m.used = {} /\ <<5, 0>> \notin DOMAIN a.pt
  BY DEF WalkAt
<1>3. Shape(a, L) /\ Solid(a, L) /\ t # BAD /\ t # 5 /\ t \in Frames /\ L[t] < 4
  BY <1>1, TableFrames DEF Sound
<1>4. r = IF Entry(a, t, i) # NONE THEN [w EXCEPT !.at = Entry(a, t, i)]
          ELSE [mem |-> Set(Kernel_Alloc4KPage(a), t, i, f), at |-> f,
                taken |-> w.taken \cup {f}]
  BY <1>3 DEF CHECK_AND_CREATE_FRAME
<1> HIDE DEF a, t, f
<1>5. CASE Entry(a, t, i) # NONE
  <2>1. r = [mem |-> a, at |-> Entry(a, t, i), taken |-> w.taken]
    BY <1>2, <1>4, <1>5
  <2>2. r.mem = a /\ r.taken = w.taken /\ r.at = Follow(a, t, i)
    BY <1>3, <2>1 DEF Follow
  <2>3. At(L, r.at, l)
    BY <1>1, <1>3, <2>2, OneDown DEF At
  <2>4. r.at \in DOMAIN L /\ L[r.at] = l
    BY <1>5, <2>1, <2>3 DEF At
  <2>5. WalkAt(m, r, l)
    BY <1>1, <1>2, <2>1, <2>2, <2>4 DEF WalkAt
  <2>6. Kept(a, a)
    BY DEF Kept, SamePaths
  <2>7. \A n \in Nat : 0 .. n \subseteq 0 .. n + 1
    OBVIOUS
  <2> QED BY <2>2, <2>5, <2>6, <2>7 DEF a, t
<1>6. CASE Entry(a, t, i) = NONE
  <2> DEFINE q == Kernel_Alloc4KPage(a)
             n == Set(q, t, i, f)
             M == Deeper(L, t, f)
  <2>1. r.mem = n /\ r.at = f /\ r.taken = w.taken \cup {f}
        /\ r = [mem |-> r.mem, at |-> r.at, taken |-> r.taken]
    BY <1>4, <1>6
  <2>2. Free(a) # {}
    BY <2>1 DEF f, Lowest
  <2>3. f \in Frames \ a.used
    BY <2>2, LowestFree DEF f
  <2>4. q = [a EXCEPT !.used = @ \cup {f}]
    BY <2>2 DEF Kernel_Alloc4KPage, f
  <2> HIDE DEF q
  <2>5. /\ SameEntries(a, q) /\ q.used = a.used \cup {f} /\ <<5, 0>> \notin DOMAIN q.pt
        /\ Memory(q) /\ Sound(q, L, {f}) /\ Kept(a, q)
    BY <1>1, <1>2, <2>3, <2>4, FrameMarked
  <2>6. Shape(q, L) /\ Solid(q, L) /\ Lost(q) = {f}
    BY <2>5 DEF Sound
  <2>7. /\ DiffersAt(q, n, t, i) /\ n.used = q.used
        /\ <<t, i>> \in Entries(n) /\ n.pt[<<t, i>>] = f
        /\ <<5, 0>> \in DOMAIN n.pt => n.pt[<<5, 0>>] \in Nat \cup {BAD}
        /\ Follow(n, t, i) = f
    BY <1>1, <1>3, <2>6, SetDiffers
  <2>8. <<5, 0>> \notin DOMAIN n.pt
    BY <1>3, <2>5, SetClosed
  <2> HIDE DEF n
  <2>9. <<t, i>> \notin Entries(q)
    BY <1>1, <1>3, <1>6, <2>5, NoEntry DEF SameEntries
  <2>10. f \in Lost(q) /\ f \in Frames /\ f \notin DOMAIN L
    BY <2>6, Separate
  <2>11. Links(q, L, n, t, i, f)
    BY <1>1, <1>3, <2>7, <2>9, <2>10 DEF Links
  <2>12. /\ Shape(n, M) /\ Solid(n, M) /\ Lost(n) = Lost(q) \ {f}
         /\ f \in DOMAIN M /\ M[f] = L[t] + 1
    BY SMTT(30), <2>6, <2>7, <2>10, <2>11, LinkedShape
  <2> HIDE DEF M
  <2>13. Sound(n, M, {}) /\ M[f] = l
    BY <1>1, <2>6, <2>12 DEF Sound
  <2>14. Kept(q, n)
    BY <2>6, <2>7, <2>10, <2>11, LinkAdded, Numbers DEF Kept, SamePaths, Pages
  <2>15. Kept(a, n)
    BY <2>5, <2>14, Composed
  <2>16. r.mem.used = m.used \cup r.taken /\ r.taken \cap m.used = {}
    BY <1>2, <2>1, <2>3, <2>5, <2>7
  <2>17. WalkAt(m, r, l)
    BY <2>1, <2>8, <2>12, <2>13, <2>16 DEF WalkAt
  <2>18. ASSUME NEW b \in Nat, a.used \subseteq 0 .. b, b < LAST
         PROVE  r.mem.used \subseteq 0 .. b + 1
    <3>1. f \in 0 .. b + 1
      BY <2>18, LowestBelow DEF f
    <3>2. 0 .. b \subseteq 0 .. b + 1
      OBVIOUS
    <3> QED BY <2>1, <2>5, <2>7, <2>18, <3>1, <3>2
  <2> QED BY <1>6, <2>1, <2>7, <2>15, <2>17, <2>18 DEF a, t
<1> QED BY <1>5, <1>6

\* A frame may be marked before or after an entry is written.
LEMMA MarkAndSet ==
    ASSUME NEW m, Memory(m), NEW t, NEW i, NEW x, NEW f
    PROVE  [Set(m, t, i, x) EXCEPT !.used = @ \cup {f}] = Set([m EXCEPT !.used = @ \cup {f}], t, i, x)
<1> DEFINE n == [m EXCEPT !.used = @ \cup {f}]
           s == Set(m, t, i, x)
           r == [s EXCEPT !.used = @ \cup {f}]
<1> DEFINE g == [e \in DOMAIN m.pt \cup {<<t, i>>} |-> IF e = <<t, i>> THEN x ELSE m.pt[e]]
<1>1. s = [used |-> m.used, pt |-> g]
  BY DEF Set, Memory
<1>2. n.used = m.used \cup {f} /\ n.pt = m.pt /\ Memory(n)
  BY DEF Memory
<1>3. Set(n, t, i, x) = [used |-> n.used, pt |-> g]
  <2>1. Set(n, t, i, x) = [n EXCEPT !.pt = g]
    BY <1>2 DEF Set
  <2> HIDE DEF g
  <2> QED BY <1>2, <2>1 DEF Memory
<1> HIDE DEF g
<1>4. r = [used |-> s.used \cup {f}, pt |-> s.pt]
  <2> HIDE DEF s
  <2> QED BY <1>1
<1> HIDE DEF n, s
<1>5. r = Set(n, t, i, x)
  BY <1>1, <1>2, <1>3, <1>4
<1> QED BY <1>5 DEF n, s

\* The loader's walk to a page ends at the page's last table, or at -1.
LEMMA TablesWalk ==
    ASSUME NEW L, Sound(mem, L, {}), <<5, 0>> \notin DOMAIN mem.pt, NEW v \in Pages,
           NEW w, w = Tables(v), w.at # BAD
    PROVE  /\ WalkAt(mem, w, 4) /\ Kept(mem, w.mem) /\ w.at = LastTable(w.mem, v)
           /\ LastTable(mem, v) \notin {NONE, BAD} => w.taken = {}
           /\ mem.used = BootFrames => w.mem.used \subseteq LowFrames
<1> DEFINE r0 == [mem |-> mem, at |-> ROOT, taken |-> {}]
           r1 == CHECK_AND_CREATE_FRAME(r0, v[1])
           r2 == CHECK_AND_CREATE_FRAME(r1, v[2])
<1>1. w = CHECK_AND_CREATE_FRAME(r2, v[3])
  BY DEF Tables
<1>2. v[1] \in Indices /\ v[2] \in Indices /\ v[3] \in Indices
  BY DEF Pages
<1>3. WalkAt(mem, r0, 1) /\ r0.mem = mem /\ r0.at = ROOT /\ r0.taken = {}
  <2>1. ROOT \in DOMAIN L /\ L[ROOT] = 1
    BY TableFrames, Numbers DEF Sound
  <2> QED BY <2>1 DEF WalkAt
<1> HIDE DEF r0
<1>4. \A x, i : x.at = BAD => CHECK_AND_CREATE_FRAME(x, i) = x
  BY DEF CHECK_AND_CREATE_FRAME
<1>5. r1.at # BAD /\ r2.at # BAD
  <2> HIDE DEF r1
  <2>1. r2.at # BAD
    <3> HIDE DEF r2
    <3> QED BY <1>1, <1>4
  <2>2. r1.at = BAD => r2 = r1
    BY <1>4
  <2> QED BY <2>1, <2>2
<1>6. /\ WalkAt(mem, r1, 2) /\ Kept(mem, r1.mem) /\ r1.at = Follow(r1.mem, ROOT, v[1])
      /\ Entry(mem, ROOT, v[1]) # NONE => r1.mem = mem /\ r1.taken = {}
      /\ \A n \in Nat : mem.used \subseteq 0 .. n /\ n < LAST => r1.mem.used \subseteq 0 .. n + 1
  <2>1. r1 = CHECK_AND_CREATE_FRAME(r0, v[1])
    OBVIOUS
  <2> HIDE DEF r1
  <2> QED BY <1>2, <1>3, <1>5, <2>1, TableStep
<1>7. /\ WalkAt(mem, r2, 3) /\ Kept(r1.mem, r2.mem) /\ r2.at = Follow(r2.mem, r1.at, v[2])
      /\ Entry(r1.mem, r1.at, v[2]) # NONE => r2.mem = r1.mem /\ r2.taken = r1.taken
      /\ \A n \in Nat : r1.mem.used \subseteq 0 .. n /\ n < LAST => r2.mem.used \subseteq 0 .. n + 1
  <2>1. r2 = CHECK_AND_CREATE_FRAME(r1, v[2])
    OBVIOUS
  <2> HIDE DEF r1, r2
  <2> QED BY <1>2, <1>5, <1>6, <2>1, TableStep
<1> HIDE DEF r1, r2
<1>8. /\ WalkAt(mem, w, 4) /\ Kept(r2.mem, w.mem) /\ w.at = Follow(w.mem, r2.at, v[3])
      /\ Entry(r2.mem, r2.at, v[3]) # NONE => w.mem = r2.mem /\ w.taken = r2.taken
      /\ \A n \in Nat : r2.mem.used \subseteq 0 .. n /\ n < LAST => w.mem.used \subseteq 0 .. n + 1
  BY <1>1, <1>2, <1>5, <1>7, TableStep
<1>9. Kept(mem, w.mem)
  BY <1>6, <1>7, <1>8, Composed
<1>10. r1.at \notin {NONE, BAD} /\ r2.at \notin {NONE, BAD} /\ r1.at \in Frames /\ r2.at \in Frames
  BY <1>6, <1>7, TableFrames DEF WalkAt, Sound
<1>11. w.at = LastTable(w.mem, v)
  <2>1. T2(r1.mem, v) = r1.at
    BY <1>6 DEF T2
  <2>2. T2(r2.mem, v) = r1.at /\ T2(w.mem, v) = r1.at
    BY <1>7, <1>8, <1>10, <2>1 DEF Kept, SamePaths
  <2>3. T3(r2.mem, v) = r2.at
    BY <1>7, <2>2 DEF T3
  <2>4. T3(w.mem, v) = r2.at
    BY <1>8, <1>10, <2>3 DEF Kept, SamePaths
  <2>5. LastTable(w.mem, v) = Follow(w.mem, T3(w.mem, v), v[3])
    BY DEF LastTable, T2, T3
  <2> QED BY <1>8, <2>4, <2>5
<1>12. ASSUME LastTable(mem, v) \notin {NONE, BAD}
       PROVE  w.taken = {}
  <2>1. T2(mem, v) \notin {NONE, BAD} /\ T3(mem, v) \notin {NONE, BAD}
    <3>1. T3(mem, v) \notin {NONE, BAD}
      BY <1>12, Numbers DEF LastTable, T2, T3, Follow
    <3> QED BY <3>1, Numbers DEF T2, T3, Follow
  <2>2. ROOT \in Frames
    BY Numbers DEF BootFrames
  <2>3. Entry(mem, ROOT, v[1]) = T2(mem, v)
    BY <2>2 DEF T2, Follow
  <2>4. r1.mem = mem /\ r1.taken = {} /\ r1.at = T2(mem, v)
    BY <1>6, <2>1, <2>3 DEF T2
  <2>5. Entry(r1.mem, r1.at, v[2]) = T3(mem, v)
    BY <1>10, <2>4 DEF T3, Follow
  <2>6. r2.mem = mem /\ r2.taken = {} /\ r2.at = T3(mem, v)
    BY <1>7, <2>1, <2>4, <2>5 DEF T3
  <2>7. Entry(r2.mem, r2.at, v[3]) = LastTable(mem, v)
    BY <1>10, <2>6 DEF LastTable, T2, T3, Follow
  <2> QED BY <1>8, <1>12, <2>6, <2>7
<1>13. ASSUME mem.used = BootFrames
       PROVE  w.mem.used \subseteq LowFrames
  <2>1. LAST \in Nat /\ LAST > 8
    BY FramesAssumption, BootAssumption DEF Frames, LowFrames
  <2>2. r1.mem.used \subseteq 0 .. 6 + 1
    BY <1>6, <1>13, <2>1 DEF BootFrames
  <2>3. r2.mem.used \subseteq 0 .. 7 + 1
    BY <1>7, <2>1, <2>2
  <2>4. w.mem.used \subseteq 0 .. 8 + 1
    BY <1>8, <2>1, <2>3
  <2> QED BY <2>4 DEF LowFrames
<1> QED BY <1>8, <1>9, <1>11, <1>12, <1>13

\* One page is mapped to a free frame that did not become a table: the page has
\* it, every other page is where it was, and nothing else has been marked but tables.
LEMMA PageMapped ==
    ASSUME NEW L, Sound(mem, L, {}), <<5, 0>> \notin DOMAIN mem.pt, NEW v \in Pages, Leaf(mem, v) = NONE,
           NEW f \in Frames \ mem.used, NEW next, Kernel_MapPagePhysical(v, f, next),
           \A w : w = Tables(v) /\ WalkAt(mem, w, 4) /\ Given(w.taken)
                    /\ (LastTable(mem, v) \notin {NONE, BAD} => w.taken = {})
                    /\ (mem.used = BootFrames => w.mem.used \subseteq LowFrames)
                  => f \notin w.taken
    PROVE  \/ phase' = "hlt" /\ mem' = mem
           \/ /\ phase' = next /\ Gave(mem, mem', v, {f}, {}) /\ <<5, 0>> \notin DOMAIN mem'.pt
              /\ \E T : /\ mem'.used = mem.used \cup T \cup {f} /\ Given(T) /\ T \subseteq Frames
                        /\ LastTable(mem, v) \notin {NONE, BAD} => T = {}
                        /\ mem.used = BootFrames => T \subseteq LowFrames
<1> DEFINE w == Tables(v)
           k == w.mem
           t == w.at
           q == [k EXCEPT !.used = @ \cup {f}]
           n == Set(q, t, v[4], f)
<1>1. IF t # BAD /\ Given(w.taken)
        THEN phase' = next /\ mem' = [Set(k, t, v[4], f) EXCEPT !.used = @ \cup {f}]
        ELSE phase' = "hlt" /\ mem' = mem
  BY DEF Kernel_MapPagePhysical
<1> SUFFICES ASSUME t # BAD, Given(w.taken)
             PROVE  /\ phase' = next /\ Gave(mem, mem', v, {f}, {}) /\ <<5, 0>> \notin DOMAIN mem'.pt
                    /\ \E T : /\ mem'.used = mem.used \cup T \cup {f} /\ Given(T) /\ T \subseteq Frames
                              /\ LastTable(mem, v) \notin {NONE, BAD} => T = {}
                              /\ mem.used = BootFrames => T \subseteq LowFrames
  BY <1>1
<1>3. /\ WalkAt(mem, w, 4) /\ Kept(mem, k) /\ t = LastTable(k, v)
      /\ LastTable(mem, v) \notin {NONE, BAD} => w.taken = {}
      /\ mem.used = BootFrames => k.used \subseteq LowFrames
  BY TablesWalk
<1>4. f \notin w.taken
  BY <1>3
<1> HIDE DEF w
<1>5. PICK M : Sound(k, M, {}) /\ t \in DOMAIN M /\ M[t] = 4
  BY <1>3 DEF WalkAt
<1>6. k.used = mem.used \cup w.taken /\ <<5, 0>> \notin DOMAIN k.pt /\ f \in Frames \ k.used
      /\ k.used \subseteq Frames /\ Memory(k)
  BY <1>3, <1>4, <1>5 DEF WalkAt, Sound, Shape, Marked
<1> HIDE DEF k, t
<1>7. /\ SameEntries(k, q) /\ q.used = k.used \cup {f} /\ <<5, 0>> \notin DOMAIN q.pt
      /\ Memory(q) /\ Sound(q, M, {f}) /\ Kept(k, q) /\ q.pt = k.pt
  BY <1>5, <1>6, FrameMarked, ZenonT(60)
<1> HIDE DEF q
<1>8. mem' = n /\ phase' = next
  <2> DEFINE j == v[4]
             s == Set(k, t, j, f)
             r == [s EXCEPT !.used = @ \cup {f}]
  <2>1. mem' = r /\ phase' = next
    BY <1>1 DEF w, k, t
  <2>2. r = n
    BY <1>6, MarkAndSet DEF q, j
  <2> QED BY <2>1, <2>2
<1>9. Shape(q, M) /\ Solid(q, M) /\ Lost(q) = {f}
  BY <1>7 DEF Sound
<1>10. Leaf(q, v) = NONE /\ LastTable(q, v) = t /\ Kept(mem, q)
  <2>1. Kept(mem, q)
    BY <1>3, <1>7, Composed DEF k
  <2>2. t # NONE
    BY <1>5, <1>9, TableFrames
  <2>3. LastTable(q, v) = t
    BY <1>3, <1>7, <2>2 DEF Kept, SamePaths, k, t
  <2> QED BY <2>1, <2>3 DEF Kept
<1>11. t # 5 /\ <<t, v[4]>> \notin Entries(q)
  BY <1>5, <1>9, <1>10, LeafEntry
<1>12. /\ DiffersAt(q, n, t, v[4]) /\ n.used = q.used
       /\ <<t, v[4]>> \in Entries(n) /\ n.pt[<<t, v[4]>>] = f
       /\ <<5, 0>> \in DOMAIN n.pt => n.pt[<<5, 0>>] \in Nat \cup {BAD}
  BY <1>5, <1>9, <1>11, SetDiffers
<1>13. <<5, 0>> \notin DOMAIN n.pt
  BY <1>7, <1>11, SetClosed
<1> HIDE DEF n
<1>14. /\ Shape(n, M) /\ Solid(n, M) /\ Lost(n) = {} /\ Leaf(n, v) = f
       /\ \A u \in Pages \ {v} : Leaf(n, u) = Leaf(q, u)
  <2>1. f \in Lost(q) /\ Lost(q) \ {f} = {}
    BY <1>9
  <2>2. t = LastTable(q, v)
    BY <1>10
  <2>3. /\ Shape(n, M) /\ (Solid(q, M) => Solid(n, M)) /\ Lost(n) = Lost(q) \ {f}
        /\ Leaf(n, v) = f /\ \A u \in Pages \ {v} : Leaf(n, u) = Leaf(q, u)
    BY SMTT(30), <1>5, <1>9, <1>11, <1>12, <2>1, <2>2, MappedShape
  <2> QED BY <1>9, <2>1, <2>3
<1>15. Gave(mem, n, v, {f}, {})
  <2>1. Sound(n, M, {})
    BY <1>14 DEF Sound
  <2>2. \A u \in Pages \ {v} : Leaf(n, u) = Leaf(mem, u)
    BY <1>10, <1>14 DEF Kept
  <2> QED BY <1>14, <2>1, <2>2 DEF Gave
<1>16. mem'.used = mem.used \cup w.taken \cup {f}
  BY <1>6, <1>7, <1>8, <1>12
<1>17. w.taken \subseteq Frames /\ (mem.used = BootFrames => w.taken \subseteq LowFrames)
  BY <1>3, <1>6 DEF k
<1> QED BY <1>3, <1>8, <1>13, <1>15, <1>16, <1>17

-----------------------------------------------------------------------------
(* What the loader places.                                                 *)

\* The loop over n pages.
LEMMA NextPage ==
    ASSUME NEW n \in Nat \ {0}, NEW p \in 0 .. (n - 1)
    PROVE  (p + 1) % n = IF p + 1 = n THEN 0 ELSE p + 1
<1>1. CASE p + 1 = n
  <2>1. n % n = 0
    <3>1. n \div n \in Nat /\ n % n \in 0 .. n - 1 /\ n = n * (n \div n) + (n % n)
      BY Division
    <3> DEFINE q == n \div n
    <3>2. CASE q = 0
      <4>1. n * q = 0
        BY <3>2
      <4> QED BY <3>1, <4>1
    <3>3. CASE q > 0
      <4>1. q - 1 \in Nat /\ q \in Nat
        BY <3>1, <3>3
      <4> HIDE DEF q
      <4>2. n * q = n * (q - 1) + n /\ n * (q - 1) \in Nat
        BY <4>1
      <4> QED BY <3>1, <4>2 DEF q
    <3> QED BY <3>1, <3>2, <3>3
  <2> QED BY <1>1, <2>1
<1>2. CASE p + 1 # n
  <2>1. p + 1 \in Nat /\ n \in Nat /\ n > 0 /\ p + 1 < n
    BY <1>2
  <2> QED BY <1>2, <2>1, Division
<1> QED BY <1>1, <1>2

\* The pages and the frames of the image, gkrnl.bin and the font.
LEMMA LoadedPages ==
    /\ BootFrames \subseteq LowFrames
    /\ \A i \in KernelPages :
          /\ KernelPage(i) \in Pages
          /\ \A f \in Frames : KernelPage(i) # Identity(f)
          /\ \A j \in KernelPages : KernelPage(i) = KernelPage(j) => i = j
          /\ IMAGE + i \in Frames \ LowFrames /\ IMAGE + i # GKRNL
          /\ \A j \in KernelPages : IMAGE + i = IMAGE + j => i = j
    /\ GKRNL \in Frames \ LowFrames /\ Identity(GKRNL) \in Pages
    /\ AnyPages \subseteq Nat
    /\ KERNELPAGES \in Nat \ {0} /\ FONTPAGES \in Nat \ {0} /\ IMAGE \in Nat
    /\ 0 \in KernelPages /\ 0 \in FontPages
<1>1. /\ KERNELPAGES \in 1 .. (TOP + 1) /\ FONTPAGES \in Nat \ {0} /\ AnyPages \subseteq Nat
      /\ IMAGE \in Frames /\ Image \subseteq Frames \ LowFrames
      /\ GKRNL \in Frames \ (Image \cup LowFrames)
      /\ TOP \in Nat /\ TOP > 6 /\ Frames \subseteq Nat
  BY BootAssumption, Numbers
<1>2. BootFrames \subseteq LowFrames
  BY DEF BootFrames, LowFrames
<1>3. ASSUME NEW i \in KernelPages
      PROVE  /\ KernelPage(i) \in Pages
             /\ \A f \in Frames : KernelPage(i) # Identity(f)
             /\ \A j \in KernelPages : KernelPage(i) = KernelPage(j) => i = j
             /\ IMAGE + i \in Frames \ LowFrames /\ IMAGE + i # GKRNL
             /\ \A j \in KernelPages : IMAGE + i = IMAGE + j => i = j
  <2>1. i \in Indices /\ TOP \in Indices /\ TOP - 1 \in Indices /\ 0 \in Indices
    BY <1>1, <1>3 DEF KernelPages, Indices
  <2>2. KernelPage(i) \in Pages
    BY <1>1, <2>1 DEF KernelPage, Pages, InWindow
  <2>3. ASSUME NEW f \in Frames PROVE KernelPage(i) # Identity(f)
    BY <1>1 DEF KernelPage, Identity
  <2>4. \A j \in KernelPages : KernelPage(i) = KernelPage(j) => i = j
    BY DEF KernelPage
  <2>5. IMAGE + i \in Image
    BY <1>1, <1>3 DEF Image, KernelPages
  <2>6. \A j \in KernelPages : IMAGE + i = IMAGE + j => i = j
    BY <1>1, <1>3 DEF KernelPages
  <2> QED BY <1>1, <2>2, <2>3, <2>4, <2>5, <2>6
<1>4. GKRNL \in Frames \ LowFrames /\ Identity(GKRNL) \in Pages
  BY <1>1, IdentityPages
<1>5. 0 \in KernelPages /\ 0 \in FontPages
  BY <1>1 DEF KernelPages, FontPages
<1>6. KERNELPAGES \in Nat \ {0} /\ IMAGE \in Nat
  BY <1>1
<1> QED BY <1>1, <1>2, <1>3, <1>4, <1>5, <1>6

\* A page gets its frame while no client has any: the kernel's invariant is kept.
LEMMA LoaderMaps ==
    ASSUME IInv, Loading, NEW v \in Pages,
           NEW f \in Frames, v = Identity(f) \/ (\A g \in Frames : v # Identity(g)),
           Gave(mem, mem', v, {f}, {}), <<5, 0>> \notin DOMAIN mem'.pt,
           holders' = holders, stacks' = stacks, machine' = machine
    PROVE  IInv' /\ Loading'
<1>1. /\ \E L : Sound(mem', L, {})
      /\ Leaf(mem', v) = f /\ \A u \in Pages \ {v} : Leaf(mem', u) = Leaf(mem, u)
  BY DEF Gave
<1>2. ASSUME NEW g \in Frames PROVE Leaf(mem', Identity(g)) \in {NONE, g}
  <2>1. Leaf(mem, Identity(g)) \in {NONE, g} /\ Identity(g) \in Pages
    BY IdentityPages DEF Loading, Plain
  <2>2. CASE Identity(g) = v
    <3>1. g = f
      BY <2>2, IdentityPages
    <3> QED BY <1>1, <2>2, <3>1
  <2>3. CASE Identity(g) # v
    BY <1>1, <2>1, <2>3
  <2> QED BY <2>2, <2>3
<1>3. Loading'
  BY <1>2 DEF Loading, Plain
<1>4. holders' = [s \in Segments |-> 0] /\ stacks' = {} /\ machine' = "on"
      /\ 0 \in 0 .. SHARE
  BY FramesAssumption DEF Loading
<1>5. Clients'
  BY <1>4 DEF Clients
<1>6. Formed'
  BY <1>1, <1>4 DEF Formed, Sound
<1>7. Lost(mem') = {}
  BY <1>1 DEF Sound
<1> QED BY <1>3, <1>5, <1>6, <1>7 DEF IInv

\* A step that changes no memory keeps the kernel's invariant.
LEMMA LoaderRests ==
    ASSUME IInv, mem' = mem, holders' = holders, stacks' = stacks, machine' = machine
    PROVE  IInv' /\ (Loading => Loading')
BY DEF IInv, Formed, Clients, Loading

\* What the loader's walk may assume.
LEMMA LoaderSound ==
    ASSUME IInv, Loading
    PROVE  /\ \E L : Sound(mem, L, {})
           /\ machine = "on" /\ stacks = {} /\ holders = [v \in Segments |-> 0]
           /\ <<5, 0>> \notin DOMAIN mem.pt
           /\ \A f \in Frames : Leaf(mem, Identity(f)) \in {NONE, f}
<1>1. machine = "on" /\ Formed /\ Lost(mem) = {}
  BY OnClients DEF Loading
<1> QED BY <1>1, OnSound DEF Loading, Plain

\* One turn of the loader's loop over pages.
LEMMA LoaderTurn ==
    ASSUME IInv, Loading, NEW v \in Pages,
           NEW f \in Frames \ mem.used, v = Identity(f) \/ (\A g \in Frames : v # Identity(g)),
           Leaf(mem, v) = NONE,
           NEW next, Kernel_MapPagePhysical(v, f, next),
           \/ LastTable(mem, v) \notin {NONE, BAD}
           \/ mem.used = BootFrames /\ f \notin LowFrames
           \/ f \in firmware,
           holders' = holders, stacks' = stacks, machine' = machine
    PROVE  /\ IInv' /\ Loading'
           /\ \/ phase' = "hlt" /\ mem' = mem
              \/ /\ phase' = next /\ Leaf(mem', v) = f
                 /\ \A u \in Pages \ {v} : Leaf(mem', u) = Leaf(mem, u)
                 /\ \E T : /\ mem'.used = mem.used \cup T \cup {f} /\ Given(T)
                           /\ LastTable(mem, v) \notin {NONE, BAD} => T = {}
                           /\ mem.used = BootFrames => T \subseteq LowFrames
<1>1. PICK L : Sound(mem, L, {})
  BY LoaderSound
<1>2. <<5, 0>> \notin DOMAIN mem.pt
  BY LoaderSound
<1>3. ASSUME NEW w, w = Tables(v), WalkAt(mem, w, 4), Given(w.taken),
             LastTable(mem, v) \notin {NONE, BAD} => w.taken = {},
             mem.used = BootFrames => w.mem.used \subseteq LowFrames
      PROVE  f \notin w.taken
  <2>1. w.taken \subseteq w.mem.used
    BY <1>3 DEF WalkAt
  <2> QED BY <1>3, <2>1 DEF Given
<1>4. \/ phase' = "hlt" /\ mem' = mem
      \/ /\ phase' = next /\ Gave(mem, mem', v, {f}, {}) /\ <<5, 0>> \notin DOMAIN mem'.pt
         /\ \E T : /\ mem'.used = mem.used \cup T \cup {f} /\ Given(T) /\ T \subseteq Frames
                   /\ LastTable(mem, v) \notin {NONE, BAD} => T = {}
                   /\ mem.used = BootFrames => T \subseteq LowFrames
  BY <1>1, <1>2, <1>3, PageMapped
<1>5. CASE phase' = "hlt" /\ mem' = mem
  BY <1>5, LoaderRests
<1>6. CASE phase' = next /\ Gave(mem, mem', v, {f}, {}) /\ <<5, 0>> \notin DOMAIN mem'.pt
  <2>1. Leaf(mem', v) = f /\ \A u \in Pages \ {v} : Leaf(mem', u) = Leaf(mem, u)
    BY <1>6 DEF Gave
  <2>2. IInv' /\ Loading'
    BY <1>6, LoaderMaps
  <2> QED BY <1>4, <1>6, <2>1, <2>2, <1>5
<1> QED BY <1>4, <1>5, <1>6

-----------------------------------------------------------------------------
(* The invariant.                                                          *)

\* Kernel_createNewPage leaves nothing but the low pages mapped.
LEMMA BootInitOK ==
    ASSUME BootInit
    PROVE  BootInv
<1>1. IInv /\ machine = "on" /\ stacks = {} /\ holders = [v \in Segments |-> 0]
      /\ mem.used = BootFrames /\ phase = "open" /\ page = 0 /\ DOMAIN mem.pt = BootEntries
  BY InitOK DEF BootInit, Init
<1>2. Loading
  <2>1. <<5, 0>> \notin BootEntries
    BY DEF BootEntries
  <2> QED BY <1>1, <2>1, BootIdentity DEF BootInit, Loading, Plain
<1>3. \A i \in KernelPages : Leaf(mem, KernelPage(i)) = NONE
  <2> TAKE i \in KernelPages
  <2> DEFINE v == KernelPage(i)
  <2>1. v \in Pages /\ \A f \in BootFrames : v # Identity(f)
    BY LoadedPages, Numbers
  <2> HIDE DEF v
  <2>2. Leaf(mem, v) # NONE => v[4] \in BootFrames /\ v = Identity(v[4])
    BY <2>1, BootTables DEF BootInit
  <2> QED BY <2>1, <2>2 DEF v
<1>4. ImageInv
  <2>1. \A i \in KernelPages : ~(i < 0) /\ IMAGE + i \notin BootFrames
    BY LoadedPages DEF KernelPages
  <2> QED BY <1>1, <1>3, <2>1, LoadedPages DEF ImageInv
<1> QED BY <1>1, <1>2, <1>4 DEF BootInv, Early, FontPlaced, GkrnlPlaced, ImagePlaced

\* A step before the kernel runs that leaves the loader where it stops.
LEMMA Halts ==
    ASSUME BootInv, phase # "kernel", phase' \in {"hlt", "wild"}, mem' = mem,
           holders' = holders, stacks' = stacks, machine' = machine
    PROVE  BootInv'
<1>1. IInv' /\ Loading'
  BY LoaderRests DEF BootInv
<1> QED BY <1>1 DEF BootInv, Early, FontPlaced, GkrnlPlaced, ImagePlaced

\* The loader opens its file system, and any file.
LEMMA GetRootOK ==
    ASSUME BootInv, GetRoot \/ OpenFile
    PROVE  BootInv'
<1>1. /\ mem' = mem /\ holders' = holders /\ stacks' = stacks /\ machine' = machine
      /\ page' = page /\ phase # "kernel"
  BY DEF GetRoot, OpenFile, Rest
<1>2. CASE phase' = "hlt"
  BY <1>1, <1>2, Halts
<1>3. CASE phase = "open" /\ phase' = "read"
  <2>1. IInv' /\ Loading'
    BY <1>1, LoaderRests DEF BootInv
  <2>2. ImageInv'
    BY <1>1, <1>3 DEF BootInv, Early, ImageInv
  <2> QED BY <1>1, <1>3, <2>1, <2>2 DEF BootInv, Early, FontPlaced, GkrnlPlaced, ImagePlaced
<1> QED BY <1>2, <1>3 DEF GetRoot, OpenFile

\* The firmware gives the image's pages or stops the loader.
LEMMA ReadImageOK ==
    ASSUME BootInv, ReadImage
    PROVE  BootInv'
<1>1. /\ mem' = mem /\ holders' = holders /\ stacks' = stacks /\ machine' = machine
      /\ page' = page /\ phase = "read" /\ phase' \in {"image", "hlt"}
  BY DEF ReadImage, Rest, AllocatePages
<1>2. CASE phase' = "hlt"
  BY <1>1, <1>2, Halts
<1>3. CASE phase' = "image"
  <2>1. IInv' /\ Loading'
    BY <1>1, LoaderRests DEF BootInv
  <2>2. ImageInv'
    BY <1>1 DEF BootInv, Early, ImageInv
  <2> QED BY <1>1, <1>3, <2>1, <2>2 DEF BootInv, Early, FontPlaced, GkrnlPlaced, ImagePlaced
<1> QED BY <1>1, <1>2, <1>3

\* The kernel's pages are mapped one by one; the three tables they need are made
\* for the first, below the image.
LEMMA MapImageOK ==
    ASSUME BootInv, MapImage
    PROVE  BootInv'
<1> DEFINE v == KernelPage(page)
           f == IMAGE + page
           next == IF page' = 0 THEN "gkrnl" ELSE "image"
<1>1. /\ holders' = holders /\ stacks' = stacks /\ machine' = machine
      /\ page' = (page + 1) % KERNELPAGES /\ phase = "image"
      /\ Kernel_MapPagePhysical(v, f, next)
  BY DEF MapImage, Rest
<1>2. ImageInv /\ IInv /\ Loading /\ page \in KernelPages
  BY <1>1 DEF BootInv, Early, ImageInv
<1>3. page' = IF page + 1 = KERNELPAGES THEN 0 ELSE page + 1
  <2>1. KERNELPAGES \in Nat \ {0} /\ page \in 0 .. (KERNELPAGES - 1)
    BY <1>2, LoadedPages DEF KernelPages
  <2> QED BY <1>1, <2>1, NextPage
<1>4. /\ v \in Pages /\ \A g \in Frames : v # Identity(g)
      /\ f \in Frames \ LowFrames /\ Leaf(mem, v) = NONE /\ f \notin mem.used
  <2>1. ~(page < page)
    BY <1>2 DEF KernelPages
  <2>2. Leaf(mem, v) = NONE /\ f \notin mem.used
    BY <1>2, <2>1 DEF ImageInv
  <2> QED BY <1>2, <2>2, LoadedPages
<1>5. page > 0 => LastTable(mem, v) \notin {NONE, BAD}
  <2> SUFFICES ASSUME page > 0 PROVE LastTable(mem, v) \notin {NONE, BAD}
    OBVIOUS
  <2>1. LastTable(mem, v) = LastTable(mem, KernelPage(0))
    BY DEF LastTable, KernelPage
  <2>2. Leaf(mem, KernelPage(0)) = IMAGE
    BY <1>2, LoadedPages DEF ImageInv
  <2>3. Leaf(mem, KernelPage(0)) \notin {NONE, BAD}
    BY <2>2, LoadedPages, Numbers
  <2>4. LastTable(mem, KernelPage(0)) \notin {NONE, BAD}
    BY <2>3, Numbers DEF Leaf, Follow
  <2> QED BY <2>1, <2>4
<1>6. page = 0 => mem.used = BootFrames
  BY <1>2 DEF ImageInv
<1>7. page = 0 \/ page > 0
  BY <1>2 DEF KernelPages
<1> HIDE DEF v, f, next
<1>8. /\ IInv' /\ Loading'
      /\ \/ phase' = "hlt" /\ mem' = mem
         \/ /\ phase' = next /\ Leaf(mem', v) = f
            /\ \A u \in Pages \ {v} : Leaf(mem', u) = Leaf(mem, u)
            /\ \E T : /\ mem'.used = mem.used \cup T \cup {f} /\ Given(T)
                      /\ LastTable(mem, v) \notin {NONE, BAD} => T = {}
                      /\ mem.used = BootFrames => T \subseteq LowFrames
  BY <1>1, <1>2, <1>4, <1>5, <1>6, <1>7, LoaderTurn
<1>9. CASE phase' = "hlt" /\ mem' = mem
  BY <1>1, <1>9, Halts
<1>10. CASE phase' = next /\ Leaf(mem', v) = f
  <2>1. PICK T : /\ mem'.used = mem.used \cup T \cup {f} /\ T \subseteq LowFrames
                 /\ \A u \in Pages \ {v} : Leaf(mem', u) = Leaf(mem, u)
    <3>1. next # "hlt"
      BY DEF next
    <3> QED BY <1>5, <1>6, <1>7, <1>8, <1>10, <3>1
  <2>2. \A i \in KernelPages :
           IF i < page + 1 THEN Leaf(mem', KernelPage(i)) = IMAGE + i
           ELSE Leaf(mem', KernelPage(i)) = NONE /\ IMAGE + i \notin mem'.used
    <3> TAKE i \in KernelPages
    <3>1. CASE i = page
      BY <1>2, <1>10, <3>1 DEF v, f, KernelPages
    <3>2. CASE i # page
      <4>1. KernelPage(i) \in Pages \ {v} /\ IMAGE + i # f /\ IMAGE + i \notin LowFrames
        BY <1>2, <3>2, LoadedPages DEF v, f
      <4>2. i < page + 1 <=> i < page
        BY <1>2, <3>2 DEF KernelPages
      <4> QED BY <1>2, <2>1, <4>1, <4>2 DEF ImageInv
    <3> QED BY <3>1, <3>2
  <2>3. GKRNL \notin mem'.used
    BY <1>2, <2>1, LoadedPages DEF ImageInv, f
  <2>4. CASE page + 1 = KERNELPAGES
    <3>1. page' = 0 /\ phase' = "gkrnl"
      BY <1>3, <1>10, <2>4 DEF next
    <3>2. \A i \in KernelPages : Leaf(mem', KernelPage(i)) = IMAGE + i
      <4>1. \A i \in KernelPages : i < page + 1
        BY <2>4, LoadedPages DEF KernelPages
      <4> QED BY <2>2, <4>1
    <3> QED BY <1>1, <1>2, <1>8, <2>3, <3>1, <3>2
            DEF BootInv, Early, FontPlaced, GkrnlPlaced, ImagePlaced
  <2>5. CASE page + 1 # KERNELPAGES
    <3>1. page' = page + 1 /\ page' # 0 /\ page' \in KernelPages /\ phase' = "image"
      BY <1>2, <1>3, <1>10, <2>5, LoadedPages DEF next, KernelPages
    <3>2. ImageInv'
      BY <2>2, <2>3, <3>1 DEF ImageInv
    <3> QED BY <1>1, <1>2, <1>8, <3>1, <3>2
            DEF BootInv, Early, FontPlaced, GkrnlPlaced, ImagePlaced
  <2> QED BY <2>4, <2>5
<1> QED BY <1>8, <1>9, <1>10

\* gkrnl.bin lies behind the first table, which is there.
LEMMA LoadGkrnlOK ==
    ASSUME BootInv, LoadGkrnl
    PROVE  BootInv'
<1> DEFINE v == Identity(GKRNL)
<1>1. /\ holders' = holders /\ stacks' = stacks /\ machine' = machine /\ page' = page
      /\ phase = "gkrnl" /\ Kernel_MapPagePhysical(v, GKRNL, "font")
  BY DEF LoadGkrnl, Rest
<1>2. /\ IInv /\ Loading /\ page = 0 /\ GKRNL \in Frames \ mem.used
      /\ \A i \in KernelPages : Leaf(mem, KernelPage(i)) = IMAGE + i
  <2>1. machine = "on"
    BY <1>1 DEF BootInv, Loading
  <2> QED BY <1>1, <2>1, LoadedPages DEF BootInv, ImagePlaced
<1>3. v \in Pages
  BY LoadedPages
<1>4. PICK L : Sound(mem, L, {})
  BY <1>2, LoaderSound
<1>5. LastTable(mem, v) = 4
  <2>1. v[1] = 0 /\ v[2] = 0 /\ v[3] = GKRNL \div (TOP + 1)
    BY DEF Identity
  <2>2. GKRNL \in Nat /\ TOP + 1 \in Nat /\ TOP + 1 > 0 /\ GKRNL < TOP + 1
    BY BootAssumption, Numbers
  <2>3. v[3] = 0
    BY <2>1, <2>2, Division
  <2> HIDE DEF v
  <2> QED BY <1>4, <2>1, <2>3, BootPath DEF Sound
<1> HIDE DEF v
<1>6. LastTable(mem, v) \notin {NONE, BAD}
  BY <1>5, Numbers
<1>7. Leaf(mem, v) = NONE
  <2>1. Leaf(mem, v) \in {NONE, GKRNL}
    BY <1>2, LoaderSound DEF v
  <2>2. GKRNL \notin {NONE, BAD}
    BY <1>2, Numbers
  <2> QED BY <1>2, <1>3, <1>4, <2>1, <2>2, LeafUsed DEF Sound
<1>8. /\ IInv' /\ Loading'
      /\ \/ phase' = "hlt" /\ mem' = mem
         \/ /\ phase' = "font" /\ Leaf(mem', v) = GKRNL
            /\ \A u \in Pages \ {v} : Leaf(mem', u) = Leaf(mem, u)
  <2>1. v = Identity(GKRNL)
    BY DEF v
  <2> QED BY <1>1, <1>2, <1>3, <1>6, <1>7, <2>1, LoaderTurn
<1>9. CASE phase' = "hlt" /\ mem' = mem
  BY <1>1, <1>9, Halts
<1>10. CASE phase' = "font" /\ Leaf(mem', v) = GKRNL
  <2>1. \A i \in KernelPages : Leaf(mem', KernelPage(i)) = IMAGE + i
    <3>1. \A i \in KernelPages : KernelPage(i) \in Pages \ {v}
      BY <1>2, LoadedPages DEF v
    <3>2. \A u \in Pages \ {v} : Leaf(mem', u) = Leaf(mem, u)
      BY <1>8, <1>10
    <3> QED BY <1>2, <3>1, <3>2
  <2> QED BY <1>1, <1>2, <1>8, <1>10, <2>1
          DEF BootInv, Early, FontPlaced, GkrnlPlaced, ImagePlaced, v
<1> QED BY <1>8, <1>9, <1>10

\* The firmware gives the font frames that nothing uses, or stops the loader: it
\* knows of the others that are in use.
LEMMA ReadFontOK ==
    ASSUME BootInv, ReadFont, FontApart'
    PROVE  BootInv'
<1>1. /\ mem' = mem /\ holders' = holders /\ stacks' = stacks /\ machine' = machine
      /\ page' = page /\ phase = "font" /\ font' \in AnyPages
      /\ FontFrames' \cap Asked = {} /\ AllocatePages(FontFrames', "mapfont")
  BY DEF ReadFont, Rest
<1>2. CASE phase' = "hlt"
  BY <1>1, <1>2, Halts
<1>3. CASE phase' # "hlt"
  <2>1. phase' = "mapfont" /\ firmware' = firmware \cup FontFrames'
    BY <1>1, <1>3 DEF AllocatePages
  <2>2. IInv' /\ Loading' /\ page = 0 /\ machine = "on"
    BY <1>1, LoaderRests DEF BootInv, Loading
  <2>3. font' \in Nat
    BY <1>1, LoadedPages
  <2>4. \A i \in FontPages : font' + i \in FontFrames'
    <3>1. \A g, n \in Nat : \A i \in 0 .. (n - 1) : g + i \in g .. (g + n - 1)
      OBVIOUS
    <3> QED BY <2>3, <3>1, LoadedPages DEF FontPages, FontFrames
  <2>5. FontFrames' \cap mem.used = {}
    <3>1. FontFrames' \cap ({0, GKRNL} \cup Image) = {}
      BY <2>3, Numbers DEF FontApart
    <3>2. Unasked \subseteq {0, GKRNL} \cup Image
      <4>1. IMAGE \in Nat /\ FILEPAGES \in Nat
        BY BootAssumption, LoadedPages
      <4> QED BY <4>1 DEF Unasked, Image
    <3> QED BY <1>1, <3>1, <3>2 DEF Asked
  <2>6. BootFrames \subseteq mem.used
    <3>1. PICK L : Sound(mem, L, {})
      BY <1>1, LoaderSound DEF BootInv
    <3> QED BY <3>1 DEF Sound, Shape, Marked
  <2>7. FontInv'
    <3>1. ASSUME NEW i \in FontPages
          PROVE  font' + i \in firmware' \ BootFrames /\ ~(i < 0) /\ font' + i \notin mem.used
      BY <2>1, <2>4, <2>5, <2>6 DEF FontPages
    <3> QED BY <1>1, <2>2, <3>1, LoadedPages DEF FontInv
  <2> QED BY <1>1, <2>1, <2>2, <2>7
          DEF BootInv, Early, FontPlaced, GkrnlPlaced, ImagePlaced
<1> QED BY <1>2, <1>3

\* The font's pages are mapped one by one; no table is made of its frames, since
\* the firmware has given them out.
LEMMA MapFontOK ==
    ASSUME BootInv, MapFont
    PROVE  BootInv'
<1> DEFINE f == font + page
           v == Identity(f)
           next == IF page' = 0 THEN "exit" ELSE "mapfont"
<1>1. /\ holders' = holders /\ stacks' = stacks /\ machine' = machine
      /\ firmware' = firmware /\ font' = font
      /\ page' = (page + 1) % FONTPAGES /\ phase = "mapfont"
      /\ IF f \in Frames THEN Kernel_MapPagePhysical(v, f, next)
                         ELSE phase' = "wild" /\ mem' = mem
  BY DEF MapFont, Rest
<1>2. /\ FontInv /\ IInv /\ Loading
      /\ page \in FontPages /\ font \in AnyPages /\ font \in Nat
      /\ \A i \in KernelPages : Leaf(mem, KernelPage(i)) = IMAGE + i
      /\ Leaf(mem, Identity(GKRNL)) = GKRNL
  <2>1. FontInv /\ IInv /\ Loading /\ machine = "on"
    BY <1>1 DEF BootInv, Loading
  <2>2. font \in Nat
    BY <2>1, LoadedPages DEF FontInv
  <2> QED BY <1>1, <2>1, <2>2 DEF BootInv, GkrnlPlaced, ImagePlaced, FontInv
<1>3. page' = IF page + 1 = FONTPAGES THEN 0 ELSE page + 1
  <2>1. FONTPAGES \in Nat \ {0} /\ page \in 0 .. (FONTPAGES - 1)
    BY <1>2, LoadedPages DEF FontPages
  <2> QED BY <1>1, <2>1, NextPage
<1>4. f \in firmware /\ f \notin mem.used
  BY <1>2 DEF FontInv, FontPages
<1> HIDE DEF f
<1>5. ASSUME f \in Frames
      PROVE  v \in Pages /\ Leaf(mem, v) = NONE
  <2>1. PICK L : Sound(mem, L, {})
    BY <1>2, LoaderSound
  <2>2. v \in Pages /\ Leaf(mem, v) \in {NONE, f}
    BY <1>2, <1>5, IdentityPages, LoaderSound
  <2>3. f \notin {NONE, BAD}
    BY <1>5, Numbers
  <2> HIDE DEF v
  <2> QED BY <1>4, <1>5, <2>1, <2>2, <2>3, LeafUsed DEF Sound
<1>6. CASE f \notin Frames
  BY <1>1, <1>6, Halts
<1> SUFFICES ASSUME f \in Frames PROVE BootInv'
  BY <1>6
<1>7. v = Identity(f)
  OBVIOUS
<1> HIDE DEF v, next
<1>8. /\ IInv' /\ Loading'
      /\ \/ phase' = "hlt" /\ mem' = mem
         \/ /\ phase' = next /\ Leaf(mem', v) = f
            /\ \A u \in Pages \ {v} : Leaf(mem', u) = Leaf(mem, u)
            /\ \E T : mem'.used = mem.used \cup T \cup {f} /\ Given(T)
  BY <1>1, <1>2, <1>4, <1>5, <1>6, <1>7, LoaderTurn
<1>9. CASE phase' = "hlt" /\ mem' = mem
  BY <1>1, <1>9, Halts
<1>10. CASE phase' = next /\ Leaf(mem', v) = f
  <2>1. PICK T : /\ mem'.used = mem.used \cup T \cup {f} /\ T \cap firmware = {}
                 /\ \A u \in Pages \ {v} : Leaf(mem', u) = Leaf(mem, u)
    <3>1. next # "hlt"
      BY DEF next
    <3> QED BY <1>8, <1>10, <3>1 DEF Given
  <2>2. \A i \in FontPages : /\ font + i \in firmware \ BootFrames
                             /\ IF i < page + 1
                                  THEN /\ font + i \in Frames
                                       /\ Leaf(mem', Identity(font + i)) = font + i
                                  ELSE font + i \notin mem'.used
    <3> TAKE i \in FontPages
    <3>1. CASE i = page
      <4>1. font + i = f /\ font + i \in firmware \ BootFrames /\ i < page + 1
        BY <1>2, <3>1 DEF f, FontPages, FontInv
      <4> QED BY <1>7, <1>10, <4>1
    <3>2. CASE i # page
      <4>1. font + i # f /\ font + i \in firmware \ BootFrames
        BY <1>2, <3>2 DEF f, FontPages, FontInv
      <4>2. i < page + 1 <=> i < page
        BY <1>2, <3>2 DEF FontPages
      <4>3. CASE i < page
        <5>1. font + i \in Frames /\ Leaf(mem, Identity(font + i)) = font + i
          BY <1>2, <4>3 DEF FontInv
        <5>2. Identity(font + i) \in Pages \ {v}
          BY <1>7, <4>1, <5>1, IdentityPages
        <5> QED BY <2>1, <4>1, <4>2, <4>3, <5>1, <5>2
      <4>4. CASE ~(i < page)
        <5>1. font + i \notin mem.used
          BY <1>2, <4>4 DEF FontInv
        <5> QED BY <2>1, <4>1, <4>2, <4>4, <5>1
      <4> QED BY <4>3, <4>4
    <3> QED BY <3>1, <3>2
  <2>3. /\ \A i \in KernelPages : Leaf(mem', KernelPage(i)) = IMAGE + i
        /\ Leaf(mem', Identity(GKRNL)) = GKRNL
    <3>1. \A i \in KernelPages : KernelPage(i) \in Pages \ {v}
      BY <1>7, LoadedPages
    <3>2. Identity(GKRNL) \in Pages \ {v}
      BY <1>2, <1>5, LoadedPages, Numbers
    <3> QED BY <1>2, <2>1, <3>1, <3>2
  <2>4. CASE page + 1 = FONTPAGES
    <3>1. page' = 0 /\ phase' = "exit"
      BY <1>3, <1>10, <2>4 DEF next
    <3>2. \A i \in FontPages : Leaf(mem', Identity(font + i)) = font + i
      <4>1. \A i \in FontPages : i < page + 1
        BY <2>4, LoadedPages DEF FontPages
      <4> QED BY <2>2, <4>1
    <3>3. \A i \in FontPages : font + i \in Frames \ BootFrames
      <4>1. \A i \in FontPages : i < page + 1
        BY <2>4, LoadedPages DEF FontPages
      <4> QED BY <2>2, <4>1
    <3>4. \A p : Unheld(p)'
      BY <1>8 DEF Unheld, Loading
    <3> QED BY <1>1, <1>2, <1>8, <2>3, <3>1, <3>2, <3>3, <3>4
            DEF BootInv, Early, FontPlaced, GkrnlPlaced, ImagePlaced
  <2>5. CASE page + 1 # FONTPAGES
    <3>1. page' = page + 1 /\ page' # 0 /\ page' \in FontPages /\ phase' = "mapfont"
      BY <1>2, <1>3, <1>10, <2>5, LoadedPages DEF next, FontPages
    <3>2. FontInv'
      BY <1>1, <1>2, <2>2, <3>1 DEF FontInv
    <3> QED BY <1>1, <1>2, <1>8, <2>3, <3>1, <3>2
            DEF BootInv, Early, FontPlaced, GkrnlPlaced, ImagePlaced
  <2> QED BY <2>4, <2>5
<1> QED BY <1>8, <1>9, <1>10

\* The loader leaves the firmware and jumps: its page and the kernel's are mapped.
LEMMA JumpOK ==
    ASSUME BootInv, efi_main \/ go_to_kernel
    PROVE  BootInv'
<1>1. /\ mem' = mem /\ holders' = holders /\ stacks' = stacks /\ page' = page /\ font' = font
      /\ phase \in {"exit", "jump"}
  BY DEF efi_main, go_to_kernel
<1>2. /\ IInv /\ Loading /\ machine = "on"
      /\ font \in AnyPages /\ \A i \in FontPages : font + i \in Frames \ BootFrames
      /\ \A i \in KernelPages : Leaf(mem, KernelPage(i)) = IMAGE + i
      /\ Leaf(mem, Identity(GKRNL)) = GKRNL
      /\ \A i \in FontPages : Leaf(mem, Identity(font + i)) = font + i
  BY <1>1 DEF BootInv, Loading, ImagePlaced, GkrnlPlaced, FontPlaced
<1>3. machine' = machine
  <2>1. Leaf(mem, KernelPage(0)) = IMAGE
    BY <1>2, LoadedPages
  <2> QED BY <1>2, <2>1 DEF efi_main, go_to_kernel
<1>4. CASE phase' = "hlt"
  BY <1>1, <1>3, <1>4, Halts
<1>5. CASE phase' \in {"jump", "kernel"}
  <2>1. IInv' /\ Loading'
    BY <1>1, <1>2, <1>3, LoaderRests
  <2>2. \A p : Unheld(p)'
    BY <2>1 DEF Unheld, Loading
  <2> QED BY <1>1, <1>2, <1>3, <1>5, <2>1, <2>2
          DEF BootInv, Early, FontPlaced, GkrnlPlaced, ImagePlaced
<1> QED BY <1>4, <1>5 DEF efi_main, go_to_kernel

\* Page p was placed by the loader and is still in its frame.
Stays(p) == Leaf(mem, p[1]) = p[2] /\ Unheld(p)

\* The pages of the font are frames of the bitmap.
FontKept == font \in AnyPages /\ \A i \in FontPages : font + i \in Frames \ BootFrames

\* A page of the loader's has a frame that is in use and no table's.
LEMMA PlacedUsed ==
    ASSUME NEW L, Shape(mem, L), Solid(mem, L), NEW p, p[1] \in Pages,
           p[2] \in Frames \ BootFrames, Leaf(mem, p[1]) = p[2]
    PROVE  /\ p[2] \in mem.used /\ p[2] \notin DOMAIN L
           /\ \A v \in Pages : v # p[1] => Leaf(mem, v) # p[2]
<1>1. p[1] \in Pages /\ p[2] \in Frames /\ p[2] \notin {NONE, BAD}
  BY Numbers
<1>2. p[2] \in mem.used
  BY <1>1, LeafUsed
<1>3. ASSUME NEW v \in Pages, Leaf(mem, v) = p[2]
      PROVE  /\ LastTable(mem, v) \in DOMAIN L /\ <<LastTable(mem, v), v[4]>> \in Later(mem)
             /\ p[2] = mem.pt[<<LastTable(mem, v), v[4]>>]
  <2>1. LastTable(mem, v) \in DOMAIN L /\ <<LastTable(mem, v), v[4]>> \in Entries(mem)
    BY <1>1, <1>3, LeafUsed
  <2>2. <<LastTable(mem, v), v[4]>> \notin BootEntries
    BY <1>3, <2>1, BootPages
  <2>3. Leaf(mem, v) = mem.pt[<<LastTable(mem, v), v[4]>>]
    BY <2>1, LeafEntry
  <2> QED BY <1>3, <2>1, <2>2, <2>3 DEF Later
<1>4. p[2] \notin DOMAIN L
  <2> DEFINE e == <<LastTable(mem, p[1]), p[1][4]>>
  <2>1. e \in Later(mem) /\ p[2] = mem.pt[e] /\ e[1] = LastTable(mem, p[1]) /\ e[1] \in DOMAIN L
    BY <1>1, <1>3
  <2>2. L[e[1]] = 4
    BY <1>1, <2>1, LeafEntry
  <2> HIDE DEF e
  <2> QED BY <2>1, <2>2 DEF Shape, Owned
<1>5. ASSUME NEW v \in Pages, v # p[1], Leaf(mem, v) = p[2]
      PROVE  FALSE
  <2> DEFINE q == p[1]
             e == <<LastTable(mem, q), q[4]>>
             d == <<LastTable(mem, v), v[4]>>
  <2>1. /\ q \in Pages /\ LastTable(mem, q) \in DOMAIN L
        /\ e \in Later(mem) /\ d \in Later(mem) /\ mem.pt[e] = p[2] /\ mem.pt[d] = p[2]
    BY <1>1, <1>3, <1>5
  <2> HIDE DEF e, d
  <2>2. d = e
    BY <1>1, <2>1 DEF Shape, Owned
  <2>3. LastTable(mem, v) = LastTable(mem, q) /\ v[4] = q[4]
    BY <2>2 DEF e, d
  <2>4. v[1] = q[1] /\ v[2] = q[2] /\ v[3] = q[3]
    BY <2>1, <2>3, OnePath
  <2> HIDE DEF q
  <2>5. v = <<v[1], v[2], v[3], v[4]>> /\ q = <<q[1], q[2], q[3], q[4]>>
    BY <2>1 DEF Pages
  <2> QED BY <1>5, <2>3, <2>4, <2>5 DEF q
<1> QED BY <1>2, <1>4, <1>5

\* What is true of each page of the image, of gkrnl.bin and of the font is true of
\* each placed page.
LEMMA PlacedEach ==
    ASSUME FontKept
    PROVE  /\ \A i \in KernelPages : <<KernelPage(i), IMAGE + i>> \in Placed
           /\ <<Identity(GKRNL), GKRNL>> \in Placed
           /\ \A i \in FontPages : <<Identity(font + i), font + i>> \in Placed
           /\ \A p \in Placed : \/ \E i \in KernelPages : p = <<KernelPage(i), IMAGE + i>>
                                \/ p = <<Identity(GKRNL), GKRNL>>
                                \/ \E i \in FontPages : p = <<Identity(font + i), font + i>>
           /\ \A p \in Placed : p[1] \in Pages /\ p[2] \in Frames \ BootFrames
<1>1. \A g, n \in Nat : g .. (g + n - 1) = {g + i : i \in 0 .. (n - 1)}
  <2> TAKE g, n \in Nat
  <2>1. ASSUME NEW f \in g .. (g + n - 1) PROVE f - g \in 0 .. (n - 1) /\ f = g + (f - g)
    OBVIOUS
  <2>2. ASSUME NEW i \in 0 .. (n - 1) PROVE g + i \in g .. (g + n - 1)
    OBVIOUS
  <2> QED BY <2>1, <2>2
<1>2. font \in Nat /\ FONTPAGES \in Nat
  BY LoadedPages DEF FontKept
<1>3. font .. (font + FONTPAGES - 1) = {font + i : i \in FontPages}
  BY <1>1, <1>2 DEF FontPages
<1>4. /\ \A i \in KernelPages : <<KernelPage(i), IMAGE + i>> \in Placed
      /\ <<Identity(GKRNL), GKRNL>> \in Placed
      /\ \A i \in FontPages : <<Identity(font + i), font + i>> \in Placed
  BY <1>3 DEF Placed, KernelPages
<1>5. ASSUME NEW p \in Placed
      PROVE  \/ \E i \in KernelPages : p = <<KernelPage(i), IMAGE + i>>
             \/ p = <<Identity(GKRNL), GKRNL>>
             \/ \E i \in FontPages : p = <<Identity(font + i), font + i>>
  BY <1>3 DEF Placed, KernelPages
<1>6. ASSUME NEW p \in Placed PROVE p[1] \in Pages /\ p[2] \in Frames \ BootFrames
  <2>1. CASE \E i \in KernelPages : p = <<KernelPage(i), IMAGE + i>>
    BY <2>1, LoadedPages
  <2>2. CASE p = <<Identity(GKRNL), GKRNL>>
    BY <2>2, LoadedPages
  <2>3. CASE \E i \in FontPages : p = <<Identity(font + i), font + i>>
    BY <2>3, IdentityPages DEF FontKept
  <2> QED BY <1>5, <2>1, <2>2, <2>3
<1> QED BY <1>4, <1>5, <1>6

\* What the invariant says of the kernel's time, page by page.
LEMMA AllStay ==
    ASSUME BootInv, phase \in {"jump", "kernel"}
    PROVE  FontKept /\ (machine = "on" => \A p \in Placed : Stays(p))
<1>1. FontKept
  BY DEF BootInv, FontPlaced, FontKept
<1>2. ASSUME machine = "on", NEW p \in Placed PROVE Stays(p)
  <2>1. /\ \A i \in KernelPages : Leaf(mem, KernelPage(i)) = IMAGE + i
        /\ Leaf(mem, Identity(GKRNL)) = GKRNL
        /\ \A i \in FontPages : Leaf(mem, Identity(font + i)) = font + i
        /\ Unheld(p)
    BY <1>2 DEF BootInv, ImagePlaced, GkrnlPlaced, FontPlaced
  <2>2. Leaf(mem, p[1]) = p[2]
    <3>1. CASE \E i \in KernelPages : p = <<KernelPage(i), IMAGE + i>>
      BY <2>1, <3>1
    <3>2. CASE p = <<Identity(GKRNL), GKRNL>>
      BY <2>1, <3>2
    <3>3. CASE \E i \in FontPages : p = <<Identity(font + i), font + i>>
      BY <2>1, <3>3
    <3> QED BY <1>1, <3>1, <3>2, <3>3, PlacedEach
  <2> QED BY <2>1, <2>2 DEF Stays
<1> QED BY <1>1, <1>2

\* A call of the kernel's moves no page but v.
LEMMA OthersStay ==
    ASSUME NEW p, Stays(p), NEW v, NEW X, Gave(mem, mem', v, X, {}), p[1] \in Pages, p[1] # v,
           Unheld(p)'
    PROVE  Stays(p)'
<1>1. Leaf(mem', p[1]) = Leaf(mem, p[1])
  BY DEF Gave
<1> QED BY <1>1 DEF Stays

\* What the loader placed stays through every call of the kernel's that maps a page
\* that is not mapped, or gives back one that is held.
LEMMA PlacedStays ==
    ASSUME ScreenBeyond, IInv, Next, MapsFresh, machine = "on", machine' = "on",
           NEW p, p[1] \in Pages, p[2] \in Frames \ BootFrames, Stays(p)
    PROVE  Stays(p)'
<1>1. /\ Leaf(mem, p[1]) = p[2] /\ p[2] \notin stacks /\ p[2] # NONE
      /\ p[1] \in Segments => holders[p[1]] = 0
  BY Numbers DEF Stays, Unheld
<1>2. Formed /\ Lost(mem) = {} /\ holders \in [Segments -> 0 .. SHARE]
  BY OnClients, OnSound
<1>3. p[2] \in mem.used
  <2>1. PICK L : Sound(mem, L, {})
    BY <1>2, OnSound
  <2> QED BY <1>1, <2>1, PlacedUsed DEF Sound
<1>4. ASSUME NEW v \in Segments, MapSegment(v) PROVE Stays(p)'
  <2>1. /\ Leaf(mem, v) = NONE /\ holders' = [holders EXCEPT ![v] = 1] /\ stacks' = stacks
        /\ \E X : Gave(mem, mem', v, X, {})
    BY <1>4, MapSegmentFresh
  <2>2. p[1] # v /\ Unheld(p)'
    BY <1>1, <1>2, <2>1 DEF Unheld
  <2> QED BY <2>1, <2>2, OthersStay
<1>5. ASSUME NEW v \in Segments, UnmapSegment(v) PROVE Stays(p)'
  <2>1. /\ holders[v] = 1 /\ holders' = [holders EXCEPT ![v] = 0] /\ stacks' = stacks
        /\ \E X : Gave(mem, mem', v, X, {})
    BY <1>5, UnmapSegmentFresh
  <2>2. p[1] # v /\ Unheld(p)'
    BY <1>1, <1>2, <2>1 DEF Unheld
  <2> QED BY <2>1, <2>2, OthersStay
<1>6. CASE TakeStack
  <2> DEFINE f == Lowest(mem)
             v == Identity(f)
  <2>1. /\ f \notin mem.used /\ stacks' = stacks \cup {f} /\ holders' = holders
        /\ Leaf(mem, v) = NONE /\ Gave(mem, mem', v, {f}, {})
    BY <1>6, TakeStackFresh
  <2> HIDE DEF f, v
  <2>2. p[1] # v /\ Unheld(p)'
    BY <1>1, <1>3, <2>1 DEF Unheld
  <2> QED BY <2>1, <2>2, OthersStay
<1>7. ASSUME NEW f \in stacks, DropStack(f) PROVE Stays(p)'
  <2> DEFINE v == Identity(f)
  <2>1. stacks' = stacks \ {f} /\ holders' = holders /\ Gave(mem, mem', v, {NONE}, {})
    BY <1>7, DropStackFresh
  <2>2. Leaf(mem, v) = f
    BY Backed
  <2> HIDE DEF v
  <2>3. p[1] # v /\ Unheld(p)'
    BY <1>1, <2>1, <2>2 DEF Unheld
  <2> QED BY <2>1, <2>3, OthersStay
<1>8. ASSUME NEW v \in Screen, MapScreen(v) PROVE Stays(p)'
  <2>1. /\ holders' = holders /\ stacks' = stacks
        /\ Gave(mem, mem', v, {IF Leaf(mem, v) = NONE THEN Own(v) ELSE Leaf(mem, v)}, {})
    BY <1>2, <1>8, MapScreenStep
  <2>2. Unheld(p)'
    BY <1>1, <2>1 DEF Unheld
  <2>3. CASE p[1] # v
    BY <2>1, <2>2, <2>3, OthersStay
  <2>4. CASE p[1] = v
    BY <1>1, <2>1, <2>2, <2>4 DEF Gave, Stays
  <2> QED BY <2>3, <2>4
<1> QED BY <1>4, <1>5, <1>6, <1>7, <1>8 DEF Next

\* The kernel maps and unmaps its own pages: what the loader placed stays.
LEMMA KernelOK ==
    ASSUME ScreenBeyond, BootInv, phase = "kernel", Next, UNCHANGED bootVars,
           MapsFresh \/ UNCHANGED vars
    PROVE  BootInv'
<1>1. IInv /\ IInv' /\ machine = "on"
  <2>1. IInv
    BY DEF BootInv
  <2> QED BY <2>1, StepOK DEF Next, MapSegment, UnmapSegment, TakeStack, DropStack, MapScreen
<1>2. phase' = "kernel" /\ page' = page /\ font' = font /\ firmware' = firmware /\ Placed' = Placed
  BY DEF bootVars, Placed
<1>3. FontKept /\ \A p \in Placed : Stays(p)
  BY <1>1, AllStay
<1>4. ASSUME machine' = "on", NEW p \in Placed PROVE Stays(p)'
  <2>1. p[1] \in Pages /\ p[2] \in Frames \ BootFrames /\ Stays(p)
    BY <1>3, PlacedEach
  <2>2. CASE MapsFresh
    BY <1>1, <1>4, <2>1, <2>2, PlacedStays
  <2>3. CASE UNCHANGED vars
    BY <2>1, <2>3 DEF vars, Stays, Unheld
  <2> QED BY <2>2, <2>3
<1>5. ASSUME machine' = "on"
      PROVE  /\ \A i \in KernelPages : Leaf(mem', KernelPage(i)) = IMAGE + i
             /\ Leaf(mem', Identity(GKRNL)) = GKRNL
             /\ \A i \in FontPages : Leaf(mem', Identity(font + i)) = font + i
             /\ \A p \in Placed : Unheld(p)'
  <2>1. \A p \in Placed : Leaf(mem', p[1]) = p[2] /\ Unheld(p)'
    BY <1>4, <1>5 DEF Stays
  <2>2. \A i \in KernelPages : Leaf(mem', KernelPage(i)) = IMAGE + i
    <3> TAKE i \in KernelPages
    <3>1. <<KernelPage(i), IMAGE + i>> \in Placed
      BY <1>3, PlacedEach
    <3> QED BY <2>1, <3>1
  <2>3. Leaf(mem', Identity(GKRNL)) = GKRNL
    <3>1. <<Identity(GKRNL), GKRNL>> \in Placed
      BY <1>3, PlacedEach
    <3> QED BY <2>1, <3>1
  <2>4. \A i \in FontPages : Leaf(mem', Identity(font + i)) = font + i
    <3> TAKE i \in FontPages
    <3>1. <<Identity(font + i), font + i>> \in Placed
      BY <1>3, PlacedEach
    <3> QED BY <2>1, <3>1
  <2> QED BY <2>1, <2>2, <2>3, <2>4
<1> QED BY <1>1, <1>2, <1>3, <1>5
        DEF BootInv, Early, FontPlaced, GkrnlPlaced, ImagePlaced, FontKept

\* Every step of the loader and of the kernel keeps the invariant.
LEMMA BootStepOK ==
    ASSUME ScreenBeyond, BootInv, [BootNext]_<<vars, bootVars>>, FontApart',
           MapsFresh \/ UNCHANGED vars
    PROVE  BootInv'
<1>1. CASE UNCHANGED <<vars, bootVars>>
  <2>1. /\ mem' = mem /\ holders' = holders /\ stacks' = stacks /\ machine' = machine
        /\ phase' = phase /\ page' = page /\ firmware' = firmware /\ font' = font
    BY <1>1 DEF vars, bootVars
  <2>2. IInv' /\ (Loading => Loading')
    BY <2>1, LoaderRests DEF BootInv
  <2> QED BY <2>1, <2>2 DEF BootInv, Early, FontPlaced, GkrnlPlaced, ImagePlaced,
                            ImageInv, FontInv, Placed, Unheld
<1>2. CASE phase = "kernel" /\ Next /\ UNCHANGED bootVars
  BY <1>2, KernelOK
<1> QED BY <1>1, <1>2, GetRootOK, ReadImageOK, MapImageOK, LoadGkrnlOK, ReadFontOK, MapFontOK,
           JumpOK DEF BootNext, Boot, LoadKernel

\* A run of the loader and the kernel in which the firmware keeps the font apart and
\* the kernel maps no page that is mapped already.
FreshBoot == BootSpec /\ []FontApart /\ [][MapsFresh]_vars

\* The invariant holds from the loader's first step on.
LEMMA BootInductive ==
    ASSUME ScreenBeyond
    PROVE  FreshBoot => []BootInv
<1>1. BootInit => BootInv
  BY BootInitOK
<1>2. BootInv /\ [BootNext]_<<vars, bootVars>> /\ FontApart' /\ [MapsFresh]_vars => BootInv'
  BY BootStepOK
<1> QED BY <1>1, <1>2, PTL DEF FreshBoot, BootSpec

-----------------------------------------------------------------------------
(* The theorems.                                                           *)

\* From the jump on the image, gkrnl.bin and the font lie where efi_main put them
\* (UEFI/main.c:99-148), for every number of frames, every size of image and font,
\* and every place of the font: as long as the firmware does not put it over pages
\* that the loader uses without having asked for them, and the kernel's calls
\* (kernel/page.c) map pages that are not mapped.
THEOREM KernelStays ==
    ASSUME ScreenBeyond PROVE FreshBoot => []KernelIntact
<1>1. ASSUME BootInv PROVE KernelIntact
  <2> SUFFICES ASSUME phase \in {"jump", "kernel"}, machine = "on", NEW p \in Placed
               PROVE  /\ Leaf(mem, p[1]) = p[2] /\ p[2] \in mem.used
                      /\ \A e \in DOMAIN mem.pt : e[1] # p[2]
                      /\ p[2] \notin stacks
                      /\ \A v \in Segments : holders[v] > 0 => Leaf(mem, v) # p[2]
    BY DEF KernelIntact
  <2>1. Stays(p) /\ Unheld(p) /\ p[1] \in Pages /\ p[2] \in Frames \ BootFrames
    BY <1>1, AllStay, PlacedEach DEF Stays
  <2>2. IInv
    BY <1>1 DEF BootInv
  <2>3. PICK L : Sound(mem, L, {})
    BY <2>2, OnClients, OnSound
  <2>4. /\ p[2] \in mem.used /\ p[2] \notin DOMAIN L
        /\ \A v \in Pages : v # p[1] => Leaf(mem, v) # p[2]
    BY <2>1, <2>3, PlacedUsed DEF Sound, Stays
  <2>5. ASSUME NEW e \in DOMAIN mem.pt PROVE e[1] # p[2]
    <3>1. CASE e = <<5, 0>>
      BY <2>1, <3>1, Numbers DEF BootFrames
    <3>2. CASE e # <<5, 0>>
      BY <2>3, <2>4, <2>5, <3>2 DEF Sound, Shape, Leveled, Entries
    <3> QED BY <3>1, <3>2
  <2>6. \A v \in Segments : holders[v] > 0 => Leaf(mem, v) # p[2]
    BY <2>1, <2>4, CallersPages DEF Unheld
  <2> QED BY <2>1, <2>4, <2>5, <2>6 DEF Stays, Unheld
<1> QED BY <1>1, BootInductive, PTL

\* The kernel's paging starts from what the loader leaves: the tables and the
\* bitmap that Kernel_MapPagePhysical has grown (UEFI/page.c:43-130) and those that
\* page.c grows from them satisfy what Paging promises from its own first state, in
\* the same runs.
THEOREM LoaderPages ==
    ASSUME ScreenBeyond PROVE FreshBoot => [](TypeOK /\ BitmapExact /\ NoSharedFrame)
<1>1. BootInv => TypeOK /\ NoSharedFrame
  BY Typed, OneUser DEF BootInv, IInv
<1>2. BootInv => BitmapExact
  BY Hanging DEF BootInv, IInv, Formed, BitmapExact
<1> QED BY <1>1, <1>2, BootInductive, PTL

\* No step of the loader gives a client a page.
LEMMA LoaderHolds ==
    ASSUME BootInv, Boot
    PROVE  Held = {} /\ Held' = {}
<1>1. holders' = holders /\ stacks' = stacks /\ phase # "kernel"
  BY DEF Boot, GetRoot, LoadKernel, OpenFile, ReadImage, MapImage, LoadGkrnl, ReadFont,
         MapFont, efi_main, go_to_kernel, Rest
<1>2. stacks = {} /\ holders = [v \in Segments |-> 0]
  BY <1>1 DEF BootInv, Loading
<1> QED BY <1>1, <1>2 DEF Held

\* With the loader, too, the kernel's paging is the abstract address space, and what
\* is held keeps its memory (UEFI/main.c:47-150, kernel/page.c), in the same runs.
THEOREM BootRefines ==
    ASSUME ScreenBeyond PROVE FreshBoot => ImplementsAddressSpace /\ HeldKeepMemory
<1> DEFINE A == machine' = "on" =>
                  /\ \A v \in Held' \ Held : Leaf(mem', v) \in Frames \/ Frames \subseteq mem'.used
                  /\ \A v \in Held' \cap Held : Leaf(mem', v) = Leaf(mem, v)
<1>1. BootInit => AS!Init
  <2> SUFFICES ASSUME BootInit PROVE AS!Init
    OBVIOUS
  <2>1. Held = {}
    BY DEF BootInit, Init, Held
  <2> QED BY <2>1 DEF AS!Init
<1>2. BootInv /\ [BootNext]_<<vars, bootVars>> /\ [MapsFresh]_vars => [AS!Next]_Space
  <2> SUFFICES ASSUME BootInv, [BootNext]_<<vars, bootVars>>, [MapsFresh]_vars
               PROVE  [AS!Next]_Space
    OBVIOUS
  <2>1. CASE [Next]_vars
    BY <2>1, StepRefines DEF BootInv
  <2>2. CASE Boot
    BY <2>2, LoaderHolds, SameSpace
  <2> QED BY <2>1, <2>2 DEF BootNext
<1>3. BootInv /\ [BootNext]_<<vars, bootVars>> /\ [MapsFresh]_vars => [A]_vars
  <2> SUFFICES ASSUME BootInv, [BootNext]_<<vars, bootVars>>, [MapsFresh]_vars
               PROVE  [A]_vars
    OBVIOUS
  <2>1. CASE [Next]_vars
    BY <2>1, HeldStep DEF BootInv, Joins, Leaves, Stay
  <2>2. CASE Boot
    BY <2>2, LoaderHolds
  <2> QED BY <2>1, <2>2 DEF BootNext
<1> QED BY <1>1, <1>2, <1>3, BootInductive, PTL
        DEF FreshBoot, BootSpec, ImplementsAddressSpace, AS!Spec, Space, HeldKeepMemory
=============================================================================
