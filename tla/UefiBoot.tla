------------------------------ MODULE UefiBoot ------------------------------
(***************************************************************************)
(* The UEFI boot loader, boot/UEFI, from the first tables to the kernel's  *)
(* first instruction, and the kernel's paging from then on.                *)
(*                                                                         *)
(* The loader asks the firmware for each page it takes, at a fixed address *)
(* or at any, and stops the machine when a call fails (CHECK_ERROR, hlt).  *)
(* A page of the image beyond the file (.bss) is mapped without asking, and*)
(* the page of gkrnl.bin is written without asking.  The calls that can    *)
(* fail for other reasons (a file is missing) fail at any time.            *)
(***************************************************************************)
EXTENDS Paging

CONSTANTS
    IMAGE,          \* the kernel's first frame (256 in the code)
    FILEPAGES,      \* pages of kernel.bin, with 256 bytes more
    KERNELPAGES,    \* pages from address_start to address_end: with .bss
    GKRNL,          \* the frame of gkrnl.bin (21 in the code)
    FONTPAGES,      \* pages of the font
    AnyPages        \* where the firmware may place the font

\* The first tables, the bitmap and the three tables that the kernel's pages take.
LowFrames == 0 .. 9

\* One table has all of the kernel's pages.  The image and gkrnl.bin, which is in
\* the first two megabytes, lie above the frames that become tables, apart from
\* each other.
Image == IMAGE .. (IMAGE + KERNELPAGES - 1)
ASSUME BootAssumption ==
    /\ KERNELPAGES \in 1 .. (TOP + 1) /\ FILEPAGES \in 1 .. KERNELPAGES
    /\ FONTPAGES \in Nat \ {0} /\ AnyPages \subseteq Nat
    /\ IMAGE \in Frames /\ Image \subseteq Frames \ LowFrames
    /\ GKRNL \in Frames \ (Image \cup LowFrames) /\ GKRNL <= TOP

VARIABLES
    phase,      \* where efi_main is, "kernel" once it has jumped, "hlt" when it stopped,
                \* "wild" when it has written behind the bitmap
    page,       \* the turn of Kernel_MapPagePhysical's loop
    firmware,   \* frames that the firmware does not give out: its own, and given ones
    font        \* kernelInfo->font_data

bootVars == <<phase, page, firmware, font>>

\* The high half: 0xFFFFFFFF80100000 is page 256 of its last-level table.
KernelPage(i) == <<TOP, TOP - 1, 0, i>>

\* What Kernel_createNewPage leaves: its six pages were given.
BootInit == /\ Init /\ phase = "open" /\ page = 0 /\ font = NONE
            /\ firmware \in {{}} \cup {{f} : f \in Frames \ BootFrames}

-----------------------------------------------------------------------------
(* boot/UEFI/page.c *)

\* The lowest clear bit is set, and -1 returned when there is none.
Kernel_Alloc4KPage(m) ==
    IF Free(m) = {} THEN m ELSE [m EXCEPT !.used = @ \cup {Lowest(m)}]

\* AllocatePages fails when the firmware has one of the pages, or has given it.
Given(frames) == frames \cap firmware = {}
AllocatePages(frames, next) ==
    IF Given(frames) THEN phase' = next /\ firmware' = firmware \cup frames
                     ELSE phase' = "hlt" /\ UNCHANGED firmware

\* One level down by physical addresses: no window.
CHECK_AND_CREATE_FRAME(w, i) ==
    LET f == Lowest(w.mem)
    IN  IF w.at = BAD THEN w
        ELSE IF Entry(w.mem, w.at, i) # NONE THEN [w EXCEPT !.at = Entry(w.mem, w.at, i)]
        ELSE [mem |-> Set(Kernel_Alloc4KPage(w.mem), w.at, i, f), at |-> f,
              taken |-> w.taken \cup {f}]

Tables(v) == LET root == [mem |-> mem, at |-> ROOT, taken |-> {}]
             IN  CHECK_AND_CREATE_FRAME(CHECK_AND_CREATE_FRAME(
                     CHECK_AND_CREATE_FRAME(root, v[1]), v[2]), v[3])

\* Mutant: the mapped frame is not marked.
Kernel_MapPagePhysical_unmarked(v, f, next) ==
    LET w == Tables(v)
    IN  IF w.at # BAD /\ Given(w.taken)
          THEN phase' = next /\ mem' = Set(w.mem, w.at, v[4], f)
          ELSE phase' = "hlt" /\ UNCHANGED mem

\* One turn of the loop: the entry is written whatever it held, and the frame
\* marked.  Without the frames for its tables the machine stops: in hlt, or at the
\* access through -1.
Kernel_MapPagePhysical(v, f, next) ==
    LET w == Tables(v)
    IN  IF w.at # BAD /\ Given(w.taken)
          THEN /\ phase' = next
               /\ mem' = [Set(w.mem, w.at, v[4], f) EXCEPT !.used = @ \cup {f}]
          ELSE phase' = "hlt" /\ UNCHANGED mem

-----------------------------------------------------------------------------
(* boot/UEFI/main.c *)

Rest == UNCHANGED <<holders, stacks, machine>>

\* No file system, no volume, no file: the machine stops.  (GetRoot comes before
\* Kernel_createNewPage, whose pages it does not look at.)
GetRoot == /\ phase = "open" /\ phase' \in {"read", "hlt"}
           /\ Rest /\ UNCHANGED <<mem, page, font, firmware>>
OpenFile == /\ phase \in {"gkrnl", "font"} /\ phase' = "hlt"
            /\ Rest /\ UNCHANGED <<mem, page, font, firmware>>

\* The image's pages are asked for, as many as the file has.
ReadImage == /\ phase = "read"
             /\ AllocatePages(IMAGE .. (IMAGE + FILEPAGES - 1), "image")
             /\ Rest /\ UNCHANGED <<mem, page, font>>

MapImage == /\ phase = "image"
            /\ page' = (page + 1) % KERNELPAGES
            /\ Kernel_MapPagePhysical(KernelPage(page), IMAGE + page,
                                      IF page' = 0 THEN "gkrnl" ELSE "image")
            /\ Rest /\ UNCHANGED <<font, firmware>>

LoadGkrnl == /\ phase = "gkrnl"
             /\ Kernel_MapPagePhysical(Identity(GKRNL), GKRNL, "font")
             /\ Rest /\ UNCHANGED <<page, font, firmware>>

\* The used frames that the firmware was asked for: it does not know of the pages
\* behind the file, of gkrnl.bin's and of page 0.
FontFrames == font .. (font + FONTPAGES - 1)
Unasked == {0, GKRNL} \cup ((IMAGE + FILEPAGES) .. (IMAGE + KERNELPAGES - 1))
Asked == mem.used \ Unasked

\* The font goes wherever the firmware has room.
ReadFont == /\ phase = "font"
            /\ font' \in AnyPages /\ FontFrames' \cap Asked = {}
            /\ AllocatePages(FontFrames', "mapfont")
            /\ Rest /\ UNCHANGED <<mem, page>>

\* A frame beyond the bitmap is marked in the memory behind it, where the first
\* tables are: nothing is said of what follows.
MapFont == /\ phase = "mapfont"
           /\ page' = (page + 1) % FONTPAGES
           /\ IF font + page \in Frames
                THEN Kernel_MapPagePhysical(Identity(font + page), font + page,
                                            IF page' = 0 THEN "exit" ELSE "mapfont")
                ELSE phase' = "wild" /\ UNCHANGED mem
           /\ Rest /\ UNCHANGED <<font, firmware>>

LoadKernel == OpenFile \/ ReadImage \/ MapImage \/ LoadGkrnl \/ ReadFont \/ MapFont

\* ExitBootServices gives the firmware's pages back, or fails.
efi_main == /\ phase = "exit"
            /\ phase' \in {"jump", "hlt"}
            /\ firmware' = IF phase' = "jump" THEN {} ELSE firmware
            /\ UNCHANGED <<mem, holders, stacks, machine, page, font>>

\* gkrnl.bin loads the new tables and jumps: its own page and the kernel's
\* entry must be mapped in them.
go_to_kernel == /\ phase = "jump"
                /\ phase' = "kernel"
                /\ IF Leaf(mem, Identity(GKRNL)) = GKRNL /\ Leaf(mem, KernelPage(0)) = IMAGE
                     THEN UNCHANGED machine ELSE machine' = "fault"
                /\ UNCHANGED <<mem, holders, stacks, firmware, page, font>>

Boot == GetRoot \/ LoadKernel \/ efi_main \/ go_to_kernel
BootNext == Boot \/ (phase = "kernel" /\ Next /\ UNCHANGED bootVars)
BootSpec == BootInit /\ [][BootNext]_<<vars, bootVars>>

\* What the theorems ask of the firmware, and the loader does not look at: that it
\* does not place the font (main.c:124) over the .bss pages, which main.c:98 did not
\* ask for, over gkrnl.bin (main.c:117) or over page 0.
FontApart == font # NONE => FontFrames \cap ({0, GKRNL} \cup Image) = {}

-----------------------------------------------------------------------------
(* Properties.                                                             *)

\* What the loader placed: page -> frame.
Placed == {<<KernelPage(i), IMAGE + i>> : i \in 0 .. (KERNELPAGES - 1)}
              \cup {<<Identity(f), f>> : f \in {GKRNL} \cup (font .. (font + FONTPAGES - 1))}

\* From the jump on the kernel's image, gkrnl.bin and the font (whose address
\* main.c:126 leaves in the header) lie where the loader put them, whatever the
\* kernel maps and unmaps, and no table, segment, heap page or stack gets their
\* frames.
KernelIntact ==
    phase \in {"jump", "kernel"} /\ machine = "on" =>
        \A p \in Placed :
            /\ Leaf(mem, p[1]) = p[2] /\ p[2] \in mem.used
            /\ \A e \in DOMAIN mem.pt : e[1] # p[2]
            /\ p[2] \notin stacks
            /\ \A v \in Segments : holders[v] > 0 => Leaf(mem, v) # p[2]
=============================================================================
