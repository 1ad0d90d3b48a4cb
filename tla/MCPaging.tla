------------------------------ MODULE MCPaging ------------------------------
(***************************************************************************)
(* The instance of UefiBoot, and so of Paging, for TLC: tables of sixteen  *)
(* entries, the frames that the loader takes and a few more, the last of   *)
(* which have their identity pages behind a table that is not there yet.   *)
(* A behaviour is one of the boot and of clients that map what is not      *)
(* mapped, or of a kernel whose clients share pages: two segments may have *)
(* a page in common, or lie on the identity page of a stack.               *)
(***************************************************************************)
EXTENDS UefiBoot

\* Two pages of one table, which needs tables of its own, and the identity page of
\* a frame that may become a stack.
MCSegments == {<<1, 0, 0, 0>>, <<1, 0, 0, 1>>, Identity(17)}
MCScreen == {<<0, 1, 0, 0>>}

\* Behind the image, over its .bss page, and beyond the bitmap.
MCAnyPages == {12, 14, 21}

ASSUME ScreenBeyond

VARIABLES smem, sholders, sstacks, smachine,  \* the kernel with shared pages
          clients                             \* "fresh" or "sharing"

sharedVars == <<smem, sholders, sstacks, smachine>>

MCShared == {<<0, 0, 1, 0>>, Identity(8), Identity(9)}
MCBeyond == {<<0, 0, 2, 0>>}
S == INSTANCE Paging WITH LAST <- 10, Segments <- MCShared, Screen <- MCBeyond,
        mem <- smem, holders <- sholders, stacks <- sstacks, machine <- smachine

ClientsInit == /\ BootInit /\ S!Init
               /\ clients = "fresh" \/ (clients = "sharing" /\ firmware = {})

\* Clients ask for pages that are not mapped, and the firmware keeps the font apart.
FreshNext == /\ clients = "fresh"
             /\ BootNext /\ FontApart' /\ MapsFresh
             /\ UNCHANGED <<sharedVars, clients>>

\* Only no page is given back that has no frame of its own.
SharingNext == /\ clients = "sharing"
               /\ S!Next /\ S!UnmapsMapped
               /\ UNCHANGED <<vars, bootVars, clients>>

ClientsNext == FreshNext \/ SharingNext
ClientsSpec == ClientsInit /\ [][ClientsNext]_<<vars, bootVars, sharedVars, clients>>

\* No frame serves twice where pages are mapped twice and replaced by stacks either:
\* the frame that page_mapv took for nothing (page.c:281-286), the one page_alloc4K
\* put another in place of (page.c:226), and the window left open on a table do not
\* make page_getframe hand out what is in use.
SharedApart == S!NoSharedFrame
=============================================================================
