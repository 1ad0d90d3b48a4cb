# A verification development of HaOS

HaOS is a small x86-64 kernel: a UEFI loader that builds the first page tables,
and a kernel with paging, a heap, tasks switched by the timer, a FAT16 reader,
an ELF loader and a terminal.  These modules model it in TLA+, from the source
at the lines `PROJECT.json` names (`map`); TLC checks the models on small
instances and TLAPS proves the theorems listed below for every instance.

How to run: `tlc -config X.cfg M` with the pairs under "Runs", `tlapm M.tla` for
the modules whose names end in `Proofs`.

## The system

| component | state it keeps | operations | interacts with |
|---|---|---|---|
| Tasks (`kernel/process`, `kernel/time.c`) | linked list of `task_info_t` from `kernel_task`; `task_current`, `task_next`, `__id_task`, `__time`; one saved stack pointer per task | `task_create`, `task_exit`, `switch_task`, `task_remove`, `irq_time_handle` | takes nodes from the heap and stacks from paging, gives both back from inside the timer interrupt |
| Heap (`kernel/alloc.c`) | chain of block headers from `heap_start`, `heap_size` | `init_alloc`, `new_alloc`, `free_alloc` | grows through `page_mapv`; clients are tasks, FAT, ELF, terminal |
| Paging (`kernel/page.c`) | bitmap of frames, four-level tables, the one-page window, the processor's translations | `page_getframe`, `page_mapv`, `page_umapv`, `page_mapvp`, `page_alloc4K` | called by heap, ELF, tasks, video |
| UEFI loader (`boot/UEFI`) | the first tables and the bitmap | `Kernel_createNewPage`, `Kernel_MapPagePhysical`, `LoadKernel`, the jump | asks the firmware for pages; leaves the initial state of paging |
| FAT16 (`kernel/fs/fat.c`) | volume header, file pointers | `fat_init`, `fat_findFile`, `fat_fileOpen`, `fat_seek`, `fat_read` | reads sectors through the disk, buffers from the heap; `read` and `open` run with interrupts off, `fat_seek` does not |
| Disk and GPT (`kernel/fs/disk.c`, `gpt.c`) | `tmp_buffer`, the controller's registers | `ata_read_disk`, `ata_write_disk`, `gpt_get_lba_start_volume` | port I/O, busy waiting |
| ELF loader (`kernel/elf.c`) | header and program table on the heap, segments in the shared address space | `elf64_load`, `elf64_loadLibrary` | FAT through the system calls, paging, heap, `task_exit` |
| Interrupts (`kernel/cpu`) | IDT, registered handlers, `focus_interrupt`, PIC masks | `idt_init`, stubs, `irq_handle`, `isr_handle`, `int_syscall` | timer, keyboard, system calls |
| Terminal and keyboard (`term.c`, `keyboard_driver.c`, `io.c`) | line buffer, cursor and pixels, the keyboard's flag | `term_run`, `term_exec`, `term_scrollup`, `getchar` | starts programs (EXEC) and tasks (TASK) |
| Strings (`string.c`, `string.S`, `io.c`) | - | `intstr`, `hexstr`, `strint`, `strcmp`, `memcopy`, `printf` | everything that prints or compares |
| Legacy boot stages, GDT, user programs | - | - | see "Not modelled" |

Boot order (`kernel/kernel.c:22-53`): video, paging, terminal, GDT, tasks,
interrupts (on from here), heap, FAT, one test task, terminal loop.

What is hard here: there is **no lock**.  From `sti` in `idt_init` on, the timer
fires between any two instructions, and its handler not only switches but
removes an exited task: it rewrites the run queue, unmaps a page and frees heap
memory, whatever it has interrupted.  All tasks share one address space, one
heap, one disk buffer and one paging window.  Slots, frames and pages are
recycled, so a stale pointer, link or translation finds something else.

Properties that make each component correct: tasks - the timer walks only
live nodes, each context is restored to its own task, each exited task is
removed and no other, every queued task runs; heap - no two clients share a
byte, a request is served; paging - a frame serves one purpose at a time, a
mapping stays until it is removed and not longer, the bitmap tells the truth,
the loaded kernel stays where it is; FAT - a read returns the bytes of the file
at the position sought; disk - a sector reaches the task that asked for it; ELF
- segments hold the file's bytes, everything taken is given back on every path;
interrupts - each one reaches its driver, every line is acknowledged, programs
resume with their registers; terminal - the command is the line typed, the
screen shows it, no key is left waiting.  `PROJECT.json` lists the hazards
behind them at their lines.

## Modules

| module | models | abstract specification |
|---|---|---|
| `Tasks` | `task.c`, `task.S`, `time.c` and the parts of `idt.c`, `idt.asm`, `syscall.S`, `syscall.c` on their path | `RoundRobin`, through `TasksRefine` |
| `TasksProofs` | theorems about `Tasks`, and that it implements `RoundRobin` | |
| `Heap` | `alloc.c` | `Allocator` |
| `HeapProofs` | theorems about `Heap`, and that it implements `Allocator` | |
| `Paging` | `page.c` and its callers' use of it | `AddressSpace` |
| `PagingProofs` | theorems about `Paging`, and that it implements `AddressSpace` | |
| `UefiBoot` (extends `Paging`) | `boot/UEFI`, up to and with the kernel's paging | stated by `KernelIntact`, and `AddressSpace` |
| `BootProofs` | theorems about `UefiBoot`, and that it implements `AddressSpace` | |
| `Tlb` | `Paging` with the processor's translation cache | |
| `Fat` | opening, seeking and reading of `fat.c`, one file pointer | stated by its properties over `Bytes` |
| `Elf` (extends `Fat`) | `elf64_load`, whose calls of `open`, `read` and `fat_seek` run the loops of `Fat` | stated by `SegmentsLoaded`, `GivesBack` |
| `ElfProofs` | theorems about `Elf`, on the lemmas of `VolumeProofs` | |
| `Disk` | `ata_read_disk` and `ata_init_pio` for several tasks; where `fat.c` reads | |
| `VolumeProofs` | theorems about `Disk` and `Fat` | |
| `Interrupts` | `idt.c`, `idt.asm`, `pic.c`, `syscall.S`, the two controllers | |
| `InterruptsProofs` | theorems about `Interrupts` | |
| `Term` | `term.c`, `keyboard_driver.c`, `io.c`, the argument registers of `task_create` | `LineEditor` |
| `TermProofs` | theorems about `Term`, and that it implements `LineEditor` | |
| `Strings` | `string.c`, `string.S`, the three `printf` | stated by reference definitions |
| `MCTasks`, `MCHeap`, `MCPaging`, `MCTlb`, `MCFat`, `MCInterrupts`, `MCTerm` | instances for TLC | |

### Tasks

The state is the fields of `task_info_t` as functions on node addresses (`next`,
`running`, `id`, `stack`), the slots the heap has handed out (`alive`), the
globals, and the processor: `cpu` is the task whose execution is loaded, `pc`
says at which statement each execution stands, `stack[n]` is the execution the
saved stack pointer of node n restores.  `task_create_impl` is eight actions, one
for every statement that reads or writes shared state; the test and the step of
its walk are two reads of the same link, as in the C code.  `task_exit` is read
statement by statement for the same reason.  The timer's handler runs with
interrupts off from the gate to `iretq` and is one action per outcome: `TickKeep`
(`__time % 1000 = 0`), `TickSwitch`, `TickRemove`.

The second read of a link can find NULL where the first did not: a tick has removed
the exited tail in between.  The walk then goes on at address 0, which is no fault:
the loader maps the first seven frames at their own addresses, writable
(`boot/UEFI/page.c:53-57`), and nothing unmaps them.  `Low` is the addresses of that
memory a walk can come to and `low` the words found there as links, anything at first:
the end of a list, another place in low memory, or an address that no page maps (`WILD`).
The walk goes on over them, the link may be written there (`LinkTail`), and a later
walk may follow it to the node of an earlier task.  Only at `WILD` does the test
fault, and the fault's handler halts for good (`WalkFault`).

`Listed`, the run queue, is the least set that holds `kernel_task` and is closed
under `next`.  It is stated without recursion so that it can be proved about.

Abstractions: only the kernel's own execution creates tasks, as in `kernel_main`
and the terminal.  Node slots are reused only for nodes (heap memory recycled
for other data is not modelled, so a write to a freed node does no further
harm here than it does to the list), and a link written into low memory changes
nothing but later walks, though tables and the bitmap lie there.  The page of the stack is left out here and
the argument registers are in `Term`.  A task that returns from its entry function without
`task_exit` is not modelled.

### Heap

The chain is the sequence of blocks in the order of their links, addresses are
offsets from `heap_start`.  A request that finds no room makes `new_alloc` call
itself: `request` is the pending size and `Grow` the turn that ends in the call.
`live` is the clients' knowledge: what they were given and how much they asked
for.  The growth test in `Split`, the enlarged last block in `Grow` and the branch
of `free_alloc` that never runs are as in the code: `heap_overlap` shows what comes
of the first; the second makes `new_alloc` call itself for ever when the last block
is in use (the case `RequestServed` excludes); the third only leaves the heap in
more pieces.  Calls do not overlap.

### Paging

`mem` holds the bitmap (`used`) and the entries of all tables that are not zero
(`pt`, a partial function from table frame and index).  Tables live in frames
like everything else, so a frame handed out twice would be zeroed under its
other user, as in the machine.  The window is the entry 0 of table 5.  `Walk`
creates missing tables level by level in the code's order and `page_umapv` gives
up at a missing one.  When the bitmap is full `page_getframe` returns -1: as a
table entry it faults at the next access (`Fault`), as a page's entry it stays
(`BAD`).  `MapSegment` and `UnmapSegment` are the loops of `elf64_load` and the heap
one page at a time, `TakeStack` and `DropStack` the stack pages of tasks.  The
heap's pages are among `Segments`; the kernel's own image comes with `UefiBoot`.
The framebuffer is mapped at its own address (`Own`), beyond the memory that the
bitmap tells of (`ScreenBeyond`).  A page may be mapped twice, by two segments or by a
stack, and unmapped twice: the calls do what the code does then.  A frame that is
taken for nothing is lost, the window stays open, an entry is replaced, and frame 0
is freed.  Two formulas name the calls that the code relies on and does not look
at: `MapsFresh`, pages are mapped that are not mapped, and `UnmapsMapped`, pages are
given back that have a frame of their own.

`UefiBoot` starts where the loader has its first six pages.  Each call of
`Kernel_MapPagePhysical` is one turn of its loop: missing tables are taken from
the bitmap at the address it gives and the firmware may refuse (`firmware` holds
the pages that it does not give out, its own and those it has given), after which the
machine stops, as it does when no frame is free.  The image,
`gkrnl.bin` and the font are mapped in the order of `LoadKernel`; pages of `.bss` are
mapped without being asked for.  `go_to_kernel` faults unless the code that
switches the tables and the kernel's entry are mapped in the new ones, and from
then on `Paging`'s own actions run.  `BootAssumption` says what the fixed addresses
give: the image at 1 MB and `gkrnl.bin` at 0x15000 lie above the frames that the
loader's first tables take (`LowFrames`), and apart.  The firmware gives the font any
pages that it was not asked for and that it does not have itself: it does not know
of `.bss`, of `gkrnl.bin`'s page and of page 0 (`Unasked`), so the font may come to lie
over them.  `FontApart` says that it does not.  A font above the bitmap's 128 MB sets
its bit behind the bitmap, where the first tables begin: the phase is `wild` then,
and nothing is said of what follows.

`Tlb` adds the cached translations of segment pages.  The kernel flushes only the
window's page and never reloads cr3.

### Fat, Elf

A byte of the disk is the pair of its cluster and its offset there, so a read is
right when the pairs it copies are those of the file from the caller's position
on; an offset beyond the cluster is heap memory behind the sector buffer.  `call`
says which of `fat_seek` and `fat_read` runs, and each turn of their loops is an
action.  `file`, `pos` and `reading.from` and `sound` remember what the caller
asked for.  `Entry` gives the table's word: the next cluster of a chain, the
mark of the end, and anything at all behind the table or in unused entries.
`fat_findFile` looks up each component of a path in the root directory, and a
name without a dot matches nothing, as `convert_name_to_fat16name` has it.

What the code promises is less than a byte stream, and the properties say how
much: `Sound` reads (from a cluster's start, or inside one) copy the file's bytes
and leave the pointer where the next one goes on (`ReadRight`).  Nothing restricts
the calls themselves: the run also seeks and reads across clusters, past the end,
and through the pointer to cluster 0 that a missing name gives.

`Elf` is `elf64_load` as one more client of the same pointer.  `content` is what
the file is: not an ELF file, or a program table.  What the loader has read is
compared with the file: the magic of a file that is no ELF file leads to the way
out, bytes that are not the file's header (the pointer of a missing name reads cluster
0) or not its table to `wild`, of which nothing is said.  Memory is a
function on the program's addresses, `UNMAPPED`, `ZERO` or a byte of the file.
`SegmentsLoaded` holds for the segments `Findable` describes; a segment that begins
beyond the first cluster is read from the cluster before (`fat.c:191`), and after a
read that left the first cluster, be it of the program table or of a segment, nothing
is found in it any more (`NearTo`).  `GivesBack` is exact: after a directory the header's block is lost, and each segment that begins
behind the file's end costs a sector buffer.

### Disk

`ctl` is the controller as its registers show it: the address (here in two
writes instead of four), the sector it reads, the words it has left, busy.
`Switch` is the timer, which cannot interrupt a system call (`Masked`).
`mixed` notes of a transfer that another one's steps came in between, or that it
wrote registers while the controller was busy for another; `TransferRight` is
about all other transfers, also those that run inside a broken one or after it.
A transfer that another was mixed into can return that one's bytes: `fat_seek`
reads with interrupts on.  `Disk` also has the places on the volume that `fat.c`
computes; `RegionsApart` and `ClustersApart` in `VolumeProofs` are about those.

### Interrupts

The stack is the sequence of its words, each with its name, so that a frame out
of place shows.  `idt_init` is one action per call, from the firmware's state
after its `cli`.  `Deliver` takes the controllers' request of highest priority with
the vectors they have at that time; a vector without a gate is `lost`.  `Enter`,
the handler and the return are steps, because an exception may occur in any of
them and pushes a frame of its own.  There are three ways back: the tail of
`irq_stub`, the end of `switch_task` for the timer's interrupts (`switch_return`) and
`int_syscall`.  A system call may be the exit of a task, which does not come back:
its loop runs with interrupts off (`exited`).  `locals` stands for what the running
function keeps below rsp: the kernel is compiled with a red zone (`Makefile:7`), and a
leaf function uses it (`Leaf`).  `owed` remembers the timer's and the
keyboard's interrupts until their driver has run.  `Spurious` is level 7 of
either controller.  The exceptions 17, 21, 29 and 30, which need ring 3, shadow stacks or
a hypervisor, are left out: their stubs push a second error code.

### Term, Strings

A word of a command is one key and one cell, so that a line of five keys is a
command with arguments.  `logs` and `index_logs` are the buffer as in the code;
before the first key it holds what the heap held.  `tty` is the cursor and the
pixels, each with the glyph it belongs to: erasing draws the glyph in black, and
scrolling moves `width * 16 * 3` of the `width * 16 * 4` bytes of a row.  The keyboard
and its controller are the length of their buffer; which key a scan code is is
chosen when it is read, so every sequence of keys is covered.  A character
drawn is a step, so keys arrive while the terminal prints.  `Task` computes the
registers of the new task from the pushes of `task_create` and the indices of
`task_create_impl`.

`LineEditor` is the promise: printable keys are appended, backspace takes the
last one, the return key submits the line.  `ImplementsEditor` maps the buffer up to
its terminator to the line.

`Strings` are functions on digit values with an int of `W` bits; a behaviour of the
console instance is one of the terminal or one single call of the library, for
every value of the width, all pairs of short texts, and formats of up to three
pieces.

## Runs

Instances are small; what each bound leaves in:

| run | module, cfg | bounds | shows |
|---|---|---|---|
| tasks_safety | `MCTasks`, `Tasks_safety` | 3 slots (symmetric), ids below 5, PERIOD 3, clock modulo 4, both exits, one place in low memory | the safety properties, the refinement; 4 creations over 3 slots, so slots are reused; the walk meets up to 4 nodes while any of them exits |
| tasks_liveness | `MCTasks`, `Tasks_liveness` | 2 slots, exit by call, two places in low memory | `ExitedIsRemoved`, `QueuedRuns`; the walk goes on in low memory, writes there, and follows what it wrote |
| tasks_lost_task | `MCTasks`, `Tasks_lost_task` | as liveness, ids below 4 | **violated**: a created task is lost |
| heap_mixed | `MCHeap`, `Heap_mixed` | header 2, page 12, requests of 3 and 14 (more than a page), 8 pages, 3 live blocks | tiling, no sharing, refinement of `Allocator`, requests served; splits, exact fits, growth on both paths and several times for one request, merges |
| heap_overlap | `MCHeap`, `Heap_overlap` | page 18, requests of 1 and 8 | **violated**: two clients share bytes |
| paging | `MCPaging`, `Paging` | 21 frames, tables of 16 entries, an image of 2 pages (one of the file), 1 page of font apart or beyond the bitmap, at most one page refused, 3 segment pages, one of them a stack's, 1 screen page; calls that map fresh pages; and, without the loader, 11 frames, 2 segments on a page, segments on the pages of 2 stacks | boot and kernel: bitmap, frames, what is held keeps its memory, the image's place, refinement of `AddressSpace`; memory runs out in it; and no frame serves twice although pages are mapped twice and replaced |
| tlb_stale | `MCTlb`, `Tlb_stale` | one page | **violated**: a page is reached through a freed frame |
| fat_reads | `MCFat`, `Fat_reads` | clusters of 3 bytes, words modulo 9, files of 3 and 1 clusters, two directories, reads of up to 7 bytes, positions up to 13, 3 buffers; program tables of up to 2 segments in 4 shapes at 4 offsets and one over all clusters; 2 tasks, sectors of 4 bytes, 3 requests | reads and their composition, buffers given back, segments, the loader's exits, transfers; the offset passes its width and reads end at, before and after cluster boundaries; a request covers two sectors |
| interrupts | `MCInterrupts`, `Interrupts` | 3 edges, lines 0, 1, 5, 8, 15, exceptions 6 and 14 nested once | delivery, acknowledgement, frames, resumption, service of each line |
| console | `MCTerm`, `Term` | screen of 4 by 3 cells, 5 keys, 2 in the keyboard, four commands; int of 8 bits | the line, its arguments, the screen until it scrolls, keys served, the library; lines run over a row's end and output scrolls |
| term_scroll | `MCTerm`, `Term_scroll` | 3 keys | **violated**: after a scroll the line stands among other pixels |
| term_task | `MCTerm`, `Term_task` | 4 keys | **violated**: TASK opens what `rcx` held, not its file |

The runs stop at their bounds (identifiers used up, live blocks, frames, buffers,
keys, edges), and the machine stops on a fault or a refused page, so deadlock is
not checked.

`heap_mixed` is restricted to sizes and a number of live blocks that do not reach
the overlap `heap_overlap` shows: no block that is not the last is ever cut
within one request's length of the end of the heap.  It does include the state in
which the last block is in use and a request never ends, where safety still
holds.  A behaviour of `paging` is of one of two machines.  In the one, pages are
mapped that are not mapped, and the font is kept apart (`FreshNext`): segments may
share a page there and lie on a stack's, but a page has one user at a time.  The other
(`SharingNext`, an instance of `Paging` of its own) drops that:
two segments map a page twice, which loses a frame and leaves the window open, and a
stack replaces the page of a segment at the frame's own address, as programs at the
default 0x400000 have once a thousand frames are in use (`page.c:226`).  No frame
serves twice (`SharedApart`) as long as nothing is unmapped that is not mapped; that
condition is needed: with `Next` alone TLC finds frame 0 freed by the second unmapping
of a shared page and handed out (`page.c:337`, `elf.c:183-188`).  The branches of
`page_umapv` for a missing table run in no instance: a page that a caller gives back has
its tables, which are never freed.  With `ExitPaths = {"syscall"}` TLC
refutes `ExitedIsRemoved`: that exit spins with interrupts off (`syscall.c:55`).

### Fairness

`FairSpec` of `Tasks` assumes that the timer ticks as long as interrupts stay
enabled (weak fairness of `irq_time_handle`: the PIT is free-running and the PIC is
acknowledged on every interrupt, which is `Acknowledged` of `Interrupts`) and that an
execution that gets the processor again and again gets to its next statement
(strong fairness of `Progress(n)` for each task: it is not continuously enabled, as
the task is switched out, but a turn lasts thousands of instructions).  Nothing is
assumed of the program's own choices: creating and exiting may never happen.
`FairSpec` of `Heap` assumes that `new_alloc`, once called, goes on.  `Spec` of
`Interrupts` assumes that the processor goes on and that a request it could take
again and again is taken: a controller holds its output until it is asked, but a
system call or another line may come first.  `Spec` of `Term` assumes that the
kernel's task goes on and that the keyboard's interrupt is taken; a program
started by EXEC need not return.  `UefiBoot`, `Fat`, `Elf` and `Disk` assume none.

## Proofs

`TasksProofs` proves for any set of slots, any period and wrap of the clock, any
bound on identifiers, either exit path and any low memory, from the named
assumptions of `Tasks` (the kernel's node, the slots, low memory and the address
without a page differ, NULL lies in low memory, the clock's constants are positive, the
bound is a number, the exit paths are the two known):

- `Invariance`: `Spec => []IInv`, and from it `TypeCorrectness`, `NoFreedNodeQueued`,
  `QueueByAge`, `ContextsMatch`, `CurrentIsListed`, `RemoveNeverHalts`;
- `NoRunningTaskCutOff`, `NoRunningTaskFreed`: the action properties;
- `Refinement`: `Spec => ImplementsRoundRobin`.

Why the invariant is what it is.  That no freed node is queued cannot be shown
alone: the link write at `task.c:113` goes to whatever `crt` has become.  The
argument needs that the new node is allocated, not reachable and younger than
everything queued (`CreationPrivate`); that the tail the walk has found is, if
still queued, still the tail (`WalkPosition`), so the write appends or goes to a
node no longer reachable; that identifiers grow (`IdsBelow`), so that the queue is
acyclic (`RunQueueByAge`) and unlinking one node takes out exactly that node
(`RunQueueUnshared`, lemma `Unlink`); and that an execution inside `task_exit` works
on its own node (`ExitsItself`, from `RightContext`), so that the bit it clears is
its own and never the kernel's (`KernelRuns`).

Since `Listed` is a least closed set, the lemmas `WriteOutside`, `AppendTail` and
`Unlink` say what the three kinds of link write do to it by exhibiting closed
sets, with no induction over the list.  The refinement reads the queue as the
order of ages: `QueueOrder` shows that the successor in the list is the next
younger queued task.

`VolumeProofs` is about the volume.  For every header one may have, a cluster's link
is looked up inside the first table (`RegionsApart`), every sector of a cluster lies
behind the root directory, and two clusters' sectors never coincide (`ClustersApart`,
by lemma `ClustersInOrder`, which has the one nonlinear step).

`TransfersRight` is `TransferRight` for any tasks, requests and even size of a sector.
The invariant says of each transfer that nothing has been mixed into what the
registers and the buffer hold at its statement (`Progress`, `Address`), and that
while one such transfer is under way no other is (`OthersRest` carries a step of one
past all the others).  The place in the request that is copied next moves on by a
byte, and after a sector's last one into the next sector (lemma `NextPlace`).

`ReadsRight` and `OverrunsOnly` hold for any size of a cluster, any root directory
whose chains are disjoint, any positions and counts.  `ReadRight` says nothing of what is
still to come, so the invariant does: what is left of a sound read is a sound read,
with a turn for each cluster (`ReadOn`; `Turns` is the rounding up of
`fat.c:239`).  Hence a turn before the last copies a whole cluster and ends at
offset 0 of the next (`MoreMoves`), the last one stays in its cluster (`EndsIn`), and
what a turn copies are the next bytes of the file (`BytesJoin`).  A seek has gone
as many links along the chain as it has had turns (`SeekOn`), so a mark of the end
is met behind the chain only (`BadIsBeyond`).

`ElfProofs` proves both properties of `elf64_load` (`LoaderGivesBack`, `LoaderLoads`)
for any file, program, header and table, from the assumptions of `Fat` and from
`ElfAssumption`: a linker gives the segments memory of their own, and the header is
not larger than a cluster (64 bytes, a sector has at least 512).  The invariant
`LoadInv` is a proof outline of the function, an assertion for each step
(`AtVerify`, `AtTable`, `AtSegments`, ...), beside the file reader's own `FileInv`.  Each
assertion is kept by the turns of the call that runs at its step (`SeekMoves`,
`ReadMoves`, and a lemma per step) and led by each action to the next one.  What
the two properties need in between: that the pointer and a read that runs have not
left the first cluster as long as nothing that was read reaches beyond it (`First`,
`Near`), so that the read of a segment that can be found is a sound one
(`FindableIsSound`) and `ReadRight` gives its bytes; that the segments already read
stay while another's memory is written, since their addresses are apart
(`OthersStay`); that memory is mapped only where a segment still to be unmapped lies
(`MappedFrom`); and that each lost buffer has a segment of its own behind the file's
end (`Kept`, `OverCounts`).

`HeapProofs` proves for every header, page and request sizes that the chain tiles
the heap (`HeapShape`), that no two clients share a byte (`HeapDisjoint`) and
that `Heap` implements `Allocator` (`HeapImplements`), in every behaviour in which
`CutsFitHeap` holds: the block that `new_alloc` cuts is the last one or leaves room
for the request behind it.  The condition is needed: the growth test in
`alloc.c:58` looks at the request and not at the block, and `heap_overlap` shows
the bytes that two clients then share.  For which
sizes and orders of calls the condition holds is not proved.  The invariant says that
the chain's blocks follow each other to the end of the heap (`ChainOK`), and that
each live pointer is a block in use that is large enough (`Places`); that blocks lie
apart follows from the first by the order of addresses.

`InterruptsProofs` proves for every set of lines and exceptions, and any number of
edges, that the controllers are acknowledged (`AllAcknowledged`), no interrupt of
the timer or the keyboard is lost (`NoneLost`) and each reaches its driver
(`DriversCalled`), that the frame on the stack is the one the handler's type
declares (`FramesAsDeclared`), and that the interrupted execution resumes with its
registers and its stack from rsp up, by each of the three returns (`KernelResumes`); what
a leaf function has below rsp is not claimed: an interrupt overwrites it (`locals`),
as the kernel is compiled with a red zone (`Makefile:7`).  The invariant says how far `idt_init` has come with
gates, vectors and handlers (`Tables`); which vectors can be served at which place
(`Served`); that at most one line of each controller is in service, only on the way
to `irq_handle`, where what is owed is the line being served (`InService`); and what
lies on the stack (`StackShape`): nothing in the kernel, the processor's words behind
the error code at a stub, the words of `cpu_register_t` in a handler, where they hold
the interrupted execution's registers.

`PagingProofs` is about every number of frames, size of tables and set of pages, from
`ScreenBeyond`.  `PagesTyped` and `FramesApart` hold of every behaviour in which what is
given back has a frame of its own (`UnmapsMapped`), whatever is mapped twice, replaced
or lost; `page.c:337`, which frees frame 0 otherwise, shows that they need it.  `NoFrameLost`, `ClientsKeepPages` and
`PagingRefines` hold of every behaviour in which the pages that are mapped are not mapped
yet (`MapsFresh`): what is given back has a frame of its own then, which is part of
their proof (`Clients`).  Neither condition is ensured by `page.c` or its callers.  The
proof of the first two needs the invariant `Formed`, that of the others `IInv`, which
adds that no frame is lost and which frame each client has.  The properties
alone are not inductive: a call writes its entry into
whatever frame its walk ends at, so nothing can be said of it before the tables
are known to be tables.  The invariant gives every table frame a level (`Levels`):
an entry above the last level leads one level down or nowhere (`Leveled`), each
frame of the bitmap is pointed to by one entry (`Owned`), every other frame is the
framebuffer's own (`Shown`), and a used frame without a pointer (`Lost`) is no
table; in `IInv` there is none between two calls.  From that two pages never share a last table's entry (lemmas
`PointedOnce`, `OnePath`), so one page's entry can be written without moving any
other (`MappedShape`, `UnmappedShape`, `LastChanged`), and a new table is empty and
adds nothing to what can be reached (`LinkAdded`).  `DownStep` and `Walked` put
these together for the walk, which takes up to three frames and moves the window at
each level; when the memory runs out in the middle of it, no page that was mapped
has moved (`Broken`), so that the refinement and `NoSharedFrame` hold of the state
in which the machine faults, too.

`BootProofs` proves for every number of frames, size of image and font and choice of
the firmware, from `BootAssumption` and `ScreenBeyond`, about the behaviours `FreshBoot`, in
which the font is kept apart (`FontApart`) and the kernel's calls map pages that are not
mapped (`MapsFresh`): what the loader placed stays where it is and keeps its
frames to itself (`KernelStays`), `Paging`'s invariants hold from the loader's first step
on (`LoaderPages`), and the loader and the kernel together implement `AddressSpace`
and leave to each page that is held its memory (`BootRefines`).  Segments may be linked
anywhere, into the kernel's own pages too: that they are not mapped there follows.
`KernelIntact` speaks of the time after the jump only, so the invariant `BootInv` says
at each step of `LoadKernel` what has been placed and that the frames of the rest are
still free (`ImageInv`, `FontInv`), beside `Paging`'s own `IInv`.  The loader writes its
tables by physical addresses and marks the frame of a page after it has written
the entry, where the kernel marks first and goes through the window; lemmas `TablesWalk` and
`PageMapped` show that the tables come out the same.  Two things keep the frames
apart while the loader runs.  The tables for the image are taken before anything
else, so they lie in `LowFrames`, and its other pages find their table there.  The
tables for the font are taken when its frames are not marked yet, and only the
firmware prevents that one of them is taken for a table: it does not give a page
twice.  From the jump on, a placed frame is in use, is no table, and is in no second
entry (`PlacedUsed`), so no call of the kernel's takes it or writes its page
(`KernelOK`).

`TermProofs` proves for every size of the screen, set of words and number of keys that
the cursor and the line keep their bounds (`TermTyped`), that the screen shows the
line until it scrolls (`LineStaysShown`) and that the command is the line that was
typed (`EditorRefines`), from `SizeAssumption` and from `WordsAssumption`, which only says
that a key's character is none of the control characters.  Both properties speak of
the buffer and of the screen in one state, and neither is inductive.  The invariant
says where the terminator is: behind the line once a key was stored since the
buffer was allocated, at its first byte or the next before (`Terminated`); that every
key still to come has room (`Room`); that the cursor is beyond the line (`InFront`);
that, unless something scrolled, no pixel is at the cursor or behind it (`Behind`),
so that a character drawn is all its cell shows (lemma `Drawn`); and that each cell
before the cursor holds exactly the pixels of its character in the present colour,
in black none (`LineShown`), so that a backspace, which draws that character in black,
leaves the cell empty (lemma `Erased`).

It also proves that a command's arguments are its line (`ArgumentsRight`), wherever the
spaces are.  That needs of the invariant only where the terminator is; the rest is about
the operators.  An argument starts at 0 and behind each space, and runs to the next
space or to the terminator (`ArgumentEnds`).  The rank of a start is the number of starts
before it: two starts differ in rank, neighbours by one (`Ranks`), and each rank
below `argc` is some start's (`EveryRank`, by the least rank without one), so the
argument after an argument begins behind the space that ends it (`ArgumentsFollow`).
The join is a fold, defined by a recursive function: the prefixes of the line that end
where an argument starts or ends are a function that satisfies the same equations, and
two such functions agree, by the least index at which they would not (`Flattened`).

Only model-checked: the liveness properties, and everything about `Tlb` and `Strings`.
`CutsFitHeap`, `UnmapsMapped`, `MapsFresh` and `FontApart` are hypotheses of theorems, and
`paging` takes the steps that keep the last three: the code ensures none of them.
Liveness under fairness is out of the prover's reach, and so are the RECURSIVE
operators that model the loops of `Strings`.  `TypeCorrectness` and `CurrentIsListed`
are proved and not among the runs' properties.

## Not modelled

- Two executions inside `new_alloc` (`alloc.c:43`) or around the paging window
  (`page.c:149`) at once.  Nothing protects either, so no property of the two
  survives such a switch beyond what the single calls show.
- Errors of the drive, `ata_write_disk` (no caller), and the partition table, which
  is read once.
- `fat_readFile`, `fat_readFile_map`, `fat_readSector`, `elf64_create`,
  `elf64_loadLibrary`, `page_create`, `page_setPMLT4`, `Kernel_MapPage`, `strupper`,
  `strlower`: without a caller.  `page_print`, `page_getSizeMemoryUse`, `task_print` and
  `Kernel_ShowPaging` change nothing.
- The legacy boot stages (`boot/stage`, `boot/stage64`), which the repository's README
  calls deprecated.
- GDT and ring 3 entry, written once and without a caller; the bytes that go to
  the serial port; the user programs, which only print.
- A program that ends by the exit call, in `Term` (`KeyServed`): it stops every task, since
  its loop runs with interrupts off; `Tasks` and `Interrupts` have it.
- What a link that the walk of `task_create_impl` writes into low memory damages there, and
  a bit set behind the bitmap for a font above 128 MB.
- What other tasks print: they share the terminal's cursor without a lock
  (`term.c:107`).  Lines longer than a screen or than the buffer (`term.c:94`), scan
  codes behind the table (`keyboard_driver.c:27`), a format that ends in `%`.
- The library's `exit` (`shared/sources/syscall.S:35`) uses `int $0x08`, so a program
  that calls it lands in the stub of the double fault, without an error code on
  the stack, and stops the machine.
- `go_to_kernel.s:13` takes the bits it sets in EFER from the memory at 0x100 instead
  of the constant.

What would come next: the statement-level model of two executions in the heap and
in the paging window; a composition of tasks, heap and
paging in which the memory of a freed node is reused by other clients.
