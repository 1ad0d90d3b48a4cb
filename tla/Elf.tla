--------------------------------- MODULE Elf ---------------------------------
(***************************************************************************)
(* The program loader, elf64_load of kernel/elf.c, as a client of the file *)
(* reader: its calls of open, read and fat_seek run the loops of Fat.      *)
(*                                                                         *)
(* Memory is the bytes of the program's addresses; a byte that was read is *)
(* the pair of its cluster and offset.  The header and the program table   *)
(* are what their bytes say when they are the file's, and unknown when they*)
(* are not (the loader then goes anywhere: step "wild").                   *)
(***************************************************************************)
EXTENDS Fat, FiniteSets

CONSTANTS
    HEADER,     \* sizeof( elf64_header_t )
    ENTRY,      \* sizeof( elf64_program_t )
    Programs,   \* what an ELF file may be: [off, table] of its program table
    Addresses   \* the addresses of programs

\* A segment: whether it is EPT_LOAD, and where it lies in memory and the file.
Segment == [load : BOOLEAN, virt : Addresses, memsize : Nat, off : Nat, filesize : Nat]

\* A linker lays the segments out in addresses of their own.  The header has 64
\* bytes, a sector at least 512.
Covers(s) == s.virt .. (s.virt + s.memsize - 1)
ASSUME ElfAssumption ==
    /\ HEADER \in 1 .. SIZE /\ ENTRY \in Nat \ {0} /\ Addresses \subseteq Nat
    /\ \A p \in Programs :
          /\ p.off \in Nat /\ p.table \in Seq(Segment)
          /\ \A i \in DOMAIN p.table :
                /\ p.table[i].filesize <= p.table[i].memsize
                /\ Covers(p.table[i]) \subseteq Addresses
                /\ \A j \in 1 .. (i - 1) : Covers(p.table[i]) \cap Covers(p.table[j]) = {}

VARIABLES
    content,    \* what the file is: one of Programs, or NOELF
    step,       \* where elf64_load is; "caller" when the file has another client
    turn,       \* i of its loops
    blocks,     \* what it has taken from the heap and not given back
    memory,     \* the program's addresses; UNMAPPED where there is no page
    code        \* what task_exit was called with

loaderVars == <<content, step, turn, blocks, memory, code>>

UNMAPPED == <<"unmapped">>
ZERO == <<"zero">>
NOELF == [off |-> 0, table |-> << >>]

ElfInit == /\ Init /\ turn = 1 /\ blocks = {} /\ code = 0
           /\ memory = [a \in Addresses |-> UNMAPPED]
           /\ \/ step = "caller" /\ content = NOELF
              \/ step = "open" /\ content \in Programs \cup {NOELF}

-----------------------------------------------------------------------------
\* Called runs a call of Fat to its end and goes on at the given step.
Loader(at, to) == step = at /\ call = "none" /\ step' = to
Idle == UNCHANGED <<fptr, call, seeking, reading, buffers, file, pos>>
Calling == step # "caller" /\ (fat_seek \/ fat_read) /\ UNCHANGED loaderVars

\* The bytes that were read are the file's at position p.
ReadIs(p, n) == p + n <= SIZE * Len(Chain) /\ reading.got = Bytes(p, n)
HeaderRead == ReadIs(0, HEADER)
IsElf == HeaderRead /\ content # NOELF
Table == content.table
TableIsRead == ReadIs(content.off, ENTRY * Len(Table))
InRange == turn <= Len(Table)
Segment_ == Table[turn]

\* The header's block, then the file's pointer.  A directory is "NOT" found:
\* the pointer is closed, and the header's block is not given back.
elf64_open(path) ==
    /\ step = "open" /\ fat_fileOpen(path)
    /\ IF fptr'.current_cluster = NOT_FOUND
         THEN step' = "exit" /\ blocks' = {"hdr"} /\ code' = 1
         ELSE step' = "header" /\ blocks' = {"hdr", "file"} /\ UNCHANGED code
    /\ UNCHANGED <<content, turn, memory>>

ReadHeader == /\ Loader("header", "verify") /\ ReadStart(HEADER)
              /\ UNCHANGED <<content, turn, blocks, memory, code>>

\* The magic is looked for in the bytes that were read.  When they are not the
\* file's (of a name that is not found cluster 0 is read, of a path the first of
\* its names that is), they may or may not begin as an ELF file does: the loader
\* gives up as below, or takes them for a header.
HeaderWrong == /\ Loader("verify", "wild")
               /\ ~HeaderRead
               /\ Idle /\ UNCHANGED <<content, turn, blocks, memory, code>>

\* Mutant: the file is not closed.
NotElf_open == /\ Loader("verify", "exit")
               /\ ~IsElf
               /\ blocks' = blocks \ {"hdr"} /\ code' = 2
               /\ Idle /\ UNCHANGED <<content, turn, memory>>

NotElf == /\ Loader("verify", "exit")
          /\ ~IsElf
          /\ blocks' = blocks \ {"hdr", "file"} /\ code' = 2
          /\ Idle /\ UNCHANGED <<content, turn, memory>>

SeekTable == /\ Loader("verify", "table")
             /\ IsElf
             /\ blocks' = blocks \cup {"programs"}
             /\ SeekStart(content.off)
             /\ UNCHANGED <<content, turn, memory, code>>
ReadTable == /\ Loader("table", "segments") /\ ReadStart(ENTRY * Len(Table))
             /\ UNCHANGED <<content, turn, blocks, memory, code>>
TableWrong == /\ Loader("segments", "wild") /\ turn = 1
              /\ ~TableIsRead
              /\ Idle /\ UNCHANGED <<content, turn, blocks, memory, code>>

\* The first turn of the loop over the segments looks at the table just read.
TableRight == turn = 1 => TableIsRead

SkipSegment == /\ Loader("segments", "segments") /\ TableRight
               /\ InRange /\ ~Segment_.load /\ turn' = turn + 1
               /\ Idle /\ UNCHANGED <<content, blocks, memory, code>>

\* page_mapv and memzero, and fat_seek to the segment's bytes.
SeekSegment == /\ Loader("segments", "read") /\ TableRight
               /\ InRange /\ Segment_.load
               /\ memory' = [a \in Addresses |->
                                IF a \in Covers(Segment_) THEN ZERO ELSE memory[a]]
               /\ SeekStart(Segment_.off)
               /\ UNCHANGED <<content, turn, blocks, code>>
ReadSegment == /\ Loader("read", "copied") /\ ReadStart(Segment_.filesize)
               /\ UNCHANGED <<content, turn, blocks, memory, code>>

\* Mutant: the bytes go to where the first segment is.
Target_first == Table[1].virt

Target == Segment_.virt

\* The bytes that fat_read has stored.
Copied == /\ Loader("copied", "segments") /\ turn' = turn + 1
          /\ memory' = [a \in Addresses |->
                           IF a \in Target .. (Target + Len(reading.got) - 1)
                             THEN reading.got[a - Target + 1] ELSE memory[a]]
          /\ Idle /\ UNCHANGED <<content, blocks, code>>

\* The program runs, and returns if it does.
Enter == /\ Loader("segments", "program") /\ TableRight /\ ~InRange
         /\ Idle /\ UNCHANGED <<content, turn, blocks, memory, code>>
Returns == /\ Loader("program", "unmap") /\ turn' = 1
           /\ Idle /\ UNCHANGED <<content, blocks, memory, code>>

Unmap == /\ Loader("unmap", "unmap") /\ InRange /\ turn' = turn + 1
         /\ memory' = [a \in Addresses |->
                          IF Segment_.load /\ a \in Covers(Segment_) THEN UNMAPPED ELSE memory[a]]
         /\ Idle /\ UNCHANGED <<content, blocks, code>>

\* free_alloc of both blocks, close, task_exit.
Finish == /\ Loader("unmap", "exit") /\ ~InRange
          /\ blocks' = blocks \ {"programs", "hdr", "file"} /\ code' = 0
          /\ Idle /\ UNCHANGED <<content, turn, memory>>

elf64_load == \/ \E path \in Paths : elf64_open(path)
              \/ ReadHeader \/ HeaderWrong \/ NotElf \/ SeekTable \/ ReadTable \/ TableWrong
              \/ SkipSegment \/ SeekSegment \/ ReadSegment \/ Copied
              \/ Enter \/ Returns \/ Unmap \/ Finish

ElfNext == \/ step = "caller" /\ Next /\ UNCHANGED loaderVars
           \/ Calling
           \/ elf64_load
ElfSpec == ElfInit /\ [][ElfNext]_<<vars, loaderVars>>

-----------------------------------------------------------------------------
(* Properties.                                                             *)

\* The program's memory is unmapped and what the loader took is given back on
\* every way out, its sector buffers too unless the table points behind the
\* end of the file; of a directory the header's block is lost (elf.c:113-119).
GivesBack ==
    step = "exit" =>
        /\ blocks = IF code = 1 THEN {"hdr"} ELSE {}
        /\ \A a \in Addresses : memory[a] = UNMAPPED
        /\ code = 0 => buffers <= Cardinality({i \in DOMAIN Table : Table[i].load
                                    /\ Table[i].off \div SIZE > Len(Chain)})

\* The segments that fat_seek and fat_read can find: one that ends in the first
\* cluster, or the first of all, which may begin the file and go on to its end,
\* as long as neither the program table nor a segment before it was read beyond
\* the first cluster (fat_seek does not go back to it, fat.c:176-203).
FirstCluster(s) == s.off + s.filesize <= SIZE
Loaded(i) == {j \in 1 .. (i - 1) : Table[j].load}
NearTo(i) == /\ content.off + ENTRY * Len(Table) <= SIZE
             /\ \A j \in Loaded(i) : FirstCluster(Table[j])
Findable(i) == /\ Table[i].load /\ NearTo(i)
               /\ \/ FirstCluster(Table[i])
                  \/ Table[i].off = 0 /\ Table[i].filesize <= SIZE * Len(Chain)
AsInFile(i) ==
    LET s == Table[i] IN
    \A k \in 0 .. (s.memsize - 1) :
        memory[s.virt + k] = IF k < s.filesize THEN Bytes(s.off, s.filesize)[k + 1] ELSE ZERO

\* When the program is entered, each such segment lies at its address, its
\* bytes first and zeros behind them, whatever was read before it and after it
\* through the same file pointer (elf.c:154-164).
SegmentsLoaded == step = "program" => \A i \in DOMAIN Table : Findable(i) => AsInFile(i)
=============================================================================
