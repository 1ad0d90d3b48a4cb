--------------------------------- MODULE Fat ---------------------------------
(***************************************************************************)
(* The FAT16 reader, kernel/fs/fat.c: opening a file in the root directory *)
(* and reading it through a file pointer that remembers a cluster and an   *)
(* offset.  A byte on the disk is the pair of its cluster and its offset;  *)
(* an offset beyond the cluster is memory behind the sector buffer.  The   *)
(* loops of fat_seek and fat_read are one action per turn.                 *)
(*                                                                         *)
(* file, pos and reading.from remember what the caller asked for; the code *)
(* keeps no such state.                                                    *)
(***************************************************************************)
EXTENDS Naturals, Sequences, SequencesExt

CONSTANTS
    SIZE,       \* fat_sizeSector(): the bytes of a cluster
    WORD,       \* 2^16, the width of a pointer's offset
    BAD,        \* FAT16_BADCLUSTER; a chain ends in a number above it
    NOT_FOUND,  \* 0xFFFFFFFF
    Root,       \* the root directory: name -> [chain, directory]
    Dotted,     \* the names with a dot
    Paths,      \* the paths that are opened, sequences of names
    Seeks,      \* the positions sought
    Sizes,      \* the sizes read
    BUFFERS,    \* bound: new_alloc has no more sector buffers than this
    LIMIT       \* bound: no read goes beyond this position

ASSUME FatAssumption ==
    /\ SIZE \in Nat \ {0} /\ WORD \in Nat /\ WORD >= 2 * SIZE
    /\ BAD \in Nat /\ BAD > 2 /\ NOT_FOUND \in Nat /\ NOT_FOUND > BAD + 1
    /\ \A n \in DOMAIN Root : /\ Root[n].chain \in Seq(2 .. BAD - 1)
                              /\ Root[n].chain # << >>
                              /\ IsInjective(Root[n].chain)
                              /\ Root[n].directory \in BOOLEAN
    /\ \A m, n \in DOMAIN Root : m # n =>
          ToSet(Root[m].chain) \cap ToSet(Root[n].chain) = {}
    /\ Paths \subseteq Seq(UNION {ToSet(p) : p \in Paths})
    /\ Seeks \subseteq Nat /\ Sizes \subseteq Nat
    /\ BUFFERS \in Nat \ {0} /\ LIMIT \in Nat

VARIABLES
    fptr,     \* the caller's fat_file_ptr
    call,     \* the call that runs: "none", "seek" or "read"
    seeking,  \* the locals of fat_seek
    reading,  \* the locals of fat_read, and the bytes it has copied
    buffers,  \* sector buffers taken from the heap and not given back
    file,     \* the path of the open file
    pos       \* where the caller believes the pointer is

vars == <<fptr, call, seeking, reading, buffers, file, pos>>

-----------------------------------------------------------------------------
(* The disk.                                                               *)

END == BAD + 1
Words == 0 .. END

\* The words fat_getNextCluster can read for a cluster: the next one of its
\* chain or the mark of its end.  The entries 0 and 1 are such marks too; behind
\* the table, and in entries no file uses, anything may be found.
Entry(c) ==
    LET after == {w \in Words : \E n \in DOMAIN Root :
                    LET ch == Root[n].chain
                    IN  \E i \in 1 .. Len(ch) :
                           /\ ch[i] = c
                           /\ w = IF i = Len(ch) THEN END ELSE ch[i + 1]}
    IN  CASE c < 2        -> {END}
          [] after # {}   -> after
          [] OTHER        -> Words

\* The entry names convert_name_to_fat16name can match: without a dot every place
\* of the stem is blanked, and no entry has such a name.  (A name without a dot of
\* more than three characters runs over the array and is left out.)
Convertible == Dotted \cap DOMAIN Root

\* fat_findFile tries every component of the path in the root directory and
\* returns the first it finds there, or an entry of zeros.
fat_findFile(path) ==
    LET hits == {i \in DOMAIN path : path[i] \in Convertible}
    IN  IF hits = {}
        THEN [cluster |-> 0, directory |-> FALSE]
        ELSE LET e == Root[path[CHOOSE i \in hits : \A j \in hits : i <= j]]
             IN  [cluster |-> e.chain[1], directory |-> e.directory]

\* The bytes a loop copies from the buffer that holds cluster c.
Copy(c, from, n) == [j \in 1 .. n |-> <<c, from + j - 1>>]

-----------------------------------------------------------------------------
Pointer(c) == [current_cluster |-> c, next_cluster |-> c,
               cluster |-> c, offset |-> 0]

NotSeeking == [len |-> 0, off |-> 0, clus |-> 0, to |-> 0]
NotReading == [left |-> 0, size |-> 0, got |-> << >>, from |-> 0, sound |-> FALSE]

\* fat_fileOpen on a path.  A directory gets the pointer that says "not found".
Open(path) == LET e == fat_findFile(path)
              IN  Pointer(IF e.directory THEN NOT_FOUND ELSE e.cluster)

\* The caller has opened its first file.
Init == /\ \E path \in Paths : file = path /\ fptr = Open(path)
        /\ call = "none" /\ seeking = NotSeeking /\ reading = NotReading
        /\ buffers = 0 /\ pos = 0

\* The caller closes the file and opens another; a pointer that says "not found"
\* is closed at once.
fat_fileOpen(path) ==
    /\ call = "none"
    /\ file' = path /\ fptr' = Open(path) /\ pos' = 0
    /\ reading' = NotReading
    /\ UNCHANGED <<call, seeking, buffers>>

Usable == call = "none" /\ fptr.current_cluster # NOT_FOUND

-----------------------------------------------------------------------------
SeekStart(p) ==
    /\ Usable /\ buffers < BUFFERS
    /\ call' = "seek" /\ buffers' = buffers + 1
    /\ seeking' = [len |-> p \div SIZE, off |-> (p % SIZE) % WORD,
                   clus |-> fptr.current_cluster, to |-> p]
    /\ reading' = NotReading
    /\ UNCHANGED <<fptr, file, pos>>

SeekStep ==
    /\ call = "seek" /\ seeking.len > 0 /\ seeking.clus < BAD
    /\ fptr' = [fptr EXCEPT !.cluster = seeking.clus]
    /\ \E w \in Entry(seeking.clus) :
          seeking' = [seeking EXCEPT !.clus = w, !.len = @ - 1]
    /\ UNCHANGED <<call, reading, buffers, file, pos>>

\* The chain is shorter than the position: the buffer is not given back.
SeekBad == /\ call = "seek" /\ seeking.len > 0 /\ seeking.clus >= BAD
           /\ call' = "none"
           /\ pos' = seeking.to
           /\ seeking' = NotSeeking
           /\ UNCHANGED <<fptr, reading, buffers, file>>

\* Mutant: the buffer is kept on every path.
SeekEnd_keeps_buffer ==
    /\ call = "seek" /\ seeking.len = 0
    /\ call' = "none"
    /\ fptr' = [fptr EXCEPT !.offset = seeking.off]
    /\ pos' = seeking.to
    /\ seeking' = NotSeeking
    /\ UNCHANGED <<reading, buffers, file>>

SeekEnd == /\ call = "seek" /\ seeking.len = 0
           /\ call' = "none" /\ buffers' = buffers - 1
           /\ fptr' = [fptr EXCEPT !.offset = seeking.off]
           /\ pos' = seeking.to
           /\ seeking' = NotSeeking
           /\ UNCHANGED <<reading, file>>

fat_seek == SeekStep \/ SeekBad \/ SeekEnd

-----------------------------------------------------------------------------
\* The clusters of the open file, none when it is not found or a directory.
Chain == IF Len(file) = 1 /\ file[1] \in Convertible /\ ~Root[file[1]].directory
         THEN Root[file[1]].chain ELSE << >>

\* The bytes of the open file from position p on.
Bytes(p, n) == [k \in 1 .. n |-> <<Chain[(p + k - 1) \div SIZE + 1],
                                   (p + k - 1) % SIZE>>]

\* The pointer stands at p: at the cluster that holds it and the offset in it.
Stands(p) == /\ p < SIZE * Len(Chain)
             /\ fptr.cluster = Chain[p \div SIZE + 1]
             /\ fptr.next_cluster = fptr.cluster
             /\ fptr.offset = p % SIZE

\* A read that fat_read's arithmetic is made for: it begins at the start of a
\* cluster or ends in the one it begins in, and stays inside the file.
Sound(p, n) == /\ Stands(p)
               /\ p + n <= SIZE * Len(Chain)
               /\ p % SIZE = 0 \/ (p % SIZE) + n <= SIZE

ReadStart(n) ==
    /\ Usable /\ buffers < BUFFERS /\ pos + n <= LIMIT
    /\ call' = "read" /\ buffers' = buffers + 1
    /\ reading' = [left |-> n \div SIZE + (IF n % SIZE > 0 THEN 1 ELSE 0),
                   size |-> n, got |-> << >>, from |-> pos, sound |-> Sound(pos, n)]
    /\ pos' = pos + n
    /\ UNCHANGED <<fptr, seeking, file>>

\* What a turn before the last copies: from the offset to the cluster's end.
Part == IF fptr.offset >= SIZE THEN 0
        ELSE IF reading.size < SIZE - fptr.offset THEN reading.size
        ELSE SIZE - fptr.offset

\* Mutant: the next cluster is looked up and not moved to.
ReadMore_stays ==
    /\ call = "read" /\ reading.left > 1
    /\ reading' = [reading EXCEPT !.left = @ - 1, !.size = @ - Part,
                      !.got = @ \o Copy(fptr.cluster, fptr.offset, Part)]
    /\ \E w \in Entry(fptr.next_cluster) :
          fptr' = [fptr EXCEPT !.next_cluster = w,
                               !.offset = (@ + Part) % SIZE]
    /\ UNCHANGED <<call, seeking, buffers, file, pos>>

ReadMore ==
    /\ call = "read" /\ reading.left > 1
    /\ reading' = [reading EXCEPT !.left = @ - 1, !.size = @ - Part,
                      !.got = @ \o Copy(fptr.cluster, fptr.offset, Part)]
    /\ \E w \in Entry(fptr.next_cluster) :
          fptr' = [fptr EXCEPT !.next_cluster = w, !.cluster = w,
                               !.offset = ((@ + Part) % WORD) % SIZE]
    /\ UNCHANGED <<call, seeking, buffers, file, pos>>

\* Mutant: the offset is kept in more than a word.
ReadLast_wide ==
    /\ call = "read" /\ reading.left = 1
    /\ reading' = [reading EXCEPT !.left = 0, !.size = 0,
                      !.got = @ \o Copy(fptr.cluster, fptr.offset, reading.size)]
    /\ fptr' = [fptr EXCEPT !.offset = @ + reading.size]
    /\ call' = "none" /\ buffers' = buffers - 1
    /\ UNCHANGED <<seeking, file, pos>>

\* Mutant: the offset stays where the read began.
ReadLast_keeps_offset ==
    /\ call = "read" /\ reading.left = 1
    /\ reading' = [reading EXCEPT !.left = 0, !.size = 0,
                      !.got = @ \o Copy(fptr.cluster, fptr.offset, reading.size)]
    /\ call' = "none" /\ buffers' = buffers - 1
    /\ UNCHANGED <<fptr, seeking, file, pos>>

\* The last turn copies what is left, without regard to the cluster's end.
ReadLast ==
    /\ call = "read" /\ reading.left = 1
    /\ reading' = [reading EXCEPT !.left = 0, !.size = 0,
                      !.got = @ \o Copy(fptr.cluster, fptr.offset, reading.size)]
    /\ fptr' = [fptr EXCEPT !.offset = (@ + reading.size) % WORD]
    /\ call' = "none" /\ buffers' = buffers - 1
    /\ UNCHANGED <<seeking, file, pos>>

\* A read of nothing has no turn.
ReadNone == /\ call = "read" /\ reading.left = 0
            /\ call' = "none" /\ buffers' = buffers - 1
            /\ UNCHANGED <<fptr, seeking, reading, file, pos>>

fat_read == ReadMore \/ ReadLast \/ ReadNone

-----------------------------------------------------------------------------
Next == \/ \E path \in Paths : fat_fileOpen(path)
        \/ \E p \in Seeks : SeekStart(p)
        \/ fat_seek
        \/ \E n \in Sizes : ReadStart(n)
        \/ fat_read

Spec == Init /\ [][Next]_vars

-----------------------------------------------------------------------------
(* Properties.                                                             *)

Pointers == [current_cluster : Words \cup {NOT_FOUND},
             next_cluster : Words \cup {NOT_FOUND},
             cluster : Words \cup {NOT_FOUND}, offset : 0 .. WORD - 1]

\* The variables keep their types.
TypeOK == /\ fptr \in Pointers
          /\ call \in {"none", "seek", "read"}
          /\ seeking \in [len : Nat, off : 0 .. WORD - 1, clus : Words, to : Nat]
          /\ reading \in [left : Nat, size : Nat, from : Nat, sound : BOOLEAN,
                          got : Seq((Words \cup {NOT_FOUND}) \X Nat)]
          /\ buffers \in 0 .. BUFFERS
          /\ file \in Paths /\ pos \in Nat

\* A read from a pointer that stands where the caller believes, and that begins
\* at the start of a cluster or stays inside one, copies the bytes of the file in
\* their order, on every turn of the loop, and all of them; when it ends inside a
\* cluster the pointer stands there, so that the next read goes on from it
\* (fat.c:239-275: the clusters, offsets and counts of the turns fit together).
ReadRight == reading.sound =>
    /\ reading.got = Bytes(reading.from, Len(reading.got))
    /\ call = "none" => /\ reading.from + Len(reading.got) = pos
                        /\ pos % SIZE # 0 => Stands(pos)

\* Only a seek beyond the end of the file's chain keeps its buffer; every other
\* return gives the buffer back to the heap (fat.c:181, 188, 201, 236, 277).
OnlyOverrunsKeep ==
    [][call # "none" /\ call' = "none" =>
          \/ buffers' = buffers - 1
          \/ call = "seek" /\ seeking.to \div SIZE > Len(Chain)]_vars

=============================================================================
