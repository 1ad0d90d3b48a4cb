------------------------------ MODULE ElfProofs ------------------------------
(***************************************************************************)
(* Proofs about the program loader, for every program, file, header and    *)
(* table size and every set of calls the file's other clients make: what   *)
(* elf64_load has taken and mapped is given back on every way out, and the *)
(* segments that fat_seek can find lie in memory as they lie in the file.  *)
(*                                                                         *)
(* The invariant is a proof outline of elf64_load: an assertion for each   *)
(* step, kept by the turns of the calls of fat.c that run there, and led   *)
(* by each action of the loader to the assertion of the next step.         *)
(***************************************************************************)
EXTENDS Elf, VolumeProofs, FiniteSetTheorems

-----------------------------------------------------------------------------
(* What holds at each step of elf64_load. *)

\* Beyond the end of the file's chain, where fat_seek keeps its buffer.
Beyond(p) == p \div SIZE > Len(Chain)
Over(k) == {i \in 1 .. k : Table[i].load /\ Beyond(Table[i].off)}

\* No more than n sector buffers are lost; a call that runs has one of its own.
Kept(n) == buffers <= n + (IF call = "none" THEN 0 ELSE 1)

\* The pointer is at the file's first cluster, and the call that runs stays there.
First == fptr.cluster = Chain[1] /\ fptr.next_cluster = Chain[1]
Near == /\ call = "seek" => seeking.to <= SIZE
        /\ call = "read" => reading.left <= 1

\* Memory is mapped where the segments from k on lie; those up to k are in it.
Unmapped == \A a \in Addresses : memory[a] = UNMAPPED
MappedFrom(k) == \A a \in Addresses : memory[a] # UNMAPPED =>
                    \E j \in k .. Len(Table) : Table[j].load /\ a \in Covers(Table[j])
LoadedTo(k) == \A j \in 1 .. k : Findable(j) => AsInFile(j)
Zeroed == \A a \in Covers(Segment_) : memory[a] = ZERO

Opened == turn = 1 /\ Unmapped /\ blocks = {"hdr", "file"}
InProgram == /\ content \in Programs /\ Len(Chain) > 0
             /\ blocks = {"hdr", "file", "programs"}
InSegment == /\ InProgram /\ MappedFrom(1) /\ turn <= Len(Table) /\ Segment_.load
             /\ ~Beyond(content.off) /\ LoadedTo(turn - 1) /\ Zeroed

AtOpen == turn = 1 /\ Unmapped /\ blocks = {} /\ call = "none" /\ buffers = 0
AtHeader == Opened /\ call = "none" /\ buffers = 0 /\ pos = 0 /\ (Chain # << >> => First)
AtVerify == Opened /\ call # "seek" /\ Kept(0) /\ (Chain # << >> => First /\ Near)
AtTable ==
    /\ InProgram /\ turn = 1 /\ Unmapped /\ call # "read"
    /\ call = "seek" => seeking.to = content.off
    /\ Kept(IF call = "none" /\ Beyond(content.off) THEN 1 ELSE 0)
    /\ NearTo(1) => First
AtSegments ==
    /\ InProgram /\ MappedFrom(1) /\ turn <= Len(Table) + 1 /\ call # "seek"
    /\ turn > 1 => ~Beyond(content.off)
    /\ ~Beyond(content.off) => Kept(Cardinality(Over(turn - 1)))
    /\ NearTo(turn) => First /\ Near
    /\ LoadedTo(turn - 1)
AtRead ==
    /\ InSegment /\ call # "read"
    /\ call = "seek" => /\ seeking.to = Segment_.off
                        /\ seeking.off = (seeking.to % SIZE) % WORD
                        /\ Kept(Cardinality(Over(turn - 1)))
    /\ call = "none" => /\ pos = Segment_.off
                        /\ Segment_.off < SIZE => fptr.offset = Segment_.off
                        /\ Kept(Cardinality(Over(turn)))
    /\ NearTo(turn) /\ Segment_.off <= SIZE => First
AtCopied ==
    /\ InSegment /\ call # "seek" /\ Kept(Cardinality(Over(turn)))
    /\ reading.from = Segment_.off /\ pos = Segment_.off + Segment_.filesize
    /\ Len(reading.got) + reading.size <= Segment_.filesize
    /\ Findable(turn) /\ Segment_.filesize > 0 => reading.sound
    /\ NearTo(turn + 1) => First /\ Near
AtProgram == /\ InProgram /\ MappedFrom(1) /\ call = "none" /\ LoadedTo(Len(Table))
             /\ Kept(Cardinality(Over(Len(Table))))
AtUnmap == /\ InProgram /\ MappedFrom(turn) /\ turn <= Len(Table) + 1 /\ call = "none"
           /\ Kept(Cardinality(Over(Len(Table))))
AtExit == GivesBack /\ call = "none"

LoadInv ==
    /\ content \in Programs \cup {NOELF} /\ turn \in Nat \ {0}
    /\ step \in {"caller", "open", "header", "verify", "table", "segments", "wild",
                 "read", "copied", "program", "unmap", "exit"}
    /\ step = "open" => AtOpen
    /\ step = "header" => AtHeader
    /\ step = "verify" => AtVerify
    /\ step = "table" => AtTable
    /\ step = "segments" => AtSegments
    /\ step = "read" => AtRead
    /\ step = "copied" => AtCopied
    /\ step = "program" => AtProgram
    /\ step = "unmap" => AtUnmap
    /\ step = "exit" => AtExit

-----------------------------------------------------------------------------
(* The programs, and what does not change while one is loaded. *)

LEMMA ElfNumbers ==
    /\ HEADER \in Nat /\ HEADER > 0 /\ HEADER <= SIZE /\ ENTRY \in Nat
    /\ SIZE \in Nat \ {0} /\ WORD \in Nat /\ SIZE < WORD
    /\ Addresses \subseteq Nat
BY ElfAssumption, FatNumbers

\* What ElfAssumption says of a segment.
LEMMA SegmentIs ==
    ASSUME NEW p \in Programs, NEW i \in 1 .. Len(p.table)
    PROVE  LET s == p.table[i]
           IN  /\ s.load \in BOOLEAN /\ s.virt \in Nat /\ s.memsize \in Nat
               /\ s.off \in Nat /\ s.filesize \in Nat /\ s.filesize <= s.memsize
               /\ Covers(s) \subseteq Addresses
               /\ \A j \in 1 .. Len(p.table) : j # i => Covers(s) \cap Covers(p.table[j]) = {}
<1> DEFINE t == p.table
<1>1. t \in Seq(Segment) /\ \A k \in DOMAIN t :
         /\ t[k].filesize <= t[k].memsize /\ Covers(t[k]) \subseteq Addresses
         /\ \A j \in 1 .. (k - 1) : Covers(t[k]) \cap Covers(t[j]) = {}
  BY ElfAssumption
<1> HIDE DEF t
<1>2. Len(t) \in Nat /\ DOMAIN t = 1 .. Len(t)
  BY <1>1, LenProperties
<1>3. t[i] \in Segment
  BY <1>1, ElementOfSeq DEF t
<1>4. /\ t[i].load \in BOOLEAN /\ t[i].virt \in Nat /\ t[i].memsize \in Nat
      /\ t[i].off \in Nat /\ t[i].filesize \in Nat
  BY <1>3, ElfNumbers DEF Segment
<1>5. ASSUME NEW j \in 1 .. Len(t), j # i
      PROVE  Covers(t[i]) \cap Covers(t[j]) = {}
  <2>1. i \in 1 .. Len(t) /\ i \in Nat /\ j \in Nat
    BY <1>2 DEF t
  <2>2. CASE j < i
    <3>1. j \in 1 .. (i - 1)
      BY <2>1, <2>2
    <3> QED BY <1>1, <1>2, <2>1, <3>1
  <2>3. CASE i < j
    <3>1. i \in 1 .. (j - 1)
      BY <2>1, <2>3
    <3> QED BY <1>1, <1>2, <1>5, <3>1
  <2> QED BY <1>5, <2>1, <2>2, <2>3
<1>6. t[i].filesize <= t[i].memsize /\ Covers(t[i]) \subseteq Addresses
  BY <1>1, <1>2 DEF t
<1> QED BY <1>4, <1>5, <1>6 DEF t

\* The program table and the segment at hand.
LEMMA ProgramIs ==
    ASSUME content \in Programs \cup {NOELF}
    PROVE  /\ content.off \in Nat /\ Len(Table) \in Nat
           /\ DOMAIN Table = 1 .. Len(Table)
           /\ Len(Table) > 0 => content \in Programs
<1>1. CASE content \in Programs
  <2>1. content.off \in Nat /\ content.table \in Seq(Segment)
    BY <1>1, ElfAssumption
  <2> QED BY <1>1, <2>1, LenProperties DEF Table
<1>2. CASE content = NOELF
  <2>1. content.off = 0 /\ Table = << >>
    BY <1>2 DEF NOELF, Table
  <2> QED BY <2>1, EmptySeq
<1> QED BY <1>1, <1>2

LEMMA AtHand ==
    ASSUME content \in Programs, NEW i \in 1 .. Len(Table)
    PROVE  LET s == Table[i]
           IN  /\ s.load \in BOOLEAN /\ s.virt \in Nat /\ s.memsize \in Nat
               /\ s.off \in Nat /\ s.filesize \in Nat /\ s.filesize <= s.memsize
               /\ Covers(s) \subseteq Addresses
               /\ \A j \in 1 .. Len(Table) : j # i => Covers(s) \cap Covers(Table[j]) = {}
BY SegmentIs DEF Table

\* What is said of the program and the file does not change with the calls.
LEMMA SameFile ==
    ASSUME content' = content, file' = file
    PROVE  /\ Table' = Table /\ Chain' = Chain /\ content.off' = content.off
           /\ \A p : Beyond(p)' = Beyond(p)
           /\ \A k : /\ Over(k)' = Over(k) /\ NearTo(k)' = NearTo(k)
                     /\ Findable(k)' = Findable(k)
<1>1. Table' = Table /\ Chain' = Chain
  BY DEF Table, Chain
<1>2. \A p : Beyond(p)' = Beyond(p)
  BY <1>1 DEF Beyond
<1>3. \A k : Over(k)' = Over(k)
  BY <1>1, <1>2 DEF Over
<1>4. \A k : NearTo(k)' = NearTo(k)
  BY <1>1 DEF NearTo, Loaded
<1>5. \A k : Findable(k)' = Findable(k)
  BY <1>1, <1>4 DEF Findable
<1> QED BY <1>1, <1>2, <1>3, <1>4, <1>5

LEMMA SameMemory ==
    ASSUME content' = content, file' = file, memory' = memory
    PROVE  /\ Unmapped' = Unmapped
           /\ \A k : MappedFrom(k)' = MappedFrom(k) /\ LoadedTo(k)' = LoadedTo(k)
<1>1. Table' = Table /\ Chain' = Chain /\ \A k : Findable(k)' = Findable(k)
  BY SameFile
<1>2. \A k : AsInFile(k)' = AsInFile(k)
  BY <1>1 DEF AsInFile, Bytes
<1> QED BY <1>1, <1>2 DEF Unmapped, MappedFrom, LoadedTo

\* Each segment behind the file's end counts once.
LEMMA OverCounts ==
    ASSUME NEW k \in Nat
    PROVE  /\ Cardinality(Over(k)) \in Nat
           /\ Cardinality(Over(k)) <= Cardinality(Over(k + 1))
           /\ Table[k + 1].load /\ Beyond(Table[k + 1].off)
                 => Cardinality(Over(k + 1)) = Cardinality(Over(k)) + 1
           /\ Over(0) = {} /\ Cardinality(Over(0)) = 0
<1>1. ASSUME NEW n \in Nat
      PROVE  IsFiniteSet(Over(n)) /\ Cardinality(Over(n)) \in Nat
  <2>1. IsFiniteSet(1 .. n)
    BY FS_Interval
  <2>2. IsFiniteSet(Over(n))
    BY <2>1, FS_Subset DEF Over
  <2> QED BY <2>2, FS_CardinalityType
<1>2. k + 1 \in Nat /\ k + 1 \in 1 .. (k + 1) /\ 1 .. k \subseteq 1 .. (k + 1)
      /\ k + 1 \notin 1 .. k /\ 1 .. (k + 1) = 1 .. k \cup {k + 1}
  OBVIOUS
<1>3. Over(k) \in SUBSET Over(k + 1)
  BY <1>2 DEF Over
<1>4. Cardinality(Over(k)) <= Cardinality(Over(k + 1))
  BY <1>1, <1>2, <1>3, FS_Subset
<1>5. ASSUME Table[k + 1].load, Beyond(Table[k + 1].off)
      PROVE  Cardinality(Over(k + 1)) = Cardinality(Over(k)) + 1
  <2>1. Over(k + 1) = Over(k) \cup {k + 1} /\ k + 1 \notin Over(k)
    BY <1>2, <1>5 DEF Over
  <2> QED BY <1>1, <2>1, FS_AddElement
<1>6. Over(0) = {}
  BY DEF Over
<1> QED BY <1>1, <1>4, <1>5, <1>6, FS_EmptySet

-----------------------------------------------------------------------------
(* What a turn of a call may do to the pointer and to its buffer. *)

\* Positions in the first cluster and at its end.
LEMMA Positions ==
    ASSUME NEW p \in Nat
    PROVE  /\ p \div SIZE \in Nat /\ p % SIZE \in Nat /\ p % SIZE < SIZE
           /\ p = SIZE * (p \div SIZE) + (p % SIZE)
           /\ p < SIZE => p \div SIZE = 0 /\ p % SIZE = p
           /\ p <= SIZE => p \div SIZE <= 1
           /\ (p % SIZE) % WORD = p % SIZE
<1>1. \A a \in Nat, s \in Nat \ {0} :
         /\ a \div s \in Nat /\ a % s \in 0 .. (s - 1) /\ a = s * (a \div s) + (a % s)
  BY Quotient
<1>2. SIZE \in Nat \ {0} /\ WORD \in Nat /\ SIZE < WORD
  BY ElfNumbers
<1> DEFINE q == p \div SIZE
           r == p % SIZE
<1>3. q \in Nat /\ r \in 0 .. (SIZE - 1) /\ p = SIZE * q + r
  BY <1>1, <1>2, Zenon
<1> HIDE DEF q, r
<1>4. q >= 1 => SIZE * q >= SIZE
  BY <1>2, <1>3, Z3
<1>5. q >= 2 => SIZE * q >= SIZE + SIZE
  BY <1>2, <1>3, Z3
<1>6. SIZE * q \in Nat
  BY <1>2, <1>3
<1>7. p < SIZE => q = 0
  BY <1>2, <1>3, <1>4, <1>6
<1>8. q = 0 => r = p
  BY <1>2, <1>3
<1>9. p <= SIZE => q <= 1
  BY <1>2, <1>3, <1>5, <1>6
<1>10. r % WORD = r
  <2>1. \A x \in Nat, s \in Nat \ {0} : \A y \in Nat : \A z \in 0 .. (s - 1) :
              x = s * y + z => x \div s = y /\ x % s = z
    BY QuotientIs
  <2>2. /\ WORD \in Nat \ {0} /\ 0 \in Nat /\ r \in Nat /\ r \in 0 .. (WORD - 1)
        /\ r = WORD * 0 + r
    BY <1>2, <1>3
  <2>3. \A z \in 0 .. (WORD - 1) : r = WORD * 0 + z => r % WORD = z
    BY <2>1, <2>2, Zenon
  <2> QED BY <2>2, <2>3, Zenon
<1> QED BY <1>2, <1>3, <1>7, <1>8, <1>9, <1>10 DEF q, r

\* A turn of fat_seek, for the caller: only beyond the end it returns with its
\* buffer, and from a position in the first cluster it leaves its offset.
LEMMA SeekMoves ==
    ASSUME FileInv, fat_seek
    PROVE  /\ call = "seek" /\ file' = file /\ reading' = reading
           /\ call' = "seek" => /\ buffers' = buffers
                                /\ seeking'.to = seeking.to /\ seeking'.off = seeking.off
           /\ call' # "seek" =>
                 /\ call' = "none" /\ pos' = seeking.to
                 /\ buffers' = buffers - 1 \/ (Beyond(seeking.to) /\ buffers' = buffers)
                 /\ seeking.to < SIZE => fptr'.offset = seeking.off
<1>1. fptr \in Pointers /\ seeking \in [len : Nat, off : 0 .. WORD - 1, clus : Words, to : Nat]
      /\ seeking.to \in Nat /\ TypeOK
  BY PointerTypes DEF FileInv, TypeOK
<1>2. CASE SeekStep
  <2>1. PICK w \in Entry(seeking.clus) : seeking' = [seeking EXCEPT !.clus = w, !.len = @ - 1]
    BY <1>2 DEF SeekStep
  <2>2. seeking'.to = seeking.to /\ seeking'.off = seeking.off
    BY <1>1, <2>1
  <2> QED BY <1>2, <2>2 DEF SeekStep
<1>3. CASE SeekBad
  <2>1. Beyond(seeking.to)
    BY <1>3, BadIsBeyond DEF Beyond
  <2>2. ~(seeking.to < SIZE)
    <3> SUFFICES ASSUME seeking.to < SIZE PROVE FALSE
      OBVIOUS
    <3>1. seeking.to \div SIZE = 0
      BY <1>1, Positions
    <3> QED BY <2>1, <3>1, ChainLinks DEF Beyond
  <2> QED BY <1>3, <2>1, <2>2 DEF SeekBad
<1>4. CASE SeekEnd
  <2>1. fptr'.offset = seeking.off
    BY <1>1, <1>4 DEF SeekEnd, Pointers
  <2> QED BY <1>4, <2>1 DEF SeekEnd
<1> QED BY <1>2, <1>3, <1>4 DEF fat_seek

\* It stays at the first cluster when it is sent no further than its end.
LEMMA SeekStays ==
    ASSUME FileInv, fat_seek, First, Len(Chain) > 0, seeking.to <= SIZE
    PROVE  First'
<1>1. Chain' = Chain /\ fptr \in Pointers /\ TypeOK
  <2>1. file' = file
    BY SeekMoves
  <2> QED BY <2>1 DEF Chain, FileInv, TypeOK
<1>2. CASE SeekStep
  <2> DEFINE q == seeking.to \div SIZE
             l == seeking.len
  <2>1. l \in Nat /\ q \in Nat /\ q <= 1 /\ Len(Chain) \in Nat
    BY <1>1, PointerTypes, Positions, ChainLinks
  <2>2. call = "seek" /\ l > 0 /\ fptr' = [fptr EXCEPT !.cluster = seeking.clus]
    BY <1>2 DEF SeekStep
  <2>3. l <= q /\ (q - l < Len(Chain) => seeking.clus = Chain[q - l + 1])
    BY <2>2 DEF FileInv, SeekOn, Passed
  <2> HIDE DEF q, l
  <2>4. q - l = 0 /\ q - l + 1 = 1
    BY <2>1, <2>2, <2>3
  <2>5. seeking.clus = Chain[1]
    BY <2>1, <2>3, <2>4
  <2>6. fptr'.cluster = seeking.clus /\ fptr'.next_cluster = fptr.next_cluster
    BY <1>1, <2>2 DEF Pointers
  <2> QED BY <1>1, <2>5, <2>6 DEF First
<1>3. CASE SeekBad \/ SeekEnd
  <2>1. fptr'.cluster = fptr.cluster /\ fptr'.next_cluster = fptr.next_cluster
    BY <1>1, <1>3 DEF SeekBad, SeekEnd, Pointers
  <2> QED BY <1>1, <2>1 DEF First
<1> QED BY <1>2, <1>3 DEF fat_seek

\* A turn of fat_read, for the caller.
LEMMA ReadMoves ==
    ASSUME FileInv, fat_read
    PROVE  /\ call = "read" /\ file' = file /\ pos' = pos
           /\ reading'.from = reading.from /\ reading'.sound = reading.sound
           /\ Len(reading'.got) + reading'.size = Len(reading.got) + reading.size
           /\ call' = "read" => buffers' = buffers
           /\ call' # "read" => call' = "none" /\ buffers' = buffers - 1
           /\ First /\ reading.left <= 1 => First' /\ reading'.left <= 1
<1>1. TypeOK /\ reading.left \in Nat /\ Len(reading.got) \in Nat /\ reading.size \in Nat
  BY PointerTypes DEF FileInv
<1>2. CASE ReadMore
  <2>1. /\ Part \in Nat /\ Part <= reading.size
        /\ reading'.size = reading.size - Part
        /\ reading'.got = reading.got \o Copy(fptr.cluster, fptr.offset, Part)
        /\ reading'.from = reading.from /\ reading'.sound = reading.sound
    BY <1>2, MoreTypes
  <2>2. \A n \in Nat : Len(reading.got \o Copy(fptr.cluster, fptr.offset, n))
                           = Len(reading.got) + n
    BY <1>1, GotTypes
  <2> DEFINE n == Part
             k == Len(reading.got)
  <2>3. Len(reading'.got) = k + n
    BY <2>1, <2>2
  <2> HIDE DEF n, k
  <2>4. Len(reading'.got) + reading'.size = k + reading.size
    BY <1>1, <2>1, <2>3 DEF n, k
  <2>5. call = "read" /\ call' = call /\ file' = file /\ pos' = pos /\ buffers' = buffers
        /\ reading.left > 1
    BY <1>2 DEF ReadMore
  <2>6. call' = "read" /\ ~(reading.left <= 1)
    BY <1>1, <2>5
  <2>7. Len(reading'.got) + reading'.size = Len(reading.got) + reading.size
    BY <2>4 DEF k
  <2> QED BY <2>1, <2>5, <2>6, <2>7
<1>3. CASE ReadLast
  <2>1. /\ reading'.size = 0 /\ reading'.left = 0
        /\ Len(reading'.got) = Len(reading.got) + reading.size
        /\ reading'.from = reading.from /\ reading'.sound = reading.sound
        /\ fptr'.cluster = fptr.cluster /\ fptr'.next_cluster = fptr.next_cluster
    BY <1>3, LastTypes
  <2>2. /\ call = "read" /\ call' = "none" /\ file' = file /\ pos' = pos
        /\ buffers' = buffers - 1
    BY <1>3 DEF ReadLast
  <2>3. First => First'
    BY <2>1, <2>2 DEF First, Chain
  <2> QED BY <1>1, <2>1, <2>2, <2>3
<1>4. CASE ReadNone
  <2>1. /\ call = "read" /\ call' = "none" /\ file' = file /\ pos' = pos
        /\ buffers' = buffers - 1 /\ reading' = reading /\ fptr' = fptr
    BY <1>4 DEF ReadNone
  <2>2. First => First'
    BY <2>1 DEF First, Chain
  <2> QED BY <2>1, <2>2
<1> QED BY <1>2, <1>3, <1>4 DEF fat_read

\* What a turn leaves of the count of lost buffers.
LEMMA SeekKeeps ==
    ASSUME FileInv, fat_seek, NEW n \in Nat, Kept(n)
    PROVE  /\ buffers' <= n + 1
           /\ call' = "none" /\ ~Beyond(seeking.to) => buffers' <= n
<1>1. buffers \in Nat
  BY PointerTypes DEF FileInv
<1>2. buffers <= n + 1
  BY SeekMoves DEF Kept
<1>3. buffers' = buffers \/ buffers' = buffers - 1
  BY SeekMoves
<1>4. call' = "none" /\ ~Beyond(seeking.to) => buffers' = buffers - 1
  BY SeekMoves
<1> QED BY <1>1, <1>2, <1>3, <1>4

LEMMA ReadKeeps ==
    ASSUME FileInv, fat_read, NEW n \in Nat, Kept(n)
    PROVE  buffers' <= n + (IF call' = "none" THEN 0 ELSE 1)
<1>1. buffers \in Nat
  BY PointerTypes DEF FileInv
<1>2. buffers <= n + 1
  BY ReadMoves DEF Kept
<1>3. \/ call' = "none" /\ buffers' = buffers - 1
      \/ call' # "none" /\ buffers' = buffers
  BY ReadMoves
<1> QED BY <1>1, <1>2, <1>3

-----------------------------------------------------------------------------
(* The turns of the calls that run at each step. *)

LEMMA VerifyTurn ==
    ASSUME FileInv, AtVerify, fat_read, UNCHANGED loaderVars
    PROVE  AtVerify'
<1>1. /\ content' = content /\ turn' = turn /\ blocks' = blocks /\ memory' = memory
      /\ file' = file /\ (call' = "read" \/ call' = "none")
  BY ReadMoves DEF loaderVars
<1>2. Opened'
  BY <1>1, SameMemory DEF AtVerify, Opened
<1>3. Kept(0)'
  BY ReadKeeps DEF AtVerify, Kept
<1>4. Chain' # << >> => First' /\ Near'
  <2>1. Chain' = Chain
    BY <1>1 DEF Chain
  <2>2. First /\ reading.left <= 1 => First' /\ reading'.left <= 1
    BY ReadMoves
  <2>3. First /\ Near => First' /\ Near'
    BY <1>1, <2>2, ReadMoves DEF Near
  <2> QED BY <2>1, <2>3 DEF AtVerify
<1> QED BY <1>1, <1>2, <1>3, <1>4 DEF AtVerify

LEMMA SegmentsTurn ==
    ASSUME FileInv, content \in Programs \cup {NOELF}, turn \in Nat \ {0},
           AtSegments, fat_read, UNCHANGED loaderVars
    PROVE  AtSegments'
<1>1. /\ content' = content /\ turn' = turn /\ blocks' = blocks /\ memory' = memory
      /\ file' = file /\ (call' = "read" \/ call' = "none")
  BY ReadMoves DEF loaderVars
<1>2. InProgram' /\ MappedFrom(1)' /\ LoadedTo(turn - 1)' /\ turn' <= Len(Table') + 1
  BY <1>1, SameMemory, SameFile DEF AtSegments, InProgram
<1>3. turn' > 1 => ~Beyond(content.off)'
  BY <1>1, SameFile DEF AtSegments
<1>4. ~Beyond(content.off)' => Kept(Cardinality(Over(turn - 1)))'
  <2> DEFINE n == Cardinality(Over(turn - 1))
  <2>1. n \in Nat /\ n' = n /\ Beyond(content.off)' = Beyond(content.off)
    BY <1>1, OverCounts, SameFile
  <2>2. ~Beyond(content.off) => Kept(n)
    BY DEF AtSegments
  <2> HIDE DEF n
  <2>3. \A m \in Nat : Kept(m) => buffers' <= m + (IF call' = "none" THEN 0 ELSE 1)
    BY ReadKeeps
  <2>4. ~Beyond(content.off)' => buffers' <= n' + (IF call' = "none" THEN 0 ELSE 1)
    BY <2>1, <2>2, <2>3
  <2> QED BY <2>4 DEF Kept, n
<1>5. NearTo(turn)' => First' /\ Near'
  <2>1. NearTo(turn)' = NearTo(turn)
    BY <1>1, SameFile
  <2>2. First /\ reading.left <= 1 => First' /\ reading'.left <= 1
    BY ReadMoves
  <2>3. First /\ Near => First' /\ Near'
    BY <1>1, <2>2, ReadMoves DEF Near
  <2> QED BY <2>1, <2>3 DEF AtSegments
<1> QED BY <1>1, <1>2, <1>3, <1>4, <1>5 DEF AtSegments

LEMMA TableTurn ==
    ASSUME FileInv, content \in Programs \cup {NOELF}, AtTable, fat_seek,
           UNCHANGED loaderVars
    PROVE  AtTable'
<1>1. /\ content' = content /\ turn' = turn /\ blocks' = blocks /\ memory' = memory
      /\ file' = file /\ call = "seek" /\ (call' = "seek" \/ call' = "none")
  BY SeekMoves DEF loaderVars
<1>2. InProgram' /\ Unmapped' /\ turn' = 1 /\ call' # "read"
  BY <1>1, SameMemory, SameFile DEF AtTable, InProgram
<1>3. seeking.to = content.off /\ (call' = "seek" => seeking'.to = content'.off)
  BY <1>1, SeekMoves DEF AtTable
<1>4. Kept(IF call = "none" /\ Beyond(content.off) THEN 1 ELSE 0)'
  <2>1. Kept(0) /\ 0 \in Nat
    BY <1>1 DEF AtTable, Kept
  <2>2. buffers' <= 0 + 1 /\ (call' = "none" /\ ~Beyond(content.off) => buffers' <= 0)
    BY <1>3, <2>1, SeekKeeps
  <2>3. Beyond(content.off)' = Beyond(content.off)
    BY <1>1, SameFile
  <2>4. CASE call' = "none"
    BY <2>2, <2>3, <2>4 DEF Kept
  <2>5. CASE call' = "seek"
    BY <2>2, <2>5 DEF Kept
  <2> QED BY <1>1, <2>4, <2>5
<1>5. NearTo(1)' => First'
  <2> SUFFICES ASSUME NearTo(1) PROVE First'
    BY <1>1, SameFile
  <2>1. content.off + ENTRY * Len(Table) <= SIZE
    BY DEF NearTo
  <2>2. content.off \in Nat /\ ENTRY * Len(Table) \in Nat /\ SIZE \in Nat
    BY ProgramIs, ElfNumbers
  <2>3. content.off <= SIZE
    BY <2>1, <2>2
  <2>4. First /\ Len(Chain) > 0
    BY DEF AtTable, InProgram
  <2> QED BY <1>3, <2>3, <2>4, SeekStays
<1> QED BY <1>1, <1>2, <1>3, <1>4, <1>5 DEF AtTable

\* A loadable segment's seek loses a buffer only when it goes behind the end.
LEMMA ReadTurn ==
    ASSUME FileInv, content \in Programs \cup {NOELF}, turn \in Nat \ {0}, AtRead, fat_seek,
           UNCHANGED loaderVars
    PROVE  AtRead'
<1>1. /\ content' = content /\ turn' = turn /\ blocks' = blocks /\ memory' = memory
      /\ file' = file /\ call = "seek" /\ (call' = "seek" \/ call' = "none")
      /\ Segment_' = Segment_ /\ Table' = Table
  BY SeekMoves DEF loaderVars, Segment_, Table
<1>2. InSegment' /\ call' # "read"
  <2>1. InProgram' /\ MappedFrom(1)' /\ LoadedTo(turn - 1)' /\ ~Beyond(content.off)'
    BY <1>1, SameMemory, SameFile DEF AtRead, InSegment, InProgram
  <2>2. Zeroed'
    BY <1>1 DEF AtRead, InSegment, Zeroed
  <2> QED BY <1>1, <2>1, <2>2 DEF AtRead, InSegment
<1> DEFINE s == Segment_
           n == Cardinality(Over(turn - 1))
           m == Cardinality(Over(turn))
<1>3. seeking.to = s.off /\ seeking.off = (s.off % SIZE) % WORD /\ Kept(n)
  BY <1>1 DEF AtRead
<1>4. /\ s.off \in Nat /\ s.load /\ turn - 1 \in Nat /\ turn = (turn - 1) + 1
      /\ SIZE \in Nat
  <2>1. turn \in 1 .. Len(Table) /\ content \in Programs /\ s.load
    BY ProgramIs DEF AtRead, InSegment, InProgram
  <2>2. s.off \in Nat
    BY <2>1, AtHand DEF Segment_
  <2> QED BY <2>1, <2>2, ElfNumbers
<1>5. n \in Nat /\ m \in Nat /\ n <= m /\ (Beyond(s.off) => m = n + 1)
  <2>1. /\ Cardinality(Over(turn - 1)) \in Nat
        /\ Cardinality(Over(turn - 1)) <= Cardinality(Over((turn - 1) + 1))
        /\ Table[(turn - 1) + 1].load /\ Beyond(Table[(turn - 1) + 1].off)
              => Cardinality(Over((turn - 1) + 1)) = Cardinality(Over(turn - 1)) + 1
    BY <1>4, OverCounts
  <2>2. Cardinality(Over((turn - 1) + 1)) \in Nat
    BY <1>4, OverCounts
  <2> QED BY <1>4, <2>1, <2>2 DEF Segment_
<1>6. n' = n /\ m' = m /\ Beyond(s.off)' = Beyond(s.off) /\ NearTo(turn)' = NearTo(turn)
  BY <1>1, SameFile
<1> HIDE DEF n, m
<1>7. buffers' <= n + 1 /\ (call' = "none" /\ ~Beyond(s.off) => buffers' <= n)
  <2>1. \A k \in Nat : Kept(k) => /\ buffers' <= k + 1
                                  /\ call' = "none" /\ ~Beyond(seeking.to) => buffers' <= k
    BY SeekKeeps
  <2> QED BY <1>3, <1>5, <2>1
<1>8. ASSUME call' = "seek"
      PROVE  /\ seeking'.to = Segment_'.off /\ seeking'.off = (seeking'.to % SIZE) % WORD
             /\ Kept(Cardinality(Over(turn - 1)))'
  <2>1. seeking'.to = s.off /\ seeking'.off = (s.off % SIZE) % WORD
    BY <1>3, <1>8, SeekMoves
  <2>2. Kept(n)'
    BY <1>6, <1>7, <1>8 DEF Kept
  <2> QED BY <1>1, <2>1, <2>2 DEF n
<1>9. ASSUME call' = "none"
      PROVE  /\ pos' = Segment_'.off /\ (Segment_'.off < SIZE => fptr'.offset = Segment_'.off)
             /\ Kept(Cardinality(Over(turn)))'
  <2>1. pos' = s.off
    BY <1>3, <1>9, SeekMoves
  <2>2. s.off < SIZE => fptr'.offset = s.off
    <3>1. s.off < SIZE => s.off % SIZE = s.off /\ (s.off % SIZE) % WORD = s.off % SIZE
      BY <1>4, Positions
    <3> QED BY <1>3, <1>9, <3>1, SeekMoves
  <2>3. buffers' <= m
    <3>1. buffers' \in Int
      BY SeekMoves, PointerTypes DEF FileInv
    <3> QED BY <1>5, <1>7, <1>9, <3>1
  <2>4. Kept(m)'
    <3>1. m' \in Nat /\ m' + 0 = m
      BY <1>5, <1>6
    <3> QED BY <1>9, <2>3, <3>1 DEF Kept
  <2> QED BY <1>1, <2>1, <2>2, <2>4 DEF m
<1>10. NearTo(turn)' /\ Segment_'.off <= SIZE => First'
  <2> SUFFICES ASSUME NearTo(turn), s.off <= SIZE PROVE First'
    BY <1>1, <1>6
  <2>1. First /\ Len(Chain) > 0
    BY DEF AtRead, InSegment, InProgram
  <2> QED BY <1>3, <2>1, SeekStays
<1> QED BY <1>1, <1>2, <1>8, <1>9, <1>10 DEF AtRead

LEMMA CopiedTurn ==
    ASSUME FileInv, content \in Programs \cup {NOELF}, turn \in Nat \ {0}, AtCopied, fat_read,
           UNCHANGED loaderVars
    PROVE  AtCopied'
<1>1. /\ content' = content /\ turn' = turn /\ blocks' = blocks /\ memory' = memory
      /\ file' = file /\ pos' = pos /\ call = "read" /\ (call' = "read" \/ call' = "none")
      /\ Segment_' = Segment_ /\ Table' = Table
  BY ReadMoves DEF loaderVars, Segment_, Table
<1>2. InSegment' /\ call' # "seek"
  <2>1. InProgram' /\ MappedFrom(1)' /\ LoadedTo(turn - 1)' /\ ~Beyond(content.off)'
    BY <1>1, SameMemory, SameFile DEF AtCopied, InSegment, InProgram
  <2>2. Zeroed'
    BY <1>1 DEF AtCopied, InSegment, Zeroed
  <2> QED BY <1>1, <2>1, <2>2 DEF AtCopied, InSegment
<1>3. Kept(Cardinality(Over(turn)))'
  <2> DEFINE n == Cardinality(Over(turn))
  <2>1. n \in Nat /\ n' = n /\ Kept(n)
    BY <1>1, OverCounts, SameFile DEF AtCopied
  <2> HIDE DEF n
  <2>2. \A m \in Nat : Kept(m) => buffers' <= m + (IF call' = "none" THEN 0 ELSE 1)
    BY ReadKeeps
  <2>3. buffers' <= n' + (IF call' = "none" THEN 0 ELSE 1)
    BY <2>1, <2>2
  <2> QED BY <2>3 DEF Kept, n
<1>4. /\ reading'.from = Segment_'.off /\ pos' = Segment_'.off + Segment_'.filesize
      /\ Len(reading'.got) + reading'.size <= Segment_'.filesize
  BY <1>1, ReadMoves DEF AtCopied
<1>5. Findable(turn)' /\ Segment_'.filesize > 0 => reading'.sound
  BY <1>1, SameFile, ReadMoves DEF AtCopied
<1>6. NearTo(turn + 1)' => First' /\ Near'
  <2>1. NearTo(turn + 1)' = NearTo(turn + 1)
    BY <1>1, SameFile
  <2>2. First /\ reading.left <= 1 => First' /\ reading'.left <= 1
    BY ReadMoves
  <2>3. First /\ Near => First' /\ Near'
    BY <1>1, <2>2 DEF Near
  <2> QED BY <2>1, <2>3 DEF AtCopied
<1> QED BY <1>2, <1>3, <1>4, <1>5, <1>6 DEF AtCopied

\* A call runs only where the loader has made one.
LEMMA CallingStep ==
    ASSUME FileInv, LoadInv, Calling
    PROVE  LoadInv'
<1>1. /\ step # "caller" /\ (fat_seek \/ fat_read) /\ UNCHANGED loaderVars
      /\ step' = step /\ content' = content /\ turn' = turn
  BY DEF Calling, loaderVars
<1>2. (fat_seek => call = "seek") /\ (fat_read => call = "read")
  BY SeekMoves, ReadMoves
<1>3. content \in Programs \cup {NOELF} /\ turn \in Nat \ {0}
  BY DEF LoadInv
<1>4. step \notin {"open", "header", "program", "unmap", "exit"}
  BY <1>1, <1>2 DEF LoadInv, AtOpen, AtHeader, AtProgram, AtUnmap, AtExit
<1>5. step = "verify" => AtVerify'
  BY <1>1, <1>2, VerifyTurn DEF LoadInv, AtVerify
<1>6. step = "table" => AtTable'
  BY <1>1, <1>2, <1>3, TableTurn DEF LoadInv, AtTable
<1>7. step = "segments" => AtSegments'
  BY <1>1, <1>2, <1>3, SegmentsTurn DEF LoadInv, AtSegments
<1>8. step = "read" => AtRead'
  BY <1>1, <1>2, <1>3, ReadTurn DEF LoadInv, AtRead
<1>9. step = "copied" => AtCopied'
  BY <1>1, <1>2, <1>3, CopiedTurn DEF LoadInv, AtCopied
<1>10. step \in {"caller", "open", "header", "verify", "table", "segments", "wild",
                 "read", "copied", "program", "unmap", "exit"}
  BY DEF LoadInv
<1> QED BY <1>1, <1>3, <1>4, <1>5, <1>6, <1>7, <1>8, <1>9, <1>10 DEF LoadInv

-----------------------------------------------------------------------------
(* The steps of the loader. *)

\* An action of the loader that makes no call leaves the file as it is.
LEMMA IdleStep ==
    ASSUME FileInv, Idle
    PROVE  /\ FileInv' /\ Chain' = Chain /\ call' = call /\ file' = file
           /\ buffers' = buffers /\ pos' = pos /\ reading' = reading /\ fptr' = fptr
           /\ seeking' = seeking
<1>1. UNCHANGED vars
  BY DEF Idle, vars
<1>2. FileInv'
  BY <1>1, FileStep
<1> QED BY <1>2 DEF Idle, Chain

\* Whatever the loader does is a step of the file reader, with the sizes and
\* positions of the program.
LEMMA ElfFileStep ==
    ASSUME FileInv, LoadInv, [ElfNext]_<<vars, loaderVars>>
    PROVE  FileInv'
<1>1. content \in Programs \cup {NOELF} /\ turn \in Nat \ {0}
  BY DEF LoadInv
<1>2. content.off \in Nat /\ ENTRY * Len(Table) \in Nat /\ HEADER \in Nat
  <2>1. Len(Table) \in Nat /\ ENTRY \in Nat /\ content.off \in Nat
    BY <1>1, ProgramIs, ElfNumbers
  <2> QED BY <2>1, ElfNumbers
<1>3. CASE step = "caller" /\ Next /\ UNCHANGED loaderVars
  BY <1>3, FileStep
<1>4. CASE Calling
  BY <1>4, FileStep DEF Calling, Next
<1>5. ASSUME NEW path \in Paths, elf64_open(path)
      PROVE  FileInv'
  BY <1>5, OpenStep DEF elf64_open
<1>6. CASE ReadHeader
  BY <1>2, <1>6, ReadStartStep DEF ReadHeader
<1>7. CASE ReadTable
  BY <1>2, <1>7, ReadStartStep DEF ReadTable
<1>8. CASE ReadSegment
  <2>1. step = "read"
    BY <1>8 DEF ReadSegment, Loader
  <2>2. turn \in 1 .. Len(Table) /\ content \in Programs
    BY <1>1, <2>1, ProgramIs DEF LoadInv, AtRead, InSegment, InProgram
  <2>3. Segment_.filesize \in Nat
    BY <2>2, AtHand DEF Segment_
  <2> QED BY <1>8, <2>3, ReadStartStep DEF ReadSegment
<1>9. CASE SeekTable
  BY <1>2, <1>9, SeekStartStep DEF SeekTable
<1>10. CASE SeekSegment
  <2>1. step = "segments" /\ turn <= Len(Table)
    BY <1>10 DEF SeekSegment, Loader, InRange
  <2>2. turn \in 1 .. Len(Table) /\ content \in Programs
    BY <1>1, <2>1, ProgramIs DEF LoadInv, AtSegments, InProgram
  <2>3. Segment_.off \in Nat
    BY <2>2, AtHand DEF Segment_
  <2> QED BY <1>10, <2>3, SeekStartStep DEF SeekSegment
<1>11. CASE HeaderWrong \/ NotElf \/ TableWrong \/ SkipSegment \/ Copied \/ Enter \/ Returns \/ Unmap \/ Finish
  <2>1. Idle
    BY <1>11 DEF HeaderWrong, NotElf, TableWrong, SkipSegment, Copied, Enter, Returns, Unmap, Finish
  <2> QED BY <2>1, IdleStep
<1>12. CASE UNCHANGED <<vars, loaderVars>>
  BY <1>12, FileStep
<1> QED BY <1>3, <1>4, <1>5, <1>6, <1>7, <1>8, <1>9, <1>10, <1>11, <1>12
        DEF ElfNext, elf64_load

\* A read of no more than a cluster has one turn at most.
LEMMA OneTurn ==
    ASSUME NEW n \in Nat, n <= SIZE
    PROVE  n \div SIZE + (IF n % SIZE > 0 THEN 1 ELSE 0) <= 1
<1> DEFINE q == n \div SIZE
           r == n % SIZE
<1>1. /\ q \in Nat /\ r \in Nat /\ n = SIZE * q + r /\ q <= 1 /\ (n < SIZE => q = 0)
      /\ SIZE \in Nat
  BY Positions, ElfNumbers
<1> HIDE DEF q, r
<1>2. q = 1 => r = 0
  BY <1>1
<1>3. q + (IF r > 0 THEN 1 ELSE 0) <= 1
  BY <1>1, <1>2
<1> QED BY <1>3 DEF q, r

\* The state that elf64_load starts a call in, and what the call's start does.
LEMMA SeekCall ==
    ASSUME NEW p, SeekStart(p), NEW n \in Nat, Kept(n), TypeOK
    PROVE  /\ call = "none" /\ call' = "seek" /\ seeking'.to = p
           /\ seeking'.off = (p % SIZE) % WORD
           /\ Chain' = Chain /\ file' = file /\ fptr' = fptr /\ First' = First
           /\ buffers' <= n + 1
<1>1. /\ call = "none" /\ call' = "seek" /\ buffers' = buffers + 1
      /\ seeking'.to = p /\ seeking'.off = (p % SIZE) % WORD
      /\ file' = file /\ fptr' = fptr
  BY DEF SeekStart, Usable
<1>2. Chain' = Chain /\ First' = First
  BY <1>1 DEF First, Chain
<1>3. buffers <= n /\ buffers \in Nat
  BY <1>1, PointerTypes DEF Kept
<1> QED BY <1>1, <1>2, <1>3

LEMMA ReadCall ==
    ASSUME NEW k \in Nat, ReadStart(k), NEW n \in Nat, Kept(n), TypeOK
    PROVE  /\ call = "none" /\ call' = "read"
           /\ reading'.from = pos /\ reading'.size = k /\ reading'.sound = Sound(pos, k)
           /\ Len(reading'.got) = 0 /\ (k <= SIZE => reading'.left <= 1) /\ pos' = pos + k
           /\ Chain' = Chain /\ file' = file /\ fptr' = fptr /\ First' = First
           /\ buffers' <= n + 1
<1>1. /\ call = "none" /\ call' = "read" /\ buffers' = buffers + 1
      /\ reading' = [left |-> k \div SIZE + (IF k % SIZE > 0 THEN 1 ELSE 0),
                     size |-> k, got |-> << >>, from |-> pos, sound |-> Sound(pos, k)]
      /\ pos' = pos + k /\ file' = file /\ fptr' = fptr
  BY DEF ReadStart, Usable
<1>2. Chain' = Chain /\ First' = First
  BY <1>1 DEF First, Chain
<1>3. buffers <= n /\ buffers \in Nat
  BY <1>1, PointerTypes DEF Kept
<1> DEFINE l == k \div SIZE + (IF k % SIZE > 0 THEN 1 ELSE 0)
           b == Sound(pos, k)
<1>4. k <= SIZE => l <= 1
  BY OneTurn
<1> HIDE DEF l, b
<1>5. /\ reading'.left = l /\ reading'.size = k /\ reading'.got = << >>
      /\ reading'.from = pos /\ reading'.sound = b
  BY <1>1 DEF l, b
<1>6. Len(reading'.got) = 0
  BY <1>5, EmptySeq
<1> QED BY <1>1, <1>2, <1>3, <1>4, <1>5, <1>6 DEF b

\* The header's block and the file's, or a directory that is not opened.
LEMMA OpenFile ==
    ASSUME FileInv, LoadInv, NEW path \in Paths, elf64_open(path)
    PROVE  LoadInv'
<1>1. AtOpen /\ content' = content /\ turn' = turn /\ memory' = memory /\ turn \in Nat \ {0}
      /\ content \in Programs \cup {NOELF}
  BY DEF elf64_open, LoadInv
<1>2. /\ call' = "none" /\ buffers' = 0 /\ pos' = 0 /\ fptr' = Open(path) /\ file' = path
  BY <1>1 DEF elf64_open, fat_fileOpen, AtOpen
<1>3. turn = 1 /\ \A a \in Addresses : memory'[a] = UNMAPPED
  BY <1>1 DEF AtOpen, Unmapped
<1>4. CASE fptr'.current_cluster = NOT_FOUND
  <2>1. step' = "exit" /\ blocks' = {"hdr"} /\ code' = 1
    BY <1>4 DEF elf64_open
  <2>2. AtExit'
    BY <1>2, <1>3, <2>1 DEF AtExit, GivesBack
  <2> QED BY <1>1, <2>1, <2>2 DEF LoadInv
<1>5. CASE fptr'.current_cluster # NOT_FOUND
  <2>1. step' = "header" /\ blocks' = {"hdr", "file"}
    BY <1>5 DEF elf64_open
  <2>2. ASSUME Chain' # << >> PROVE First'
    <3>1. Chain' = Clusters(path)
      BY <1>2 DEF Chain, Clusters
    <3>2. fptr'.current_cluster = Chain'[1]
      BY <1>2, <2>2, <3>1, OpenIs
    <3>3. fptr'.cluster = fptr'.current_cluster /\ fptr'.next_cluster = fptr'.current_cluster
      BY <1>2 DEF Open, Pointer
    <3> QED BY <3>2, <3>3 DEF First
  <2>3. AtHeader'
    BY <1>1, <1>2, <1>3, <2>1, <2>2 DEF AtHeader, Opened, Unmapped
  <2> QED BY <1>1, <2>1, <2>3 DEF LoadInv
<1> QED BY <1>4, <1>5

LEMMA HeaderStep ==
    ASSUME FileInv, LoadInv, ReadHeader
    PROVE  LoadInv'
<1>1. /\ AtHeader /\ step' = "verify" /\ ReadStart(HEADER)
      /\ content' = content /\ turn' = turn /\ blocks' = blocks /\ memory' = memory
      /\ turn \in Nat \ {0} /\ content \in Programs \cup {NOELF}
  BY DEF ReadHeader, Loader, LoadInv
<1>2. Kept(0) /\ 0 \in Nat /\ HEADER \in Nat /\ HEADER <= SIZE /\ TypeOK
  BY <1>1, ElfNumbers DEF AtHeader, Kept, FileInv
<1>3. /\ call' = "read" /\ reading'.left <= 1 /\ Chain' = Chain /\ First' = First
      /\ buffers' <= 0 + 1 /\ file' = file
  BY <1>1, <1>2, ReadCall
<1>4. Opened'
  BY <1>1, <1>3, SameMemory DEF AtHeader, Opened
<1>5. AtVerify'
  BY <1>1, <1>3, <1>4 DEF AtHeader, AtVerify, Kept, Near
<1> QED BY <1>1, <1>5 DEF LoadInv

\* The header is not a program's: both blocks are given back.
LEMMA NotElfStep ==
    ASSUME FileInv, LoadInv, NotElf
    PROVE  LoadInv'
<1>1. /\ AtVerify /\ step' = "exit" /\ Idle /\ call = "none"
      /\ content' = content /\ turn' = turn /\ memory' = memory /\ code' = 2
      /\ blocks' = blocks \ {"hdr", "file"}
      /\ turn \in Nat \ {0} /\ content \in Programs \cup {NOELF}
  BY DEF NotElf, Loader, LoadInv
<1>2. blocks' = {} /\ \A a \in Addresses : memory'[a] = UNMAPPED
  BY <1>1 DEF AtVerify, Opened, Unmapped
<1>3. AtExit'
  BY <1>1, <1>2, IdleStep DEF AtExit, GivesBack
<1> QED BY <1>1, <1>3 DEF LoadInv

LEMMA SeekTableStep ==
    ASSUME FileInv, LoadInv, SeekTable
    PROVE  LoadInv'
<1>1. /\ AtVerify /\ step' = "table" /\ SeekStart(content.off) /\ IsElf
      /\ content' = content /\ turn' = turn /\ memory' = memory
      /\ blocks' = blocks \cup {"programs"} /\ call = "none"
      /\ turn \in Nat \ {0} /\ content \in Programs \cup {NOELF}
  BY DEF SeekTable, Loader, LoadInv
<1>2. /\ call' = "seek" /\ seeking'.to = content.off /\ file' = file
      /\ Chain' = Chain /\ First' = First /\ buffers' <= 0 + 1
  <2>1. Kept(0) /\ 0 \in Nat /\ TypeOK
    BY <1>1 DEF AtVerify, FileInv
  <2> QED BY <1>1, <2>1, SeekCall
<1>3. content \in Programs /\ Len(Chain) > 0
  <2> DEFINE L == Len(Chain)
  <2>1. 0 + HEADER <= SIZE * L /\ content # NOELF
    BY <1>1 DEF IsElf, HeaderRead, ReadIs
  <2>2. L \in Nat /\ SIZE \in Nat /\ HEADER \in Nat /\ HEADER > 0
    BY ChainLinks, ElfNumbers
  <2> HIDE DEF L
  <2>3. L # 0
    BY <2>1, <2>2
  <2> QED BY <1>1, <2>1, <2>2, <2>3 DEF L
<1>4. InProgram' /\ Unmapped' /\ turn' = 1
  <2>1. blocks' = {"hdr", "file", "programs"}
    BY <1>1 DEF AtVerify, Opened
  <2> QED BY <1>1, <1>2, <1>3, <2>1, SameMemory DEF AtVerify, Opened, InProgram
<1>5. First'
  BY <1>1, <1>2, <1>3, EmptySeq DEF AtVerify
<1>6. Kept(IF call = "none" /\ Beyond(content.off) THEN 1 ELSE 0)'
  BY <1>2 DEF Kept
<1>7. AtTable'
  BY <1>1, <1>2, <1>4, <1>5, <1>6 DEF AtTable
<1> QED BY <1>1, <1>7 DEF LoadInv

LEMMA ReadTableStep ==
    ASSUME FileInv, LoadInv, ReadTable
    PROVE  LoadInv'
<1> DEFINE k == ENTRY * Len(Table)
<1>1. /\ AtTable /\ step' = "segments" /\ ReadStart(k) /\ call = "none"
      /\ content' = content /\ turn' = turn /\ memory' = memory /\ blocks' = blocks
      /\ turn \in Nat \ {0} /\ content \in Programs \cup {NOELF}
  BY DEF ReadTable, Loader, LoadInv
<1>2. k \in Nat /\ Len(Table) \in Nat /\ content.off \in Nat /\ turn = 1
      /\ buffers \in Nat /\ SIZE \in Nat
  <2>1. Len(Table) \in Nat /\ ENTRY \in Nat /\ SIZE \in Nat /\ content.off \in Nat
    BY <1>1, ProgramIs, ElfNumbers
  <2> QED BY <1>1, <2>1, PointerTypes DEF AtTable, FileInv
<1> DEFINE n == IF Beyond(content.off) THEN 1 ELSE 0
<1>3. Kept(n) /\ n \in Nat
  BY <1>1 DEF AtTable
<1> HIDE DEF k
<1>4. /\ call' = "read" /\ Chain' = Chain /\ First' = First /\ file' = file
      /\ (k <= SIZE => reading'.left <= 1) /\ buffers' <= n + 1
  <2> HIDE DEF n
  <2> QED BY <1>1, <1>2, <1>3, ReadCall DEF FileInv
<1>5. InProgram' /\ Unmapped' /\ Table' = Table /\ Beyond(content.off)' = Beyond(content.off)
      /\ NearTo(turn)' = NearTo(1)
  <2>1. NearTo(1)' = NearTo(1) /\ turn' = 1
    BY <1>1, <1>2, <1>4, SameFile
  <2> QED BY <1>1, <1>4, <2>1, SameFile, SameMemory DEF AtTable, InProgram
<1>6. MappedFrom(1)'
  BY <1>5 DEF Unmapped, MappedFrom
<1>7. turn' <= Len(Table') + 1 /\ ~(turn' > 1) /\ turn' - 1 = 0
  BY <1>1, <1>2, <1>5
<1>8. ~Beyond(content.off)' => Kept(Cardinality(Over(turn - 1)))'
  <2>1. Cardinality(Over(turn - 1))' = 0
    <3>1. \A j : Over(j)' = Over(j)
      BY <1>1, <1>4, SameFile
    <3>2. Over(turn - 1)' = Over(0)
      BY <1>7, <3>1
    <3> QED BY <3>2, OverCounts
  <2>2. ~Beyond(content.off)' => buffers' <= 0 + 1
    BY <1>4, <1>5
  <2> QED BY <1>4, <2>1, <2>2 DEF Kept
<1>9. NearTo(turn)' => First' /\ Near'
  <2>1. NearTo(1) => k <= SIZE
    <3>1. NearTo(1) => content.off + k <= SIZE
      BY DEF NearTo, k
    <3> QED BY <1>2, <3>1
  <2> QED BY <1>1, <1>4, <1>5, <2>1 DEF AtTable, Near
<1>10. LoadedTo(turn - 1)'
  <2>1. 1 .. (turn' - 1) = {}
    BY <1>7
  <2> QED BY <2>1 DEF LoadedTo
<1>11. AtSegments'
  BY <1>4, <1>5, <1>6, <1>7, <1>8, <1>9, <1>10 DEF AtSegments
<1> QED BY <1>1, <1>11 DEF LoadInv

\* From an unread header or table the loader goes anywhere.
LEMMA HeaderWrongStep ==
    ASSUME LoadInv, HeaderWrong
    PROVE  LoadInv'
BY DEF HeaderWrong, Loader, LoadInv

LEMMA TableWrongStep ==
    ASSUME LoadInv, TableWrong
    PROVE  LoadInv'
BY DEF TableWrong, Loader, LoadInv

\* The table that the loop looks at has been read, and lies in the file.
LEMMA TableInFile ==
    ASSUME LoadInv, AtSegments, TableRight
    PROVE  ~Beyond(content.off)
<1>1. turn \in Nat \ {0} /\ content \in Programs \cup {NOELF}
  BY DEF LoadInv
<1>2. CASE turn > 1
  BY <1>2 DEF AtSegments
<1>3. CASE turn = 1
  <2> DEFINE o == content.off
             k == ENTRY * Len(Table)
             L == Len(Chain)
             q == o \div SIZE
  <2>1. o + k <= SIZE * L
    BY <1>3 DEF TableRight, TableIsRead, ReadIs
  <2>2. o \in Nat /\ k \in Nat /\ SIZE \in Nat \ {0} /\ L \in Nat
    <3>1. content.off \in Nat /\ Len(Table) \in Nat /\ ENTRY \in Nat
      BY <1>1, ProgramIs, ElfNumbers
    <3> QED BY <3>1, ElfNumbers, ChainLinks
  <2>3. q \in Nat /\ o % SIZE \in Nat /\ o = SIZE * q + (o % SIZE)
    BY <2>2, Positions
  <2> HIDE DEF o, k, L, q
  <2>4. SIZE * q <= SIZE * L
    <3>1. SIZE * q \in Nat /\ SIZE * L \in Nat
      BY <2>2, <2>3
    <3> QED BY <2>1, <2>2, <2>3, <3>1
  <2>5. ~(q > L)
    <3> SUFFICES ASSUME q > L PROVE FALSE
      OBVIOUS
    <3>1. q - L \in Nat \ {0} /\ SIZE * q = SIZE * L + SIZE * (q - L)
      BY <2>2, <2>3
    <3>2. SIZE * (q - L) > 0
      BY <2>2, <3>1
    <3>3. SIZE * L \in Nat /\ SIZE * (q - L) \in Nat
      BY <2>2, <3>1
    <3> QED BY <2>4, <3>1, <3>2, <3>3
  <2> QED BY <2>5 DEF Beyond, q, L, o
<1> QED BY <1>1, <1>2, <1>3

\* What is near for one segment more.
LEMMA NearBefore ==
    ASSUME NEW k \in Nat \ {0}, NearTo(k + 1)
    PROVE  NearTo(k) /\ (Table[k].load => FirstCluster(Table[k]))
<1>1. (k + 1) - 1 = k /\ 1 .. (k - 1) \subseteq 1 .. k /\ k \in 1 .. k
  OBVIOUS
<1>2. \A j \in 1 .. k : Table[j].load => FirstCluster(Table[j])
  BY <1>1 DEF NearTo, Loaded
<1> QED BY <1>1, <1>2 DEF NearTo, Loaded

\* The loop over the segments at the one at hand.
LEMMA AtSegment ==
    ASSUME FileInv, LoadInv, step = "segments", call = "none", TableRight, InRange
    PROVE  /\ AtSegments /\ content \in Programs /\ turn \in 1 .. Len(Table) /\ turn \in Nat \ {0}
           /\ turn - 1 \in Nat /\ (turn + 1) - 1 = turn /\ turn + 1 \in Nat \ {0}
           /\ Len(Table) \in Nat
           /\ ~Beyond(content.off) /\ Kept(Cardinality(Over(turn - 1)))
           /\ Cardinality(Over(turn - 1)) \in Nat /\ Cardinality(Over(turn)) \in Nat
           /\ Cardinality(Over(turn - 1)) <= Cardinality(Over(turn))
<1>1. AtSegments /\ turn \in Nat \ {0} /\ content \in Programs
  BY DEF LoadInv, AtSegments, InProgram
<1>2. ~Beyond(content.off)
  BY <1>1, TableInFile
<1>3. Len(Table) \in Nat /\ turn <= Len(Table)
  BY <1>1, ProgramIs DEF InRange
<1>4. /\ turn \in 1 .. Len(Table) /\ turn - 1 \in Nat /\ (turn - 1) + 1 = turn
      /\ (turn + 1) - 1 = turn /\ turn + 1 \in Nat \ {0}
  BY <1>1, <1>3
<1>5. /\ Cardinality(Over(turn - 1)) \in Nat /\ Cardinality(Over(turn)) \in Nat
      /\ Cardinality(Over(turn - 1)) <= Cardinality(Over((turn - 1) + 1))
  BY <1>1, <1>4, OverCounts
<1> QED BY <1>1, <1>2, <1>3, <1>4, <1>5 DEF AtSegments

LEMMA SkipStep ==
    ASSUME FileInv, LoadInv, SkipSegment
    PROVE  LoadInv'
<1>1. /\ step = "segments" /\ step' = "segments" /\ call = "none" /\ Idle /\ TableRight /\ InRange
      /\ ~Segment_.load /\ turn' = turn + 1
      /\ content' = content /\ blocks' = blocks /\ memory' = memory
  BY DEF SkipSegment, Loader
<1>2. /\ AtSegments /\ content \in Programs /\ turn \in 1 .. Len(Table) /\ turn \in Nat \ {0}
      /\ (turn + 1) - 1 = turn /\ turn + 1 \in Nat \ {0} /\ Len(Table) \in Nat
      /\ ~Beyond(content.off) /\ Kept(Cardinality(Over(turn - 1)))
      /\ Cardinality(Over(turn - 1)) \in Nat /\ Cardinality(Over(turn)) \in Nat
      /\ Cardinality(Over(turn - 1)) <= Cardinality(Over(turn))
  BY <1>1, AtSegment
<1>3. Chain' = Chain /\ call' = call /\ file' = file /\ buffers' = buffers /\ fptr' = fptr
  BY <1>1, IdleStep
<1>4. /\ Table' = Table /\ Beyond(content.off)' = Beyond(content.off)
      /\ NearTo(turn)' = NearTo(turn')
      /\ MappedFrom(1)' = MappedFrom(1) /\ LoadedTo(turn - 1)' = LoadedTo(turn' - 1)
  BY <1>1, <1>3, SameFile, SameMemory
<1>5. InProgram' /\ MappedFrom(1)' /\ turn' <= Len(Table') + 1 /\ call' # "seek"
  BY <1>1, <1>2, <1>3, <1>4 DEF AtSegments, InProgram
<1>6. Kept(Cardinality(Over(turn - 1)))'
  <2>1. Over(turn - 1)' = Over(turn)
    <3>1. \A j : Over(j)' = Over(j)
      BY <1>1, <1>3, SameFile
    <3>2. turn' - 1 = turn
      BY <1>1, <1>2
    <3> QED BY <3>1, <3>2
  <2> DEFINE n == Cardinality(Over(turn - 1))
             m == Cardinality(Over(turn))
  <2>2. buffers <= n /\ n \in Nat /\ m \in Nat /\ n <= m /\ buffers \in Nat
    BY <1>1, <1>2, PointerTypes DEF Kept, FileInv
  <2> HIDE DEF n, m
  <2>3. buffers' <= m + 0
    BY <1>3, <2>2
  <2> QED BY <1>1, <1>3, <2>1, <2>3 DEF Kept, m
<1>7. NearTo(turn)' => First' /\ Near'
  <2>1. NearTo(turn') => NearTo(turn)
    BY <1>1, <1>2, NearBefore
  <2>2. First' = First
    BY <1>3 DEF First
  <2> QED BY <1>1, <1>2, <1>3, <1>4, <2>1, <2>2 DEF AtSegments, Near
<1>8. LoadedTo(turn - 1)'
  <2>1. LoadedTo(turn - 1) /\ ~Findable(turn)
    BY <1>1, <1>2 DEF AtSegments, Findable, Segment_
  <2>2. \A j \in 1 .. turn : j \in 1 .. (turn - 1) \/ j = turn
    BY <1>2
  <2>3. LoadedTo(turn)
    BY <2>1, <2>2 DEF LoadedTo
  <2> QED BY <1>1, <1>2, <1>4, <2>3
<1>9. AtSegments'
  BY <1>2, <1>4, <1>5, <1>6, <1>7, <1>8 DEF AtSegments
<1> QED BY <1>1, <1>2, <1>9 DEF LoadInv

\* A segment that is loaded stays so while another one's memory is written.
LEMMA OthersStay ==
    ASSUME content \in Programs, NEW i \in 1 .. Len(Table), NEW j \in 1 .. Len(Table), j # i,
           content' = content, file' = file, AsInFile(j),
           \A a \in Addresses : a \notin Covers(Table[i]) => memory'[a] = memory[a]
    PROVE  AsInFile(j)'
<1> DEFINE s == Table[j]
<1>1. Table' = Table /\ Chain' = Chain
  BY SameFile
<1>2. /\ s.virt \in Nat /\ s.memsize \in Nat
      /\ Covers(s) \subseteq Addresses /\ Covers(s) \cap Covers(Table[i]) = {}
  BY AtHand
<1> HIDE DEF s
<1>3. ASSUME NEW k \in 0 .. (s.memsize - 1)
      PROVE  memory'[s.virt + k] = memory[s.virt + k]
  <2>1. s.virt + k \in Covers(s)
    BY SMTT(30), <1>2 DEF Covers
  <2> QED BY <1>2, <2>1
<1>4. \A k \in 0 .. (s.memsize - 1) : memory[s.virt + k]
         = IF k < s.filesize THEN Bytes(s.off, s.filesize)[k + 1] ELSE ZERO
  BY DEF AsInFile, s
<1>5. \A p, n : Bytes(p, n)' = Bytes(p, n)
  BY <1>1 DEF Bytes
<1>6. s' = s
  BY <1>1 DEF s
<1>7. \A k \in 0 .. (s'.memsize - 1) : memory'[s'.virt + k]
         = IF k < s'.filesize THEN Bytes(s.off, s.filesize)'[k + 1] ELSE ZERO
  BY <1>3, <1>4, <1>5, <1>6
<1> QED BY <1>7 DEF AsInFile, s

\* page_mapv and memzero give the segment at hand its memory.
LEMMA SeekSegmentStep ==
    ASSUME FileInv, LoadInv, SeekSegment
    PROVE  LoadInv'
<1> DEFINE s == Segment_
<1>1. /\ step = "segments" /\ step' = "read" /\ call = "none" /\ TableRight /\ InRange
      /\ s.load /\ turn' = turn /\ content' = content /\ blocks' = blocks
      /\ memory' = [a \in Addresses |-> IF a \in Covers(s) THEN ZERO ELSE memory[a]]
      /\ SeekStart(s.off)
  BY DEF SeekSegment, Loader
<1>2. /\ AtSegments /\ content \in Programs /\ turn \in 1 .. Len(Table) /\ turn \in Nat \ {0}
      /\ turn - 1 \in Nat /\ Len(Table) \in Nat
      /\ ~Beyond(content.off) /\ Kept(Cardinality(Over(turn - 1)))
      /\ Cardinality(Over(turn - 1)) \in Nat
  BY <1>1, AtSegment
<1> DEFINE n == Cardinality(Over(turn - 1))
<1>3. /\ call' = "seek" /\ seeking'.to = s.off /\ seeking'.off = (s.off % SIZE) % WORD
      /\ Chain' = Chain /\ file' = file /\ First' = First /\ buffers' <= n + 1
  <2> HIDE DEF n
  <2> QED BY <1>1, <1>2, SeekCall DEF FileInv, n
<1>4. /\ Table' = Table /\ Segment_' = s /\ Beyond(content.off)' = Beyond(content.off)
      /\ n' = n /\ NearTo(turn)' = NearTo(turn)
      /\ \A j : Findable(j)' = Findable(j)
  BY <1>1, <1>3, SameFile DEF Segment_
<1>5. Covers(s) \subseteq Addresses
  BY <1>2, AtHand DEF Segment_
<1>6. MappedFrom(1)'
  <2> SUFFICES ASSUME NEW a \in Addresses, memory'[a] # UNMAPPED
               PROVE  \E j \in 1 .. Len(Table) : Table[j].load /\ a \in Covers(Table[j])
    BY <1>4 DEF MappedFrom
  <2>1. CASE a \in Covers(s)
    BY <1>1, <1>2, <2>1 DEF Segment_
  <2>2. CASE a \notin Covers(s)
    BY <1>1, <1>2, <2>2 DEF AtSegments, MappedFrom
  <2> QED BY <2>1, <2>2
<1>7. LoadedTo(turn - 1)'
  <2> SUFFICES ASSUME NEW j \in 1 .. (turn - 1), Findable(j) PROVE AsInFile(j)'
    BY <1>1, <1>4 DEF LoadedTo
  <2>1. AsInFile(j)
    BY <1>2 DEF AtSegments, LoadedTo
  <2>2. j \in 1 .. Len(Table) /\ j # turn
    BY <1>2
  <2>3. \A a \in Addresses : a \notin Covers(Table[turn]) => memory'[a] = memory[a]
    BY <1>1 DEF Segment_
  <2> QED BY <1>1, <1>2, <1>3, <2>1, <2>2, <2>3, OthersStay
<1>8. Zeroed'
  BY <1>1, <1>4, <1>5 DEF Zeroed
<1>9. InSegment'
  <2>1. InProgram' /\ Segment_'.load /\ turn' <= Len(Table')
    BY <1>1, <1>2, <1>3, <1>4 DEF AtSegments, InProgram
  <2> QED BY <1>2, <1>4, <1>6, <1>7, <1>8, <2>1 DEF InSegment
<1>10. Kept(n)'
  BY <1>3, <1>4 DEF Kept
<1>11. NearTo(turn)' => First'
  BY <1>2, <1>3, <1>4 DEF AtSegments
<1>12. AtRead'
  <2>1. seeking'.to = Segment_'.off /\ seeking'.off = (seeking'.to % SIZE) % WORD
    BY <1>3, <1>4
  <2> QED BY <1>3, <1>9, <1>10, <1>11, <2>1 DEF AtRead
<1> QED BY <1>1, <1>2, <1>12 DEF LoadInv

\* From the first cluster, fat_read's arithmetic is made for a segment that ends
\* in it or begins the file.
LEMMA FindableIsSound ==
    ASSUME content \in Programs, NEW i \in 1 .. Len(Table), Findable(i),
           Len(Chain) > 0, First, Table[i].filesize > 0,
           Table[i].off < SIZE => fptr.offset = Table[i].off
    PROVE  Sound(Table[i].off, Table[i].filesize)
<1> DEFINE o == Table[i].off
           n == Table[i].filesize
           L == Len(Chain)
<1>1. /\ o \in Nat /\ n \in Nat /\ n > 0 /\ SIZE \in Nat \ {0} /\ L \in Nat /\ L > 0
  BY AtHand, ElfNumbers, ChainLinks
<1>2. o + n <= SIZE \/ (o = 0 /\ n <= SIZE * L)
  BY DEF Findable, FirstCluster
<1>3. o < SIZE => o \div SIZE = 0 /\ o % SIZE = o
  BY <1>1, Positions
<1>4. o < SIZE => fptr.offset = o
  OBVIOUS
<1> HIDE DEF o, n, L
<1>5. o < SIZE
  BY <1>1, <1>2
<1>6. SIZE <= SIZE * L /\ SIZE * L \in Nat
  <2>1. SIZE * L = SIZE + SIZE * (L - 1) /\ L - 1 \in Nat
    BY <1>1
  <2>2. SIZE * (L - 1) \in Nat
    BY <1>1, <2>1
  <2> QED BY <1>1, <2>1, <2>2
<1>7. o < SIZE * L /\ o + n <= SIZE * L
  BY <1>1, <1>2, <1>5, <1>6
<1>8. o % SIZE = 0 \/ (o % SIZE) + n <= SIZE
  BY <1>1, <1>2, <1>3, <1>5
<1>9. Chain[o \div SIZE + 1] = Chain[1]
  BY <1>3, <1>5
<1>10. Stands(o)
  BY <1>3, <1>4, <1>5, <1>7, <1>9 DEF Stands, First, L
<1> QED BY <1>7, <1>8, <1>10 DEF Sound, o, n, L

LEMMA ReadSegmentStep ==
    ASSUME FileInv, LoadInv, ReadSegment
    PROVE  LoadInv'
<1> DEFINE s == Segment_
           n == Cardinality(Over(turn))
<1>1. /\ AtRead /\ step' = "copied" /\ call = "none" /\ ReadStart(s.filesize)
      /\ content' = content /\ turn' = turn /\ memory' = memory /\ blocks' = blocks
      /\ turn \in Nat \ {0} /\ content \in Programs
  BY DEF ReadSegment, Loader, LoadInv, AtRead, InSegment, InProgram
<1>2. /\ turn \in 1 .. Len(Table) /\ s.load /\ s.off \in Nat /\ s.filesize \in Nat
      /\ InSegment
  <2>1. turn \in 1 .. Len(Table)
    BY <1>1, ProgramIs DEF AtRead, InSegment
  <2> QED BY <1>1, <2>1, AtHand DEF Segment_, AtRead, InSegment
<1>3. /\ pos = s.off /\ (s.off < SIZE => fptr.offset = s.off) /\ Kept(n)
      /\ NearTo(turn) /\ s.off <= SIZE => First
  BY <1>1 DEF AtRead
<1>4. n \in Nat
  BY <1>1, OverCounts
<1>5. /\ call' = "read" /\ reading'.from = s.off /\ reading'.size = s.filesize
      /\ reading'.sound = Sound(s.off, s.filesize) /\ Len(reading'.got) = 0
      /\ (s.filesize <= SIZE => reading'.left <= 1) /\ pos' = s.off + s.filesize
      /\ Chain' = Chain /\ file' = file /\ First' = First /\ buffers' <= n + 1
  <2> HIDE DEF n, s
  <2> QED BY <1>1, <1>2, <1>3, <1>4, ReadCall DEF FileInv
<1>6. /\ Table' = Table /\ Segment_' = s /\ Beyond(content.off)' = Beyond(content.off)
      /\ n' = n /\ NearTo(turn + 1)' = NearTo(turn + 1) /\ Findable(turn)' = Findable(turn)
  BY <1>1, <1>5, SameFile DEF Segment_
<1>7. InSegment'
  <2>1. InProgram' /\ MappedFrom(1)' /\ LoadedTo(turn - 1)'
    BY <1>1, <1>2, <1>5, SameMemory DEF InSegment, InProgram
  <2>2. Zeroed'
    BY <1>1, <1>2, <1>6 DEF InSegment, Zeroed
  <2> QED BY <1>1, <1>2, <1>6, <2>1, <2>2 DEF InSegment
<1>8. Kept(n)'
  BY <1>5, <1>6 DEF Kept
<1>9. ASSUME Findable(turn), s.filesize > 0
      PROVE  Sound(s.off, s.filesize)
  <2>1. NearTo(turn) /\ Len(Chain) > 0
    BY <1>2, <1>9 DEF Findable, InSegment, InProgram
  <2>2. s.off <= SIZE
    <3>1. s.off + s.filesize <= SIZE \/ s.off = 0
      BY <1>9 DEF Findable, FirstCluster, Segment_
    <3> QED BY <1>2, <3>1, ElfNumbers
  <2> QED BY <1>1, <1>2, <1>3, <1>9, <2>1, <2>2, FindableIsSound DEF Segment_
<1>10. ASSUME NearTo(turn + 1)
       PROVE  First /\ s.filesize <= SIZE
  <2>1. NearTo(turn) /\ FirstCluster(s)
    BY <1>1, <1>2, <1>10, NearBefore DEF Segment_
  <2>2. s.off <= SIZE /\ s.filesize <= SIZE
    BY <1>2, <2>1, ElfNumbers DEF FirstCluster
  <2> QED BY <1>3, <2>1, <2>2
<1>11. AtCopied'
  <2>1. reading'.from = Segment_'.off /\ pos' = Segment_'.off + Segment_'.filesize
    BY <1>5, <1>6
  <2>2. Len(reading'.got) + reading'.size <= Segment_'.filesize
    BY <1>2, <1>5, <1>6
  <2>3. Findable(turn)' /\ Segment_'.filesize > 0 => reading'.sound
    BY <1>5, <1>6, <1>9
  <2>4. NearTo(turn + 1)' => First' /\ Near'
    BY <1>5, <1>6, <1>10 DEF Near
  <2> QED BY <1>5, <1>7, <1>8, <2>1, <2>2, <2>3, <2>4 DEF AtCopied
<1> QED BY <1>1, <1>11 DEF LoadInv

\* The bytes of a segment that can be found are the file's, and all of them.
LEMMA CopiedRight ==
    ASSUME FileInv, AtCopied, call = "none", turn \in 1 .. Len(Table), Findable(turn),
           Segment_.filesize > 0
    PROVE  /\ Len(reading.got) = Segment_.filesize
           /\ reading.got = Bytes(Segment_.off, Segment_.filesize)
<1> DEFINE s == Segment_
           k == Len(reading.got)
<1>1. reading.sound /\ reading.from = s.off /\ pos = s.off + s.filesize
  BY DEF AtCopied
<1>2. reading.got = Bytes(s.off, k) /\ s.off + k = pos
  BY <1>1 DEF FileInv, ReadRight
<1>3. k \in Nat /\ s.off \in Nat /\ s.filesize \in Nat
  <2>1. content \in Programs
    BY DEF AtCopied, InSegment, InProgram
  <2>2. s.off \in Nat /\ s.filesize \in Nat
    BY <2>1, AtHand DEF Segment_
  <2> QED BY <2>2, PointerTypes DEF FileInv
<1> HIDE DEF s, k
<1>4. k = s.filesize
  BY <1>1, <1>2, <1>3
<1> QED BY <1>2, <1>4 DEF s, k

\* The bytes are copied to the segment's memory.
LEMMA CopiedStep ==
    ASSUME FileInv, LoadInv, Copied
    PROVE  LoadInv'
<1> DEFINE s == Segment_
           n == Cardinality(Over(turn))
           got == reading.got
           l == Len(got)
<1>1. /\ AtCopied /\ InSegment /\ step' = "segments" /\ call = "none" /\ Idle /\ turn' = turn + 1
      /\ content' = content /\ blocks' = blocks
      /\ memory' = [a \in Addresses |->
                       IF a \in s.virt .. (s.virt + l - 1) THEN got[a - s.virt + 1]
                       ELSE memory[a]]
      /\ turn \in Nat \ {0} /\ content \in Programs
  BY DEF Copied, Target, Loader, LoadInv, AtCopied, InSegment, InProgram
<1>2. Chain' = Chain /\ call' = call /\ file' = file /\ buffers' = buffers /\ fptr' = fptr
  BY <1>1, IdleStep
<1>3. /\ turn \in 1 .. Len(Table) /\ Len(Table) \in Nat /\ s.load
      /\ s.virt \in Nat /\ s.memsize \in Nat /\ s.off \in Nat /\ s.filesize \in Nat
      /\ s.filesize <= s.memsize /\ Covers(s) \subseteq Addresses
  <2>1. turn \in 1 .. Len(Table) /\ Len(Table) \in Nat
    BY <1>1, ProgramIs DEF InSegment
  <2> QED BY <1>1, <2>1, AtHand DEF Segment_, InSegment
<1>4. l \in Nat /\ l <= s.filesize
  <2>1. l \in Nat /\ reading.size \in Nat
    BY PointerTypes DEF FileInv
  <2> QED BY <1>1, <1>3, <2>1 DEF AtCopied
<1>5. /\ Table' = Table /\ Beyond(content.off)' = Beyond(content.off)
      /\ \A j : Over(j)' = Over(j) /\ NearTo(j)' = NearTo(j) /\ Findable(j)' = Findable(j)
  BY <1>1, <1>2, SameFile
<1>6. turn' - 1 = turn /\ turn' \in Nat \ {0} /\ turn' <= Len(Table') + 1
  BY <1>1, <1>3, <1>5
<1> HIDE DEF s, got, l
<1>7. s.virt .. (s.virt + l - 1) \subseteq Covers(s)
  BY SMTT(30), <1>3, <1>4 DEF Covers
<1>8. MappedFrom(1)'
  <2> SUFFICES ASSUME NEW a \in Addresses, memory'[a] # UNMAPPED
               PROVE  \E j \in 1 .. Len(Table) : Table[j].load /\ a \in Covers(Table[j])
    BY <1>5 DEF MappedFrom
  <2>1. CASE a \in Covers(s)
    BY <1>3, <2>1 DEF Segment_, s
  <2>2. CASE a \notin Covers(s)
    BY <1>1, <1>7, <2>2 DEF InSegment, MappedFrom
  <2> QED BY <2>1, <2>2
<1>9. ASSUME NEW i, i = turn, Findable(i)
      PROVE  AsInFile(i)'
  <2>1. l = s.filesize /\ (s.filesize > 0 => got = Bytes(s.off, s.filesize))
    <3>1. s.filesize > 0 => l = s.filesize /\ got = Bytes(s.off, s.filesize)
      BY <1>1, <1>3, <1>9, CopiedRight DEF s, got, l
    <3> QED BY <1>3, <1>4, <3>1
  <2>2. ASSUME NEW k \in 0 .. (s.memsize - 1)
        PROVE  memory'[s.virt + k] = IF k < s.filesize THEN Bytes(s.off, s.filesize)[k + 1]
                                     ELSE ZERO
    <3>1. s.virt + k \in Covers(s) /\ k \in Nat
      BY SMTT(30), <1>3 DEF Covers
    <3>2. s.virt + k \in Addresses
      BY <1>3, <3>1
    <3>3. CASE k < s.filesize
      <4>1. s.virt + k \in s.virt .. (s.virt + l - 1) /\ (s.virt + k) - s.virt + 1 = k + 1
        BY SMTT(30), <1>3, <2>1, <3>1, <3>3
      <4>2. memory'[s.virt + k] = got[k + 1]
        BY <1>1, <3>2, <4>1
      <4>3. got = Bytes(s.off, s.filesize)
        BY <1>3, <2>1, <3>1, <3>3
      <4> QED BY <3>3, <4>2, <4>3
    <3>4. CASE ~(k < s.filesize)
      <4>1. s.virt + k \notin s.virt .. (s.virt + l - 1)
        BY <1>3, <2>1, <3>1, <3>4
      <4>2. memory[s.virt + k] = ZERO
        BY <1>1, <3>1 DEF InSegment, Zeroed, s
      <4> QED BY <1>1, <3>2, <3>4, <4>1, <4>2
    <3> QED BY <3>3, <3>4
  <2> DEFINE t == Table[i]
  <2>3. t' = s /\ \A p, m : Bytes(p, m)' = Bytes(p, m)
    BY <1>2, <1>5, <1>9 DEF s, Segment_, Bytes
  <2> HIDE DEF t
  <2>4. \A k \in 0 .. (t'.memsize - 1) : memory'[t'.virt + k]
           = IF k < t'.filesize THEN Bytes(t.off, t.filesize)'[k + 1] ELSE ZERO
    BY <2>2, <2>3
  <2> QED BY <2>4 DEF AsInFile, t
<1>10. LoadedTo(turn - 1)'
  <2> SUFFICES ASSUME NEW j \in 1 .. turn, Findable(j) PROVE AsInFile(j)'
    BY <1>5, <1>6 DEF LoadedTo
  <2>1. CASE j = turn
    BY <1>9, <2>1
  <2>2. CASE j # turn
    <3>1. j \in 1 .. (turn - 1) /\ j \in 1 .. Len(Table)
      BY <1>3, <2>2
    <3>2. AsInFile(j)
      BY <1>1, <3>1 DEF InSegment, LoadedTo
    <3>3. \A a \in Addresses : a \notin Covers(Table[turn]) => memory'[a] = memory[a]
      BY <1>1, <1>7 DEF s, Segment_
    <3> QED BY <1>1, <1>2, <1>3, <2>2, <3>1, <3>2, <3>3, OthersStay
  <2> QED BY <2>1, <2>2
<1>11. InProgram' /\ ~Beyond(content.off)' /\ call' # "seek"
  BY <1>1, <1>2, <1>5 DEF InSegment, InProgram
<1>12. Kept(Cardinality(Over(turn - 1)))'
  <2>1. Over(turn - 1)' = Over(turn)
    BY <1>5, <1>6
  <2>2. Kept(n)
    BY <1>1 DEF AtCopied
  <2> QED BY <1>2, <2>1, <2>2 DEF Kept
<1>13. NearTo(turn)' => First' /\ Near'
  <2>1. NearTo(turn)' = NearTo(turn + 1)
    BY <1>1, <1>5
  <2>2. First' = First
    BY <1>2 DEF First
  <2> QED BY <1>1, <1>2, <2>1, <2>2 DEF AtCopied, Near
<1>14. AtSegments'
  BY <1>6, <1>8, <1>10, <1>11, <1>12, <1>13 DEF AtSegments
<1> QED BY <1>1, <1>6, <1>14 DEF LoadInv

\* Behind the last segment the program is entered.
LEMMA EnterStep ==
    ASSUME FileInv, LoadInv, Enter
    PROVE  LoadInv'
<1>1. /\ AtSegments /\ step' = "program" /\ call = "none" /\ Idle /\ TableRight /\ ~InRange
      /\ content' = content /\ turn' = turn /\ blocks' = blocks /\ memory' = memory
      /\ turn \in Nat \ {0} /\ content \in Programs
  BY DEF Enter, Loader, LoadInv, AtSegments, InProgram
<1>2. Chain' = Chain /\ call' = call /\ file' = file /\ buffers' = buffers
  BY <1>1, IdleStep
<1>3. Len(Table) \in Nat /\ turn - 1 = Len(Table)
  <2>1. Len(Table) \in Nat
    BY <1>1, ProgramIs
  <2> QED BY <1>1, <2>1 DEF AtSegments, InRange
<1>4. Kept(Cardinality(Over(Len(Table)))) /\ LoadedTo(Len(Table))
  BY <1>1, <1>3, TableInFile DEF AtSegments
<1>5. /\ Table' = Table /\ \A j : Over(j)' = Over(j) /\ LoadedTo(j)' = LoadedTo(j)
      /\ MappedFrom(1)' = MappedFrom(1)
  BY <1>1, <1>2, SameFile, SameMemory
<1>6. AtProgram'
  BY <1>1, <1>2, <1>4, <1>5 DEF AtProgram, AtSegments, InProgram, Kept
<1> QED BY <1>1, <1>6 DEF LoadInv

LEMMA ReturnsStep ==
    ASSUME FileInv, LoadInv, Returns
    PROVE  LoadInv'
<1>1. /\ AtProgram /\ step' = "unmap" /\ call = "none" /\ Idle /\ turn' = 1
      /\ content' = content /\ blocks' = blocks /\ memory' = memory /\ content \in Programs
  BY DEF Returns, Loader, LoadInv, AtProgram, InProgram
<1>2. Chain' = Chain /\ call' = call /\ file' = file /\ buffers' = buffers
  BY <1>1, IdleStep
<1>3. /\ Table' = Table /\ \A j : Over(j)' = Over(j) /\ MappedFrom(j)' = MappedFrom(j)
  BY <1>1, <1>2, SameFile, SameMemory
<1>4. turn' <= Len(Table') + 1
  BY <1>1, <1>3, ProgramIs
<1>5. AtUnmap'
  BY <1>1, <1>2, <1>3, <1>4 DEF AtProgram, AtUnmap, InProgram, Kept
<1> QED BY <1>1, <1>5 DEF LoadInv

\* One segment after the other is unmapped.
LEMMA UnmapStep ==
    ASSUME FileInv, LoadInv, Unmap
    PROVE  LoadInv'
<1>1. /\ AtUnmap /\ step' = "unmap" /\ call = "none" /\ Idle /\ InRange /\ turn' = turn + 1
      /\ content' = content /\ blocks' = blocks /\ content \in Programs /\ turn \in Nat \ {0}
      /\ memory' = [a \in Addresses |->
                       IF Segment_.load /\ a \in Covers(Segment_) THEN UNMAPPED ELSE memory[a]]
  BY DEF Unmap, Loader, LoadInv, AtUnmap, InProgram
<1>2. Chain' = Chain /\ call' = call /\ file' = file /\ buffers' = buffers
  BY <1>1, IdleStep
<1>3. Table' = Table /\ \A j : Over(j)' = Over(j)
  BY <1>1, <1>2, SameFile
<1>4. Len(Table) \in Nat /\ turn' <= Len(Table') + 1 /\ turn' \in Nat \ {0}
  <2>1. Len(Table) \in Nat
    BY <1>1, ProgramIs
  <2> QED BY <1>1, <1>3, <2>1 DEF InRange
<1>5. MappedFrom(turn)'
  <2> SUFFICES ASSUME NEW a \in Addresses, memory'[a] # UNMAPPED
               PROVE  \E j \in (turn + 1) .. Len(Table) :
                         Table[j].load /\ a \in Covers(Table[j])
    BY <1>1, <1>3 DEF MappedFrom
  <2>1. memory[a] # UNMAPPED /\ ~(Segment_.load /\ a \in Covers(Segment_))
    BY <1>1
  <2>2. PICK j \in turn .. Len(Table) : Table[j].load /\ a \in Covers(Table[j])
    BY <1>1, <2>1 DEF AtUnmap, MappedFrom
  <2>3. j # turn
    BY <2>1, <2>2 DEF Segment_
  <2>4. j \in (turn + 1) .. Len(Table)
    BY <1>1, <1>4, <2>3
  <2> QED BY <2>2, <2>4
<1>6. AtUnmap'
  BY <1>1, <1>2, <1>3, <1>4, <1>5 DEF AtUnmap, InProgram, Kept
<1> QED BY <1>1, <1>4, <1>6 DEF LoadInv

\* Everything is given back.
LEMMA FinishStep ==
    ASSUME FileInv, LoadInv, Finish
    PROVE  LoadInv'
<1>1. /\ AtUnmap /\ step' = "exit" /\ call = "none" /\ Idle /\ ~InRange /\ turn' = turn
      /\ content' = content /\ memory' = memory /\ content \in Programs /\ turn \in Nat \ {0}
      /\ blocks' = blocks \ {"programs", "hdr", "file"} /\ code' = 0
  BY DEF Finish, Loader, LoadInv, AtUnmap, InProgram
<1>2. Chain' = Chain /\ call' = call /\ file' = file /\ buffers' = buffers
  BY <1>1, IdleStep
<1>3. Table' = Table
  BY <1>1 DEF Table
<1>4. Len(Table) \in Nat /\ turn = Len(Table) + 1 /\ DOMAIN Table = 1 .. Len(Table)
  <2>1. Len(Table) \in Nat /\ DOMAIN Table = 1 .. Len(Table)
    BY <1>1, ProgramIs
  <2> QED BY <1>1, <2>1 DEF InRange, AtUnmap
<1>5. blocks' = {} /\ \A a \in Addresses : memory'[a] = UNMAPPED
  <2>1. turn .. Len(Table) = {}
    BY <1>4
  <2> QED BY <1>1, <2>1 DEF AtUnmap, InProgram, MappedFrom
<1>6. buffers' <= Cardinality({i \in DOMAIN Table' : Table'[i].load
                                  /\ Table'[i].off \div SIZE > Len(Chain')})
  <2> DEFINE n == Cardinality(Over(Len(Table)))
  <2>1. buffers <= n + 0 /\ n \in Nat
    BY <1>1, <1>4, OverCounts DEF AtUnmap, Kept
  <2>2. {i \in DOMAIN Table' : Table'[i].load /\ Table'[i].off \div SIZE > Len(Chain')}
           = Over(Len(Table))
    BY <1>2, <1>3, <1>4 DEF Over, Beyond
  <2> HIDE DEF n
  <2>3. buffers' <= n
    BY <1>2, <2>1
  <2> QED BY <2>2, <2>3 DEF n
<1>7. AtExit'
  BY <1>1, <1>2, <1>5, <1>6 DEF AtExit, GivesBack
<1> QED BY <1>1, <1>7 DEF LoadInv

-----------------------------------------------------------------------------
(* The loader's invariant. *)

LEMMA LoadInit == ElfInit => FileInv /\ LoadInv
<1> SUFFICES ASSUME ElfInit PROVE FileInv /\ LoadInv
  OBVIOUS
<1>1. FileInv
  BY FileInit DEF ElfInit
<1>2. /\ call = "none" /\ buffers = 0 /\ turn = 1 /\ turn \in Nat \ {0} /\ blocks = {}
      /\ content \in Programs \cup {NOELF} /\ step \in {"caller", "open"}
      /\ memory = [a \in Addresses |-> UNMAPPED]
  BY DEF ElfInit, Init
<1>3. AtOpen
  BY <1>2 DEF AtOpen, Unmapped
<1> QED BY <1>1, <1>2, <1>3 DEF LoadInv

\* The file's other clients do not touch the loader's state.
LEMMA CallerStep ==
    ASSUME LoadInv, step = "caller", UNCHANGED loaderVars
    PROVE  LoadInv'
BY DEF LoadInv, loaderVars

LEMMA UnchangedStep ==
    ASSUME LoadInv, UNCHANGED <<vars, loaderVars>>
    PROVE  LoadInv'
<1>1. /\ content' = content /\ step' = step /\ turn' = turn /\ blocks' = blocks
      /\ memory' = memory /\ code' = code /\ fptr' = fptr /\ call' = call
      /\ seeking' = seeking /\ reading' = reading /\ buffers' = buffers /\ file' = file
      /\ pos' = pos
  BY DEF vars, loaderVars
<1>2. /\ Table' = Table /\ Chain' = Chain /\ Segment_' = Segment_ /\ Unmapped' = Unmapped
      /\ Beyond(content.off)' = Beyond(content.off)
      /\ \A k : /\ Over(k)' = Over(k) /\ NearTo(k)' = NearTo(k) /\ Findable(k)' = Findable(k)
                /\ MappedFrom(k)' = MappedFrom(k) /\ LoadedTo(k)' = LoadedTo(k)
  BY <1>1, SameFile, SameMemory DEF Segment_
<1>3. First' = First /\ Near' = Near /\ Opened' = Opened /\ InProgram' = InProgram
      /\ Zeroed' = Zeroed /\ \A n : Kept(n)' = Kept(n)
  BY <1>1, <1>2 DEF First, Near, Opened, InProgram, Zeroed, Kept
<1>4. InSegment' = InSegment
  BY <1>1, <1>2, <1>3 DEF InSegment
<1>5. AtOpen' = AtOpen /\ AtHeader' = AtHeader /\ AtVerify' = AtVerify /\ AtExit' = AtExit
  BY <1>1, <1>2, <1>3 DEF AtOpen, AtHeader, AtVerify, AtExit, GivesBack
<1>6. AtTable => AtTable'
  BY <1>1, <1>2, <1>3 DEF AtTable
<1>7. AtSegments => AtSegments'
  BY <1>1, <1>2, <1>3 DEF AtSegments
<1>8. AtRead => AtRead'
  BY <1>1, <1>2, <1>3, <1>4 DEF AtRead
<1>9. AtCopied => AtCopied'
  BY <1>1, <1>2, <1>3, <1>4 DEF AtCopied
<1>10. (AtProgram => AtProgram') /\ (AtUnmap => AtUnmap')
  BY <1>1, <1>2, <1>3 DEF AtProgram, AtUnmap
<1> QED BY <1>1, <1>5, <1>6, <1>7, <1>8, <1>9, <1>10 DEF LoadInv

LEMMA LoadStep == FileInv /\ LoadInv /\ [ElfNext]_<<vars, loaderVars>> => LoadInv'
BY OpenFile, HeaderStep, HeaderWrongStep, NotElfStep, SeekTableStep, ReadTableStep, TableWrongStep, SkipStep,
   SeekSegmentStep, ReadSegmentStep, CopiedStep, EnterStep, ReturnsStep, UnmapStep, FinishStep,
   CallerStep, CallingStep, UnchangedStep DEF ElfNext, elf64_load

LEMMA LoadInvariant == ElfSpec => [](FileInv /\ LoadInv)
<1>1. FileInv /\ LoadInv /\ [ElfNext]_<<vars, loaderVars>> => (FileInv /\ LoadInv)'
  BY ElfFileStep, LoadStep
<1> QED BY <1>1, LoadInit, PTL DEF ElfSpec

\* On every way out of elf64_load the program's memory is unmapped and its blocks
\* are given back, but the header's block when the path leads to a directory; and
\* no more sector buffers are lost than it has segments behind the end of the file
\* (elf.c:108-195, fat.c:187): for every file, program, header and table.
THEOREM LoaderGivesBack == ElfSpec => []GivesBack
<1>1. LoadInv => GivesBack
  BY DEF LoadInv, AtExit, GivesBack
<1> QED BY <1>1, LoadInvariant, PTL

\* When the program is entered, every segment that fat_seek can find lies at its
\* address as it lies in the file, with zeros behind it, whatever order the table
\* names the segments in and whatever else it names (elf.c:142-164, fat.c:176-277).
THEOREM LoaderLoads == ElfSpec => []SegmentsLoaded
<1>1. LoadInv => SegmentsLoaded
  <2> SUFFICES ASSUME LoadInv, step = "program" PROVE SegmentsLoaded
    BY DEF SegmentsLoaded
  <2>1. LoadedTo(Len(Table)) /\ content \in Programs
    BY DEF LoadInv, AtProgram, InProgram
  <2> QED BY <2>1, ProgramIs DEF LoadedTo, SegmentsLoaded
<1> QED BY <1>1, LoadInvariant, PTL
=============================================================================
