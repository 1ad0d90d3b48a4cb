---------------------------- MODULE VolumeProofs ----------------------------
(***************************************************************************)
(* Proofs about the FAT volume: where its parts lie, for every header it   *)
(* may have; what reading its sectors gives, for any tasks and requests;   *)
(* and what reading its files gives, for any files, positions and sizes.   *)
(***************************************************************************)
EXTENDS Disk, Fat, Integers, SequenceTheorems, WellFoundedInduction, TLAPS

Headers == [reserved_sector : Nat, fat_number : Nat \ {0}, sector_per_fat : Nat,
            root_dir_sectors : Nat, sector_per_cluster : Nat \ {0}]

\* The number of a cluster's first sector grows by a whole cluster at a time.
LEMMA ClustersInOrder ==
    ASSUME NEW c \in Nat, NEW d \in Nat, 2 <= c, c < d, NEW s \in Nat
    PROVE  (c - 2) * s + s <= (d - 2) * s
<1> DEFINE k == d - c - 1
<1>1. k \in Nat /\ d - 2 = (c - 2) + 1 + k
  OBVIOUS
<1>2. (d - 2) * s = (c - 2) * s + s + k * s
  BY <1>1
<1>3. k * s \in Nat /\ (c - 2) * s \in Nat
  BY <1>1
<1> QED
  BY <1>2, <1>3

\* fat_getNextCluster reads inside the first table, and the sectors of a file
\* lie behind the tables and the root directory (fat.c:139-147, 227-278): no
\* read of a cluster's link ever returns a directory or a file, nor the reverse.
THEOREM RegionsApart ==
    ASSUME NEW start \in Nat, NEW h \in Headers, NEW c \in Nat, 2 <= c,
           c < 256 * h.sector_per_fat,
           NEW i \in 0 .. (h.sector_per_cluster - 1)
    PROVE  /\ NextCluster(start, h, c) \in fat_start(start, h) .. (root_dirs_start(start, h) - 1)
           /\ root_dirs_start(start, h) <= data_start(start, h)
           /\ data_start(start, h) <= ClusterSector(start, h, c, i)
<1>1. h.reserved_sector \in Nat /\ h.fat_number \in Nat \ {0} /\ h.sector_per_fat \in Nat
      /\ h.root_dir_sectors \in Nat /\ h.sector_per_cluster \in Nat \ {0}
  BY DEF Headers
<1>2. c \div 256 \in Nat /\ c \div 256 < h.sector_per_fat
  BY <1>1
<1>3. h.sector_per_fat <= h.fat_number * h.sector_per_fat
      /\ h.fat_number * h.sector_per_fat \in Nat
  BY <1>1
<1>4. (c - 2) * h.sector_per_cluster \in Nat
  BY <1>1
<1> QED
  BY <1>1, <1>2, <1>3, <1>4
     DEF NextCluster, ClusterSector, data_start, root_dirs_start, fat_start

\* Two clusters have no sector in common (fat.c:242-246).
THEOREM ClustersApart ==
    ASSUME NEW start \in Nat, NEW h \in Headers, NEW c \in Nat, NEW d \in Nat,
           2 <= c, c < d,
           NEW i \in 0 .. (h.sector_per_cluster - 1),
           NEW j \in 0 .. (h.sector_per_cluster - 1)
    PROVE  ClusterSector(start, h, c, i) < ClusterSector(start, h, d, j)
<1>1. h.reserved_sector \in Nat /\ h.fat_number \in Nat \ {0} /\ h.sector_per_fat \in Nat
      /\ h.root_dir_sectors \in Nat /\ h.sector_per_cluster \in Nat \ {0}
  BY DEF Headers
<1>2. (c - 2) * h.sector_per_cluster + h.sector_per_cluster
         <= (d - 2) * h.sector_per_cluster
  BY <1>1, ClustersInOrder
<1>3. data_start(start, h) \in Nat
  <2>1. h.fat_number * h.sector_per_fat \in Nat
    BY <1>1
  <2> QED
    BY <1>1, <2>1 DEF data_start, root_dirs_start, fat_start
<1>4. (c - 2) * h.sector_per_cluster \in Nat /\ (d - 2) * h.sector_per_cluster \in Nat
  BY <1>1
<1> QED
  BY <1>1, <1>2, <1>3, <1>4 DEF ClusterSector

-----------------------------------------------------------------------------
(* Division by a size. *)

\* Division with remainder.
LEMMA Quotient ==
    ASSUME NEW p \in Nat, NEW s \in Nat \ {0}
    PROVE  /\ p \div s \in Nat /\ p % s \in 0 .. (s - 1)
           /\ p = s * (p \div s) + (p % s)
OBVIOUS

\* Quotient and remainder are unique.
LEMMA QuotientIs ==
    ASSUME NEW p \in Nat, NEW s \in Nat \ {0}, NEW q \in Nat, NEW r \in 0 .. (s - 1),
           p = s * q + r
    PROVE  p \div s = q /\ p % s = r
<1>1. p \div s \in Nat /\ p % s \in 0 .. (s - 1) /\ p = s * (p \div s) + (p % s)
  BY Quotient
<1> DEFINE a == p \div s
           b == p % s
<1>2. a \in Nat /\ b \in 0 .. (s - 1) /\ s * a + b = s * q + r
  BY <1>1
<1> HIDE DEF a, b
<1>3. ~(a < q)
  <2> SUFFICES ASSUME a < q PROVE FALSE
    OBVIOUS
  <2>1. q - a \in Nat \ {0} /\ s * q = s * a + s * (q - a)
    BY <1>2
  <2>2. s * (q - a) >= s
    BY <2>1
  <2> QED BY <1>2, <2>1, <2>2
<1>4. ~(q < a)
  <2> SUFFICES ASSUME q < a PROVE FALSE
    OBVIOUS
  <2>1. a - q \in Nat \ {0} /\ s * a = s * q + s * (a - q)
    BY <1>2
  <2>2. s * (a - q) >= s
    BY <2>1
  <2> QED BY <1>2, <2>1, <2>2
<1>5. a = q /\ b = r
  BY <1>2, <1>3, <1>4
<1> QED BY <1>5 DEF a, b

\* The next place is the next of the same sector or the first of the next one.
LEMMA NextPlace ==
    ASSUME NEW p \in Nat, NEW s \in Nat \ {0}
    PROVE  /\ (p % s) + 1 < s => (p + 1) \div s = p \div s /\ (p + 1) % s = (p % s) + 1
           /\ ~((p % s) + 1 < s) => (p + 1) \div s = p \div s + 1 /\ (p + 1) % s = 0
<1> DEFINE q == p \div s
           r == p % s
<1>1. q \in Nat /\ r \in 0 .. (s - 1) /\ p = s * q + r
  BY Quotient
<1> HIDE DEF q, r
<1>2. CASE r + 1 < s
  <2>1. r + 1 \in 0 .. (s - 1) /\ p + 1 = s * q + (r + 1) /\ p + 1 \in Nat
    BY <1>1, <1>2
  <2>2. (p + 1) \div s = q /\ (p + 1) % s = r + 1
    BY <1>1, <2>1, QuotientIs
  <2> QED BY <1>2, <2>2 DEF q, r
<1>3. CASE ~(r + 1 < s)
  <2>1. r + 1 = s
    BY <1>1, <1>3
  <2>2. s * (q + 1) = s * q + s
    BY <1>1
  <2>3. 0 \in 0 .. (s - 1) /\ p + 1 = s * (q + 1) + 0 /\ p + 1 \in Nat /\ q + 1 \in Nat
    BY <1>1, <2>1, <2>2
  <2>4. (p + 1) \div s = q + 1 /\ (p + 1) % s = 0
    BY <2>3, QuotientIs
  <2> QED BY <1>3, <2>4 DEF q, r
<1> QED BY <1>2, <1>3 DEF q, r

-----------------------------------------------------------------------------
(* The transfers. *)

\* A byte of tmp_buffer: what lay there before, or a sector's.
Places == {JUNK} \cup (Nat \X Int)

Xfers == [at : {"done", "low", "high", "command", "wait", "words", "bytes"},
          req : Nat \X Word \X Nat, lba : Nat, offset : Word, size : Nat, i : Word,
          got : Seq(Places), mixed : BOOLEAN]

TransferTypes == /\ ctl \in [low : Nat, high : Nat, sector : Nat, left : Nat, busy : BOOLEAN]
                 /\ 2 * ctl.left <= SECTOR
                 /\ tmp_buffer \in [Word -> Places]
                 /\ xfer \in [Readers -> Xfers]

\* A transfer that is under way has bytes left to copy, and words to read.
Pending(x) == /\ x.at # "done" => x.size > 0
              /\ x.at = "words" => 2 * x.i < SECTOR

\* The place in the request's sectors that the next byte comes from.
PlaceIn(x) == x.req[2] + Len(x.got)

\* What the registers and the buffer hold while no other transfer mixes in.
Address(x, c, buffer) ==
    /\ x.at = "high" => c.low = x.lba % LOW
    /\ x.at = "command" => c.low + LOW * c.high = x.lba
    /\ x.at \in {"wait", "words"} => c.sector = x.lba
    /\ x.at = "wait" => 2 * c.left = SECTOR
    /\ x.at = "words" => /\ 2 * c.left = SECTOR - 2 * x.i
                         /\ \A j \in 0 .. (2 * x.i - 1) : buffer[j] = <<x.lba, j>>
    /\ x.at = "bytes" => \A j \in Word : buffer[j] = <<x.lba, j>>

Progress(x, c, buffer) ==
    /\ x.got = DiskBytes(x.req[1], x.req[2], Len(x.got))
    /\ x.at = "done" => Len(x.got) = x.req[3]
    /\ x.at # "done" =>
          /\ Len(x.got) + x.size = x.req[3]
          /\ x.lba = x.req[1] + (PlaceIn(x) \div SECTOR)
          /\ IF x.at = "bytes" THEN x.i = PlaceIn(x) % SECTOR ELSE x.offset = PlaceIn(x) % SECTOR
          /\ Address(x, c, buffer)

TransferInv == /\ TransferTypes
               /\ \A t \in Readers : /\ Pending(xfer[t])
                                     /\ ~xfer[t].mixed => Progress(xfer[t], ctl, tmp_buffer)

\* What the assumption on sectors says, in the form the proofs need.
LEMMA SectorSizes == /\ SECTOR \in Nat \ {0} /\ LOW \in Nat \ {0}
                     /\ \A k \in Word : k \in Nat /\ k < SECTOR
                     /\ \A j \in Nat : j < SECTOR => j \in Word
BY DiskAssumption DEF Word

\* A sector has a first byte.
LEMMA FirstInSector == 0 \in Word
BY DiskAssumption DEF Word

\* A sector is a whole number of words.
LEMMA HalfSector == SECTOR \div 2 \in Nat /\ 2 * (SECTOR \div 2) = SECTOR
BY DiskAssumption

\* A transfer that is done promises nothing.
LEMMA IdleTransfer ==
    /\ Idle_ \in Xfers /\ Pending(Idle_) /\ Idle_.at = "done"
    /\ \A c, b : Progress(Idle_, c, b)
<1>1. Idle_ \in Xfers
  <2>1. 0 \in Word
    BY FirstInSector
  <2>2. <<0, 0, 0>> \in Nat \X Word \X Nat
    BY <2>1
  <2>3. << >> \in Seq(Places)
    OBVIOUS
  <2> QED BY <2>1, <2>2, <2>3 DEF Idle_, Xfers
<1>2. Idle_.got = << >> /\ Len(<< >>) = 0 /\ Idle_.req = <<0, 0, 0>> /\ Idle_.at = "done"
  BY DEF Idle_
<1>3. DiskBytes(0, 0, 0) = << >>
  BY DEF DiskBytes
<1>4. Idle_.req[1] = 0 /\ Idle_.req[2] = 0 /\ Idle_.req[3] = 0
  BY <1>2
<1>5. (\A c, b : Progress(Idle_, c, b)) /\ Pending(Idle_)
  BY <1>2, <1>3, <1>4 DEF Progress, Pending
<1> QED BY <1>1, <1>2, <1>5

\* No task reads yet.
LEMMA TransferInit == DiskInit => TransferInv
<1> SUFFICES ASSUME DiskInit PROVE TransferInv
  OBVIOUS
<1>1. TransferTypes
  <2>1. ctl \in [low : Nat, high : Nat, sector : Nat, left : Nat, busy : BOOLEAN]
        /\ 2 * ctl.left <= SECTOR
    BY SectorSizes DEF DiskInit
  <2>2. tmp_buffer \in [Word -> Places]
    BY DEF DiskInit, Places
  <2>3. xfer \in [Readers -> Xfers]
    BY IdleTransfer DEF DiskInit
  <2> QED BY <2>1, <2>2, <2>3 DEF TransferTypes
<1>2. \A t \in Readers : xfer[t] = Idle_
  BY DEF DiskInit
<1> QED BY <1>1, <1>2, IdleTransfer DEF TransferInv

\* A transfer that stays unmixed while another one moves is not under way.
LEMMA OthersRest ==
    ASSUME TransferInv, NEW t \in Readers, NEW r \in Xfers, Becomes(t, r),
           Pending(r), ~r.mixed => Progress(r, ctl', tmp_buffer'),
           ctl' \in [low : Nat, high : Nat, sector : Nat, left : Nat, busy : BOOLEAN],
           2 * ctl'.left <= SECTOR, tmp_buffer' \in [Word -> Places]
    PROVE  TransferInv'
<1>1. xfer \in [Readers -> Xfers]
  BY DEF TransferInv, TransferTypes
<1>2. \A u \in Readers : /\ [xfer[u] EXCEPT !.mixed = @ \/ xfer[u].at # "done"] \in Xfers
                         /\ xfer[u] \in Xfers
  BY ZenonT(30), <1>1 DEF Xfers
<1>3. xfer' \in [Readers -> Xfers] /\ xfer'[t] = r
  BY <1>2 DEF Becomes
<1>4. ASSUME NEW u \in Readers, u # t
      PROVE  Pending(xfer'[u]) /\ (~xfer'[u].mixed => Progress(xfer'[u], ctl', tmp_buffer'))
  <2> DEFINE x == xfer[u]
             y == xfer'[u]
  <2>1. y = [x EXCEPT !.mixed = @ \/ x.at # "done"] /\ x \in Xfers
    BY <1>2, <1>4 DEF Becomes
  <2>2. Pending(x) /\ (~x.mixed => Progress(x, ctl, tmp_buffer))
    BY DEF TransferInv
  <2> HIDE DEF x, y
  <2>3. /\ y.at = x.at /\ y.size = x.size /\ y.i = x.i /\ y.got = x.got /\ y.req = x.req
        /\ y.mixed = (x.mixed \/ x.at # "done")
    BY <2>1 DEF Xfers
  <2>4. Pending(y)
    BY <2>2, <2>3 DEF Pending
  <2>5. ASSUME ~y.mixed
        PROVE  Progress(y, ctl', tmp_buffer')
    <3>1. ~x.mixed /\ x.at = "done"
      BY <2>3, <2>5
    <3>2. x.got = DiskBytes(x.req[1], x.req[2], Len(x.got)) /\ Len(x.got) = x.req[3]
      BY <2>2, <3>1 DEF Progress
    <3> QED BY <2>3, <3>1, <3>2 DEF Progress
  <2> QED BY <2>4, <2>5 DEF y
<1>5. Pending(xfer'[t]) /\ (~xfer'[t].mixed => Progress(xfer'[t], ctl', tmp_buffer'))
  BY <1>3
<1> QED BY <1>3, <1>4, <1>5 DEF TransferInv, TransferTypes

\* The types of a transfer's fields.
LEMMA TransferFields ==
    ASSUME NEW x \in Xfers
    PROVE  /\ x.at \in {"done", "low", "high", "command", "wait", "words", "bytes"}
           /\ x.req \in Nat \X Word \X Nat /\ x.lba \in Nat /\ x.offset \in Word
           /\ x.size \in Nat /\ x.i \in Word /\ x.got \in Seq(Places) /\ x.mixed \in BOOLEAN
           /\ x.req[1] \in Nat /\ x.req[2] \in Word /\ x.req[2] \in Nat /\ x.req[3] \in Nat
           /\ Len(x.got) \in Nat /\ PlaceIn(x) \in Nat
<1>1. /\ x.at \in {"done", "low", "high", "command", "wait", "words", "bytes"}
      /\ x.req \in Nat \X Word \X Nat /\ x.lba \in Nat /\ x.offset \in Word
      /\ x.size \in Nat /\ x.i \in Word /\ x.got \in Seq(Places) /\ x.mixed \in BOOLEAN
  BY DEF Xfers
<1>2. x.req[1] \in Nat /\ x.req[2] \in Word /\ x.req[3] \in Nat /\ x.req[2] \in Nat
  BY <1>1, SectorSizes
<1>3. Len(x.got) \in Nat
  BY <1>1
<1> QED BY <1>1, <1>2, <1>3 DEF PlaceIn

\* A task calls ata_read_disk, with interrupts on or off.
LEMMA CallStep ==
    ASSUME TransferInv, NEW t \in Readers, NEW r \in Requests, Call(t, r)
    PROVE  TransferInv'
<1> DEFINE x == [Idle_ EXCEPT !.at = IF r[3] = 0 THEN "done" ELSE "low",
                    !.req = r, !.lba = r[1], !.offset = r[2], !.size = r[3]]
<1>1. r \in Nat \X Word \X Nat /\ r[1] \in Nat /\ r[2] \in Word /\ r[2] \in Nat /\ r[3] \in Nat
      /\ r[2] < SECTOR
  BY DiskAssumption, SectorSizes DEF Word
<1>2. /\ x.at = (IF r[3] = 0 THEN "done" ELSE "low") /\ x.req = r /\ x.lba = r[1]
      /\ x.offset = r[2] /\ x.size = r[3] /\ x.got = << >> /\ Len(x.got) = 0 /\ ~x.mixed
      /\ x \in Xfers
  BY <1>1, IdleTransfer DEF Idle_, Xfers
<1>3. Becomes(t, x) /\ UNCHANGED <<ctl, tmp_buffer, cpu>>
  BY DEF Call
<1> HIDE DEF x
<1>4. Pending(x)
  BY <1>1, <1>2 DEF Pending
<1>5. r[2] \div SECTOR = 0 /\ r[2] % SECTOR = r[2]
  <2>1. r[2] \in 0 .. (SECTOR - 1) /\ r[2] = SECTOR * 0 + r[2] /\ 0 \in Nat
    BY <1>1, SectorSizes
  <2> QED BY <1>1, <2>1, SectorSizes, QuotientIs
<1>6. PlaceIn(x) = r[2]
  BY <1>1, <1>2 DEF PlaceIn
<1>7. x.got = DiskBytes(x.req[1], x.req[2], Len(x.got))
  BY <1>2 DEF DiskBytes
<1>8. Progress(x, ctl', tmp_buffer')
  BY <1>1, <1>2, <1>5, <1>6, <1>7 DEF Progress, Address
<1>9. TransferTypes
  BY DEF TransferInv
<1> QED BY <1>2, <1>3, <1>4, <1>8, <1>9, OthersRest DEF TransferTypes

\* A write to the address registers.
LEMMA WriteStep ==
    ASSUME TransferInv, NEW t \in Readers, NEW from, NEW to, NEW c,
           Runs(t, from), Writes(t, to, c),
           <<from, to>> \in {<<"low", "high">>, <<"high", "command">>, <<"command", "wait">>},
           c \in [low : Nat, high : Nat, sector : Nat, left : Nat, busy : BOOLEAN],
           2 * c.left <= SECTOR,
           ~xfer[t].mixed => Address([xfer[t] EXCEPT !.at = to], c, tmp_buffer)
    PROVE  TransferInv'
<1> DEFINE x == xfer[t]
           y == [x EXCEPT !.at = to, !.mixed = @ \/ ctl.busy]
<1>1. x \in Xfers /\ x.at = from /\ Pending(x) /\ (~x.mixed => Progress(x, ctl, tmp_buffer))
  BY DEF TransferInv, TransferTypes, Runs
<1>2. Becomes(t, y) /\ ctl' = (IF ctl.busy THEN ctl ELSE c) /\ tmp_buffer' = tmp_buffer
  BY DEF Writes
<1>3. /\ from # "done" /\ to # "done" /\ to # "words" /\ to # "bytes" /\ from # "bytes"
      /\ to \in {"high", "command", "wait"}
  OBVIOUS
<1>4. ctl \in [low : Nat, high : Nat, sector : Nat, left : Nat, busy : BOOLEAN]
      /\ 2 * ctl.left <= SECTOR /\ tmp_buffer \in [Word -> Places] /\ ctl.busy \in BOOLEAN
  BY DEF TransferInv, TransferTypes
<1>5. /\ y \in Xfers /\ y.at = to /\ y.req = x.req /\ y.lba = x.lba /\ y.offset = x.offset
      /\ y.size = x.size /\ y.i = x.i /\ y.got = x.got /\ y.mixed = (x.mixed \/ ctl.busy)
  BY <1>1, <1>3, <1>4 DEF Xfers
<1>6. ~x.mixed => LET z == [x EXCEPT !.at = to] IN
                  Address(z, c, tmp_buffer) /\ z.at = to /\ z.lba = x.lba /\ z.i = x.i
  BY <1>1 DEF Xfers
<1> HIDE DEF x, y
<1>7. Pending(y)
  BY <1>1, <1>3, <1>5 DEF Pending
<1>8. ASSUME ~y.mixed
      PROVE  Progress(y, ctl', tmp_buffer')
  <2>1. ~x.mixed /\ ctl' = c
    BY <1>2, <1>5, <1>8
  <2>2. Progress(x, ctl, tmp_buffer)
    BY <1>1, <2>1
  <2>3. Address(y, c, tmp_buffer)
    BY <1>3, <1>5, <1>6, <2>1 DEF Address
  <2>4. PlaceIn(y) = PlaceIn(x)
    BY <1>5 DEF PlaceIn
  <2> QED BY <1>1, <1>2, <1>3, <1>5, <2>1, <2>2, <2>3, <2>4 DEF Progress
<1> QED BY <1>2, <1>4, <1>5, <1>7, <1>8, OthersRest

\* The address and the command are written (disk.c:8-14).
LEMMA AddressSteps ==
    ASSUME TransferInv, NEW t \in Readers, ata_init_pio(t) \/ ReadCommand(t)
    PROVE  TransferInv'
<1> DEFINE x == xfer[t]
           Ctl == [low : Nat, high : Nat, sector : Nat, left : Nat, busy : BOOLEAN]
<1>1. x \in Xfers /\ x.lba \in Nat /\ (~x.mixed => Progress(x, ctl, tmp_buffer))
  BY DEF TransferInv, TransferTypes, Xfers
<1>2. /\ ctl \in Ctl /\ 2 * ctl.left <= SECTOR
      /\ ctl.low \in Nat /\ ctl.high \in Nat
  BY DEF TransferInv, TransferTypes
<1>3. /\ x.lba % LOW \in Nat /\ x.lba \div LOW \in Nat
      /\ x.lba = LOW * (x.lba \div LOW) + (x.lba % LOW)
  <2>1. \A p \in Nat, s \in Nat \ {0} :
            /\ p \div s \in Nat /\ p % s \in 0 .. (s - 1) /\ p = s * (p \div s) + (p % s)
    BY Quotient
  <2>2. LOW \in Nat \ {0} /\ x.lba \in Nat
    BY <1>1, SectorSizes
  <2>3. /\ x.lba \div LOW \in Nat /\ x.lba % LOW \in 0 .. (LOW - 1)
        /\ x.lba = LOW * (x.lba \div LOW) + (x.lba % LOW)
    BY <2>1, <2>2, Zenon
  <2> QED BY <2>2, <2>3
<1>4. \A to : [x EXCEPT !.at = to].at = to /\ [x EXCEPT !.at = to].lba = x.lba
  BY <1>1 DEF Xfers
<1> DEFINE a == x.lba % LOW
           b == x.lba \div LOW
<1>5. CASE SelectLow(t)
  <2> DEFINE c == [ctl EXCEPT !.low = a]
  <2>1. c \in Ctl /\ 2 * c.left <= SECTOR /\ c.low = a
    BY <1>2, <1>3
  <2>2. Address([x EXCEPT !.at = "high"], c, tmp_buffer)
    BY <1>4, <2>1 DEF Address
  <2>3. Runs(t, "low") /\ Writes(t, "high", c)
    BY <1>5 DEF SelectLow
  <2> HIDE DEF c
  <2> QED BY <2>1, <2>2, <2>3, WriteStep
<1>6. CASE SelectHigh(t)
  <2> DEFINE c == [ctl EXCEPT !.high = b]
  <2>1. c \in Ctl /\ 2 * c.left <= SECTOR /\ c.low = ctl.low /\ c.high = b
    BY <1>2, <1>3
  <2>2. Runs(t, "high") /\ Writes(t, "command", c)
    BY <1>6 DEF SelectHigh
  <2> HIDE DEF c
  <2>3. ASSUME ~x.mixed PROVE Address([x EXCEPT !.at = "command"], c, tmp_buffer)
    <3>1. x.at = "high"
      BY <2>2 DEF Runs
    <3>2. ctl.low = a
      BY <1>1, <2>3, <3>1 DEF Progress, Address
    <3>3. c.low + LOW * c.high = x.lba
      BY <1>3, <2>1, <3>2, SectorSizes
    <3> QED BY <1>4, <3>3 DEF Address
  <2> QED BY <2>1, <2>2, <2>3, WriteStep
<1>7. CASE ReadCommand(t)
  <2> DEFINE n == ctl.low + LOW * ctl.high
             half == SECTOR \div 2
             c == [ctl EXCEPT !.sector = n, !.left = half, !.busy = TRUE]
  <2>1. n \in Nat
    <3>1. LOW * ctl.high \in Nat
      BY <1>2, SectorSizes
    <3> QED BY <1>2, <3>1
  <2>2. c \in Ctl /\ 2 * c.left = SECTOR /\ 2 * c.left <= SECTOR /\ c.sector = n
    <3>1. half \in Nat /\ 2 * half = SECTOR /\ SECTOR \in Nat
      BY SectorSizes, HalfSector
    <3> HIDE DEF n, half
    <3>2. c \in Ctl /\ c.left = half /\ c.sector = n
      BY <1>2, <2>1, <3>1
    <3> QED BY <3>1, <3>2
  <2>3. Runs(t, "command") /\ Writes(t, "wait", c)
    BY <1>7 DEF ReadCommand
  <2> HIDE DEF c
  <2>4. ASSUME ~x.mixed PROVE Address([x EXCEPT !.at = "wait"], c, tmp_buffer)
    <3>1. x.at = "command"
      BY <2>3 DEF Runs
    <3>2. n = x.lba
      BY <1>1, <2>4, <3>1 DEF Progress, Address
    <3> QED BY <1>4, <2>2, <3>2 DEF Address
  <2> QED BY <2>2, <2>3, <2>4, WriteStep
<1> QED BY <1>5, <1>6, <1>7 DEF ata_init_pio

\* The drive is busy no more.
LEMMA WaitStep ==
    ASSUME TransferInv, NEW t \in Readers, Wait(t)
    PROVE  TransferInv'
<1> DEFINE x == xfer[t]
           y == [x EXCEPT !.at = "words", !.i = 0]
<1>1. x \in Xfers /\ x.at = "wait" /\ Pending(x) /\ (~x.mixed => Progress(x, ctl, tmp_buffer))
  BY DEF TransferInv, TransferTypes, Wait, Runs
<1>2. Becomes(t, y) /\ ctl' = ctl /\ tmp_buffer' = tmp_buffer
  BY DEF Wait
<1>3. /\ y \in Xfers /\ y.at = "words" /\ y.req = x.req /\ y.lba = x.lba /\ y.offset = x.offset
      /\ y.size = x.size /\ y.i = 0 /\ y.got = x.got /\ y.mixed = x.mixed
  BY <1>1, FirstInSector DEF Xfers
<1>4. TransferTypes /\ ctl.left \in Nat
  BY DEF TransferInv, TransferTypes
<1> HIDE DEF x, y
<1>5. Pending(y)
  BY <1>1, <1>3, SectorSizes DEF Pending
<1>6. ASSUME ~y.mixed
      PROVE  Progress(y, ctl', tmp_buffer')
  <2>1. Progress(x, ctl, tmp_buffer)
    BY <1>1, <1>3, <1>6
  <2>2. ctl.sector = x.lba /\ 2 * ctl.left = SECTOR
    BY <1>1, <2>1 DEF Progress, Address
  <2>3. Address(y, ctl, tmp_buffer)
    BY <1>3, <1>4, <2>2, SectorSizes DEF Address
  <2>4. PlaceIn(y) = PlaceIn(x)
    BY <1>3 DEF PlaceIn
  <2> QED BY <1>1, <1>2, <1>3, <2>1, <2>3, <2>4 DEF Progress
<1> QED BY <1>2, <1>3, <1>4, <1>5, <1>6, OthersRest DEF TransferTypes

\* A word goes into the shared sector buffer.
LEMMA InWordStep ==
    ASSUME TransferInv, NEW t \in Readers, InWord(t)
    PROVE  TransferInv'
<1> DEFINE x == xfer[t]
           i == x.i
           from == SECTOR - 2 * ctl.left
           Data(k) == IF ctl.left = 0 THEN JUNK ELSE <<ctl.sector, from + k>>
           y == IF 2 * (i + 1) < SECTOR THEN [x EXCEPT !.i = @ + 1]
                ELSE [x EXCEPT !.at = "bytes", !.i = x.offset]
<1>1. x \in Xfers /\ x.at = "words" /\ Pending(x) /\ (~x.mixed => Progress(x, ctl, tmp_buffer))
  BY DEF TransferInv, TransferTypes, InWord, Runs
<1>2. /\ Becomes(t, y)
      /\ tmp_buffer' = [tmp_buffer EXCEPT ![2 * i] = Data(0), ![2 * i + 1] = Data(1)]
      /\ ctl' = IF ctl.left = 0 THEN ctl ELSE [ctl EXCEPT !.left = @ - 1]
  BY DEF InWord
<1>3. /\ ctl \in [low : Nat, high : Nat, sector : Nat, left : Nat, busy : BOOLEAN]
      /\ 2 * ctl.left <= SECTOR /\ tmp_buffer \in [Word -> Places]
  BY DEF TransferInv, TransferTypes
<1>4. /\ x.i \in Word /\ i \in Nat /\ 2 * i < SECTOR /\ x.offset \in Word /\ x.size > 0
      /\ 2 * i \in Word /\ 2 * i + 1 \in Word /\ ctl.left \in Nat /\ ctl.sector \in Nat
  <2>1. i \in Word /\ x.offset \in Word /\ 2 * i < SECTOR /\ x.size > 0
    BY <1>1, TransferFields DEF Pending
  <2>2. i \in Nat /\ SECTOR \in Nat /\ SECTOR % 2 = 0
    BY <2>1, SectorSizes, DiskAssumption
  <2>3. 2 * i + 1 < SECTOR
    BY <2>1, <2>2
  <2> QED BY <1>3, <2>1, <2>2, <2>3, SectorSizes
<1>5. /\ ctl' \in [low : Nat, high : Nat, sector : Nat, left : Nat, busy : BOOLEAN]
      /\ 2 * ctl'.left <= SECTOR
      /\ ctl.left # 0 => ctl'.left = ctl.left - 1 /\ ctl'.sector = ctl.sector
  <2>1. SECTOR \in Nat
    BY SectorSizes
  <2>2. ctl.left # 0 => ctl.left - 1 \in Nat /\ 2 * (ctl.left - 1) <= SECTOR
    BY <1>3, <1>4, <2>1
  <2> QED BY <1>2, <1>3, <1>4, <2>2
<1>6. tmp_buffer' \in [Word -> Places]
      /\ \A j \in Word : tmp_buffer'[j] = IF j = 2 * i THEN Data(0)
                                          ELSE IF j = 2 * i + 1 THEN Data(1) ELSE tmp_buffer[j]
  <2>1. Data(0) \in Places /\ Data(1) \in Places
    BY <1>3, <1>4, SectorSizes DEF Places
  <2>2. 2 * i # 2 * i + 1
    BY <1>4
  <2> HIDE DEF Data, i
  <2> QED BY <1>2, <1>3, <1>4, <2>1, <2>2
<1>7. /\ y \in Xfers /\ y.req = x.req /\ y.lba = x.lba /\ y.offset = x.offset
      /\ y.size = x.size /\ y.got = x.got /\ y.mixed = x.mixed
      /\ 2 * (i + 1) < SECTOR => y.at = "words" /\ y.i = i + 1
      /\ ~(2 * (i + 1) < SECTOR) => y.at = "bytes" /\ y.i = x.offset
  <2>1. CASE 2 * (i + 1) < SECTOR
    <3>1. i + 1 \in Word
      BY <1>4, <2>1, SectorSizes
    <3> QED BY <1>1, <2>1, <3>1 DEF Xfers
  <2>2. CASE ~(2 * (i + 1) < SECTOR)
    BY <1>1, <1>4, <2>2 DEF Xfers
  <2> QED BY <2>1, <2>2
<1> HIDE DEF y
<1>8. Pending(y)
  BY <1>4, <1>7 DEF Pending
<1>9. ASSUME ~y.mixed
      PROVE  Progress(y, ctl', tmp_buffer')
  <2>1. Progress(x, ctl, tmp_buffer)
    BY <1>1, <1>7, <1>9
  <2>2. /\ ctl.sector = x.lba /\ 2 * ctl.left = SECTOR - 2 * i
        /\ \A j \in 0 .. (2 * i - 1) : tmp_buffer[j] = <<x.lba, j>>
    BY <1>1, <2>1 DEF Progress, Address
  <2>3. ctl.left # 0 /\ Data(0) = <<x.lba, 2 * i>> /\ Data(1) = <<x.lba, 2 * i + 1>>
    <3>1. ctl.left # 0 /\ from = 2 * i /\ from + 0 = 2 * i
      BY <1>4, <2>2, SectorSizes
    <3> QED BY <2>2, <3>1
  <2> HIDE DEF Data
  <2>4. \A j \in 0 .. (2 * (i + 1) - 1) : tmp_buffer'[j] = <<x.lba, j>>
    <3> TAKE j \in 0 .. (2 * (i + 1) - 1)
    <3>1. i \in Nat /\ 2 * i + 1 <= SECTOR - 1 /\ SECTOR \in Nat
      BY <1>4, SectorSizes DEF Word
    <3> HIDE DEF i
    <3>2. /\ j \in 0 .. (SECTOR - 1) /\ (j = 2 * i \/ j = 2 * i + 1 \/ j \in 0 .. (2 * i - 1))
          /\ j \in 0 .. (2 * i - 1) => j # 2 * i /\ j # 2 * i + 1
          /\ 2 * i # 2 * i + 1
      BY <3>1
    <3>3. j \in Word
      BY <3>2 DEF Word
    <3> QED BY <1>6, <2>2, <2>3, <3>2, <3>3
  <2>5. 2 * (i + 1) < SECTOR \/ \A j \in Word : j \in 0 .. (2 * (i + 1) - 1)
    BY <1>4, SectorSizes DEF Word
  <2>6. 2 * ctl'.left = SECTOR - 2 * (i + 1) /\ ctl'.sector = x.lba
    <3>1. ctl'.left = ctl.left - 1 /\ ctl'.sector = x.lba /\ 2 * ctl.left = SECTOR - 2 * i
      BY <1>5, <2>2, <2>3
    <3>2. ctl.left \in Nat /\ i \in Nat /\ SECTOR \in Nat
      BY <1>4, SectorSizes
    <3>3. ASSUME NEW l \in Nat, NEW m, m = l - 1, NEW j \in Nat, 2 * l = SECTOR - 2 * j
          PROVE  2 * m = SECTOR - 2 * (j + 1)
      BY <3>2, <3>3
    <3> HIDE DEF i
    <3> QED BY <3>1, <3>2, <3>3
  <2>7. Address(y, ctl', tmp_buffer')
    <3> HIDE DEF x, i
    <3>1. CASE 2 * (i + 1) < SECTOR
      BY <1>7, <2>4, <2>6, <3>1 DEF Address
    <3>2. CASE ~(2 * (i + 1) < SECTOR)
      BY <1>7, <2>4, <2>5, <3>2 DEF Address
    <3> QED BY <3>1, <3>2
  <2>8. PlaceIn(y) = PlaceIn(x)
    BY <1>7 DEF PlaceIn
  <2>9. y.at \in {"words", "bytes"} /\ x.offset = PlaceIn(x) % SECTOR
        /\ (y.at = "bytes" => y.i = x.offset)
    BY <1>1, <1>7, <2>1 DEF Progress
  <2> HIDE DEF x
  <2> QED BY <1>1, <1>7, <2>1, <2>7, <2>8, <2>9 DEF Progress
<1> QED BY <1>2, <1>5, <1>6, <1>7, <1>8, <1>9, OthersRest

\* The bytes of a sector are copied, and the next sector is begun.
LEMMA CopyByteStep ==
    ASSUME TransferInv, NEW t \in Readers, CopyByte(t)
    PROVE  TransferInv'
<1> DEFINE o == xfer[t]
           e == tmp_buffer[o.i]
           x == [o EXCEPT !.got = Append(@, e), !.size = @ - 1]
           y == IF x.size = 0 THEN [x EXCEPT !.at = "done"]
                ELSE IF x.i + 1 < SECTOR THEN [x EXCEPT !.i = @ + 1]
                ELSE [x EXCEPT !.at = "low", !.offset = 0, !.lba = @ + 1]
           k == Len(o.got)
           p == PlaceIn(o)
<1>1. o \in Xfers /\ o.at = "bytes" /\ Pending(o) /\ (~o.mixed => Progress(o, ctl, tmp_buffer))
  BY DEF TransferInv, TransferTypes, CopyByte, Runs
<1>2. Becomes(t, y) /\ ctl' = ctl /\ tmp_buffer' = tmp_buffer
  BY DEF CopyByte
<1>3. TransferTypes /\ tmp_buffer \in [Word -> Places]
  BY DEF TransferInv, TransferTypes
<1>4. /\ o.i \in Word /\ o.i \in Nat /\ o.i < SECTOR /\ o.size \in Nat \ {0} /\ o.lba \in Nat
      /\ o.got \in Seq(Places) /\ e \in Places /\ k \in Nat /\ p \in Nat
      /\ o.req[1] \in Nat /\ o.req[2] \in Nat /\ p = o.req[2] + k
  <2>1. /\ o.i \in Word /\ o.size \in Nat /\ o.lba \in Nat /\ o.got \in Seq(Places) /\ k \in Nat
        /\ p \in Nat /\ o.req[1] \in Nat /\ o.req[2] \in Nat
    BY <1>1, TransferFields
  <2> QED BY <1>1, <1>3, <2>1, SectorSizes DEF Pending, PlaceIn
<1> DEFINE g == Append(o.got, e)
<1>5. /\ g \in Seq(Places) /\ Len(g) = k + 1 /\ g[k + 1] = e
      /\ \A j \in 1 .. k : g[j] = o.got[j]
  BY <1>4
<1>6. /\ x \in Xfers /\ x.at = "bytes" /\ x.size = o.size - 1 /\ x.got = g /\ x.i = o.i
      /\ x.req = o.req /\ x.lba = o.lba /\ x.offset = o.offset /\ x.mixed = o.mixed
  <2>1. x = [o EXCEPT !.got = g, !.size = @ - 1] /\ o.size - 1 \in Nat
    BY SMTT(30), <1>4
  <2> HIDE DEF x, g, e
  <2> QED BY <1>1, <1>5, <2>1 DEF Xfers
<1> HIDE DEF x, g, e, k, p
<1>7. /\ y \in Xfers /\ y.req = o.req /\ y.size = o.size - 1 /\ y.got = g /\ y.mixed = o.mixed
      /\ y.at \in {"done", "bytes", "low"} /\ (y.at = "done" <=> o.size - 1 = 0)
      /\ y.at = "bytes" => o.i + 1 < SECTOR /\ y.i = o.i + 1 /\ y.lba = o.lba
      /\ y.at = "low" => ~(o.i + 1 < SECTOR) /\ y.offset = 0 /\ y.lba = o.lba + 1
  <2>1. CASE o.size - 1 = 0
    BY <1>6, <2>1 DEF Xfers
  <2>2. CASE o.size - 1 # 0 /\ o.i + 1 < SECTOR
    <3>1. o.i + 1 \in Word
      BY <1>4, <2>2, SectorSizes
    <3> QED BY <1>6, <2>2, <3>1 DEF Xfers
  <2>3. CASE o.size - 1 # 0 /\ ~(o.i + 1 < SECTOR)
    <3>1. o.lba + 1 \in Nat /\ 0 \in Word
      BY SMTT(30), <1>4, FirstInSector
    <3> QED BY <1>6, <2>3, <3>1 DEF Xfers
  <2> QED BY <2>1, <2>2, <2>3
<1> HIDE DEF y
<1>8. Pending(y)
  <2>1. y.at # "done" => y.size > 0
    <3>1. o.size \in Nat \ {0} /\ y.size = o.size - 1
      BY <1>4, <1>7
    <3>2. y.at # "done" => y.size # 0
      BY <1>7
    <3> QED BY <3>1, <3>2
  <2>2. y.at # "words"
    BY <1>7
  <2> QED BY <2>1, <2>2 DEF Pending
<1>9. ASSUME ~y.mixed
      PROVE  Progress(y, ctl', tmp_buffer')
  <2>1. Progress(o, ctl, tmp_buffer)
    BY <1>1, <1>7, <1>9
  <2>2. /\ o.got = DiskBytes(o.req[1], o.req[2], k) /\ k + o.size = o.req[3]
        /\ o.lba = o.req[1] + (p \div SECTOR) /\ o.i = p % SECTOR
        /\ \A j \in Word : tmp_buffer[j] = <<o.lba, j>>
    BY <1>1, <2>1 DEF Progress, Address, p, k
  <2>3. e = <<o.req[1] + (p \div SECTOR), p % SECTOR>>
    BY <1>4, <2>2 DEF e
  <2>4. g = DiskBytes(o.req[1], o.req[2], k + 1)
    <3> DEFINE b == DiskBytes(o.req[1], o.req[2], k + 1)
    <3>1. /\ \A j \in 1 .. k + 1 :
                b[j] = <<o.req[1] + ((o.req[2] + j - 1) \div SECTOR), (o.req[2] + j - 1) % SECTOR>>
          /\ \A j \in 1 .. k : o.got[j]
                = <<o.req[1] + ((o.req[2] + j - 1) \div SECTOR), (o.req[2] + j - 1) % SECTOR>>
          /\ b = [j \in 1 .. k + 1 |-> b[j]]
      BY <1>4, <2>2 DEF DiskBytes
    <3>2. o.req[2] + (k + 1) - 1 = p
      BY <1>4
    <3>3. b[k + 1] = e
      <4>1. k + 1 \in 1 .. k + 1
        BY <1>4
      <4> DEFINE q == o.req[2] + (k + 1) - 1
      <4> HIDE DEF b
      <4>2. b[k + 1] = <<o.req[1] + (q \div SECTOR), q % SECTOR>>
        BY <3>1, <4>1, Zenon
      <4>3. q = p
        BY <3>2
      <4> HIDE DEF q
      <4> QED BY <2>3, <4>2, <4>3, Zenon
    <3>4. \A j \in 1 .. k : b[j] = o.got[j]
      <4>1. k \in Nat
        BY <1>4
      <4>2. \A j \in 1 .. k : j \in 1 .. k + 1
        BY <4>1
      <4> HIDE DEF b
      <4> QED BY <3>1, <4>2, Zenon
    <3> HIDE DEF b
    <3>5. \A j \in 1 .. k + 1 : b[j] = g[j]
      BY <1>4, <1>5, <3>3, <3>4
    <3>6. g = [j \in 1 .. k + 1 |-> g[j]]
      BY <1>5
    <3>7. g = b
      BY <3>1, <3>5, <3>6
    <3> QED BY <3>7 DEF b
  <2>5. Len(y.got) = k + 1 /\ PlaceIn(y) = p + 1
    <3>1. Len(y.got) = k + 1 /\ y.req = o.req
      BY <1>5, <1>7
    <3>2. k \in Nat /\ o.req[2] \in Nat /\ p = o.req[2] + k
      BY <1>4
    <3>3. o.req[2] + (k + 1) = p + 1
      BY <3>2
    <3> QED BY <3>1, <3>3 DEF PlaceIn
  <2>6. /\ o.i + 1 < SECTOR => (p + 1) \div SECTOR = p \div SECTOR /\ (p + 1) % SECTOR = o.i + 1
        /\ ~(o.i + 1 < SECTOR) => (p + 1) \div SECTOR = p \div SECTOR + 1 /\ (p + 1) % SECTOR = 0
        /\ p \div SECTOR \in Nat
    <3>1. \A a \in Nat, s \in Nat \ {0} :
            /\ a \div s \in Nat
            /\ (a % s) + 1 < s => (a + 1) \div s = a \div s /\ (a + 1) % s = (a % s) + 1
            /\ ~((a % s) + 1 < s) => (a + 1) \div s = a \div s + 1 /\ (a + 1) % s = 0
      BY NextPlace, Quotient
    <3>2. p \in Nat /\ SECTOR \in Nat \ {0}
      BY <1>4, SectorSizes
    <3> DEFINE m == p % SECTOR
    <3>3. /\ p \div SECTOR \in Nat
          /\ m + 1 < SECTOR => (p + 1) \div SECTOR = p \div SECTOR /\ (p + 1) % SECTOR = m + 1
          /\ ~(m + 1 < SECTOR) => (p + 1) \div SECTOR = p \div SECTOR + 1 /\ (p + 1) % SECTOR = 0
      BY <3>1, <3>2, Zenon
    <3>4. m = o.i
      BY <2>2
    <3> HIDE DEF m
    <3> QED BY <3>3, <3>4, Zenon
  <2>7. (k + 1) + (o.size - 1) = o.req[3]
    <3>1. k \in Nat /\ o.size \in Nat /\ k + o.size = o.req[3]
      BY <1>4, <2>2
    <3>2. (k + 1) + (o.size - 1) = k + o.size
      BY <3>1
    <3> QED BY <3>1, <3>2
  <2>4a. y.got = DiskBytes(y.req[1], y.req[2], Len(y.got))
    BY <1>7, <2>4, <2>5
  <2>8. CASE y.at = "done"
    BY <1>4, <1>7, <2>4a, <2>5, <2>7, <2>8 DEF Progress
  <2>9. CASE y.at = "bytes"
    <3>1. y.lba = o.req[1] + ((p + 1) \div SECTOR) /\ y.i = (p + 1) % SECTOR /\ y.lba = o.lba
      BY <1>7, <2>2, <2>6, <2>9
    <3>2. Address(y, ctl', tmp_buffer')
      BY <1>2, <2>2, <2>9, <3>1 DEF Address
    <3> QED BY <1>7, <2>4a, <2>5, <2>7, <2>9, <3>1, <3>2 DEF Progress
  <2>10. CASE y.at = "low"
    <3>1. y.lba = o.req[1] + ((p + 1) \div SECTOR)
      <4> DEFINE d == p \div SECTOR
      <4>1. y.lba = o.lba + 1 /\ o.lba = o.req[1] + d /\ (p + 1) \div SECTOR = d + 1
        BY <1>7, <2>2, <2>6, <2>10
      <4>2. d \in Nat /\ o.req[1] \in Nat
        BY <1>4, <2>6
      <4> HIDE DEF d
      <4>3. y.lba = o.req[1] + (d + 1)
        BY <4>1, <4>2
      <4> QED BY <4>1, <4>3
    <3> QED BY <1>7, <2>4a, <2>5, <2>6, <2>7, <2>10, <3>1 DEF Progress, Address
  <2> QED BY <1>7, <2>8, <2>9, <2>10
<1> QED BY <1>2, <1>3, <1>7, <1>8, <1>9, OthersRest DEF TransferTypes

\* The drive gets ready, or the timer switches.
LEMMA RestStep ==
    ASSUME TransferInv, Ready \/ (\E t \in Readers : Switch(t)) \/ UNCHANGED diskVars
    PROVE  TransferInv'
<1>1. tmp_buffer' = tmp_buffer /\ xfer' = xfer /\ (ctl' = ctl \/ ctl' = [ctl EXCEPT !.busy = FALSE])
  BY DEF Ready, Switch, diskVars
<1>2. /\ ctl' \in [low : Nat, high : Nat, sector : Nat, left : Nat, busy : BOOLEAN]
      /\ ctl'.low = ctl.low /\ ctl'.high = ctl.high /\ ctl'.sector = ctl.sector
      /\ ctl'.left = ctl.left
  BY <1>1 DEF TransferInv, TransferTypes
<1>3. ASSUME NEW x, Progress(x, ctl, tmp_buffer)
      PROVE  Progress(x, ctl', tmp_buffer')
  BY <1>1, <1>2, <1>3 DEF Progress, Address
<1> QED BY <1>1, <1>2, <1>3 DEF TransferInv, TransferTypes

\* A transfer gives the bytes of the disk from its first to its last, for every
\* size of sectors and every set of tasks and requests, whatever transfers were
\* broken off before it (disk.c:8-36, disk.asm): only one that another was mixed
\* into is not answerable for its bytes.
THEOREM TransfersRight == DiskSpec => []TransferRight
<1>1. ASSUME TransferInv, [DiskNext]_diskVars
      PROVE  TransferInv'
  BY <1>1, CallStep, AddressSteps, WaitStep, InWordStep, CopyByteStep, RestStep
     DEF DiskNext, ata_read_disk
<1>2. TransferInv => TransferRight
  BY DEF TransferInv, Progress, TransferRight
<1>3. DiskSpec => []TransferInv
  BY <1>1, TransferInit, PTL DEF DiskSpec
<1> QED BY <1>2, <1>3, PTL

-----------------------------------------------------------------------------
(* The file reader. *)

\* How many bytes fat_read has come from the start of the file.
At == reading.from + Len(reading.got)

\* The turns of fat_seek's loop so far.
Passed == (seeking.to \div SIZE) - seeking.len

\* fat_seek has gone that many clusters along the open file's chain.
SeekOn == call = "seek" =>
    /\ ~reading.sound
    /\ seeking.len <= seeking.to \div SIZE
    /\ Passed < Len(Chain) => seeking.clus = Chain[Passed + 1]

\* What is left of a sound read is a sound read, with a turn for each cluster.
ReadOn == call = "read" /\ reading.sound =>
    /\ pos = At + reading.size /\ Sound(At, reading.size)
    /\ reading.size <= SIZE * reading.left
    /\ reading.left > 0 => reading.size > SIZE * (reading.left - 1)

FileInv == /\ TypeOK
           /\ call # "none" => buffers > 0
           /\ Chain # << >> => fptr.current_cluster = Chain[1]
           /\ SeekOn /\ ReadOn /\ ReadRight

\* What the assumptions of Fat say, in the form the proofs need.
LEMMA FatNumbers ==
    /\ SIZE \in Nat \ {0} /\ WORD \in Nat /\ SIZE < WORD
    /\ BAD \in Nat /\ BAD > 2 /\ NOT_FOUND \in Nat /\ NOT_FOUND > BAD + 1
    /\ Words = 0 .. (BAD + 1) /\ END = BAD + 1 /\ END \in Words
    /\ BUFFERS \in Nat \ {0} /\ Seeks \subseteq Nat /\ Sizes \subseteq Nat
BY FatAssumption DEF Words, END

\* The clusters of a file are different data clusters.
LEMMA ChainOf ==
    ASSUME NEW n \in DOMAIN Root
    PROVE  LET c == Root[n].chain
           IN  /\ c \in Seq(2 .. BAD - 1) /\ Len(c) \in Nat \ {0}
               /\ \A i \in 1 .. Len(c) : c[i] \in Nat /\ 2 <= c[i] /\ c[i] < BAD /\ c[i] \in Words
               /\ \A i, j \in 1 .. Len(c) : c[i] = c[j] => i = j
               /\ Root[n].directory \in BOOLEAN
<1> DEFINE c == Root[n].chain
<1>1. /\ c \in Seq(2 .. BAD - 1) /\ c # << >> /\ IsInjective(c)
      /\ Root[n].directory \in BOOLEAN
  BY FatAssumption
<1> HIDE DEF c
<1>2. Len(c) \in Nat /\ Len(c) # 0 /\ DOMAIN c = 1 .. Len(c)
      /\ \A i \in 1 .. Len(c) : c[i] \in 2 .. BAD - 1
  BY <1>1, EmptySeq, ElementOfSeq, LenProperties
<1>3. \A i \in 1 .. Len(c) : c[i] \in Nat /\ 2 <= c[i] /\ c[i] < BAD /\ c[i] \in Words
  <2>1. \A w \in 2 .. BAD - 1 : w \in Nat /\ 2 <= w /\ w < BAD /\ w \in Words
    BY FatNumbers
  <2> QED BY <1>2, <2>1
<1>4. \A i, j \in 1 .. Len(c) : c[i] = c[j] => i = j
  BY <1>1, <1>2 DEF IsInjective
<1> QED BY <1>1, <1>2, <1>3, <1>4 DEF c

\* No cluster is in two chains.
LEMMA ChainsApart ==
    ASSUME NEW m \in DOMAIN Root, NEW n \in DOMAIN Root,
           NEW i \in 1 .. Len(Root[m].chain), NEW j \in 1 .. Len(Root[n].chain),
           Root[m].chain[i] = Root[n].chain[j]
    PROVE  m = n /\ i = j
<1>1. i \in DOMAIN Root[m].chain /\ j \in DOMAIN Root[n].chain
  BY ChainOf, LenProperties
<1>2. m = n
  <2> SUFFICES ASSUME m # n PROVE FALSE
    OBVIOUS
  <2>1. ToSet(Root[m].chain) \cap ToSet(Root[n].chain) = {}
    BY FatAssumption
  <2>2. Root[m].chain[i] \in ToSet(Root[m].chain) /\ Root[n].chain[j] \in ToSet(Root[n].chain)
    BY <1>1 DEF ToSet
  <2> QED BY <2>1, <2>2
<1>3. i = j
  BY <1>2, ChainOf
<1> QED BY <1>2, <1>3

\* The table links the clusters of a file and marks the last.
LEMMA EntryIs ==
    ASSUME NEW n \in DOMAIN Root, NEW i \in 1 .. Len(Root[n].chain)
    PROVE  Entry(Root[n].chain[i])
             = {IF i = Len(Root[n].chain) THEN END ELSE Root[n].chain[i + 1]}
<1> DEFINE c == Root[n].chain
           next == IF i = Len(c) THEN END ELSE c[i + 1]
           after == {w \in Words : \E m \in DOMAIN Root :
                        LET ch == Root[m].chain
                        IN  \E j \in 1 .. Len(ch) :
                               /\ ch[j] = c[i]
                               /\ w = IF j = Len(ch) THEN END ELSE ch[j + 1]}
<1>1. /\ Len(c) \in Nat \ {0} /\ \A j \in 1 .. Len(c) : c[j] \in Words /\ 2 <= c[j]
      /\ c[i] \in Nat
  BY ChainOf
<1>2. next \in Words
  <2>1. CASE i = Len(c)
    BY <2>1, FatNumbers
  <2>2. CASE i # Len(c)
    <3>1. i + 1 \in 1 .. Len(c)
      BY <1>1, <2>2
    <3> QED BY <1>1, <2>2, <3>1
  <2> QED BY <2>1, <2>2
<1>3. next \in after
  BY <1>2
<1>4. \A w \in after : w = next
  <2> SUFFICES ASSUME NEW m \in DOMAIN Root, NEW j \in 1 .. Len(Root[m].chain),
                      Root[m].chain[j] = c[i]
               PROVE  (IF j = Len(Root[m].chain) THEN END ELSE Root[m].chain[j + 1]) = next
    OBVIOUS
  <2>1. m = n /\ j = i
    BY ChainsApart
  <2> QED BY <2>1
<1>5. after = {next} /\ after # {}
  <2> HIDE DEF after, next
  <2> QED BY <1>3, <1>4
<1>6. ~(c[i] < 2)
  BY <1>1
<1>7. Entry(c[i]) = CASE c[i] < 2 -> {END} [] after # {} -> after [] OTHER -> Words
  BY DEF Entry
<1> HIDE DEF after, next, c
<1>8. Entry(c[i]) = {next}
  BY <1>5, <1>6, <1>7
<1> QED BY <1>8 DEF next, c

\* An entry of the table is one of its words.
LEMMA EntryTypes == ASSUME NEW c PROVE Entry(c) \subseteq Words
BY FatNumbers DEF Entry

\* fat_findFile gives an entry of the root directory or one of zeros.
LEMMA Found ==
    ASSUME NEW path \in Paths
    PROVE  LET hits == {i \in DOMAIN path : path[i] \in Convertible}
               i == CHOOSE h \in hits : \A j \in hits : h <= j
           IN  hits # {} => i \in hits
<1> DEFINE hits == {i \in DOMAIN path : path[i] \in Convertible}
           R == {p \in Nat \X Nat : p[1] < p[2]}
<1> SUFFICES ASSUME hits # {}
             PROVE  \E h \in hits : \A j \in hits : h <= j
  <2> HIDE DEF hits
  <2> QED BY DEF hits
<1>1. \A k, l \in Nat : k < l <=> <<k, l>> \in R
  OBVIOUS
<1>2. IsWellFoundedOn(R, Nat)
  BY NatLessThanWellFounded DEF OpToRel
<1>3. hits \subseteq Nat
  <2>1. path \in Seq(UNION {ToSet(p) : p \in Paths})
    BY FatAssumption
  <2>2. DOMAIN path = 1 .. Len(path) /\ Len(path) \in Nat
    BY <2>1, LenProperties
  <2> QED BY <2>2
<1> HIDE DEF R, hits
<1>4. PICK h \in hits : \A j \in hits : <<j, h>> \notin R
  BY <1>2, <1>3, WFMin
<1>5. \A j \in hits : h <= j
  <2> TAKE j \in hits
  <2>1. h \in Nat /\ j \in Nat /\ <<j, h>> \notin R
    BY <1>3, <1>4
  <2>2. ~(j < h)
    BY <1>1, <2>1
  <2> QED BY <2>1, <2>2
<1> QED BY <1>5

Clusters(path) == IF Len(path) = 1 /\ path[1] \in Convertible /\ ~Root[path[1]].directory
                  THEN Root[path[1]].chain ELSE << >>

\* The clusters a path leads to are those of one file, or none.
LEMMA ClustersAre ==
    ASSUME NEW path
    PROVE  /\ Len(Clusters(path)) \in Nat
           /\ Clusters(path) = << >> \/ \E n \in DOMAIN Root : Clusters(path) = Root[n].chain
<1>1. CASE Len(path) = 1 /\ path[1] \in Convertible /\ ~Root[path[1]].directory
  <2>1. path[1] \in DOMAIN Root /\ Clusters(path) = Root[path[1]].chain
    BY <1>1 DEF Clusters, Convertible
  <2> QED BY <2>1, ChainOf
<1>2. CASE ~(Len(path) = 1 /\ path[1] \in Convertible /\ ~Root[path[1]].directory)
  BY <1>2, EmptySeq DEF Clusters
<1> QED BY <1>1, <1>2

\* The clusters of the open file: their numbers, and what the table says of each.
LEMMA ChainLinks ==
    /\ Len(Chain) \in Nat
    /\ \A i \in 1 .. Len(Chain) :
          /\ Chain[i] \in Nat /\ Chain[i] < BAD /\ Chain[i] \in Words
          /\ Entry(Chain[i]) = {IF i = Len(Chain) THEN END ELSE Chain[i + 1]}
<1>1. Chain = Clusters(file)
  BY DEF Chain, Clusters
<1>2. CASE Chain = << >>
  BY <1>2, EmptySeq
<1>3. CASE \E n \in DOMAIN Root : Chain = Root[n].chain
  <2>1. PICK n \in DOMAIN Root : Chain = Root[n].chain
    BY <1>3
  <2> QED BY <2>1, ChainOf, EntryIs
<1> QED BY <1>1, <1>2, <1>3, ClustersAre

\* An opened file pointer stands at the file's first cluster.
LEMMA OpenIs ==
    ASSUME NEW path \in Paths
    PROVE  /\ Open(path) \in Pointers
           /\ Clusters(path) # << >> => Open(path).current_cluster = Clusters(path)[1]
<1> DEFINE hits == {i \in DOMAIN path : path[i] \in Convertible}
           k == CHOOSE h \in hits : \A j \in hits : h <= j
           e == fat_findFile(path)
<1>1. hits # {} => k \in hits
  BY Found
<1>2. 0 \in Words /\ NOT_FOUND \in Words \cup {NOT_FOUND} /\ 0 \in 0 .. WORD - 1
  BY FatNumbers
<1>3. hits = {} => e.cluster = 0 /\ e.directory = FALSE
  BY DEF fat_findFile
<1>4. hits # {} => /\ path[k] \in DOMAIN Root
                   /\ e.cluster = Root[path[k]].chain[1] /\ e.cluster \in Words
                   /\ e.directory = Root[path[k]].directory
  <2> SUFFICES ASSUME hits # {}
               PROVE  /\ path[k] \in DOMAIN Root
                      /\ e.cluster = Root[path[k]].chain[1] /\ e.cluster \in Words
                      /\ e.directory = Root[path[k]].directory
    OBVIOUS
  <2>1. path[k] \in Convertible
    BY <1>1
  <2>2. path[k] \in DOMAIN Root
    BY <2>1 DEF Convertible
  <2>3. Root[path[k]].chain[1] \in Words
    BY <2>2, ChainOf
  <2>4. e = LET f == Root[path[k]] IN [cluster |-> f.chain[1], directory |-> f.directory]
    BY DEF fat_findFile
  <2> HIDE DEF e, k
  <2> QED BY <2>2, <2>3, <2>4
<1> DEFINE c == IF e.directory THEN NOT_FOUND ELSE e.cluster
<1>5. Open(path) = [current_cluster |-> c, next_cluster |-> c, cluster |-> c, offset |-> 0]
  BY DEF Open, Pointer
<1>6. c \in Words \cup {NOT_FOUND}
  <2> HIDE DEF e, hits, k
  <2> QED BY <1>2, <1>3, <1>4
<1>7. Open(path) \in Pointers /\ Open(path).current_cluster = c
  <2> HIDE DEF c
  <2> QED BY <1>2, <1>5, <1>6 DEF Pointers
<1>8. ASSUME Clusters(path) # << >>
      PROVE  c = Clusters(path)[1]
  <2>1. /\ Len(path) = 1 /\ path[1] \in Convertible /\ ~Root[path[1]].directory
        /\ Clusters(path) = Root[path[1]].chain
    BY <1>8 DEF Clusters
  <2>2. path \in Seq(UNION {ToSet(p) : p \in Paths})
    BY FatAssumption
  <2>3. DOMAIN path = 1 .. 1
    BY <2>1, <2>2, LenProperties
  <2>4. 1 \in hits /\ \A i \in hits : i = 1
    BY <2>1, <2>3
  <2>5. hits # {} /\ k = 1
    <3> HIDE DEF hits, k
    <3> QED BY <1>1, <2>4
  <2> HIDE DEF e, hits, k
  <2> QED BY <1>4, <2>1, <2>5
<1> QED BY <1>7, <1>8

\* The bounds that the type invariant gives.
LEMMA PointerTypes ==
    ASSUME TypeOK
    PROVE  /\ fptr.current_cluster \in Words \cup {NOT_FOUND}
           /\ fptr.next_cluster \in Words \cup {NOT_FOUND}
           /\ fptr.cluster \in Words \cup {NOT_FOUND}
           /\ fptr.offset \in Nat /\ fptr.offset < WORD
           /\ seeking.len \in Nat /\ seeking.off \in 0 .. WORD - 1 /\ seeking.clus \in Words
           /\ seeking.to \in Nat
           /\ reading.left \in Nat /\ reading.size \in Nat /\ reading.from \in Nat
           /\ reading.sound \in BOOLEAN
           /\ reading.got \in Seq((Words \cup {NOT_FOUND}) \X Nat) /\ Len(reading.got) \in Nat
           /\ buffers \in Nat /\ buffers <= BUFFERS /\ pos \in Nat
<1>1. WORD \in Nat /\ BUFFERS \in Nat
  BY FatNumbers
<1>2. /\ fptr.current_cluster \in Words \cup {NOT_FOUND}
      /\ fptr.next_cluster \in Words \cup {NOT_FOUND}
      /\ fptr.cluster \in Words \cup {NOT_FOUND} /\ fptr.offset \in 0 .. WORD - 1
  BY DEF TypeOK, Pointers
<1>3. /\ seeking.len \in Nat /\ seeking.off \in 0 .. WORD - 1 /\ seeking.clus \in Words
      /\ seeking.to \in Nat
  BY DEF TypeOK
<1>4. /\ reading.left \in Nat /\ reading.size \in Nat /\ reading.from \in Nat
      /\ reading.sound \in BOOLEAN
      /\ reading.got \in Seq((Words \cup {NOT_FOUND}) \X Nat)
  BY DEF TypeOK
<1>5. buffers \in 0 .. BUFFERS /\ pos \in Nat
  BY DEF TypeOK
<1> QED BY <1>1, <1>2, <1>3, <1>4, <1>5, LenProperties

\* The values of a call that is not under way.
LEMMA NoCall ==
    /\ NotSeeking \in [len : Nat, off : 0 .. WORD - 1, clus : Words, to : Nat]
    /\ NotReading \in [left : Nat, size : Nat, from : Nat, sound : BOOLEAN,
                       got : Seq((Words \cup {NOT_FOUND}) \X Nat)]
    /\ ~NotReading.sound
<1>1. 0 \in Words /\ 0 \in 0 .. WORD - 1
  BY FatNumbers
<1>2. << >> \in Seq((Words \cup {NOT_FOUND}) \X Nat)
  OBVIOUS
<1> QED BY <1>1, <1>2 DEF NotSeeking, NotReading

\* A file has been opened and no call made.
LEMMA FileInit == Init => FileInv
<1> SUFFICES ASSUME Init PROVE FileInv
  OBVIOUS
<1>1. PICK path \in Paths : file = path /\ fptr = Open(path)
  BY DEF Init
<1>2. call = "none" /\ seeking = NotSeeking /\ reading = NotReading /\ buffers = 0 /\ pos = 0
  BY DEF Init
<1>3. TypeOK
  BY <1>1, <1>2, OpenIs, NoCall, FatNumbers DEF TypeOK
<1>4. Chain = Clusters(path)
  BY <1>1 DEF Chain, Clusters
<1> QED BY <1>1, <1>2, <1>3, <1>4, OpenIs, NoCall DEF FileInv, SeekOn, ReadOn, ReadRight

\* Another file is opened.
LEMMA OpenStep ==
    ASSUME FileInv, NEW path \in Paths, fat_fileOpen(path)
    PROVE  FileInv'
<1>1. /\ file' = path /\ fptr' = Open(path) /\ pos' = 0 /\ call' = "none" /\ call = "none"
      /\ reading' = NotReading /\ seeking' = seeking /\ buffers' = buffers
  BY DEF fat_fileOpen
<1>2. TypeOK'
  BY <1>1, OpenIs, NoCall DEF FileInv, TypeOK
<1>3. Chain' = Clusters(path)
  BY <1>1 DEF Chain, Clusters
<1> QED BY <1>1, <1>2, <1>3, OpenIs, NoCall DEF FileInv, SeekOn, ReadOn, ReadRight

\* fat_seek begins at the first cluster, whatever the position.
LEMMA SeekStartStep ==
    ASSUME FileInv, NEW p \in Nat, SeekStart(p)
    PROVE  FileInv'
<1> DEFINE q == p \div SIZE
           off == (p % SIZE) % WORD
<1>1. /\ call = "none" /\ fptr.current_cluster # NOT_FOUND /\ buffers < BUFFERS
      /\ call' = "seek" /\ buffers' = buffers + 1
      /\ seeking' = [len |-> q, off |-> off, clus |-> fptr.current_cluster, to |-> p]
      /\ reading' = NotReading /\ fptr' = fptr /\ file' = file /\ pos' = pos
  BY DEF SeekStart, Usable
<1>2. p \in Nat /\ q \in Nat /\ off \in 0 .. WORD - 1
  <2>1. p \in Nat /\ SIZE \in Nat \ {0} /\ WORD \in Nat \ {0}
    BY FatNumbers
  <2>2. \A a \in Nat, s \in Nat \ {0} : a \div s \in Nat /\ a % s \in 0 .. (s - 1)
    BY Quotient
  <2> DEFINE r == p % SIZE
  <2>3. q \in Nat /\ r \in 0 .. (SIZE - 1)
    BY <2>1, <2>2, Zenon
  <2>4. r \in Nat
    BY <2>1, <2>3
  <2> HIDE DEF r
  <2>5. r % WORD \in 0 .. (WORD - 1)
    BY <2>1, <2>2, <2>4, Zenon
  <2>6. off \in 0 .. WORD - 1
    BY <2>5, Zenon DEF r
  <2> HIDE DEF q, off
  <2> QED BY <2>1, <2>3, <2>6
<1>3. fptr.current_cluster \in Words /\ buffers + 1 \in 0 .. BUFFERS /\ buffers + 1 > 0
  <2>1. fptr.current_cluster \in Words /\ buffers \in Nat /\ BUFFERS \in Nat
    BY <1>1, PointerTypes, FatNumbers DEF FileInv
  <2> QED BY <1>1, <2>1
<1> HIDE DEF q, off
<1>4. /\ seeking' \in [len : Nat, off : 0 .. WORD - 1, clus : Words, to : Nat]
      /\ seeking'.len = q /\ seeking'.clus = fptr.current_cluster /\ seeking'.to = p
  BY <1>1, <1>2, <1>3
<1>5. TypeOK'
  BY <1>1, <1>3, <1>4, NoCall DEF FileInv, TypeOK
<1>6. Chain' = Chain
  BY <1>1 DEF Chain
<1>7. Chain # << >> => fptr.current_cluster = Chain[1]
  BY DEF FileInv
<1>8. Passed' = 0 /\ seeking'.len <= seeking'.to \div SIZE
  BY <1>2, <1>4 DEF Passed, q
<1>9. SeekOn'
  <2>1. Passed' < Len(Chain') => Chain # << >> /\ Passed' + 1 = 1
    BY <1>6, <1>8
  <2> QED BY <1>1, <1>4, <1>6, <1>7, <1>8, <2>1, NoCall DEF SeekOn
<1> QED BY <1>1, <1>3, <1>5, <1>6, <1>7, <1>9, NoCall DEF FileInv, ReadOn, ReadRight

\* fat_seek follows one link.
LEMMA SeekStepStep ==
    ASSUME FileInv, SeekStep
    PROVE  FileInv'
<1> DEFINE q == seeking.to \div SIZE
           l == seeking.len
           c == seeking.clus
<1>1. /\ call = "seek" /\ l > 0 /\ c < BAD /\ fptr' = [fptr EXCEPT !.cluster = c]
      /\ call' = call /\ reading' = reading /\ buffers' = buffers /\ file' = file /\ pos' = pos
  BY DEF SeekStep
<1>2. PICK w \in Entry(c) : seeking' = [seeking EXCEPT !.clus = w, !.len = @ - 1]
  BY DEF SeekStep
<1>3. TypeOK /\ fptr \in Pointers
      /\ seeking \in [len : Nat, off : 0 .. WORD - 1, clus : Words, to : Nat]
  BY DEF FileInv, TypeOK
<1>4. w \in Words /\ l - 1 \in Nat /\ l \in Nat /\ c \in Words
  BY <1>1, <1>2, <1>3, EntryTypes, PointerTypes
<1>5. /\ seeking' \in [len : Nat, off : 0 .. WORD - 1, clus : Words, to : Nat]
      /\ seeking'.clus = w /\ seeking'.len = l - 1 /\ seeking'.to = seeking.to
  BY <1>2, <1>3, <1>4
<1>6. fptr' \in Pointers /\ fptr'.current_cluster = fptr.current_cluster
  BY <1>1, <1>3, <1>4 DEF Pointers
<1>7. TypeOK'
  BY <1>1, <1>3, <1>5, <1>6 DEF TypeOK
<1>8. Chain' = Chain
  BY <1>1 DEF Chain
<1>9. SeekOn'
  <2>1. ~reading.sound /\ l <= q /\ (q - l < Len(Chain) => c = Chain[q - l + 1])
    BY <1>1 DEF FileInv, SeekOn, Passed
  <2>2. q \in Nat
    BY <1>3, PointerTypes, FatNumbers, Quotient
  <2>3. seeking'.to \div SIZE = q /\ Passed' = q - (l - 1)
    BY <1>5 DEF Passed
  <2> HIDE DEF q, l, c
  <2>4. ASSUME Passed' < Len(Chain)
        PROVE  w = Chain[Passed' + 1]
    <3> DEFINE i == q - l + 1
    <3>1. i \in 1 .. Len(Chain) /\ i # Len(Chain) /\ q - l < Len(Chain)
          /\ Passed' + 1 = i + 1
      BY <1>4, <2>1, <2>2, <2>3, <2>4, ChainLinks
    <3>2. c = Chain[i]
      BY <2>1, <3>1
    <3> HIDE DEF i
    <3>3. Entry(Chain[i]) = {Chain[i + 1]}
      BY <3>1, ChainLinks
    <3> QED BY <1>2, <3>1, <3>2, <3>3
  <2>5. l - 1 <= q
    BY <1>4, <2>1, <2>2
  <2> QED BY <1>1, <1>5, <1>8, <2>1, <2>3, <2>4, <2>5 DEF SeekOn
<1> QED BY <1>1, <1>6, <1>7, <1>8, <1>9 DEF FileInv, SeekOn, ReadOn, ReadRight

\* A seek that ends.
LEMMA SeekEndStep ==
    ASSUME FileInv, SeekBad \/ SeekEnd
    PROVE  FileInv'
<1>1. /\ call = "seek" /\ call' = "none" /\ pos' = seeking.to /\ seeking' = NotSeeking
      /\ reading' = reading /\ file' = file
  BY DEF SeekBad, SeekEnd
<1>2. TypeOK /\ fptr \in Pointers
  BY DEF FileInv, TypeOK
<1>3. fptr' \in Pointers /\ fptr'.current_cluster = fptr.current_cluster
  <2>1. CASE SeekBad
    BY <1>2, <2>1 DEF SeekBad
  <2>2. CASE SeekEnd
    <3>1. fptr' = [fptr EXCEPT !.offset = seeking.off] /\ seeking.off \in 0 .. WORD - 1
      BY <1>2, <2>2, PointerTypes DEF SeekEnd
    <3> QED BY <1>2, <3>1 DEF Pointers
  <2> QED BY <2>1, <2>2
<1>4. buffers' \in 0 .. BUFFERS
  <2>1. buffers \in Nat /\ buffers > 0 /\ buffers <= BUFFERS /\ BUFFERS \in Nat
    BY <1>1, <1>2, PointerTypes, FatNumbers DEF FileInv
  <2>2. buffers' = buffers \/ buffers' = buffers - 1
    BY DEF SeekBad, SeekEnd
  <2> QED BY <2>1, <2>2
<1>5. TypeOK'
  BY <1>1, <1>2, <1>3, <1>4, NoCall, PointerTypes DEF TypeOK
<1>6. Chain' = Chain /\ ~reading.sound
  BY <1>1 DEF Chain, FileInv, SeekOn
<1> QED BY <1>1, <1>3, <1>5, <1>6 DEF FileInv, SeekOn, ReadOn, ReadRight

\* A turn for every cluster, the last one also for a part.
LEMMA Turns ==
    ASSUME NEW n \in Nat, NEW s \in Nat \ {0}, NEW l,
           l = (n \div s) + (IF n % s > 0 THEN 1 ELSE 0)
    PROVE  l \in Nat /\ n <= s * l /\ (l > 0 => n > s * (l - 1))
<1> DEFINE q == n \div s
           r == n % s
<1>1. q \in Nat /\ r \in 0 .. (s - 1) /\ n = s * q + r
  BY Quotient
<1>2. l = q + (IF r > 0 THEN 1 ELSE 0)
  OBVIOUS
<1> HIDE DEF q, r
<1>3. CASE r > 0
  <2>1. l = q + 1 /\ l - 1 = q /\ s * (q + 1) = s * q + s
    BY <1>1, <1>2, <1>3
  <2> QED BY <1>1, <1>3, <2>1
<1>4. CASE r = 0
  <2>1. l = q /\ n = s * q
    BY <1>1, <1>2, <1>4
  <2>2. q > 0 => s * q = s * (q - 1) + s
    BY <1>1
  <2>3. s * (q - 1) \in Int
    BY <1>1
  <2> QED BY <1>1, <2>1, <2>2, <2>3
<1> QED BY <1>1, <1>3, <1>4

\* fat_read begins: what is to be read is sound if the position is.
LEMMA ReadStartStep ==
    ASSUME FileInv, NEW n \in Nat, ReadStart(n)
    PROVE  FileInv'
<1> DEFINE l == n \div SIZE + (IF n % SIZE > 0 THEN 1 ELSE 0)
<1>1. /\ call = "none" /\ buffers < BUFFERS /\ call' = "read" /\ buffers' = buffers + 1
      /\ reading' = [left |-> l, size |-> n, got |-> << >>, from |-> pos,
                     sound |-> Sound(pos, n)]
      /\ pos' = pos + n /\ fptr' = fptr /\ seeking' = seeking /\ file' = file
  BY DEF ReadStart, Usable
<1>2. n \in Nat /\ l \in Nat /\ n <= SIZE * l /\ (l > 0 => n > SIZE * (l - 1))
  <2>1. \A a \in Nat, s \in Nat \ {0} : \A k :
           k = (a \div s) + (IF a % s > 0 THEN 1 ELSE 0)
              => k \in Nat /\ a <= s * k /\ (k > 0 => a > s * (k - 1))
    BY Turns
  <2>2. n \in Nat /\ SIZE \in Nat \ {0}
    BY FatNumbers
  <2>3. l = (n \div SIZE) + (IF n % SIZE > 0 THEN 1 ELSE 0)
    OBVIOUS
  <2>4. \A k : k = (n \div SIZE) + (IF n % SIZE > 0 THEN 1 ELSE 0)
                  => k \in Nat /\ n <= SIZE * k /\ (k > 0 => n > SIZE * (k - 1))
    BY <2>1, <2>2, Zenon
  <2> HIDE DEF l
  <2>5. l \in Nat /\ n <= SIZE * l /\ (l > 0 => n > SIZE * (l - 1))
    BY <2>3, <2>4, Zenon
  <2> QED BY <2>2, <2>5
<1> HIDE DEF l
<1>3. TypeOK /\ pos \in Nat /\ buffers + 1 \in 0 .. BUFFERS /\ buffers + 1 > 0
  <2>1. TypeOK
    BY DEF FileInv
  <2>2. buffers \in Nat /\ pos \in Nat /\ BUFFERS \in Nat
    BY <2>1, PointerTypes, FatNumbers
  <2> QED BY <1>1, <2>1, <2>2
<1>4. Sound(pos, n) \in BOOLEAN /\ << >> \in Seq((Words \cup {NOT_FOUND}) \X Nat)
  BY DEF Sound
<1> DEFINE b == Sound(pos, n)
<1>5. /\ reading' \in [left : Nat, size : Nat, from : Nat, sound : BOOLEAN,
                       got : Seq((Words \cup {NOT_FOUND}) \X Nat)]
      /\ reading'.left = l /\ reading'.size = n /\ reading'.got = << >>
      /\ reading'.from = pos /\ reading'.sound = b
  <2> HIDE DEF b
  <2>1. b \in BOOLEAN
    BY <1>4 DEF b
  <2> QED BY <1>1, <1>2, <1>3, <1>4, <2>1 DEF b
<1>6. TypeOK'
  <2>1. pos + n \in Nat
    BY <1>2, <1>3
  <2> QED BY <1>1, <1>3, <1>5, <2>1 DEF TypeOK
<1>7. Chain' = Chain
  BY <1>1 DEF Chain
<1>8. At' = pos
  <2>1. At' = pos + 0
    BY <1>5 DEF At
  <2> QED BY <1>3, <2>1
<1>9. ReadOn'
  <2>1. \A p, k : Stands(p)' = Stands(p) /\ Sound(p, k)' = Sound(p, k)
    BY <1>1, <1>7 DEF Stands, Sound
  <2> QED BY <1>1, <1>2, <1>5, <1>8, <2>1 DEF ReadOn
<1>10. ReadRight'
  <2>1. Len(reading'.got) = 0
    BY <1>5, EmptySeq
  <2> QED BY <1>1, <1>5, <2>1 DEF ReadRight, Bytes
<1> QED BY <1>1, <1>3, <1>6, <1>7, <1>9, <1>10 DEF FileInv, SeekOn

BytesOf(c, p, n) == [k \in 1 .. n |-> <<c[(p + k - 1) \div SIZE + 1], (p + k - 1) % SIZE>>]

\* What a turn copies from one cluster are the bytes of the file that come next.
LEMMA BytesJoin ==
    ASSUME NEW c, NEW p \in Nat, NEW k \in Nat, NEW n \in Nat, NEW q \in Nat, NEW r \in Nat,
           p + k = SIZE * q + r, r + n <= SIZE
    PROVE  BytesOf(c, p, k) \o Copy(c[q + 1], r, n) = BytesOf(c, p, k + n)
<1> DEFINE b == BytesOf(c, p, k + n)
           S == {b[j] : j \in 1 .. k + n}
           f == BytesOf(c, p, k)
           g == Copy(c[q + 1], r, n)
<1>1. \A j \in 1 .. k : j \in 1 .. k + n /\ f[j] = b[j]
  <2>1. \A j \in 1 .. k : j \in 1 .. k + n
    OBVIOUS
  <2>2. \A j \in 1 .. k : f[j] = <<c[(p + j - 1) \div SIZE + 1], (p + j - 1) % SIZE>>
    BY DEF BytesOf
  <2>3. \A j \in 1 .. k + n : b[j] = <<c[(p + j - 1) \div SIZE + 1], (p + j - 1) % SIZE>>
    BY DEF BytesOf
  <2> HIDE DEF f, b
  <2> QED BY <2>1, <2>2, <2>3, Zenon
<1>2. \A j \in 1 .. n : k + j \in 1 .. k + n /\ g[j] = b[k + j]
  <2> TAKE j \in 1 .. n
  <2> DEFINE a == p + (k + j) - 1
             m == r + j - 1
             i == k + j
  <2>1. i \in 1 .. k + n /\ a \in Nat /\ a = SIZE * q + m /\ m \in 0 .. (SIZE - 1)
        /\ SIZE \in Nat \ {0}
    BY FatNumbers
  <2>2. \A x \in Nat, s \in Nat \ {0} : \A y \in Nat : \A z \in 0 .. (s - 1) :
            x = s * y + z => x \div s = y /\ x % s = z
    BY QuotientIs
  <2>3. b[i] = <<c[a \div SIZE + 1], a % SIZE>>
    <3>1. \A x \in 1 .. k + n : b[x] = <<c[(p + x - 1) \div SIZE + 1], (p + x - 1) % SIZE>>
      BY DEF BytesOf
    <3> HIDE DEF b
    <3> QED BY <2>1, <3>1, Zenon
  <2>4. g[j] = <<c[q + 1], m>>
    BY DEF Copy
  <2> HIDE DEF a, m, b, g, i
  <2>5. a \div SIZE = q /\ a % SIZE = m
    BY <2>1, <2>2, Zenon
  <2>6. g[j] = b[i]
    BY <2>3, <2>4, <2>5, Zenon
  <2> QED BY <2>1, <2>6 DEF i
<1>3. f = [j \in 1 .. k |-> f[j]] /\ g = [j \in 1 .. n |-> g[j]] /\ b = [j \in 1 .. k + n |-> b[j]]
  BY DEF BytesOf, Copy
<1> HIDE DEF f, g, b
<1>4. f \in Seq(S) /\ Len(f) = k /\ g \in Seq(S) /\ Len(g) = n
  <2>1. \A j \in 1 .. k : f[j] \in S
    BY <1>1
  <2>2. \A j \in 1 .. n : g[j] \in S
    BY <1>2
  <2> HIDE DEF S
  <2>3. \A T, h : \A m \in Nat : h = [j \in 1 .. m |-> h[j]] /\ (\A j \in 1 .. m : h[j] \in T)
                           => h \in Seq(T) /\ Len(h) = m
    <3> SUFFICES ASSUME NEW T, NEW m \in Nat, NEW h, h = [j \in 1 .. m |-> h[j]],
                        \A j \in 1 .. m : h[j] \in T
                 PROVE  h \in Seq(T) /\ Len(h) = m
      BY Zenon
    <3>1. h \in [1 .. m -> T]
      BY Zenon
    <3>2. h \in Seq(T)
      BY <3>1, SeqDef, Zenon
    <3>3. Len(h) = m
      BY <3>1
    <3> QED BY <3>2, <3>3
  <2> QED BY <1>3, <2>1, <2>2, <2>3, Zenon
<1> HIDE DEF S
<1>5. /\ Len(f \o g) = k + n /\ f \o g \in Seq(S)
      /\ \A j \in 1 .. k + n : (f \o g)[j] = IF j <= k THEN f[j] ELSE g[j - k]
  BY ZenonT(30), <1>4, ConcatProperties
<1>6. ASSUME NEW j \in 1 .. k + n
      PROVE  (f \o g)[j] = b[j]
  <2>1. CASE j <= k
    <3>1. j \in 1 .. k
      BY <2>1
    <3> QED BY <1>1, <1>5, <2>1, <3>1
  <2>2. CASE ~(j <= k)
    <3> DEFINE i == j - k
    <3>1. i \in 1 .. n /\ k + i = j
      BY <2>2
    <3>2. (f \o g)[j] = g[i]
      BY <1>5, <2>2
    <3> HIDE DEF i
    <3> QED BY <1>2, <3>1, <3>2
  <2> QED BY <2>1, <2>2
<1>7. f \o g = [j \in 1 .. k + n |-> (f \o g)[j]]
  <2> DEFINE h == f \o g
  <2> HIDE DEF h
  <2>1. h \in Seq(S) /\ Len(h) = k + n
    BY <1>5 DEF h
  <2>2. h = [j \in 1 .. k + n |-> h[j]]
    BY <2>1
  <2> QED BY <2>2 DEF h
<1>8. f \o g = b
  BY <1>3, <1>6, <1>7
<1> QED BY <1>8 DEF f, g, b

JoinRight(c, p, k, n, q, r) ==
    p + k = SIZE * q + r /\ r + n <= SIZE =>
       BytesOf(c, p, k) \o Copy(c[q + 1], r, n) = BytesOf(c, p, k + n)

\* What a turn copies goes on where the bytes before it end.
LEMMA TurnJoin ==
    ASSUME NEW c, NEW p \in Nat, NEW k \in Nat, NEW n \in Nat, NEW q \in Nat, NEW r \in Nat
    PROVE  JoinRight(c, p, k, n, q, r)
<1> SUFFICES ASSUME p + k = SIZE * q + r, r + n <= SIZE
             PROVE  BytesOf(c, p, k) \o Copy(c[q + 1], r, n) = BytesOf(c, p, k + n)
  BY DEF JoinRight
<1> QED BY SMTT(30), BytesJoin

\* A copy of n bytes is a sequence of n pairs.
LEMMA CopyTypes ==
    ASSUME NEW S, NEW c \in S, NEW from \in Nat, NEW n \in Nat
    PROVE  Copy(c, from, n) \in Seq(S \X Nat) /\ Len(Copy(c, from, n)) = n
<1>1. \A j \in 1 .. n : <<c, from + j - 1>> \in S \X Nat
  OBVIOUS
<1> QED BY <1>1 DEF Copy

\* A turn's copy is appended to what was read.
LEMMA GotTypes ==
    ASSUME TypeOK, NEW n \in Nat
    PROVE  LET g == reading.got \o Copy(fptr.cluster, fptr.offset, n)
           IN  /\ g \in Seq((Words \cup {NOT_FOUND}) \X Nat)
               /\ Len(g) = Len(reading.got) + n
<1>1. /\ reading.got \in Seq((Words \cup {NOT_FOUND}) \X Nat)
      /\ fptr.cluster \in Words \cup {NOT_FOUND} /\ fptr.offset \in Nat
  BY PointerTypes
<1> DEFINE g == Copy(fptr.cluster, fptr.offset, n)
<1>2. g \in Seq((Words \cup {NOT_FOUND}) \X Nat) /\ Len(g) = n
  <2>1. \A S : \A c \in S : \A from \in Nat :
           Copy(c, from, n) \in Seq(S \X Nat) /\ Len(Copy(c, from, n)) = n
    BY CopyTypes
  <2> QED BY <1>1, <2>1, Zenon
<1> HIDE DEF g
<1>3. reading.got \o g \in Seq((Words \cup {NOT_FOUND}) \X Nat)
      /\ Len(reading.got \o g) = Len(reading.got) + Len(g)
  BY <1>1, <1>2, ConcatProperties
<1> QED BY <1>2, <1>3 DEF g

\* Where a sound read stands: cluster q of the chain, offset r in it.
LEMMA Standing ==
    ASSUME FileInv, call = "read", reading.sound
    PROVE  \E q \in Nat : \E r \in 0 .. (SIZE - 1) :
              /\ At = SIZE * q + r /\ At \div SIZE = q /\ At % SIZE = r
              /\ q < Len(Chain) /\ fptr.cluster = Chain[q + 1]
              /\ fptr.next_cluster = Chain[q + 1] /\ fptr.offset = r
              /\ pos = At + reading.size /\ pos <= SIZE * Len(Chain)
              /\ r = 0 \/ r + reading.size <= SIZE
              /\ reading.got = BytesOf(Chain, reading.from, Len(reading.got))
<1> DEFINE q == At \div SIZE
           r == At % SIZE
<1>1. At \in Nat /\ SIZE \in Nat \ {0} /\ Len(Chain) \in Nat
  <2>1. reading.from \in Nat /\ Len(reading.got) \in Nat
    BY PointerTypes DEF FileInv
  <2> QED BY <2>1, FatNumbers, ChainLinks DEF At
<1>2. q \in Nat /\ r \in 0 .. (SIZE - 1) /\ At = SIZE * q + r
  <2>1. \A a \in Nat, s \in Nat \ {0} :
           a \div s \in Nat /\ a % s \in 0 .. (s - 1) /\ a = s * (a \div s) + (a % s)
    BY Quotient
  <2> QED BY <1>1, <2>1, Zenon
<1>3. /\ At < SIZE * Len(Chain) /\ fptr.cluster = Chain[q + 1]
      /\ fptr.next_cluster = Chain[q + 1] /\ fptr.offset = r
      /\ pos = At + reading.size /\ At + reading.size <= SIZE * Len(Chain)
      /\ r = 0 \/ r + reading.size <= SIZE
  BY DEF FileInv, ReadOn, Sound, Stands
<1>4. reading.got = BytesOf(Chain, reading.from, Len(reading.got))
  BY DEF FileInv, ReadRight, Bytes, BytesOf
<1>5. q < Len(Chain)
  <2> HIDE DEF q, r
  <2> DEFINE L == Len(Chain)
  <2>1. SIZE * q < SIZE * L /\ L \in Nat
    BY <1>1, <1>2, <1>3
  <2> HIDE DEF L
  <2>2. SUFFICES ASSUME q >= L PROVE FALSE
    BY <1>2, <2>1 DEF L
  <2>3. SIZE * q = SIZE * L + SIZE * (q - L) /\ q - L \in Nat
    BY <1>1, <1>2, <2>1, <2>2
  <2>4. SIZE * (q - L) >= 0
    BY <1>1, <2>3
  <2>5. SIZE * q \in Nat /\ SIZE * L \in Nat /\ SIZE * (q - L) \in Nat
    BY <1>1, <1>2, <2>1, <2>3
  <2> QED BY <2>1, <2>3, <2>4, <2>5
<1>6. q = At \div SIZE /\ r = At % SIZE
  OBVIOUS
<1> HIDE DEF q, r
<1> USE <1>2
<1> WITNESS q \in Nat
<1> WITNESS r \in 0 .. (SIZE - 1)
<1> QED BY <1>2, <1>3, <1>4, <1>5, <1>6

\* A turn before the last, as far as types go.
LEMMA MoreTypes ==
    ASSUME FileInv, ReadMore
    PROVE  /\ Part \in Nat /\ Part <= reading.size
           /\ TypeOK'
           /\ reading'.left = reading.left - 1 /\ reading'.size = reading.size - Part
           /\ reading'.got = reading.got \o Copy(fptr.cluster, fptr.offset, Part)
           /\ reading'.from = reading.from /\ reading'.sound = reading.sound
           /\ fptr'.current_cluster = fptr.current_cluster
           /\ fptr'.cluster = fptr'.next_cluster
           /\ fptr'.cluster \in Entry(fptr.next_cluster)
           /\ fptr'.offset = ((fptr.offset + Part) % WORD) % SIZE
<1> DEFINE n == Part
           o == ((fptr.offset + n) % WORD) % SIZE
           g == reading.got \o Copy(fptr.cluster, fptr.offset, n)
           R == [left : Nat, size : Nat, from : Nat, sound : BOOLEAN,
                 got : Seq((Words \cup {NOT_FOUND}) \X Nat)]
<1>1. /\ call = "read" /\ reading.left > 1
      /\ reading' = [reading EXCEPT !.left = reading.left - 1, !.size = reading.size - n,
                                    !.got = g]
      /\ call' = call /\ seeking' = seeking /\ buffers' = buffers /\ file' = file /\ pos' = pos
  BY DEF ReadMore
<1>2. PICK w \in Entry(fptr.next_cluster) :
         fptr' = [fptr EXCEPT !.next_cluster = w, !.cluster = w, !.offset = o]
  BY DEF ReadMore
<1>3. TypeOK /\ fptr \in Pointers /\ reading \in R
  BY DEF FileInv, TypeOK
<1>4. n \in Nat /\ n <= reading.size
  <2>1. fptr.offset \in Nat /\ reading.size \in Nat /\ SIZE \in Nat
    BY <1>3, PointerTypes, FatNumbers
  <2> QED BY <2>1 DEF Part
<1> HIDE DEF n
<1>5. o \in 0 .. WORD - 1
  <2> DEFINE a == fptr.offset + n
             b == a % WORD
  <2>1. a \in Nat /\ SIZE \in Nat \ {0} /\ WORD \in Nat \ {0} /\ SIZE <= WORD
    <3>1. fptr.offset \in Nat
      BY <1>3, PointerTypes
    <3>2. a \in Nat
      BY <1>4, <3>1
    <3> HIDE DEF a
    <3> QED BY <3>2, FatNumbers
  <2>2. \A x \in Nat, s \in Nat \ {0} : x % s \in 0 .. (s - 1)
    BY Quotient
  <2> HIDE DEF a
  <2>3. b \in 0 .. (WORD - 1)
    BY <2>1, <2>2, Zenon
  <2>4. b \in Nat
    BY <2>1, <2>3
  <2> HIDE DEF b
  <2>5. b % SIZE \in 0 .. (SIZE - 1)
    BY <2>1, <2>2, <2>4, Zenon
  <2>6. o \in 0 .. (SIZE - 1)
    BY <2>5, Zenon DEF a, b
  <2> HIDE DEF o
  <2> QED BY <2>1, <2>6
<1> HIDE DEF o
<1>6. g \in Seq((Words \cup {NOT_FOUND}) \X Nat)
  BY <1>3, <1>4, GotTypes
<1> HIDE DEF g
<1>7. w \in Words
  BY <1>2, EntryTypes
<1>8. /\ fptr' \in Pointers /\ fptr'.current_cluster = fptr.current_cluster
      /\ fptr'.next_cluster = w /\ fptr'.cluster = w /\ fptr'.offset = o
  BY <1>2, <1>3, <1>5, <1>7 DEF Pointers
<1>9. reading.left - 1 \in Nat /\ reading.size - n \in Nat
  BY <1>1, <1>3, <1>4
<1>10. /\ reading' \in R /\ reading'.left = reading.left - 1
       /\ reading'.size = reading.size - n /\ reading'.got = g
       /\ reading'.from = reading.from /\ reading'.sound = reading.sound
  BY <1>1, <1>3, <1>6, <1>9
<1>11. TypeOK'
  BY <1>1, <1>3, <1>8, <1>10 DEF TypeOK
<1> QED BY <1>2, <1>4, <1>8, <1>10, <1>11 DEF n, o, g

\* A turn before the last, of a sound read: it copies all of a cluster.
LEMMA MoreMoves ==
    ASSUME FileInv, ReadMore, reading.sound
    PROVE  /\ Part = SIZE /\ reading.size > SIZE
           /\ fptr'.offset = 0
           /\ \E q \in Nat :
                 /\ At = SIZE * q /\ q + 1 < Len(Chain)
                 /\ fptr.cluster = Chain[q + 1] /\ fptr.offset = 0
                 /\ fptr'.cluster = Chain[q + 2] /\ fptr'.next_cluster = Chain[q + 2]
           /\ pos = At + reading.size /\ pos <= SIZE * Len(Chain)
           /\ reading.got = BytesOf(Chain, reading.from, Len(reading.got))
<1>1. call = "read" /\ reading.left > 1
  BY DEF ReadMore
<1>2. PICK q \in Nat : \E r \in 0 .. (SIZE - 1) :
              /\ At = SIZE * q + r /\ At \div SIZE = q /\ At % SIZE = r
              /\ q < Len(Chain) /\ fptr.cluster = Chain[q + 1]
              /\ fptr.next_cluster = Chain[q + 1] /\ fptr.offset = r
              /\ pos = At + reading.size /\ pos <= SIZE * Len(Chain)
              /\ r = 0 \/ r + reading.size <= SIZE
              /\ reading.got = BytesOf(Chain, reading.from, Len(reading.got))
  BY <1>1, Standing
<1>3. PICK r \in 0 .. (SIZE - 1) :
              /\ At = SIZE * q + r
              /\ q < Len(Chain) /\ fptr.cluster = Chain[q + 1]
              /\ fptr.next_cluster = Chain[q + 1] /\ fptr.offset = r
              /\ pos = At + reading.size /\ pos <= SIZE * Len(Chain)
              /\ r = 0 \/ r + reading.size <= SIZE
              /\ reading.got = BytesOf(Chain, reading.from, Len(reading.got))
  BY <1>2
<1>4. /\ SIZE \in Nat \ {0} /\ WORD \in Nat /\ SIZE < WORD /\ Len(Chain) \in Nat
      /\ reading.left \in Nat /\ reading.size \in Nat
  BY PointerTypes, FatNumbers, ChainLinks DEF FileInv
<1>5. reading.size > SIZE * (reading.left - 1)
  <2>1. reading.left > 0
    BY <1>1, <1>4
  <2> QED BY <1>1, <2>1 DEF FileInv, ReadOn
<1>6. reading.size > SIZE
  <2> DEFINE l == reading.left - 2
  <2>1. l \in Nat /\ reading.left - 1 = l + 1
    BY <1>1, <1>4
  <2> HIDE DEF l
  <2>2. SIZE * (l + 1) = SIZE * l + SIZE /\ SIZE * l \in Nat
    BY <1>4, <2>1
  <2> QED BY <1>4, <1>5, <2>1, <2>2
<1>7. r = 0
  BY <1>3, <1>4, <1>6
<1>8. At = SIZE * q
  <2>1. SIZE * q \in Nat
    BY <1>4
  <2> QED BY <1>3, <1>7, <2>1
<1>9. Part = SIZE
  BY <1>3, <1>4, <1>6, <1>7 DEF Part
<1>10. fptr'.offset = 0
  <2>1. fptr'.offset = ((fptr.offset + Part) % WORD) % SIZE
    BY MoreTypes
  <2>2. fptr.offset + Part = SIZE
    BY <1>3, <1>4, <1>7, <1>9
  <2>3. SIZE % WORD = SIZE /\ SIZE % SIZE = 0
    BY <1>4
  <2> QED BY <2>1, <2>2, <2>3, Zenon
<1>11. q + 1 < Len(Chain)
  <2> DEFINE L == Len(Chain)
             n == reading.size
  <2>1. SIZE * q + n <= SIZE * L /\ L \in Nat /\ q < L /\ n > SIZE /\ n \in Nat
    BY <1>3, <1>4, <1>6, <1>8
  <2> HIDE DEF L, n
  <2>2. SUFFICES ASSUME L = q + 1 PROVE FALSE
    BY <2>1 DEF L
  <2>3. SIZE * L = SIZE * q + SIZE /\ SIZE * q \in Nat
    BY <1>4, <2>2
  <2> QED BY <1>4, <2>1, <2>3
<1>12. fptr'.cluster = Chain[q + 2] /\ fptr'.next_cluster = Chain[q + 2]
  <2>1. fptr'.cluster \in Entry(Chain[q + 1]) /\ fptr'.cluster = fptr'.next_cluster
    BY <1>3, MoreTypes
  <2> DEFINE i == q + 1
  <2>2. i \in 1 .. Len(Chain) /\ i # Len(Chain) /\ i + 1 = q + 2
    BY <1>4, <1>11
  <2> HIDE DEF i
  <2>3. Entry(Chain[i]) = {Chain[i + 1]}
    BY <2>2, ChainLinks
  <2>4. Entry(Chain[q + 1]) = {Chain[q + 2]}
    BY <2>2, <2>3 DEF i
  <2> QED BY <2>1, <2>4
<1> QED BY <1>3, <1>6, <1>7, <1>8, <1>9, <1>10, <1>11, <1>12

\* A turn that is not the last copies a cluster and follows the link.
LEMMA ReadMoreStep ==
    ASSUME FileInv, ReadMore
    PROVE  FileInv'
<1>1. /\ call = "read" /\ call' = call /\ seeking' = seeking /\ buffers' = buffers
      /\ file' = file /\ pos' = pos /\ reading.left > 1
  BY DEF ReadMore
<1>2. Chain' = Chain
  BY <1>1 DEF Chain
<1>3. TypeOK' /\ reading'.sound = reading.sound
      /\ fptr'.current_cluster = fptr.current_cluster
  BY MoreTypes
<1>4. SeekOn'
  BY <1>1 DEF SeekOn
<1>5. ASSUME reading.sound
      PROVE  ReadOn' /\ ReadRight'
  <2> DEFINE n == Part
             k == Len(reading.got)
             p == reading.from
             L == Len(Chain)
  <2>1. /\ n = SIZE /\ reading.size > SIZE /\ fptr'.offset = 0
        /\ pos = At + reading.size /\ pos <= SIZE * L
        /\ reading.got = BytesOf(Chain, p, k)
    BY <1>5, MoreMoves
  <2>2. PICK q \in Nat :
           /\ At = SIZE * q /\ q + 1 < L
           /\ fptr.cluster = Chain[q + 1] /\ fptr.offset = 0
           /\ fptr'.cluster = Chain[q + 2] /\ fptr'.next_cluster = Chain[q + 2]
    BY <1>5, MoreMoves
  <2>3. /\ reading'.left = reading.left - 1 /\ reading'.size = reading.size - n
        /\ reading'.got = reading.got \o Copy(fptr.cluster, fptr.offset, n)
        /\ reading'.from = p
    BY MoreTypes
  <2>4. /\ SIZE \in Nat \ {0} /\ L \in Nat /\ k \in Nat /\ p \in Nat
        /\ reading.left \in Nat /\ reading.size \in Nat
    BY PointerTypes, FatNumbers, ChainLinks DEF FileInv
  <2> HIDE DEF n
  <2>5. Len(reading'.got) = k + SIZE
    BY <2>1, <2>3, <2>4, GotTypes DEF FileInv
  <2>6. At = p + k
    BY DEF At
  <2> HIDE DEF k, p, L
  <2>7. reading'.got = BytesOf(Chain, p, k + SIZE)
    <3>1. p + k = SIZE * q + 0 /\ 0 + SIZE <= SIZE
      <4>1. SIZE * q \in Nat
        BY <2>4
      <4> QED BY <2>2, <2>4, <2>6, <4>1
    <3>2. JoinRight(Chain, p, k, SIZE, q, 0)
      BY <2>4, TurnJoin
    <3>3. BytesOf(Chain, p, k) \o Copy(Chain[q + 1], 0, SIZE) = BytesOf(Chain, p, k + SIZE)
      BY <3>1, <3>2, Zenon DEF JoinRight
    <3> QED BY <2>1, <2>2, <2>3, <3>3, Zenon
  <2> DEFINE to == At + SIZE
             s == reading.size - SIZE
  <2>8. At' = to /\ At \in Nat
    <3>1. At' = p + (k + SIZE)
      BY <2>3, <2>5 DEF At
    <3> QED BY <2>4, <2>6, <3>1
  <2>9. to \in Nat /\ to = SIZE * (q + 1) /\ s \in Nat /\ reading'.size = s
    <3>1. SIZE * (q + 1) = SIZE * q + SIZE /\ SIZE * q \in Nat
      BY <2>4
    <3>2. to = SIZE * (q + 1) /\ to \in Nat
      BY <2>2, <2>4, <3>1
    <3>3. s \in Nat /\ reading'.size = s
      BY <2>1, <2>3, <2>4
    <3> HIDE DEF to, s
    <3> QED BY <3>2, <3>3
  <2>10. to \div SIZE = q + 1 /\ to % SIZE = 0
    <3>1. \A x \in Nat, d \in Nat \ {0} : \A y \in Nat : \A z \in 0 .. (d - 1) :
            x = d * y + z => x \div d = y /\ x % d = z
      BY QuotientIs
    <3> HIDE DEF to
    <3>2. to \in Nat /\ q + 1 \in Nat /\ 0 \in 0 .. (SIZE - 1) /\ to = SIZE * (q + 1) + 0
      <4>1. SIZE * (q + 1) \in Nat
        BY <2>4
      <4> QED BY <2>4, <2>9, <4>1
    <3> QED BY <2>4, <3>1, <3>2, Zenon
  <2>11. pos = to + s
    BY <2>1, <2>4, <2>8
  <2>12. reading.size = s + SIZE /\ s > 0
    BY <2>1, <2>4
  <2> HIDE DEF to, s
  <2>13. to < SIZE * L
    BY <2>1, <2>4, <2>9, <2>11, <2>12
  <2>14. Sound(At, reading.size)'
    <3>1. /\ At' = to /\ reading'.size = s /\ Chain' = Chain
          /\ to < SIZE * Len(Chain) /\ to + s <= SIZE * Len(Chain)
          /\ to \div SIZE = q + 1 /\ to % SIZE = 0 /\ q + 1 + 1 = q + 2
          /\ fptr'.cluster = Chain[q + 2] /\ fptr'.next_cluster = Chain[q + 2]
          /\ fptr'.offset = 0
      BY <1>2, <2>1, <2>2, <2>8, <2>9, <2>10, <2>11, <2>13 DEF L
    <3> QED BY <3>1, Zenon DEF Sound, Stands
  <2>15. /\ s <= SIZE * (reading.left - 1)
         /\ reading.left - 1 > 0 => s > SIZE * ((reading.left - 1) - 1)
    <3>1. reading.size <= SIZE * reading.left /\ reading.size > SIZE * (reading.left - 1)
      <4>1. reading.left > 0
        BY <1>1, <2>4
      <4> QED BY <1>1, <1>5, <4>1 DEF FileInv, ReadOn
    <3> DEFINE l == reading.left - 2
    <3>2. l \in Nat /\ reading.left = l + 2
      BY <1>1, <2>4
    <3> HIDE DEF l
    <3>3. /\ SIZE * (l + 2) = SIZE * l + SIZE + SIZE /\ SIZE * (l + 1) = SIZE * l + SIZE
          /\ SIZE * l \in Nat
      BY <2>4, <3>2
    <3>4. reading.left - 1 = l + 1 /\ (reading.left - 1) - 1 = l
      BY <3>2
    <3> QED BY <2>4, <2>9, <2>12, <3>1, <3>2, <3>3, <3>4
  <2>16. ReadOn'
    BY <1>1, <2>3, <2>8, <2>9, <2>11, <2>14, <2>15 DEF ReadOn
  <2>17. ReadRight'
    BY <1>1, <1>2, <2>3, <2>5, <2>7 DEF ReadRight, Bytes, BytesOf
  <2> QED BY <2>16, <2>17
<1>6. ~reading.sound => ReadOn' /\ ReadRight'
  BY <1>3 DEF ReadOn, ReadRight
<1> QED BY <1>1, <1>2, <1>3, <1>4, <1>5, <1>6 DEF FileInv

\* The last turn, as far as types go.
LEMMA LastTypes ==
    ASSUME FileInv, ReadLast
    PROVE  /\ TypeOK'
           /\ reading'.size = 0 /\ reading'.left = 0
           /\ reading'.got = reading.got \o Copy(fptr.cluster, fptr.offset, reading.size)
           /\ Len(reading'.got) = Len(reading.got) + reading.size
           /\ reading'.from = reading.from /\ reading'.sound = reading.sound
           /\ fptr'.current_cluster = fptr.current_cluster
           /\ fptr'.cluster = fptr.cluster /\ fptr'.next_cluster = fptr.next_cluster
           /\ fptr'.offset = (fptr.offset + reading.size) % WORD
<1> DEFINE n == reading.size
           o == (fptr.offset + n) % WORD
           g == reading.got \o Copy(fptr.cluster, fptr.offset, n)
           R == [left : Nat, size : Nat, from : Nat, sound : BOOLEAN,
                 got : Seq((Words \cup {NOT_FOUND}) \X Nat)]
<1>1. /\ call = "read" /\ reading.left = 1
      /\ reading' = [reading EXCEPT !.left = 0, !.size = 0, !.got = g]
      /\ fptr' = [fptr EXCEPT !.offset = o]
      /\ call' = "none" /\ buffers' = buffers - 1
      /\ seeking' = seeking /\ file' = file /\ pos' = pos
  BY DEF ReadLast
<1>2. TypeOK /\ fptr \in Pointers /\ reading \in R
  BY DEF FileInv, TypeOK
<1>3. n \in Nat /\ fptr.offset \in Nat
  BY <1>2, PointerTypes
<1>4. o \in 0 .. WORD - 1
  <2> DEFINE a == fptr.offset + n
  <2>1. a \in Nat
    BY <1>3
  <2>2. \A x \in Nat, s \in Nat \ {0} : x % s \in 0 .. (s - 1)
    BY Quotient
  <2> HIDE DEF a
  <2>3. WORD \in Nat \ {0}
    BY FatNumbers
  <2>4. a % WORD \in 0 .. (WORD - 1)
    BY <2>1, <2>2, <2>3, Zenon
  <2>5. o \in 0 .. (WORD - 1)
    BY <2>4, Zenon DEF a
  <2> HIDE DEF o
  <2> QED BY <2>5
<1>5. g \in Seq((Words \cup {NOT_FOUND}) \X Nat) /\ Len(g) = Len(reading.got) + n
  BY <1>2, <1>3, GotTypes
<1> HIDE DEF o, g
<1>6. /\ fptr' \in Pointers /\ fptr'.current_cluster = fptr.current_cluster
      /\ fptr'.next_cluster = fptr.next_cluster /\ fptr'.cluster = fptr.cluster
      /\ fptr'.offset = o
  BY <1>1, <1>2, <1>4 DEF Pointers
<1>7. /\ reading' \in R /\ reading'.left = 0 /\ reading'.size = 0 /\ reading'.got = g
      /\ reading'.from = reading.from /\ reading'.sound = reading.sound
  BY <1>1, <1>2, <1>5
<1>8. buffers' \in 0 .. BUFFERS
  <2>1. buffers \in Nat /\ buffers > 0 /\ buffers <= BUFFERS /\ BUFFERS \in Nat
    BY <1>1, <1>2, PointerTypes, FatNumbers DEF FileInv
  <2> QED BY <1>1, <2>1
<1>9. TypeOK'
  BY <1>1, <1>2, <1>6, <1>7, <1>8 DEF TypeOK
<1> QED BY <1>5, <1>6, <1>7, <1>9 DEF o, g

\* Where the bytes of a sound read end: in the cluster they began in, or at its end.
LEMMA EndsIn ==
    ASSUME NEW q \in Nat, NEW m \in Nat, m <= SIZE, NEW to \in Nat, to = SIZE * q + m,
           to % SIZE # 0, NEW L \in Nat, q < L
    PROVE  m < SIZE /\ to \div SIZE = q /\ to % SIZE = m /\ to < SIZE * L
<1>1. SIZE \in Nat \ {0}
  BY FatNumbers
<1>2. \A x \in Nat, d \in Nat \ {0} : \A y \in Nat : \A z \in 0 .. (d - 1) :
            x = d * y + z => x \div d = y /\ x % d = z
  BY QuotientIs
<1>3. m < SIZE
  <2> SUFFICES ASSUME m = SIZE PROVE FALSE
    BY <1>1
  <2>1. to = SIZE * (q + 1) + 0
    <3>1. SIZE * (q + 1) = SIZE * q + SIZE /\ SIZE * q \in Nat
      BY <1>1
    <3> QED BY <1>1, <3>1
  <2>2. q + 1 \in Nat /\ 0 \in 0 .. (SIZE - 1)
    BY <1>1
  <2>3. \A y \in Nat : \A z \in 0 .. (SIZE - 1) : to = SIZE * y + z => to % SIZE = z
    BY <1>1, <1>2, Zenon
  <2>4. to % SIZE = 0
    BY <2>1, <2>2, <2>3, Zenon
  <2> QED BY <2>4
<1>4. to \div SIZE = q /\ to % SIZE = m
  <2>1. m \in 0 .. (SIZE - 1)
    BY <1>1, <1>3
  <2> QED BY <1>1, <1>2, <2>1, Zenon
<1>5. to < SIZE * L
  <2> DEFINE d == L - (q + 1)
  <2>1. d \in Nat /\ L = q + 1 + d
    OBVIOUS
  <2> HIDE DEF d
  <2>2. SIZE * (q + 1 + d) = SIZE * q + SIZE + SIZE * d /\ SIZE * d \in Nat /\ SIZE * q \in Nat
    BY <1>1, <2>1
  <2> QED BY <1>1, <1>3, <2>1, <2>2
<1> QED BY <1>3, <1>4, <1>5

\* The last turn copies what is left.
LEMMA ReadLastStep ==
    ASSUME FileInv, ReadLast
    PROVE  FileInv'
<1>1. /\ call = "read" /\ call' = "none" /\ seeking' = seeking /\ file' = file /\ pos' = pos
      /\ reading.left = 1
  BY DEF ReadLast
<1>2. Chain' = Chain
  BY <1>1 DEF Chain
<1>3. TypeOK' /\ reading'.sound = reading.sound /\ reading'.from = reading.from
      /\ fptr'.current_cluster = fptr.current_cluster
  BY LastTypes
<1>4. SeekOn' /\ ReadOn'
  BY <1>1 DEF SeekOn, ReadOn
<1>5. ASSUME reading.sound
      PROVE  ReadRight'
  <2> DEFINE n == reading.size
             k == Len(reading.got)
             p == reading.from
             L == Len(Chain)
  <2>1. /\ SIZE \in Nat \ {0} /\ WORD \in Nat /\ SIZE < WORD
        /\ L \in Nat /\ k \in Nat /\ p \in Nat /\ n \in Nat
    BY PointerTypes, FatNumbers, ChainLinks DEF FileInv
  <2>2. PICK q \in Nat : \E r \in 0 .. (SIZE - 1) :
              /\ At = SIZE * q + r /\ At \div SIZE = q /\ At % SIZE = r
              /\ q < L /\ fptr.cluster = Chain[q + 1]
              /\ fptr.next_cluster = Chain[q + 1] /\ fptr.offset = r
              /\ pos = At + n /\ pos <= SIZE * L
              /\ r = 0 \/ r + n <= SIZE
              /\ reading.got = BytesOf(Chain, p, k)
    BY <1>1, <1>5, Standing
  <2>3. PICK r \in 0 .. (SIZE - 1) :
              /\ At = SIZE * q + r
              /\ q < L /\ fptr.cluster = Chain[q + 1]
              /\ fptr.next_cluster = Chain[q + 1] /\ fptr.offset = r
              /\ pos = At + n
              /\ r = 0 \/ r + n <= SIZE
              /\ reading.got = BytesOf(Chain, p, k)
    BY <2>2
  <2>4. n <= SIZE
    <3>1. n <= SIZE * 1
      BY <1>1, <1>5 DEF FileInv, ReadOn
    <3> HIDE DEF n
    <3> QED BY <2>1, <3>1
  <2>5. /\ reading'.got = reading.got \o Copy(fptr.cluster, fptr.offset, n)
        /\ Len(reading'.got) = k + n
        /\ fptr'.cluster = fptr.cluster /\ fptr'.next_cluster = fptr.next_cluster
        /\ fptr'.offset = (fptr.offset + n) % WORD
    BY LastTypes
  <2>6. At = p + k
    BY DEF At
  <2> HIDE DEF n, k, p, L
  <2>7. r + n <= SIZE /\ r \in Nat
    BY <2>1, <2>3, <2>4
  <2>8. reading'.got = BytesOf(Chain, p, k + n)
    <3>1. JoinRight(Chain, p, k, n, q, r)
      BY <2>1, <2>7, TurnJoin
    <3>2. p + k = SIZE * q + r
      BY <2>3, <2>6
    <3>3. BytesOf(Chain, p, k) \o Copy(Chain[q + 1], r, n) = BytesOf(Chain, p, k + n)
      BY <2>7, <3>1, <3>2, Zenon DEF JoinRight
    <3> QED BY <2>3, <2>5, <3>3, Zenon
  <2>9. pos = p + (k + n) /\ pos \in Nat
    BY <2>1, <2>3, <2>6
  <2>10. ASSUME pos % SIZE # 0
         PROVE  Stands(pos)'
    <3> DEFINE m == r + n
    <3>1. m \in Nat /\ m <= SIZE
      BY <2>1, <2>7
    <3>2. pos = SIZE * q + m
      <4>1. SIZE * q \in Nat
        BY <2>1
      <4> QED BY <2>1, <2>3, <2>7, <4>1
    <3>3. fptr'.offset = m % WORD
      BY <2>3, <2>5
    <3> HIDE DEF m
    <3>4. m < SIZE /\ pos \div SIZE = q /\ pos % SIZE = m /\ pos < SIZE * L
      BY <2>1, <2>3, <2>9, <2>10, <3>1, <3>2, EndsIn
    <3>5. fptr'.offset = m
      <4>1. m \in Nat /\ WORD \in Nat \ {0} /\ m < WORD
        BY <2>1, <3>1, <3>4
      <4>2. m % WORD = m
        BY <4>1
      <4> QED BY <3>3, <4>2, Zenon
    <3>6. /\ pos' = pos /\ Chain' = Chain /\ pos < SIZE * Len(Chain) /\ pos \div SIZE = q
          /\ fptr'.cluster = Chain[q + 1] /\ fptr'.next_cluster = fptr'.cluster
          /\ fptr'.offset = pos % SIZE
      BY <1>1, <1>2, <2>3, <2>5, <3>4, <3>5 DEF L
    <3> QED BY <3>6, Zenon DEF Stands
  <2>11. reading'.from = p
    BY <1>3 DEF p
  <2>12. (reading.got = Bytes(reading.from, Len(reading.got)))'
    BY <1>2, <2>5, <2>8, <2>11 DEF Bytes, BytesOf
  <2> QED BY <1>1, <1>3, <2>5, <2>9, <2>10, <2>11, <2>12 DEF ReadRight
<1>6. ~reading.sound => ReadRight'
  BY <1>3 DEF ReadRight
<1> QED BY <1>1, <1>2, <1>3, <1>4, <1>5, <1>6 DEF FileInv

\* A read without a turn copies nothing.
LEMMA ReadNoneStep ==
    ASSUME FileInv, ReadNone
    PROVE  FileInv'
<1>1. /\ call = "read" /\ call' = "none" /\ buffers' = buffers - 1 /\ reading.left = 0
      /\ fptr' = fptr /\ seeking' = seeking /\ reading' = reading /\ file' = file /\ pos' = pos
  BY DEF ReadNone
<1>2. Chain' = Chain
  BY <1>1 DEF Chain
<1>3. buffers' \in 0 .. BUFFERS
  <2>1. buffers \in Nat /\ buffers > 0 /\ buffers <= BUFFERS /\ BUFFERS \in Nat
    BY <1>1, PointerTypes, FatNumbers DEF FileInv
  <2> QED BY <1>1, <2>1
<1>4. TypeOK'
  BY <1>1, <1>3 DEF FileInv, TypeOK
<1>5. ASSUME reading.sound
      PROVE  ReadRight'
  <2> DEFINE n == reading.size
             a == At
  <2>1. n \in Nat /\ SIZE \in Nat /\ a \in Nat
    <3>1. TypeOK
      BY DEF FileInv
    <3>2. reading.size \in Nat
      BY <3>1, PointerTypes
    <3>3. At \in Nat
      BY <3>1, PointerTypes DEF At
    <3> QED BY <3>2, <3>3, FatNumbers
  <2>2. pos = a + n /\ Sound(a, n) /\ n <= SIZE * 0
    BY <1>1, <1>5 DEF FileInv, ReadOn
  <2> HIDE DEF n, a
  <2>3. pos = a /\ Stands(a)
    BY <2>1, <2>2 DEF Sound
  <2>4. Stands(pos)' = Stands(pos)
    BY <1>1, <1>2 DEF Stands
  <2>5. reading.got = Bytes(reading.from, Len(reading.got))
    BY <1>5 DEF FileInv, ReadRight
  <2> QED BY <1>1, <1>2, <2>3, <2>4, <2>5 DEF ReadRight, a, At, Bytes
<1>6. ~reading.sound => ReadRight'
  BY <1>1 DEF ReadRight
<1> QED BY <1>1, <1>2, <1>4, <1>5, <1>6 DEF FileInv, SeekOn, ReadOn

\* Every step keeps the invariant.
LEMMA FileStep == FileInv /\ [Next]_vars => FileInv'
<1> SUFFICES ASSUME FileInv, [Next]_vars PROVE FileInv'
  OBVIOUS
<1>1. ASSUME NEW path \in Paths, fat_fileOpen(path)
      PROVE  FileInv'
  BY <1>1, OpenStep
<1>2. ASSUME NEW p \in Seeks, SeekStart(p)
      PROVE  FileInv'
  BY <1>2, FatNumbers, SeekStartStep
<1>3. CASE fat_seek
  BY <1>3, SeekStepStep, SeekEndStep DEF fat_seek
<1>4. ASSUME NEW n \in Sizes, ReadStart(n)
      PROVE  FileInv'
  BY <1>4, FatNumbers, ReadStartStep
<1>5. CASE fat_read
  BY <1>5, ReadMoreStep, ReadLastStep, ReadNoneStep DEF fat_read
<1>6. CASE UNCHANGED vars
  <2>1. /\ fptr' = fptr /\ call' = call /\ seeking' = seeking /\ reading' = reading
        /\ buffers' = buffers /\ file' = file /\ pos' = pos
    BY <1>6 DEF vars
  <2> QED BY <2>1 DEF FileInv, TypeOK, SeekOn, ReadOn, ReadRight, Passed, At, Sound, Stands,
                      Bytes, Chain
<1> QED BY <1>1, <1>2, <1>3, <1>4, <1>5, <1>6 DEF Next

\* The invariant holds in every reachable state.
LEMMA FileInvariant == Spec => []FileInv
BY FileInit, FileStep, PTL DEF Spec

\* The file pointer, the locals of fat_seek and fat_read and the count of sector
\* buffers keep their types in every state: the offset stays within its word and
\* every return that gives a buffer back has taken one (fat.c:179-279).
THEOREM FilesTyped == Spec => []TypeOK
<1>1. FileInv => TypeOK
  BY DEF FileInv
<1> QED BY <1>1, FileInvariant, PTL

\* A read that begins at the start of a cluster or stays inside one, from a pointer
\* that stands where the caller believes, copies the file's bytes in their order on
\* every turn, and when it is done the pointer stands behind them unless that is a
\* cluster's end: for every size of a cluster, chain of the root directory, position
\* and count (fat.c:239-275).
THEOREM ReadsRight == Spec => []ReadRight
<1>1. FileInv => ReadRight
  BY DEF FileInv
<1> QED BY <1>1, FileInvariant, PTL

\* A seek that finds a bad cluster has been sent beyond the end of the file's chain.
LEMMA BadIsBeyond ==
    ASSUME FileInv, SeekBad
    PROVE  seeking.to \div SIZE > Len(Chain)
<1> DEFINE q == seeking.to \div SIZE
           l == seeking.len
           L == Len(Chain)
<1>1. call = "seek" /\ l > 0 /\ seeking.clus >= BAD
  BY DEF SeekBad
<1>2. l <= q /\ (q - l < L => seeking.clus = Chain[q - l + 1])
  BY <1>1 DEF FileInv, SeekOn, Passed
<1>3. q \in Nat /\ l \in Nat /\ L \in Nat /\ BAD \in Nat
  <2>1. seeking.to \in Nat /\ l \in Nat /\ SIZE \in Nat \ {0}
    BY PointerTypes, FatNumbers DEF FileInv
  <2>2. q \in Nat
    <3>1. \A a \in Nat, s \in Nat \ {0} : a \div s \in Nat
      BY Quotient
    <3> QED BY <2>1, <3>1, Zenon
  <2> QED BY <2>1, <2>2, FatNumbers, ChainLinks
<1> HIDE DEF q, l
<1>4. ~(q - l < L)
  <2> SUFFICES ASSUME q - l < L PROVE FALSE
    OBVIOUS
  <2> DEFINE i == q - l + 1
  <2>1. i \in 1 .. Len(Chain)
    BY <1>2, <1>3
  <2> HIDE DEF i
  <2>2. Chain[i] \in Nat /\ Chain[i] < BAD
    BY <2>1, ChainLinks
  <2>3. seeking.clus = Chain[i]
    BY <1>2 DEF i
  <2> QED BY <1>1, <1>3, <2>2, <2>3
<1> HIDE DEF L
<1>5. q > L
  BY <1>1, <1>2, <1>3, <1>4
<1> QED BY <1>5 DEF q, L

\* Only a seek beyond the end of the file's chain keeps its sector buffer; every other
\* return of fat_seek and fat_read gives it back (fat.c:181, 188, 201, 236, 277).
THEOREM OverrunsOnly == Spec => OnlyOverrunsKeep
<1>1. ASSUME FileInv, [Next]_vars
      PROVE  [call # "none" /\ call' = "none" =>
                 \/ buffers' = buffers - 1
                 \/ call = "seek" /\ seeking.to \div SIZE > Len(Chain)]_vars
  <2>1. ASSUME NEW path \in Paths, fat_fileOpen(path)
        PROVE  call = "none"
    BY <2>1 DEF fat_fileOpen
  <2>2. ASSUME NEW p \in Seeks, SeekStart(p)
        PROVE  call = "none"
    BY <2>2 DEF SeekStart, Usable
  <2>3. CASE fat_seek
    <3>1. CASE SeekStep
      BY <3>1 DEF SeekStep
    <3>2. CASE SeekBad
      BY <1>1, <3>2, BadIsBeyond DEF SeekBad
    <3>3. CASE SeekEnd
      BY <3>3 DEF SeekEnd
    <3> QED BY <2>3, <3>1, <3>2, <3>3 DEF fat_seek
  <2>4. ASSUME NEW n \in Sizes, ReadStart(n)
        PROVE  call = "none"
    BY <2>4 DEF ReadStart, Usable
  <2>5. CASE fat_read
    <3>1. CASE ReadMore
      BY <3>1 DEF ReadMore
    <3>2. CASE ReadLast
      BY <3>2 DEF ReadLast
    <3>3. CASE ReadNone
      BY <3>3 DEF ReadNone
    <3> QED BY <2>5, <3>1, <3>2, <3>3 DEF fat_read
  <2> QED BY <1>1, <2>1, <2>2, <2>3, <2>4, <2>5 DEF Next
<1> QED BY <1>1, FileInvariant, PTL DEF Spec, OnlyOverrunsKeep
=============================================================================
