-------------------------------- MODULE Disk --------------------------------
(***************************************************************************)
(* Reading the disk: ata_read_disk of kernel/fs/disk.c and disk.asm, which *)
(* drives the controller through its registers and copies each sector by   *)
(* way of the one tmp_buffer, and where fat.c reads.                       *)
(*                                                                         *)
(* open and read are system calls, in which interrupts are off; fat_seek   *)
(* reads with interrupts on, so that the timer may switch to another task  *)
(* between any two accesses.  A byte is the pair of its sector and place.  *)
(***************************************************************************)
EXTENDS Naturals, Sequences

CONSTANTS
    SECTOR,     \* bytes of a sector (512), two to a word of the data port
    LOW,        \* values of the address register that is written first (256)
    Readers,    \* the tasks that read
    Masked,     \* those of them that read in a system call
    Requests,   \* what they read: <<lba, offset, size>>
    NOBODY

ASSUME DiskAssumption == /\ SECTOR \in Nat \ {0} /\ SECTOR % 2 = 0 /\ LOW \in Nat \ {0}
                         /\ Masked \subseteq Readers /\ NOBODY \notin Readers
                         /\ Requests \subseteq Nat \X (0 .. (SECTOR - 1)) \X Nat

-----------------------------------------------------------------------------
(* Where things are: h is the header of the FAT volume, which begins at lba *)
(* start.                                                                  *)

fat_start(start, h) == start + h.reserved_sector
root_dirs_start(start, h) == fat_start(start, h) + h.fat_number * h.sector_per_fat
data_start(start, h) == root_dirs_start(start, h) + h.root_dir_sectors

\* fat_getNextCluster reads the word of a cluster in this sector.
NextCluster(start, h, c) == fat_start(start, h) + (c \div 256)

\* The sectors of a cluster.
ClusterSector(start, h, c, i) == data_start(start, h) + (c - 2) * h.sector_per_cluster + i

-----------------------------------------------------------------------------
VARIABLES
    ctl,        \* the controller: its address registers and what it was told to read
    tmp_buffer,
    cpu,        \* the task that runs
    xfer        \* each task's call of ata_read_disk

diskVars == <<ctl, tmp_buffer, cpu, xfer>>

Word == 0 .. (SECTOR - 1)
JUNK == <<"junk">>
Idle_ == [at |-> "done", req |-> <<0, 0, 0>>, lba |-> 0, offset |-> 0, size |-> 0,
          i |-> 0, got |-> <<>>, mixed |-> FALSE]

DiskInit == /\ ctl = [low |-> 0, high |-> 0, sector |-> 0, left |-> 0, busy |-> FALSE]
            /\ tmp_buffer = [i \in Word |-> JUNK]
            /\ cpu \in Readers
            /\ xfer = [t \in Readers |-> Idle_]

\* A step of t's transfer mixes it into every other that is under way.
Runs(t, from) == cpu = t /\ xfer[t].at = from
Becomes(t, r) == xfer' = [u \in Readers |->
                    IF u = t THEN r ELSE [xfer[u] EXCEPT !.mixed = @ \/ xfer[u].at # "done"]]

Call(t, r) == /\ Runs(t, "done")
              /\ Becomes(t, [Idle_ EXCEPT !.at = IF r[3] = 0 THEN "done" ELSE "low",
                                !.req = r, !.lba = r[1], !.offset = r[2], !.size = r[3]])
              /\ UNCHANGED <<ctl, tmp_buffer, cpu>>

\* A busy controller takes no writes.
Writes(t, to, c) == /\ ctl' = IF ctl.busy THEN ctl ELSE c
                    /\ Becomes(t, [xfer[t] EXCEPT !.at = to, !.mixed = @ \/ ctl.busy])
                    /\ UNCHANGED <<tmp_buffer, cpu>>

\* ata_init_pio writes the registers of the drive, the count and the address.
SelectLow(t) == Runs(t, "low") /\ Writes(t, "high", [ctl EXCEPT !.low = xfer[t].lba % LOW])
SelectHigh(t) == Runs(t, "high") /\ Writes(t, "command", [ctl EXCEPT !.high = xfer[t].lba \div LOW])
ata_init_pio(t) == SelectLow(t) \/ SelectHigh(t)

ReadCommand(t) ==
    /\ Runs(t, "command")
    /\ Writes(t, "wait", [ctl EXCEPT !.sector = ctl.low + LOW * ctl.high,
                             !.left = SECTOR \div 2, !.busy = TRUE])

Wait(t) == /\ Runs(t, "wait") /\ ~ctl.busy
           /\ Becomes(t, [xfer[t] EXCEPT !.at = "words", !.i = 0])
           /\ UNCHANGED <<ctl, tmp_buffer, cpu>>

\* A word of the sector, if the controller has one left.
InWord(t) ==
    LET i == xfer[t].i
        from == SECTOR - 2 * ctl.left
        Data(k) == IF ctl.left = 0 THEN JUNK ELSE <<ctl.sector, from + k>>
    IN  /\ Runs(t, "words")
        /\ tmp_buffer' = [tmp_buffer EXCEPT ![2 * i] = Data(0), ![2 * i + 1] = Data(1)]
        /\ ctl' = IF ctl.left = 0 THEN ctl ELSE [ctl EXCEPT !.left = @ - 1]
        /\ Becomes(t, IF 2 * (i + 1) < SECTOR THEN [xfer[t] EXCEPT !.i = @ + 1]
                      ELSE [xfer[t] EXCEPT !.at = "bytes", !.i = xfer[t].offset])
        /\ UNCHANGED cpu

\* Mutant: the next sector is read from the offset on as well.
CopyByte_keeps_offset(t) ==
    LET x == [xfer[t] EXCEPT !.got = Append(@, tmp_buffer[xfer[t].i]), !.size = @ - 1]
    IN  /\ Runs(t, "bytes")
        /\ Becomes(t, IF x.size = 0 THEN [x EXCEPT !.at = "done"]
                      ELSE IF x.i + 1 < SECTOR THEN [x EXCEPT !.i = @ + 1]
                      ELSE [x EXCEPT !.at = "low", !.lba = @ + 1])
        /\ UNCHANGED <<ctl, tmp_buffer, cpu>>

\* From the offset to the end of the sector, then the next sector from its start.
CopyByte(t) ==
    LET x == [xfer[t] EXCEPT !.got = Append(@, tmp_buffer[xfer[t].i]), !.size = @ - 1]
    IN  /\ Runs(t, "bytes")
        /\ Becomes(t, IF x.size = 0 THEN [x EXCEPT !.at = "done"]
                      ELSE IF x.i + 1 < SECTOR THEN [x EXCEPT !.i = @ + 1]
                      ELSE [x EXCEPT !.at = "low", !.offset = 0, !.lba = @ + 1])
        /\ UNCHANGED <<ctl, tmp_buffer, cpu>>

ata_read_disk(t) == \/ ata_init_pio(t) \/ ReadCommand(t) \/ Wait(t)
                    \/ InWord(t) \/ CopyByte(t)

\* The sector has arrived in the controller.
Ready == /\ ctl.busy /\ ctl' = [ctl EXCEPT !.busy = FALSE]
         /\ UNCHANGED <<tmp_buffer, cpu, xfer>>

\* The timer's tick, which a system call keeps waiting.
Switch(t) == /\ cpu \in Masked => xfer[cpu].at = "done"
             /\ cpu # t /\ cpu' = t
             /\ UNCHANGED <<ctl, tmp_buffer, xfer>>

DiskNext == \/ \E t \in Readers : ata_read_disk(t) \/ Switch(t) \/ \E r \in Requests : Call(t, r)
            \/ Ready
DiskSpec == DiskInit /\ [][DiskNext]_diskVars

-----------------------------------------------------------------------------
(* Properties.                                                             *)

\* The n bytes of the disk from a place on.
DiskBytes(lba, offset, n) ==
    [k \in 1 .. n |-> <<lba + (offset + k - 1) \div SECTOR, (offset + k - 1) % SECTOR>>]

\* A transfer gives the bytes of the disk from its first to its last, whatever
\* transfers were broken off before it, also when it breaks into another; only
\* one that another was mixed into, or that began while the controller worked
\* for another, is not answerable for its bytes.
TransferRight == \A t \in Readers : ~xfer[t].mixed =>
    /\ xfer[t].got = DiskBytes(xfer[t].req[1], xfer[t].req[2], Len(xfer[t].got))
    /\ xfer[t].at = "done" => Len(xfer[t].got) = xfer[t].req[3]

=============================================================================
