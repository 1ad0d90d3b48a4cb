------------------------------- MODULE MCFat --------------------------------
(***************************************************************************)
(* The instance of Elf, and so of Fat, for TLC: clusters of three bytes, a *)
(* file of three clusters that are not in order, a file of one, and two    *)
(* directories.  A behaviour is one of a file's client, to which a sector  *)
(* is read in one step, or of two tasks that read sectors of four bytes,   *)
(* one of them in a system call.                                           *)
(***************************************************************************)
EXTENDS Elf, Disk, TLC

CONSTANTS main, text, sub, lib, gone

MCRoot == main :> [chain |-> <<2, 4, 3>>, directory |-> FALSE]
       @@ text :> [chain |-> <<5>>, directory |-> FALSE]
       @@ sub  :> [chain |-> <<6>>, directory |-> TRUE]
       @@ lib  :> [chain |-> <<7>>, directory |-> TRUE]

\* Files, directories with and without a dot, a missing name, a path of two.
MCPaths == {<<main>>, <<text>>, <<sub>>, <<lib>>, <<gone>>, <<sub, text>>}

Load(virt, memsize, off, filesize) ==
    [load |-> TRUE, virt |-> virt, memsize |-> memsize, off |-> off, filesize |-> filesize]
NoLoad == [Load(0, 0, 0, 0) EXCEPT !.load = FALSE]

\* Tables of up to two segments that begin in the first cluster, in the second
\* and behind the end of the file, with and without zeros behind their bytes.
MCAddresses == 0 .. 7
Shapes == {<<1, 1>>, <<3, 2>>, <<4, 4>>, <<2, 0>>}
Loads == {Load(v, sh[1], off, sh[2]) : v \in {0, 4}, sh \in Shapes, off \in {0, 1, 3, 7}}
            \cup {Load(0, 8, 0, 7), NoLoad}
Apart(s, t) == Covers(s) \cap Covers(t) = {}
Tables == {<<>>} \cup {<<s>> : s \in Loads}
             \cup {t \in Loads \X Loads : Apart(t[1], t[2])}
MCPrograms == [off : {1, 2}, table : Tables]

\* Three bytes of two sectors, a whole sector, and nothing.
MCRequests == {<<1, 3, 3>>, <<2, 0, 4>>, <<0, 0, 0>>}

DiskIdle == /\ ctl = [low |-> 0, high |-> 0, sector |-> 0, left |-> 0, busy |-> FALSE]
            /\ tmp_buffer = [i \in Word |-> JUNK] /\ cpu = NOBODY
            /\ xfer = [t \in Readers |-> Idle_]
FilesInit == \/ ElfInit /\ DiskIdle
             \/ ElfInit /\ step = "caller" /\ file = <<main>> /\ DiskInit
FilesNext == \/ cpu = NOBODY /\ ElfNext /\ UNCHANGED diskVars
             \/ cpu # NOBODY /\ DiskNext /\ UNCHANGED <<vars, loaderVars>>
FilesSpec == FilesInit /\ [][FilesNext]_<<vars, loaderVars, diskVars>>
=============================================================================
