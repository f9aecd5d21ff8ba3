------------------------------- MODULE Flash --------------------------------
(***************************************************************************)
(* Raw flash partitions: mtdutils/mtdutils.c writes an image around bad    *)
(* blocks, with the header last; mtdutils/bml_over_mtd.c writes every bad  *)
(* block's data to the reservoir block Samsung's table maps it to;         *)
(* WriteToPartition() of applypatch.c patches a partition in place.        *)
(* Blocks are erased as a whole and programmed page by page.  Power may be *)
(* lost between any two of these steps.                                    *)
(*                                                                         *)
(* Blocks 0..NB-1 are the partition's, the NR blocks after them the        *)
(* reservoir's.  A page is a number: Zero and Blank stand for 0x00 and     *)
(* 0xff bytes, Spoilt for one that does not read back as written.          *)
(***************************************************************************)
EXTENDS Integers, Sequences, FiniteSets

CONSTANTS
    NB, NR,      \* blocks of the partition and of the reservoir
    P,           \* pages of an erase block
    Images,      \* image files the user may flash
    Tables,      \* mapping tables the reservoir may hold
    MaxBad,      \* bound on the blocks that are bad or worn out
    MaxFaults,   \* bound on the failures of blocks that are not worn out
    MaxTasks     \* bound on the operations the user asks for

Part == 0..(NB - 1)
Block == 0..(NB + NR - 1)

Zero == 0
Blank == -1
Spoilt == -2
NoBlock == 65535            \* 0xffff, no entry

ASSUME GeometryAssumption ==
    /\ NB \in Nat \ {0} /\ NR \in Nat /\ P \in Nat \ {0}
    /\ NB + NR < NoBlock
    /\ Images \subseteq Seq(Int) /\ MaxTasks \in Nat /\ MaxFaults \in Nat

\* A table is in a block of the reservoir and has (source, reservoir)
\* entries, for this partition's blocks and for others.
ASSUME TableAssumption ==
    \A t \in Tables :
        /\ t.at \in NB..(NB + NR - 1)
        /\ t.entries \in Seq(Int \X Int)

VARIABLES
    \* the device
    flash,      \* pages of each block
    bad,        \* blocks marked as bad, MEMGETBADBLOCK
    worn,       \* blocks that no longer hold what is written to them and
                \* read with ECC errors; the others may fail at any attempt
    table,      \* the reservoir's mapping table
    driver,     \* "mtd" or "bml_over_mtd", the layout of this device
    file,       \* the image file on the card
    \* the process
    op,         \* what was asked of it
    pc,
    pass,       \* 1 or 2: everything but the header, then the header
    next,       \* next page of the file
    buf,        \* ctx->buffer[0..stored]
    pos,        \* block the file descriptor is at
    retry,
    page,       \* pages of the block programmed so far
    mapping,    \* pMapping
    skipped,    \* good blocks this operation gave up, or did not read
    result,
    tasks, faults

media == <<bad, worn, table, driver>>
feeding == <<op, pass, next, mapping>>
writing == <<pos, buf, retry, page, skipped>>
counters == <<tasks, faults>>
vars == <<flash, media, file, feeding, pc, writing, result, counters>>

Erased == [i \in 1..P |-> Blank]

TypeOK ==
    /\ flash \in [Block -> [1..P -> Int]]
    /\ bad \subseteq Block /\ worn \subseteq Block
    /\ table \in Tables /\ driver \in {"mtd", "bml_over_mtd"}
    /\ file \in Seq(Int)
    /\ op \in {"none", "restore", "patch", "erase", "backup", "flash", "dump"}
    /\ pc \in {"idle", "feed", "block", "erase", "program", "verify",
               "close", "wipe", "read"}
    /\ pass \in {1, 2}
    /\ next \in Nat \ {0}
    /\ buf \in Seq(Int)
    /\ pos \in Nat /\ retry \in {0, 1} /\ page \in 0..P
    /\ mapping \in [Part -> Int] /\ skipped \subseteq Block
    /\ result \in {"none", "ok", "failed", "crashed"}
    /\ tasks \in 0..MaxTasks /\ faults \in 0..MaxFaults

\* Every old page is different from every page of an image.
Init ==
    /\ flash = [b \in Block |-> [i \in 1..P |-> 100 * (b + 1) + i]]
    /\ bad \in SUBSET Block /\ worn \in SUBSET (Block \ bad)
    /\ Cardinality(bad \cup worn) <= MaxBad
    /\ table \in Tables /\ table.at \notin worn
    /\ driver \in {"mtd", "bml_over_mtd"}
    /\ driver = "mtd" => /\ bad \cup worn \subseteq Part
                         /\ table = CHOOSE t \in Tables : TRUE  \* not used
    /\ file = <<>>
    /\ op = "none" /\ pc = "idle" /\ pass = 1 /\ next = 1 /\ buf = <<>>
    /\ pos = 0 /\ retry = 0 /\ page = 0
    /\ mapping = [b \in Part |-> NoBlock] /\ skipped = {}
    /\ result = "none" /\ tasks = 0 /\ faults = 0

-----------------------------------------------------------------------------
(* What the operations start with                                          *)

Begin(name, label) ==
    /\ op' = name /\ pc' = label
    /\ pass' = 1 /\ next' = 1 /\ buf' = <<>>
    /\ pos' = 0 /\ retry' = 0 /\ page' = 0 /\ skipped' = {}
    /\ result' = "none"

Ask == /\ pc = "idle" /\ tasks < MaxTasks
       /\ tasks' = tasks + 1 /\ UNCHANGED faults

\* Return to the caller.
Return(r) == pc' = "idle" /\ result' = r

\* cmd_mtd_restore_raw_partition() and WriteToPartition(): the image is a
\* file of the user's, or the one an earlier backup made.
StartWrite ==
    /\ Ask /\ driver = "mtd"
    /\ file' \in Images \cup {file}
    /\ IF file' = <<>> THEN /\ op' = "restore" /\ Return("failed")
                            /\ UNCHANGED <<writing, pass, next>>
       ELSE \/ Begin("restore", "feed")
            \/ Begin("patch", "feed")
    /\ UNCHANGED <<flash, media, mapping>>

\* cmd_mtd_erase_raw_partition().
StartErase ==
    /\ Ask /\ driver = "mtd"
    /\ Begin("erase", "wipe")
    /\ UNCHANGED <<flash, media, file, mapping>>

\* cmd_mtd_backup_raw_partition(): O_TRUNC.
StartBackup ==
    /\ Ask /\ driver = "mtd"
    /\ file' = <<>>
    /\ Begin("backup", "read")
    /\ UNCHANGED <<flash, media, mapping>>

\* scan_partition() finds a bad block.
HasBad == Part \cap bad # {}

\* Mutant: the targets are not looked at.
TableFoundAnywhere == table.at \notin bad

\* CreateBlockMapping() finds the table: the last good block of the
\* reservoir that holds one, with every target below it in the reservoir.
TableFound ==
    /\ table.at \notin bad
    /\ \A i \in DOMAIN table.entries :
           table.entries[i][2] >= NB /\ table.entries[i][2] < table.at

\* pMapping: "for duplicate entries, later entries replace former ones".
IsMapping(m) ==
    \A b \in Part :
        LET of == {i \in DOMAIN table.entries : table.entries[i][1] = b}
        IN \/ of = {} /\ m[b] = NoBlock
           \/ \E i \in of : /\ \A j \in of : j <= i
                            /\ m[b] = table.entries[i][2]

\* The consistency and validity check.
Consistent(m) ==
    \A b \in Part : IF b \notin bad THEN m[b] = NoBlock
                    ELSE m[b] # NoBlock /\ m[b] \notin bad

Maps == [Part -> (NB..(NB + NR - 1)) \cup {NoBlock}]

\* main() of bml_over_mtd: a partition without bad blocks needs no table.
BlockMapping(m) ==
    LET found == TableFound /\ \E n \in Maps : IsMapping(n) /\ Consistent(n)
    IN IF found THEN IsMapping(m) /\ Consistent(m)
       ELSE ~HasBad /\ m = [b \in Part |-> NoBlock]

\* bml_over_mtd flash.
StartFlash ==
    /\ Ask /\ driver = "bml_over_mtd"
    /\ file' \in Images \cup {file}
    /\ \/ /\ Len(file') <= NB * P
          /\ \E m \in Maps : BlockMapping(m) /\ mapping' = m
          /\ Begin("flash", "feed")
       \/ /\ Len(file') > NB * P \/ \A m \in Maps : ~BlockMapping(m)
          /\ op' = "flash" /\ Return("failed")
          /\ UNCHANGED <<writing, pass, next, mapping>>
    /\ UNCHANGED <<flash, media>>

\* bml_over_mtd dump.
StartDump ==
    /\ Ask /\ driver = "bml_over_mtd"
    /\ \/ /\ \E m \in Maps : BlockMapping(m) /\ mapping' = m
          /\ file' = <<>>
          /\ Begin("dump", "read")
       \/ /\ \A m \in Maps : ~BlockMapping(m)
          /\ op' = "dump" /\ Return("failed")
          /\ UNCHANGED <<writing, pass, next, mapping, file>>
    /\ UNCHANGED <<flash, media>>

\* The block a logical block is in.
Dest(b) == IF mapping[b] = NoBlock THEN b ELSE mapping[b]

-----------------------------------------------------------------------------
(* Feeding the image to the writer                                         *)

\* Mutant: the header is written in the first pass.
PageOfHeaderToo(n) == file[n]

\* The first pass has zeros in the place of the header.
PageOf(n) == IF op = "restore" /\ pass = 1 /\ n = 1 THEN Zero ELSE file[n]

\* The second pass goes to the end of the first block only.
LastPage == IF pass = 2 THEN P ELSE Len(file)

\* mtd_write_data() of one page: a block that is complete is written.
WriteData ==
    /\ pc = "feed" /\ op \in {"restore", "patch"}
    /\ next <= LastPage /\ next <= Len(file)
    /\ buf' = Append(buf, PageOf(next))
    /\ next' = next + 1
    /\ pc' = IF Len(buf') = P THEN "block" ELSE "feed"
    /\ UNCHANGED <<flash, media, file, op, pass, mapping, pos, retry, page,
                   skipped, result, counters>>

\* "error reading": the image is shorter than the first block.
ReadShort ==
    /\ pc = "feed" /\ op = "restore"
    /\ next <= LastPage /\ next > Len(file)
    /\ Return("failed")
    /\ UNCHANGED <<flash, media, file, feeding, writing, counters>>

\* mtd_write_close() and mtd_erase_blocks(): pending data is padded with
\* zeros and written, then the first pass is over, the restore is, or the
\* rest of the partition is erased.
WriteClose ==
    /\ pc = "feed" /\ op \in {"restore", "patch"} /\ next > LastPage
    /\ \/ /\ buf # <<>>
          /\ buf' = buf \o [i \in 1..(P - Len(buf)) |-> Zero]
          /\ pc' = "block" /\ UNCHANGED result
       \/ /\ buf = <<>> /\ UNCHANGED buf
          /\ \/ op = "patch" /\ pc' = "wipe" /\ UNCHANGED result
             \/ op = "restore" /\ pass = 1 /\ pc' = "close" /\ UNCHANGED result
             \/ op = "restore" /\ pass = 2 /\ Return("ok")
    /\ UNCHANGED <<flash, media, file, feeding, pos, retry, page, skipped, counters>>

\* "Now come back and write the header last."
Reopen ==
    /\ pc = "close"
    /\ pass' = 2 /\ next' = 1 /\ pos' = 0 /\ buf' = <<>>
    /\ pc' = "feed"
    /\ UNCHANGED <<flash, media, file, op, mapping, retry, page, skipped,
                   result, counters>>

\* flash_bml_partition(): one block of the file, padded with 0xff, goes to
\* the partition or to the reservoir.
FlashBlock ==
    /\ pc = "feed" /\ op = "flash"
    /\ \/ /\ next <= Len(file)
          /\ buf' = [i \in 1..P |-> IF next + i - 1 <= Len(file)
                                    THEN file[next + i - 1] ELSE Blank]
          /\ pos' = Dest((next - 1) \div P)
          /\ next' = next + P
          /\ pc' = "block" /\ UNCHANGED result
       \/ /\ next > Len(file)
          /\ Return("ok")
          /\ UNCHANGED <<buf, pos, next>>
    /\ UNCHANGED <<flash, media, file, op, pass, mapping, retry, page, skipped,
                   counters>>

-----------------------------------------------------------------------------
(* write_block() and bml_over_mtd_write_block()                            *)

\* Mutant: MEMGETBADBLOCK is not asked.
WriteBlockBlindly ==
    /\ pc = "block"
    /\ IF pos < NB + NR THEN pc' = "erase" /\ retry' = 0 /\ UNCHANGED result
                        ELSE Return("failed") /\ UNCHANGED retry
    /\ UNCHANGED <<flash, media, file, feeding, pos, buf, page, skipped, counters>>

\* Any call for any block may fail at any attempt; a block that is bad or
\* worn out always fails.
MayFail(b) == b \in bad \cup worn \/ faults < MaxFaults
Fault(b) == /\ MayFail(b)
            /\ faults' = IF b \in bad \cup worn THEN faults ELSE faults + 1

\* A writer or reader leaves the block out.
Skip == pos' = pos + 1 /\ skipped' = skipped \cup ({pos} \ bad)

\* mtdutils goes on to the next block when MEMGETBADBLOCK says that this one
\* is bad, or fails, and ends with ENOSPC; bml_over_mtd takes either for a
\* mapping failure.
WriteBlock ==
    /\ pc = "block"
    /\ LET full == driver = "mtd" /\ pos >= NB
       IN \/ /\ ~full /\ pos \notin bad
             /\ retry' = 0 /\ pc' = "erase"
             /\ UNCHANGED <<pos, skipped, result, faults>>
          \/ /\ ~full /\ driver = "mtd"
             /\ Fault(pos) /\ Skip
             /\ UNCHANGED <<pc, retry, result>>
          \/ /\ IF full THEN UNCHANGED faults
                        ELSE driver = "bml_over_mtd" /\ Fault(pos)
             /\ Return("failed")
             /\ UNCHANGED <<pos, skipped, retry>>
    /\ UNCHANGED <<flash, media, file, feeding, buf, page, tasks>>

\* Mutant: the attempts are not counted.
RetryForever ==
    pc' = "erase" /\ UNCHANGED <<flash, pos, skipped, result, retry, faults>>

\* The attempt has failed: try again, or give up on the block.  mtdutils
\* erases it, if that works, and does not mark it as bad.
Retry ==
    /\ Fault(pos)
    /\ \/ /\ retry = 0
          /\ retry' = 1 /\ pc' = "erase"
          /\ UNCHANGED <<flash, pos, skipped, result>>
       \/ /\ retry = 1 /\ driver = "bml_over_mtd"
          /\ Return("failed")
          /\ UNCHANGED <<flash, pos, skipped, retry>>
       \/ /\ retry = 1 /\ driver = "mtd"
          /\ flash' \in {flash, [flash EXCEPT ![pos] = Erased]}
          /\ Skip /\ pc' = "block"
          /\ UNCHANGED <<retry, result>>

MemErase ==
    /\ pc = "erase"
    /\ \/ /\ flash' = [flash EXCEPT ![pos] = Erased]
          /\ page' = 0 /\ pc' = "program"
          /\ UNCHANGED <<pos, skipped, retry, result, faults>>
       \/ Retry /\ UNCHANGED page
    /\ UNCHANGED <<media, file, feeding, buf, tasks>>

\* write() of the block, page by page; a page that fails ends it.
Program ==
    /\ pc = "program"
    /\ \/ /\ page < P /\ pos \notin worn
          /\ flash' = [flash EXCEPT ![pos][page + 1] = buf[page + 1]]
          /\ page' = page + 1 /\ UNCHANGED pc
       \/ /\ page < P /\ MayFail(pos)
          /\ flash' = [flash EXCEPT ![pos][page + 1] = Spoilt]
          /\ pc' = "verify" /\ UNCHANGED page
       \/ /\ page = P
          /\ pc' = "verify" /\ UNCHANGED <<flash, page>>
    /\ UNCHANGED <<media, file, feeding, pos, buf, retry, skipped, result, counters>>

\* Mutant: what was written is not read back.
VerifyNot ==
    /\ pc = "verify"
    /\ buf' = <<>> /\ pos' = pos + 1 /\ pc' = "feed"
    /\ UNCHANGED <<flash, media, file, feeding, retry, page, skipped, result,
                   counters>>

\* The block is read back, which may fail, and compared.
Verify ==
    /\ pc = "verify"
    /\ \/ /\ flash[pos] = buf /\ pos \notin worn
          /\ buf' = <<>> /\ pos' = pos + 1 /\ pc' = "feed"
          /\ UNCHANGED <<flash, retry, skipped, result, faults>>
       \/ Retry /\ UNCHANGED buf
    /\ UNCHANGED <<media, file, feeding, page, tasks>>

-----------------------------------------------------------------------------
(* Erasing and reading                                                     *)

\* mtd_erase_blocks(-1): a failure is only printed.
EraseBlocks ==
    /\ pc = "wipe"
    /\ \/ /\ pos < NB
          /\ flash' \in {flash} \cup (IF pos \in bad THEN {}
                                     ELSE {[flash EXCEPT ![pos] = Erased]})
          /\ pos' = pos + 1 /\ UNCHANGED <<pc, result>>
       \/ /\ pos >= NB
          /\ Return("ok") /\ UNCHANGED <<flash, pos>>
    /\ UNCHANGED <<media, file, feeding, buf, retry, page, skipped, counters>>

\* read_block() skips bad blocks and those with ECC errors, and sees all
\* others, those write_block() gave up included.
Readable(b) == b \notin bad \cup worn

\* cmd_mtd_backup_raw_partition(): the end of the partition ends the loop.
BackupBlock ==
    /\ pc = "read" /\ op = "backup"
    /\ \/ /\ pos < NB /\ Readable(pos)
          /\ file' = file \o flash[pos]
          /\ pos' = pos + 1 /\ UNCHANGED <<pc, skipped, result, faults>>
       \/ /\ pos < NB                         \* bad, ECC or read error
          /\ Fault(pos) /\ Skip
          /\ UNCHANGED <<pc, file, result>>
       \/ /\ pos < NB                         \* "ECCGETSTATS error" ends it too
          /\ skipped' = skipped \cup ((pos..(NB - 1)) \ bad)
          /\ Return("ok") /\ UNCHANGED <<pos, file, faults>>
       \/ /\ pos >= NB
          /\ Return("ok") /\ UNCHANGED <<pos, file, skipped, faults>>
       \/ /\ pos < NB                         \* "error writing", unlink()
          /\ file' = <<>>
          /\ Return("failed") /\ UNCHANGED <<pos, skipped, faults>>
    /\ UNCHANGED <<flash, media, feeding, buf, retry, page, tasks>>

\* dump_bml_partition(): a read error ends it, and the file stays.
DumpBlock ==
    /\ pc = "read" /\ op = "dump"
    /\ \/ /\ pos < NB /\ Dest(pos) \notin worn
          /\ file' = file \o flash[Dest(pos)]
          /\ pos' = pos + 1 /\ UNCHANGED <<pc, result>>
       \/ /\ pos >= NB
          /\ Return("ok") /\ UNCHANGED <<pos, file>>
       \/ /\ pos < NB
          /\ Return("failed") /\ UNCHANGED <<pos, file>>
    /\ UNCHANGED <<flash, media, feeding, buf, retry, page, skipped, counters>>

\* Power is lost.
Crash ==
    /\ pc # "idle"
    /\ Return("crashed")
    /\ UNCHANGED <<flash, media, file, feeding, writing, counters>>

User == StartWrite \/ StartErase \/ StartBackup \/ StartFlash \/ StartDump

Work == \/ WriteData \/ ReadShort \/ WriteClose \/ Reopen \/ FlashBlock
        \/ WriteBlock \/ MemErase \/ Program \/ Verify
        \/ EraseBlocks \/ BackupBlock \/ DumpBlock

Next == User \/ Work \/ Crash

Spec == Init /\ [][Next]_vars

\* The process runs until it returns.
FairSpec == Spec /\ WF_vars(Work)

-----------------------------------------------------------------------------
(* Properties                                                              *)

\* The n-th readable block of the partition, and the pages a reader sees.
Nth(n) == CHOOSE b \in Part : /\ Readable(b)
                              /\ Cardinality({c \in 0..b : Readable(c)}) = n
Visible == [k \in 1..(P * Cardinality({b \in Part : Readable(b)})) |->
               flash[Nth(((k - 1) \div P) + 1)][((k - 1) % P) + 1]]

\* The same through the mapping table.
Logical == [k \in 1..(P * NB) |->
               flash[Dest((k - 1) \div P)][((k - 1) % P) + 1]]

StartsWith(pages, image) ==
    Len(pages) >= Len(image) /\ \A k \in 1..Len(image) : pages[k] = image[k]

\* No block was left out that a reader sees.
Clean == skipped \subseteq worn

\* No two blocks are mapped to the same block of the reservoir.
Distinct == \A b, c \in Part : Dest(b) = Dest(c) => b = c

\* An operation that reports success has done what it says: a reader that
\* skips bad blocks, or follows the table, sees the whole image after a
\* restore, a patch and a flash, and a backup or a dump is what it sees,
\* whatever blocks failed and were written again or skipped on the way.
\* Excepted is what mtdutils.c leaves open, a restore, patch or backup that
\* has left out a block which reads without errors, and a table that maps two
\* blocks to one.
ReadBack ==
    result = "ok" =>
        /\ op \in {"restore", "patch"} /\ Clean => StartsWith(Visible, file)
        /\ op = "backup" /\ Clean => file = Visible
        /\ op = "flash" /\ Distinct => StartsWith(Logical, file)
        /\ op = "dump" => file = Logical

\* "Write the header last": from the moment a restore has written its first
\* block, the partition shows the header of the image only when every block
\* after the first one is complete, also after a power loss or an error, as
\* long as no block is given up that a reader sees.  (A page of zeros is no
\* header.)
HeaderLast ==
    op = "restore" /\ Clean /\ (pass = 2 \/ next > P + 1) /\ file # <<>>
    /\ file[1] # Zero /\ Visible # <<>> /\ Visible[1] = file[1]
        => \A k \in (P + 1)..Len(file) : Visible[k] = file[k]

\* No step erases or programs a block that is marked bad, a block of the
\* reservoir that is not in the partition's mapping, or the mapping table.
Untouchable ==
    bad \cup {b \in Block \ Part :
                 \/ driver = "mtd" \/ b >= table.at
                 \/ \A c \in Part : mapping[c] # b}
TouchesNone == \A b \in Untouchable : flash'[b] = flash[b]
GoodBlocksOnly == [][TouchesNone]_vars

\* Every operation ends: the retries, the skipping and both passes are
\* finite.
Ends == pc # "idle" ~> pc = "idle"

-----------------------------------------------------------------------------
(* The inductive invariant: where the writer stands                        *)

\* Which operations a device's layout allows.
OpOfDriver ==
    pc # "idle" => IF driver = "mtd" THEN op \in {"restore", "patch", "erase",
                                                 "backup"}
                   ELSE /\ op \in {"flash", "dump"}
                        /\ pc \notin {"close", "wipe"}

\* A block is written when it is complete, and not before.
BufferFull ==
    /\ pc \in {"block", "erase", "program", "verify"} => Len(buf) = P
    /\ pc = "feed" /\ op \in {"restore", "patch"} => Len(buf) < P

\* The mapping in use leads to the reservoir below the table, and the image
\* is not larger than the partition.
MappingSafe ==
    pc # "idle" /\ driver = "bml_over_mtd" =>
        /\ \A b \in Part :
               mapping[b] = NoBlock \/ (mapping[b] >= NB /\ mapping[b] < table.at)
        /\ op = "flash" => Len(file) <= NB * P

\* Where the writer stands.
InBlock == pc \in {"block", "erase", "program", "verify"}
PositionSafe ==
    /\ InBlock /\ driver = "bml_over_mtd" =>
           /\ pos < table.at
           /\ pos \in Part \/ \E c \in Part : mapping[c] = pos
    /\ pc \in {"erase", "program", "verify"} =>
           /\ pos \notin bad
           /\ pos < IF driver = "mtd" THEN NB ELSE table.at

Shape == /\ TypeOK /\ OpOfDriver /\ BufferFull /\ MappingSafe /\ PositionSafe

-----------------------------------------------------------------------------
(* What is where: the inductive invariant behind ReadBack and HeaderLast   *)

\* The number of blocks before b that a reader sees; a reader or writer at
\* block p has passed one of each number.
Count(b) == Cardinality({c \in 0..(b - 1) : Readable(c)})
Numbered(p) ==
    \A n \in 0..(Count(p) - 1) : \E b \in 0..(p - 1) : Readable(b) /\ Count(b) = n

\* Page n of what is written, the padding included.
ImagePage(n) == IF n <= Len(file) THEN PageOf(n) ELSE Zero

\* The file fits, and the blocks with at least n others before them show
\* their part of it.
Fits == \A n \in 0..Len(file) :
            P * n < Len(file) => \E b \in Part : Readable(b) /\ Count(b) = n
Shows(b) ==
    \A i \in 1..P : P * Count(b) + i <= Len(file) => flash[b][i] = file[P * Count(b) + i]
ShownFrom(n) == Fits /\ \A b \in Part : Readable(b) /\ Count(b) >= n => Shows(b)

\* Where mtd_write_data() is in the image: behind it are the pages of the
\* blocks it has passed and of its buffer, or the end of the image.
Active == pc \in {"feed", "close"} \/ InBlock
Placed ==
    /\ pos <= NB /\ Numbered(pos) /\ (op = "patch" \/ pc = "close" => pass = 1)
    /\ \A b \in 0..(pos - 1) :
           Readable(b) => \A i \in 1..P : flash[b][i] = ImagePage(P * Count(b) + i)
Pending ==
    /\ \A i \in 1..Len(buf) : buf[i] = ImagePage(P * Count(pos) + i)
    /\ \/ next = P * Count(pos) + Len(buf) + 1
       \/ /\ pass = 1 /\ next = Len(file) + 1
          /\ next <= P * Count(pos) + Len(buf) + 1
          /\ InBlock \/ buf = <<>>
    /\ pass = 1 => next <= Len(file) + 1
    /\ pass = 2 => /\ Count(pos) = 0 \/ (Count(pos) = 1 /\ buf = <<>>)
                   /\ InBlock => P <= Len(file)
Writing ==
    op \in {"restore", "patch"} /\ Active /\ Clean =>
        /\ Placed
        /\ IF pc = "close" THEN op = "restore" /\ Len(file) <= P * Count(pos)
           ELSE Pending

\* mtd_erase_blocks() begins behind the image.
Wiping ==
    pc = "wipe" =>
        /\ op \in {"patch", "erase"}
        /\ op = "patch" /\ Clean => pos <= NB /\ Len(file) <= P * Count(pos) /\ ShownFrom(0)

\* The header is on the partition in the second pass only.
NoHeader ==
    op = "restore" /\ Clean /\ file # <<>> /\ pass = 1 /\ next > P + 1 =>
        \E b \in Part : Readable(b) /\ Count(b) = 0 /\ flash[b][1] = Zero
Headers ==
    /\ NoHeader
    /\ op = "restore" /\ Clean /\ file # <<>> /\ pass = 2 => ShownFrom(1)

\* A backup, or a dump, of the blocks before p.
Copied(p) ==
    /\ Numbered(p) /\ Len(file) = P * Count(p)
    /\ \A b \in 0..(p - 1) :
           Readable(b) => \A i \in 1..P : file[P * Count(b) + i] = flash[b][i]
Dumped(p) ==
    /\ Len(file) = P * p
    /\ \A b \in 0..(p - 1) : \A i \in 1..P : file[P * b + i] = flash[Dest(b)][i]
Reading ==
    pc = "read" => /\ pos <= NB /\ op \in {"backup", "dump"}
                   /\ op = "backup" /\ Clean => Copied(pos)
                   /\ op = "dump" => Dumped(pos)

\* bml_over_mtd has flashed the blocks before b.
Flashed(p) ==
    \A b \in 0..(p - 1) :
        \A i \in 1..P : P * b + i <= Len(file) => flash[Dest(b)][i] = file[P * b + i]
Flashing ==
    op = "flash" /\ Distinct =>
        /\ pc = "feed" => \E n \in 0..NB : next = P * n + 1 /\ Flashed(n)
        /\ InBlock => \E n \in Part :
               /\ next = P * n + P + 1 /\ Flashed(n) /\ pos = Dest(n)
               /\ \A i \in 1..P : P * n + i <= Len(file) => buf[i] = file[P * n + i]

\* What success means, in these terms.
Success ==
    result = "ok" =>
        /\ pc = "idle"
        /\ op \in {"restore", "patch"} /\ Clean => ShownFrom(0)
        /\ op = "backup" /\ Clean => Copied(NB)
        /\ op = "flash" /\ Distinct => Flashed(NB) /\ Len(file) <= NB * P
        /\ op = "dump" => Dumped(NB)

DataInv == /\ Writing /\ Wiping /\ Headers
           /\ Reading /\ Flashing /\ Success

IInv == Shape /\ DataInv
=============================================================================
