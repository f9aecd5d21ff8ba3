----------------------------- MODULE FlashProofs ----------------------------
(***************************************************************************)
(* Proofs about Flash, for every geometry, every set of bad and worn       *)
(* blocks and every image: no operation leaves its partition, success      *)
(* means that a reader finds every page, and the header of an image        *)
(* appears last.                                                           *)
(***************************************************************************)
EXTENDS Flash, SequenceTheorems, FiniteSetTheorems, TLAPS

\* The block a byte offset inside an image that fits falls into.
LEMMA DivLemma ==
    ASSUME NEW a \in Nat, NEW p \in Nat \ {0}, NEW n \in Nat, a < n * p
    PROVE  a \div p \in 0..(n - 1)
<1> DEFINE q == a \div p
<1>1. q \in Int /\ p * q <= a /\ a < p * q + p
  OBVIOUS
<1>2. q >= 0
  <2>1. CASE q < 0
    <3>1. q + 1 <= 0
      BY <1>1, <2>1
    <3>2. p * (q + 1) <= 0
      BY <1>1, <3>1
    <3> QED
      BY <1>1, <3>2
  <2> QED
    BY <1>1, <2>1
<1>3. q < n
  <2>1. CASE q >= n
    <3>1. p * q >= p * n
      BY <1>1, <2>1
    <3> QED
      BY <1>1, <3>1
  <2> QED
    BY <1>1, <2>1
<1> QED
  BY <1>1, <1>2, <1>3

\* A function on 1..n is a sequence of length n.
LEMMA BlockSeq ==
    ASSUME NEW n \in Nat, NEW f \in [1..n -> Int]
    PROVE  f \in Seq(Int) /\ Len(f) = n
<1>1. f \in Seq(Int)
  BY SeqDef
<1> QED
  BY <1>1, LenProperties

\* Padding makes a block complete.
LEMMA PadLemma ==
    ASSUME NEW s \in Seq(Int), Len(s) < P
    PROVE  /\ s \o [i \in 1..(P - Len(s)) |-> Zero] \in Seq(Int)
           /\ Len(s \o [i \in 1..(P - Len(s)) |-> Zero]) = P
<1> DEFINE n == P - Len(s)
           z == [i \in 1..n |-> Zero]
<1>1. P \in Nat /\ Len(s) \in Nat /\ n \in Nat
  BY GeometryAssumption, LenProperties
<1>2. z \in [1..n -> Int]
  BY DEF Zero
<1> HIDE DEF z, n
<1>3. z \in Seq(Int) /\ Len(z) = n
  BY <1>1, <1>2, BlockSeq
<1>4. s \o z \in Seq(Int) /\ Len(s \o z) = Len(s) + n
  BY <1>3, ConcatProperties
<1> QED
  BY <1>1, <1>4 DEF z, n

\* Initially nothing is being written.
LEMMA InitShape == Init => Shape
<1> SUFFICES ASSUME Init PROVE Shape
  OBVIOUS
<1> USE GeometryAssumption, TableAssumption DEF Init
<1>1. TypeOK
  <2>1. flash \in [Block -> [1..P -> Int]] /\ mapping \in [Part -> Int]
    BY DEF Block, Part, NoBlock
  <2>2. bad \subseteq Block /\ worn \subseteq Block /\ file \in Seq(Int) /\ buf \in Seq(Int)
    OBVIOUS
  <2>3. /\ page \in 0..P /\ tasks \in 0..MaxTasks /\ faults \in 0..MaxFaults
        /\ skipped \subseteq Block
    OBVIOUS
  <2> QED
    BY <2>1, <2>2, <2>3 DEF TypeOK
<1> QED
  BY <1>1 DEF Shape, OpOfDriver, BufferFull, MappingSafe, PositionSafe, InBlock

\* What the writer leaves alone when it gives up an attempt.
LEMMA RetryLemma ==
    ASSUME Shape, Retry, pc \in {"erase", "verify"}
    PROVE  /\ flash' \in [Block -> [1..P -> Int]]
           /\ pos' \in Nat /\ retry' \in {0, 1}
           /\ result' \in {"none", "ok", "failed", "crashed"}
           /\ \/ pc' = "erase" /\ pos' = pos
              \/ pc' = "idle"
              \/ pc' = "block" /\ driver = "mtd" /\ Skip
           /\ \A b \in Block : b # pos => flash'[b] = flash[b]
<1> USE DEF Shape, TypeOK
<1>1. Erased \in [1..P -> Int]
  BY DEF Erased, Blank
<1>2. pos \in Block
  BY GeometryAssumption, TableAssumption DEF PositionSafe, Block
<1>3. flash' \in {flash, [flash EXCEPT ![pos] = Erased]}
  BY DEF Retry
<1>4. /\ flash' \in [Block -> [1..P -> Int]]
      /\ \A b \in Block : b # pos => flash'[b] = flash[b]
  BY <1>1, <1>2, <1>3
<1>5. /\ pos' \in Nat /\ retry' \in {0, 1}
      /\ result' \in {"none", "ok", "failed", "crashed"}
      /\ \/ pc' = "erase" /\ pos' = pos
         \/ pc' = "idle"
         \/ pc' = "block" /\ driver = "mtd" /\ Skip
  BY DEF Retry, Return, Skip
<1> QED
  BY <1>4, <1>5

\* The types after an operation has begun, or has failed at once.
LEMMA BeginTypes ==
    ASSUME TypeOK, NEW name, NEW label,
           \/ Begin(name, label)
           \/ op' = name /\ Return("failed") /\ UNCHANGED <<writing, pass, next>>
    PROVE  /\ op' = name /\ pc' \in {"idle", label}
           /\ pass' \in {1, 2} /\ next' \in Nat \ {0} /\ buf' \in Seq(Int)
           /\ pos' \in Nat /\ retry' \in {0, 1} /\ page' \in 0..P
           /\ result' \in {"none", "failed"}
           /\ pc' # "idle" => buf' = <<>>
<1>1. CASE Begin(name, label)
  BY <1>1, GeometryAssumption DEF Begin
<1>2. CASE op' = name /\ Return("failed") /\ UNCHANGED <<writing, pass, next>>
  <2>1. /\ pos' = pos /\ buf' = buf /\ retry' = retry /\ page' = page
        /\ pass' = pass /\ next' = next
    BY <1>2 DEF writing
  <2> QED
    BY <1>2, <2>1 DEF Return, TypeOK
<1> QED
  BY <1>1, <1>2

\* A mapping that passes leads into the reservoir, below the table.
LEMMA MapLemma ==
    ASSUME TypeOK, NEW m \in Maps, BlockMapping(m)
    PROVE  /\ m \in [Part -> Int]
           /\ \A b \in Part : m[b] = NoBlock \/ (m[b] >= NB /\ m[b] < table.at)
<1>1. m \in [Part -> Int]
  BY GeometryAssumption DEF Maps, NoBlock
<1>2. CASE TableFound /\ IsMapping(m)
  BY <1>1, <1>2 DEF TableFound, IsMapping
<1>3. CASE m = [b \in Part |-> NoBlock]
  BY <1>1, <1>3
<1> QED
  BY <1>1, <1>2, <1>3 DEF BlockMapping

\* The bounds on tasks and faults are kept, and only blocks are left out.
LEMMA CounterTypes ==
    ASSUME Shape, [Next]_vars
    PROVE  /\ tasks' \in 0..MaxTasks /\ faults' \in 0..MaxFaults
           /\ skipped' \subseteq Block
<1> USE GeometryAssumption, TableAssumption
<1>t. /\ tasks \in 0..MaxTasks /\ faults \in 0..MaxFaults /\ skipped \subseteq Block
      /\ MaxTasks \in Nat /\ MaxFaults \in Nat /\ NB \in Nat /\ NR \in Nat
      /\ pos \in Nat
  BY DEF Shape, TypeOK
<1>f. Fault(pos) => faults' \in 0..MaxFaults
  BY <1>t DEF Fault, MayFail
<1>s. ASSUME pos < NB + NR, Skip PROVE skipped' \subseteq Block
  <2>1. pos \in Block
    BY <1>s, <1>t DEF Block
  <2> QED
    BY <1>s, <1>t, <2>1 DEF Skip
<1>1. CASE User
  <2>1. /\ tasks < MaxTasks /\ tasks' = tasks + 1 /\ faults' = faults
        /\ skipped' = {} \/ skipped' = skipped
    BY <1>1 DEF User, StartWrite, StartErase, StartBackup, StartFlash, StartDump,
                Ask, Begin, writing
  <2> QED
    BY <1>t, <2>1
<1>2. CASE WriteBlock
  <2>1. tasks' = tasks /\ (faults' = faults \/ Fault(pos))
    BY <1>2 DEF WriteBlock
  <2>2. skipped' = skipped \/ (Skip /\ driver = "mtd" /\ ~(pos >= NB))
    BY <1>2 DEF WriteBlock
  <2>3. skipped' \subseteq Block
    BY <1>s, <1>t, <2>2
  <2> QED
    BY <1>f, <1>t, <2>1, <2>3
<1>3. CASE MemErase \/ Verify
  <2>1. tasks' = tasks /\ (faults' = faults \/ Fault(pos))
    BY <1>3 DEF MemErase, Verify, Retry
  <2>2. skipped' = skipped \/ Skip
    BY <1>3 DEF MemErase, Verify, Retry
  <2>3. pos < NB + NR
    BY <1>3, <1>t DEF MemErase, Verify, Shape, PositionSafe, TypeOK
  <2>4. skipped' \subseteq Block
    BY <1>s, <1>t, <2>2, <2>3
  <2> QED
    BY <1>f, <1>t, <2>1, <2>4
<1>4. CASE BackupBlock
  <2>1. tasks' = tasks /\ (faults' = faults \/ Fault(pos))
    BY <1>4 DEF BackupBlock
  <2>2. \/ skipped' = skipped \/ (Skip /\ pos < NB)
        \/ skipped' = skipped \cup ((pos..(NB - 1)) \ bad)
    BY <1>4 DEF BackupBlock
  <2>3. (pos..(NB - 1)) \ bad \subseteq Block
    BY <1>t DEF Block
  <2>4. skipped' \subseteq Block
    BY <1>s, <1>t, <2>2, <2>3
  <2> QED
    BY <1>f, <1>t, <2>1, <2>4
<1>5. CASE UNCHANGED <<skipped, tasks, faults>>
  BY <1>5, <1>t
<1> QED
  BY <1>1, <1>2, <1>3, <1>4, <1>5
     DEF Next, Work, vars, writing, counters, Crash, WriteData, ReadShort,
         WriteClose, Reopen, FlashBlock, Program, EraseBlocks, DumpBlock

\* Every step preserves the invariant.
LEMMA NextShape == Shape /\ [Next]_vars => Shape'
<1> SUFFICES ASSUME Shape, [Next]_vars PROVE Shape'
  OBVIOUS
<1> USE GeometryAssumption, TableAssumption DEF Shape
<1>g. /\ NB \in Nat /\ NR \in Nat /\ P \in Nat /\ P > 0
      /\ table.at \in NB..(NB + NR - 1)
  BY DEF TypeOK
<1>c. /\ tasks' \in 0..MaxTasks /\ faults' \in 0..MaxFaults
      /\ skipped' \subseteq Block
  BY CounterTypes
<1> USE <1>c
<1>1. CASE StartWrite
  <2>1. PICK name \in {"restore", "patch"} :
           \/ Begin(name, "feed")
           \/ /\ op' = name /\ Return("failed")
              /\ UNCHANGED <<writing, pass, next>>
    BY <1>1 DEF StartWrite
  <2>2. /\ flash' = flash /\ bad' = bad /\ worn' = worn /\ table' = table
        /\ driver' = driver /\ driver = "mtd"
    BY <1>1 DEF StartWrite, Ask, media, TypeOK
  <2>3. file' \in Seq(Int)
    BY <1>1 DEF StartWrite, TypeOK
  <2>4. mapping' \in [Part -> Int]
    BY <1>1 DEF StartWrite, TypeOK
  <2>5. /\ op' = name /\ pc' \in {"idle", "feed"}
        /\ pass' \in {1, 2} /\ next' \in Nat \ {0} /\ buf' \in Seq(Int)
        /\ pos' \in Nat /\ retry' \in {0, 1} /\ page' \in 0..P
        /\ result' \in {"none", "failed"}
        /\ pc' # "idle" => buf' = <<>>
    BY <2>1, BeginTypes
  <2>6. TypeOK'
    BY <2>1, <2>2, <2>3, <2>4, <2>5 DEF TypeOK
  <2>7. MappingSafe'
    BY <2>2 DEF MappingSafe
  <2> QED
    BY <2>1, <2>2, <2>5, <2>6, <2>7, <1>g
       DEF OpOfDriver, BufferFull, PositionSafe, InBlock
<1>2. CASE StartErase
  <2> USE <1>2 DEF StartErase, Ask, Begin, Return, writing, media
  <2>1. TypeOK'
    BY DEF TypeOK
  <2> QED
    BY <2>1, <1>g DEF OpOfDriver, BufferFull, MappingSafe, PositionSafe, InBlock
<1>3. CASE StartBackup
  <2> USE <1>3 DEF StartBackup, Ask, Begin, Return, writing, media
  <2>1. TypeOK'
    BY DEF TypeOK
  <2> QED
    BY <2>1, <1>g DEF OpOfDriver, BufferFull, MappingSafe, PositionSafe, InBlock
<1>4. CASE StartFlash
  <2>1. PICK name \in {"flash"} :
           \/ Begin(name, "feed")
           \/ /\ op' = name /\ Return("failed")
              /\ UNCHANGED <<writing, pass, next>>
    BY <1>4 DEF StartFlash
  <2>2. /\ flash' = flash /\ bad' = bad /\ worn' = worn /\ table' = table
        /\ driver' = driver /\ driver = "bml_over_mtd"
    BY <1>4 DEF StartFlash, Ask, media, TypeOK
  <2>3. file' \in Seq(Int)
    BY <1>4 DEF StartFlash, TypeOK
  <2>4. mapping' \in [Part -> Int]
    BY <1>4, MapLemma DEF StartFlash, TypeOK
  <2>5. /\ op' = name /\ pc' \in {"idle", "feed"}
        /\ pass' \in {1, 2} /\ next' \in Nat \ {0} /\ buf' \in Seq(Int)
        /\ pos' \in Nat /\ retry' \in {0, 1} /\ page' \in 0..P
        /\ result' \in {"none", "failed"}
        /\ pc' # "idle" => buf' = <<>>
    BY <2>1, BeginTypes
  <2>6. TypeOK'
    BY <2>1, <2>2, <2>3, <2>4, <2>5 DEF TypeOK
  <2>7. MappingSafe'
    <3> SUFFICES ASSUME pc' # "idle" PROVE MappingSafe'
      BY DEF MappingSafe
    <3>1. PICK m \in Maps : BlockMapping(m) /\ mapping' = m
      BY <1>4 DEF StartFlash, Return
    <3>2. op' = "flash" => Len(file') <= NB * P
      BY <1>4 DEF StartFlash, Return, Begin
    <3>3. \A b \in Part : m[b] = NoBlock \/ (m[b] >= NB /\ m[b] < table.at)
      BY <3>1, MapLemma
    <3>4. table'.at = table.at /\ \A b \in Part : mapping'[b] = m[b]
      BY <3>1, <2>2, Zenon
    <3>5. \A b \in Part : mapping'[b] = NoBlock
                          \/ (mapping'[b] >= NB /\ mapping'[b] < table'.at)
      BY <3>3, <3>4
    <3> QED
      BY <3>2, <3>5 DEF MappingSafe
  <2> QED
    BY <2>1, <2>2, <2>5, <2>6, <2>7, <1>g
       DEF OpOfDriver, BufferFull, PositionSafe, InBlock
<1>5. CASE StartDump
  <2>1. PICK name \in {"dump"} :
           \/ Begin(name, "read")
           \/ /\ op' = name /\ Return("failed")
              /\ UNCHANGED <<writing, pass, next>>
    BY <1>5 DEF StartDump
  <2>2. /\ flash' = flash /\ bad' = bad /\ worn' = worn /\ table' = table
        /\ driver' = driver /\ driver = "bml_over_mtd"
    BY <1>5 DEF StartDump, Ask, media, TypeOK
  <2>3. file' \in Seq(Int)
    <3>1. file' = <<>> \/ file' = file
      BY <1>5 DEF StartDump
    <3>2. file \in Seq(Int)
      BY DEF TypeOK
    <3> QED
      BY <3>1, <3>2, EmptySeq
  <2>4. mapping' \in [Part -> Int]
    BY <1>5, MapLemma DEF StartDump, TypeOK
  <2>5. /\ op' = name /\ pc' \in {"idle", "read"}
        /\ pass' \in {1, 2} /\ next' \in Nat \ {0} /\ buf' \in Seq(Int)
        /\ pos' \in Nat /\ retry' \in {0, 1} /\ page' \in 0..P
        /\ result' \in {"none", "failed"}
        /\ pc' # "idle" => buf' = <<>>
    BY <2>1, BeginTypes
  <2>6. TypeOK'
    BY <2>1, <2>2, <2>3, <2>4, <2>5 DEF TypeOK
  <2>7. MappingSafe'
    <3> SUFFICES ASSUME pc' # "idle" PROVE MappingSafe'
      BY DEF MappingSafe
    <3>1. PICK m \in Maps : BlockMapping(m) /\ mapping' = m
      BY <1>5 DEF StartDump, Return
    <3>2. op' = "flash" => Len(file') <= NB * P
      BY <1>5 DEF StartDump, Return, Begin
    <3>3. \A b \in Part : m[b] = NoBlock \/ (m[b] >= NB /\ m[b] < table.at)
      BY <3>1, MapLemma
    <3>4. table'.at = table.at /\ \A b \in Part : mapping'[b] = m[b]
      BY <3>1, <2>2, Zenon
    <3>5. \A b \in Part : mapping'[b] = NoBlock
                          \/ (mapping'[b] >= NB /\ mapping'[b] < table'.at)
      BY <3>3, <3>4
    <3> QED
      BY <3>2, <3>5 DEF MappingSafe
  <2> QED
    BY <2>1, <2>2, <2>5, <2>6, <2>7, <1>g
       DEF OpOfDriver, BufferFull, PositionSafe, InBlock
<1>6. CASE WriteData
  <2>1. /\ pc = "feed" /\ op \in {"restore", "patch"} /\ driver = "mtd"
        /\ buf' = Append(buf, PageOf(next)) /\ next' = next + 1
        /\ pc' = IF Len(buf') = P THEN "block" ELSE "feed"
        /\ next <= Len(file)
        /\ UNCHANGED <<flash, bad, worn, table, driver, file, op, pass, mapping,
                       pos, retry, page, result>>
    BY <1>6 DEF WriteData, media, OpOfDriver, TypeOK
  <2>2. PageOf(next) \in Int
    BY <2>1, ElementOfSeq DEF PageOf, TypeOK, Zero
  <2>3. buf' \in Seq(Int) /\ Len(buf') = Len(buf) + 1
    BY <2>1, <2>2, AppendProperties DEF TypeOK
  <2>4. Len(buf') <= P /\ Len(buf') \in Nat
    <3>1. Len(buf) \in Nat
      BY LenProperties DEF TypeOK
    <3>2. Len(buf) < P
      BY <2>1 DEF BufferFull
    <3> QED
      BY <2>3, <3>1, <3>2, <1>g
  <2>5. TypeOK'
    BY <2>1, <2>3 DEF TypeOK
  <2> QED
    BY <2>1, <2>4, <2>5, <1>g DEF OpOfDriver, BufferFull, MappingSafe, PositionSafe, InBlock
<1>7. CASE ReadShort
  BY <1>7 DEF ReadShort, Return, media, feeding, writing, TypeOK, OpOfDriver,
              BufferFull, MappingSafe, PositionSafe, InBlock
<1>8. CASE WriteClose
  <2>1. /\ pc = "feed" /\ op \in {"restore", "patch"} /\ driver = "mtd"
        /\ UNCHANGED <<flash, bad, worn, table, driver, file, op, pass, next,
                       mapping, pos, retry, page>>
    BY <1>8 DEF WriteClose, media, feeding, OpOfDriver, TypeOK
  <2>2. Len(buf) < P /\ buf \in Seq(Int)
    BY <2>1 DEF BufferFull, TypeOK
  <2>3. CASE buf = <<>>
    <3>1. /\ buf' = buf /\ pc' \in {"wipe", "close", "idle"}
          /\ result' \in {result, "ok"}
      BY <1>8, <2>3 DEF WriteClose, Return
    <3>2. TypeOK'
      BY <2>1, <3>1 DEF TypeOK
    <3> QED
      BY <2>1, <3>1, <3>2 DEF OpOfDriver, BufferFull, MappingSafe, PositionSafe, InBlock
  <2>4. CASE buf # <<>>
    <3>1. /\ buf' = buf \o [i \in 1..(P - Len(buf)) |-> Zero]
          /\ pc' = "block" /\ result' = result
      BY <1>8, <2>4 DEF WriteClose
    <3>2. buf' \in Seq(Int) /\ Len(buf') = P
      BY <2>2, <3>1, PadLemma
    <3>3. TypeOK'
      BY <2>1, <3>1, <3>2 DEF TypeOK
    <3> QED
      BY <2>1, <3>1, <3>2, <3>3
         DEF OpOfDriver, BufferFull, MappingSafe, PositionSafe, InBlock
  <2> QED
    BY <2>3, <2>4
<1>9. CASE Reopen
  <2>1. /\ pc = "close" /\ pc' = "feed" /\ pass' = 2 /\ next' = 1 /\ pos' = 0
        /\ buf' = <<>>
        /\ UNCHANGED <<flash, bad, worn, table, driver, file, op, mapping, retry,
                       page, result>>
    BY <1>9 DEF Reopen, media
  <2>2. TypeOK'
    BY <2>1, EmptySeq DEF TypeOK
  <2>3. Len(buf') = 0
    BY <2>1, EmptySeq
  <2> QED
    BY <2>1, <2>2, <2>3, <1>g
       DEF OpOfDriver, BufferFull, MappingSafe, PositionSafe, InBlock
<1>10. CASE FlashBlock
  <2>1. /\ pc = "feed" /\ op = "flash" /\ driver = "bml_over_mtd"
        /\ UNCHANGED <<flash, bad, worn, table, driver, file, op, pass, mapping,
                       retry, page>>
    BY <1>10 DEF FlashBlock, media, OpOfDriver, TypeOK
  <2>2. CASE next > Len(file)
    <3>1. pc' = "idle" /\ result' = "ok" /\ UNCHANGED <<buf, pos, next>>
      BY <1>10, <2>2, LenProperties DEF FlashBlock, Return, TypeOK
    <3> QED
      BY <2>1, <3>1
         DEF TypeOK, OpOfDriver, BufferFull, MappingSafe, PositionSafe, InBlock
  <2>3. CASE next <= Len(file)
    <3> DEFINE c == (next - 1) \div P
               B == [i \in 1..P |-> IF next + i - 1 <= Len(file)
                                    THEN file[next + i - 1] ELSE Blank]
    <3>1. /\ pc' = "block" /\ pos' = Dest(c) /\ next' = next + P /\ buf' = B
          /\ result' = result
      <4>1. ~(next > Len(file))
        BY <2>3, LenProperties DEF TypeOK
      <4> QED
        BY <1>10, <4>1 DEF FlashBlock
    <3>2. c \in Part
      <4>1. next - 1 \in Nat /\ next - 1 < NB * P
        BY <2>1, <2>3, <1>g, LenProperties DEF MappingSafe, TypeOK
      <4> QED
        BY <4>1, <1>g, DivLemma DEF Part
    <3>3. /\ Dest(c) \in Nat /\ Dest(c) < table.at
          /\ Dest(c) \in Part \/ \E d \in Part : mapping[d] = Dest(c)
      <4>1. /\ mapping[c] = NoBlock \/ (mapping[c] >= NB /\ mapping[c] < table.at)
            /\ mapping[c] \in Int
        BY <2>1, <3>2 DEF MappingSafe, TypeOK
      <4>2. CASE mapping[c] = NoBlock
        <5>1. Dest(c) = c
          BY <4>2 DEF Dest
        <5> QED
          BY <3>2, <5>1, <1>g DEF Part
      <4>3. CASE mapping[c] # NoBlock
        <5>1. Dest(c) = mapping[c]
          BY <4>3 DEF Dest
        <5> QED
          BY <3>2, <4>1, <4>3, <5>1, <1>g
      <4> QED
        BY <4>2, <4>3
    <3>4. buf' \in Seq(Int) /\ Len(buf') = P
      <4>1. B \in [1..P -> Int]
        BY <1>g, LenProperties, ElementOfSeq DEF TypeOK, Blank
      <4> HIDE DEF B
      <4> QED
        BY <3>1, <4>1, <1>g, BlockSeq
    <3> HIDE DEF B, c
    <3>5. TypeOK'
      BY <2>1, <3>1, <3>3, <3>4, <1>g DEF TypeOK
    <3> QED
      BY <2>1, <3>1, <3>3, <3>4, <3>5
         DEF OpOfDriver, BufferFull, MappingSafe, PositionSafe, InBlock
  <2>4. Len(file) \in Nat /\ next \in Nat
    BY LenProperties DEF TypeOK
  <2>5. next <= Len(file) \/ next > Len(file)
    BY <2>4
  <2> QED
    BY <2>2, <2>3, <2>5
<1>11. CASE WriteBlock
  <2>1. /\ pc = "block"
        /\ UNCHANGED <<flash, bad, worn, table, driver, file, op, pass, next,
                       mapping, buf, page>>
    BY <1>11 DEF WriteBlock, media, feeding
  <2>2. CASE pc' = "erase"
    <3>1. /\ pos' = pos /\ retry' = 0 /\ result' = result /\ pos \notin bad
          /\ driver = "mtd" => pos < NB
      BY <1>11, <2>1, <2>2 DEF WriteBlock, Return, TypeOK
    <3> QED
      BY <2>1, <2>2, <3>1
         DEF TypeOK, OpOfDriver, BufferFull, MappingSafe, PositionSafe, InBlock
  <2>3. CASE pc' = "block"
    <3>1. pos' = pos + 1 /\ retry' = retry /\ result' = result /\ driver = "mtd"
      BY <1>11, <2>1, <2>3 DEF WriteBlock, Return, Skip
    <3> QED
      BY <2>1, <2>3, <3>1
         DEF TypeOK, OpOfDriver, BufferFull, MappingSafe, PositionSafe, InBlock
  <2>4. CASE pc' = "idle"
    <3>1. pos' = pos /\ retry' = retry /\ result' = "failed"
      BY <1>11, <2>1, <2>4 DEF WriteBlock, Return
    <3> QED
      BY <2>1, <2>4, <3>1
         DEF TypeOK, OpOfDriver, BufferFull, MappingSafe, PositionSafe, InBlock
  <2> QED
    BY <1>11, <2>1, <2>2, <2>3, <2>4 DEF WriteBlock, Return
<1>12. CASE MemErase
  <2>1. /\ pc = "erase"
        /\ UNCHANGED <<bad, worn, table, driver, file, op, pass, next, mapping,
                       buf>>
    BY <1>12 DEF MemErase, media, feeding
  <2>2. CASE Retry /\ page' = page
    <3>1. TypeOK'
      BY <2>1, <2>2, RetryLemma DEF TypeOK
    <3> QED
      BY <2>1, <2>2, <3>1, RetryLemma
         DEF OpOfDriver, BufferFull, MappingSafe, PositionSafe, InBlock
  <2>3. CASE /\ flash' = [flash EXCEPT ![pos] = Erased]
             /\ page' = 0 /\ pc' = "program" /\ UNCHANGED <<pos, retry, result>>
    <3>1. Erased \in [1..P -> Int]
      BY DEF Erased, Blank
    <3>2. flash' \in [Block -> [1..P -> Int]]
      BY <2>3, <3>1 DEF TypeOK
    <3>3. TypeOK'
      BY <2>1, <2>3, <3>2, <1>g DEF TypeOK
    <3> QED
      BY <2>1, <2>3, <3>3
         DEF OpOfDriver, BufferFull, MappingSafe, PositionSafe, InBlock
  <2> QED
    BY <1>12, <2>2, <2>3 DEF MemErase
<1>13. CASE Program
  <2>1. /\ pc = "program" /\ pc' \in {"program", "verify"}
        /\ UNCHANGED <<bad, worn, table, driver, file, op, pass, next, mapping,
                       pos, buf, retry, result>>
    BY <1>13 DEF Program, media, feeding
  <2>2. flash' \in [Block -> [1..P -> Int]] /\ page' \in 0..P
    <3>1. CASE UNCHANGED <<flash, page>>
      BY <3>1 DEF TypeOK
    <3>2. CASE page < P
      <4>1. buf[page + 1] \in Int /\ page + 1 \in 1..P
        BY <2>1, <3>2, <1>g, ElementOfSeq DEF BufferFull, TypeOK
      <4>2. flash' \in [Block -> [1..P -> Int]]
        <5>1. CASE UNCHANGED flash
          BY <5>1 DEF TypeOK
        <5>2. CASE \E p \in {buf[page + 1], Spoilt} :
                      flash' = [flash EXCEPT ![pos][page + 1] = p]
          <6>1. PICK p \in {buf[page + 1], Spoilt} :
                  flash' = [flash EXCEPT ![pos] = [flash[pos] EXCEPT ![page + 1] = p]]
            BY <5>2
          <6>2. p \in Int
            BY <4>1 DEF Spoilt
          <6>3. pos \in Block
            BY <2>1, <1>g DEF PositionSafe, TypeOK, Block
          <6>4. [flash[pos] EXCEPT ![page + 1] = p] \in [1..P -> Int]
            BY <6>2, <6>3 DEF TypeOK
          <6> QED
            BY <6>1, <6>4 DEF TypeOK
        <5> QED
          BY <1>13, <5>1, <5>2 DEF Program
      <4> QED
        BY <1>13, <4>1, <4>2, <1>g DEF Program, TypeOK
    <3> QED
      BY <1>13, <3>1, <3>2 DEF Program
  <2>3. TypeOK'
    BY <2>1, <2>2 DEF TypeOK
  <2> QED
    BY <2>1, <2>3 DEF OpOfDriver, BufferFull, MappingSafe, PositionSafe, InBlock
<1>14. CASE Verify
  <2>1. /\ pc = "verify"
        /\ UNCHANGED <<bad, worn, table, driver, file, op, pass, next, mapping,
                       page>>
    BY <1>14 DEF Verify, media, feeding
  <2>2. CASE Retry /\ buf' = buf
    <3>1. TypeOK'
      BY <2>1, <2>2, RetryLemma DEF TypeOK
    <3> QED
      BY <2>1, <2>2, <3>1, RetryLemma
         DEF OpOfDriver, BufferFull, MappingSafe, PositionSafe, InBlock
  <2>3. CASE /\ buf' = <<>> /\ pos' = pos + 1 /\ pc' = "feed"
             /\ UNCHANGED <<flash, retry, result>>
    <3>1. TypeOK' /\ Len(buf') = 0
      BY <2>1, <2>3, EmptySeq DEF TypeOK
    <3> QED
      BY <2>1, <2>3, <3>1, <1>g
         DEF OpOfDriver, BufferFull, MappingSafe, PositionSafe, InBlock
  <2> QED
    BY <1>14, <2>2, <2>3 DEF Verify
<1>15. CASE EraseBlocks
  <2>1. /\ pc = "wipe" /\ pc' \in {"wipe", "idle"} /\ pos' \in {pos, pos + 1}
        /\ result' \in {result, "ok"}
        /\ UNCHANGED <<bad, worn, table, driver, file, op, pass, next, mapping,
                       buf, retry, page>>
    BY <1>15 DEF EraseBlocks, Return, media, feeding
  <2>2. Erased \in [1..P -> Int]
    BY DEF Erased, Blank
  <2>3. flash' \in {flash, [flash EXCEPT ![pos] = Erased]}
    BY <1>15 DEF EraseBlocks
  <2>4. flash' \in [Block -> [1..P -> Int]]
    BY <2>2, <2>3 DEF TypeOK
  <2>5. TypeOK'
    BY <2>1, <2>4 DEF TypeOK
  <2> QED
    BY <2>1, <2>5 DEF OpOfDriver, BufferFull, MappingSafe, PositionSafe, InBlock
<1>16. CASE BackupBlock
  <2>1. /\ pc = "read" /\ pc' \in {"read", "idle"} /\ pos' \in {pos, pos + 1}
        /\ op = "backup" /\ result' \in {result, "ok", "failed"}
        /\ UNCHANGED <<flash, bad, worn, table, driver, op, pass, next, mapping,
                       buf, retry, page>>
    BY <1>16 DEF BackupBlock, Return, Skip, media, feeding
  <2>2. file' \in Seq(Int)
    <3>1. \A c \in Part : flash[c] \in Seq(Int)
      BY <1>g, BlockSeq DEF TypeOK, Part, Block
    <3>2. file' = file \/ file' = <<>> \/ (pos \in Part /\ file' = file \o flash[pos])
      <4>1. file' = file \/ file' = <<>> \/ (pos < NB /\ file' = file \o flash[pos])
        BY <1>16 DEF BackupBlock
      <4>2. pos < NB => pos \in Part
        BY <1>g DEF Part, TypeOK
      <4> QED
        BY ONLY <4>1, <4>2
    <3>3. file \in Seq(Int)
      BY DEF TypeOK
    <3>4. CASE pos \in Part /\ file' = file \o flash[pos]
      BY <3>1, <3>3, <3>4, ConcatProperties
    <3>5. <<>> \in Seq(Int)
      BY EmptySeq
    <3> QED
      BY <3>2, <3>3, <3>4, <3>5
  <2>3. TypeOK'
    BY <2>1, <2>2 DEF TypeOK
  <2> QED
    BY <2>1, <2>3 DEF OpOfDriver, BufferFull, MappingSafe, PositionSafe, InBlock
<1>17. CASE DumpBlock
  <2>1. /\ pc = "read" /\ pc' \in {"read", "idle"} /\ pos' \in {pos, pos + 1}
        /\ op = "dump" /\ result' \in {result, "ok", "failed"}
        /\ UNCHANGED <<flash, bad, worn, table, driver, op, pass, next, mapping,
                       buf, retry, page>>
    BY <1>17 DEF DumpBlock, Return, media, feeding
  <2>2. driver = "bml_over_mtd"
    BY <2>1 DEF OpOfDriver, TypeOK
  <2>3. file' \in Seq(Int)
    <3>1. \A c \in Part : Dest(c) \in Block
      <4> SUFFICES ASSUME NEW c \in Part PROVE Dest(c) \in Block
        OBVIOUS
      <4>1. mapping[c] = NoBlock \/ (mapping[c] >= NB /\ mapping[c] < table.at)
        BY <2>1, <2>2 DEF MappingSafe
      <4>2. mapping[c] \in Int
        BY DEF TypeOK
      <4>3. CASE mapping[c] = NoBlock
        BY <4>3, <1>g DEF Dest, Part, Block
      <4>4. CASE mapping[c] # NoBlock
        BY <4>1, <4>2, <4>4, <1>g DEF Dest, Block
      <4> QED
        BY <4>3, <4>4
    <3>2. \A c \in Part : flash[Dest(c)] \in Seq(Int)
      BY <3>1, <1>g, BlockSeq DEF TypeOK
    <3>3. file' = file \/ (pos \in Part /\ file' = file \o flash[Dest(pos)])
      <4>1. file' = file \/ (pos < NB /\ file' = file \o flash[Dest(pos)])
        BY <1>17, Zenon DEF DumpBlock
      <4>2. pos \in Nat
        BY DEF TypeOK
      <4>3. pos < NB => pos \in Part
        BY <4>2, <1>g DEF Part
      <4> QED
        BY <4>1, <4>3
    <3>4. file \in Seq(Int)
      BY DEF TypeOK
    <3> QED
      BY <3>2, <3>3, <3>4, ConcatProperties
  <2>4. TypeOK'
    BY <2>1, <2>3 DEF TypeOK
  <2> QED
    BY <2>1, <2>4 DEF OpOfDriver, BufferFull, MappingSafe, PositionSafe, InBlock
<1>18. CASE Crash
  BY <1>18 DEF Crash, Return, media, feeding, writing, TypeOK, OpOfDriver,
               BufferFull, MappingSafe, PositionSafe, InBlock
<1>19. CASE UNCHANGED vars
  BY <1>19 DEF vars, media, feeding, writing, TypeOK, OpOfDriver, BufferFull,
               MappingSafe, PositionSafe, InBlock
<1> QED
  BY <1>1, <1>2, <1>3, <1>4, <1>5, <1>6, <1>7, <1>8, <1>9, <1>10, <1>11, <1>12,
     <1>13, <1>14, <1>15, <1>16, <1>17, <1>18, <1>19 DEF Next, User, Work

\* Where the writer stands is an invariant.
THEOREM ShapeInvariance == Spec => []Shape
<1> QED
  BY InitShape, NextShape, PTL DEF Spec

\* No step writes a bad block, the mapping table, a block of the reservoir
\* that is not in the mapping, or, on a device with a plain layout, a block
\* of another partition.
THEOREM GoodOnly == Spec => GoodBlocksOnly
<1>1. Shape /\ [Next]_vars => [TouchesNone]_vars
  <2> SUFFICES ASSUME Shape, [Next]_vars, NEW b \in Untouchable
               PROVE  flash'[b] = flash[b]
    BY DEF TouchesNone
  <2> USE GeometryAssumption, TableAssumption DEF Shape
  <2>g. NB \in Nat /\ NR \in Nat /\ table.at \in NB..(NB + NR - 1)
    BY DEF TypeOK
  <2>1. /\ b \in Block
        /\ \/ b \in bad
           \/ b >= NB /\ driver = "mtd"
           \/ b >= table.at
           \/ b >= NB /\ \A c \in Part : mapping[c] # b
    <3>1. bad \subseteq Block
      BY DEF TypeOK
    <3>2. b \in bad \/ b \in Block \ Part
      BY DEF Untouchable
    <3>3. b \in Block \ Part => b >= NB
      BY <2>g DEF Block, Part
    <3> QED
      BY <3>1, <3>2, <3>3 DEF Untouchable
  <2>2. pc \in {"erase", "program", "verify"} => b # pos
    <3> SUFFICES ASSUME pc \in {"erase", "program", "verify"}, b = pos PROVE FALSE
      OBVIOUS
    <3>1. b \notin bad /\ b < (IF driver = "mtd" THEN NB ELSE table.at)
      BY DEF PositionSafe
    <3>2. driver = "bml_over_mtd" => b < NB \/ \E c \in Part : mapping[c] = b
      BY <2>g DEF PositionSafe, InBlock, Part
    <3>3. driver \in {"mtd", "bml_over_mtd"} /\ b \in Int
      BY <2>g, <2>1 DEF TypeOK, Block
    <3> QED
      BY <2>g, <2>1, <3>1, <3>2, <3>3
  <2>3. CASE MemErase
    BY <2>1, <2>2, <2>3, RetryLemma DEF MemErase, TypeOK
  <2>4. CASE Program
    BY <2>1, <2>2, <2>4 DEF Program, TypeOK
  <2>5. CASE Verify
    BY <2>1, <2>2, <2>5, RetryLemma DEF Verify, TypeOK
  <2>6. CASE EraseBlocks
    <3>1. driver = "mtd"
      BY <2>6 DEF EraseBlocks, OpOfDriver, TypeOK
    <3> QED
      BY <2>1, <2>6, <3>1 DEF EraseBlocks, TypeOK
  <2>7. CASE UNCHANGED flash
    BY <2>7
  <2> QED
    BY <2>3, <2>4, <2>5, <2>6, <2>7
       DEF Next, User, Work, vars, Crash, StartWrite, StartErase, StartBackup,
           StartFlash, StartDump, WriteData, ReadShort, WriteClose, Reopen,
           FlashBlock, WriteBlock, BackupBlock, DumpBlock
<1> QED
  BY <1>1, ShapeInvariance, PTL DEF Spec, GoodBlocksOnly

-----------------------------------------------------------------------------
(* Pages and blocks *)

LEMMA Geometry ==
    /\ P \in Nat /\ P > 0 /\ NB \in Nat /\ NB > 0 /\ NR \in Nat
    /\ Part = 0..(NB - 1)
BY GeometryAssumption DEF Part

LEMMA TimesP ==
    ASSUME NEW m \in Nat, NEW n \in Nat
    PROVE  /\ P * m \in Nat /\ P * (m + 1) = P * m + P /\ m * P = P * m
           /\ m < n => P * m + P <= P * n
           /\ m <= n => P * m <= P * n
<1>1. P * m \in Nat /\ P * (m + 1) = P * m + P /\ m * P = P * m
  BY Geometry
<1>2. ASSUME m <= n PROVE P * m <= P * n
  BY <1>2, Geometry
<1>3. ASSUME m < n PROVE P * m + P <= P * n
  <2>1. m + 1 <= n
    BY <1>3
  <2>2. P * (m + 1) <= P * n
    BY <2>1, Geometry
  <2> QED
    BY <1>1, <2>2
<1> QED
  BY <1>1, <1>2, <1>3

LEMMA PageInside ==
    ASSUME NEW m \in Nat, NEW n \in Nat, m < n, NEW i \in 1..P
    PROVE  P * m + i \in 1..(P * n)
<1> DEFINE x == P * m
           y == P * n
<1>1. x \in Nat /\ y \in Nat /\ x + P <= y /\ P \in Nat
  BY TimesP, Geometry
<1> HIDE DEF x, y
<1>2. x + i \in 1..y
  BY <1>1
<1> QED
  BY <1>2 DEF x, y

\* A block is appended to a file.
LEMMA Joined ==
    ASSUME NEW s \in Seq(Int), NEW t \in Seq(Int), Len(t) = P
    PROVE  /\ Len(s \o t) = Len(s) + P
           /\ \A k \in 1..Len(s) : (s \o t)[k] = s[k]
           /\ \A i \in 1..P : (s \o t)[Len(s) + i] = t[i]
<1>1. Len(s) \in Nat /\ P \in Nat
  BY LenProperties, Geometry
<1>2. /\ Len(s \o t) = Len(s) + P
      /\ \A k \in 1..(Len(s) + P) :
             (s \o t)[k] = IF k <= Len(s) THEN s[k] ELSE t[k - Len(s)]
  BY ConcatProperties
<1>3. ASSUME NEW i \in 1..P PROVE (s \o t)[Len(s) + i] = t[i]
  <2>1. /\ Len(s) + i \in 1..(Len(s) + P) /\ ~(Len(s) + i <= Len(s))
        /\ (Len(s) + i) - Len(s) = i
    BY <1>1
  <2> QED
    BY <1>2, <2>1
<1>4. ASSUME NEW k \in 1..Len(s) PROVE (s \o t)[k] = s[k]
  <2>1. k \in 1..(Len(s) + P) /\ k <= Len(s)
    BY <1>1
  <2> QED
    BY <1>2, <2>1
<1> QED
  BY <1>2, <1>3, <1>4

\* Page k is the i-th of block n, in one way only.
LEMMA PageSplit ==
    ASSUME NEW k \in Nat \ {0}
    PROVE  /\ (k - 1) \div P \in Nat /\ ((k - 1) % P) + 1 \in 1..P
           /\ k = P * ((k - 1) \div P) + (((k - 1) % P) + 1)
<1> DEFINE q == (k - 1) \div P
           r == (k - 1) % P
<1>1. k - 1 \in Nat /\ P \in Nat /\ P > 0
  BY Geometry
<1>2. q \in Int /\ r \in 0..(P - 1) /\ k - 1 = P * q + r
  BY <1>1
<1>3. q >= 0
  <2> SUFFICES ASSUME q < 0 PROVE FALSE
    BY <1>2
  <2>1. P * q <= P * (-1)
    BY <1>1, <1>2
  <2> QED
    BY <1>1, <1>2, <2>1
<1> QED
  BY <1>1, <1>2, <1>3

LEMMA PageUnique ==
    ASSUME NEW n \in Nat, NEW i \in 1..P, NEW k, k = P * n + i
    PROVE  /\ k \in Nat \ {0} /\ (k - 1) \div P = n /\ ((k - 1) % P) + 1 = i
<1>1. P * n \in Nat /\ P \in Nat /\ P > 0 /\ k \in Nat \ {0}
  BY Geometry, TimesP
<1> DEFINE q == (k - 1) \div P
           j == ((k - 1) % P) + 1
<1>2. q \in Nat /\ j \in 1..P /\ k = P * q + j
  BY <1>1, PageSplit
<1> HIDE DEF q, j
<1>3. P * q \in Nat
  BY <1>2, TimesP
<1>4. ~(q < n)
  <2> SUFFICES ASSUME q < n PROVE FALSE
    OBVIOUS
  <2>1. P * q + P <= P * n
    BY <1>2, TimesP
  <2> QED
    BY <1>1, <1>2, <1>3, <2>1
<1>5. ~(n < q)
  <2> SUFFICES ASSUME n < q PROVE FALSE
    OBVIOUS
  <2>1. P * n + P <= P * q
    BY <1>2, TimesP
  <2> QED
    BY <1>1, <1>2, <1>3, <2>1
<1>6. q = n
  BY <1>2, <1>4, <1>5
<1> QED
  BY <1>1, <1>2, <1>6 DEF q, j

-----------------------------------------------------------------------------
(* Counting the blocks a reader sees *)

LEMMA CountType ==
    ASSUME NEW b \in Nat
    PROVE  Count(b) \in Nat /\ IsFiniteSet({c \in 0..(b - 1) : Readable(c)})
<1>1. IsFiniteSet(0..(b - 1))
  BY FS_Interval
<1>2. IsFiniteSet({c \in 0..(b - 1) : Readable(c)})
  BY <1>1, FS_Subset
<1> QED
  BY <1>2, FS_CardinalityType DEF Count

LEMMA CountStep ==
    ASSUME NEW b \in Nat
    PROVE  /\ Count(0) = 0
           /\ Readable(b) => Count(b + 1) = Count(b) + 1
           /\ ~Readable(b) => Count(b + 1) = Count(b)
<1> DEFINE S == {c \in 0..(b - 1) : Readable(c)}
           T == {c \in 0..((b + 1) - 1) : Readable(c)}
<1>1. Count(0) = 0
  <2>1. {c \in 0..(0 - 1) : Readable(c)} = {}
    OBVIOUS
  <2> QED
    BY <2>1, FS_EmptySet DEF Count
<1>2. ASSUME Readable(b) PROVE Count(b + 1) = Count(b) + 1
  <2>1. T = S \cup {b} /\ b \notin S
    BY <1>2
  <2>2. Cardinality(T) = Cardinality(S) + 1
    BY <2>1, CountType, FS_AddElement
  <2> QED
    BY <2>2 DEF Count
<1>3. ASSUME ~Readable(b) PROVE Count(b + 1) = Count(b)
  <2>1. T = S
    BY <1>3
  <2> QED
    BY <2>1 DEF Count
<1> QED
  BY <1>1, <1>2, <1>3

LEMMA CountOrder ==
    ASSUME NEW b \in Nat, NEW c \in Nat
    PROVE  /\ b <= c => Count(b) <= Count(c)
           /\ b < c /\ Readable(b) => Count(b) < Count(c)
<1>1. ASSUME NEW d \in Nat, d <= c PROVE Count(d) <= Count(c)
  <2> DEFINE S == {x \in 0..(d - 1) : Readable(x)}
             T == {x \in 0..(c - 1) : Readable(x)}
  <2>1. S \in SUBSET T
    BY <1>1
  <2>2. IsFiniteSet(T)
    BY CountType
  <2>3. Cardinality(S) <= Cardinality(T)
    BY <2>1, <2>2, FS_Subset
  <2>4. Count(d) = Cardinality(S) /\ Count(c) = Cardinality(T)
    BY Zenon DEF Count
  <2> HIDE DEF S, T
  <2> QED
    BY <2>3, <2>4
<1>2. ASSUME b < c, Readable(b) PROVE Count(b) < Count(c)
  <2>1. b + 1 \in Nat /\ b + 1 <= c
    BY <1>2
  <2>2. Count(b + 1) <= Count(c) /\ Count(b + 1) = Count(b) + 1
    BY <1>1, <1>2, <2>1, CountStep
  <2>3. Count(b) \in Nat /\ Count(c) \in Nat
    BY CountType
  <2> QED
    BY <2>2, <2>3
<1> QED
  BY <1>1, <1>2

LEMMA CountUnique ==
    ASSUME NEW b \in Nat, NEW c \in Nat, Readable(b), Readable(c), Count(b) = Count(c)
    PROVE  b = c
<1>1. Count(b) \in Nat /\ Count(c) \in Nat
  BY CountType
<1>2. b < c => Count(b) < Count(c)
  BY CountOrder
<1>3. c < b => Count(c) < Count(b)
  BY CountOrder
<1> QED
  BY <1>1, <1>2, <1>3

\* The block with n readable ones before it is the (n + 1)-th of them.
LEMMA NthBlock ==
    ASSUME NEW b \in Part, Readable(b)
    PROVE  Nth(Count(b) + 1) = b
<1>1. b \in Nat /\ Count(b + 1) = Count(b) + 1
  BY Geometry, CountStep
<1>2. \A c \in Part : Cardinality({x \in 0..c : Readable(x)}) = Count(c + 1)
  <2> TAKE c \in Part
  <2>1. 0..c = 0..((c + 1) - 1)
    BY Geometry
  <2> QED
    BY <2>1 DEF Count
<1>3. \A c \in Part : Readable(c) /\ Count(c + 1) = Count(b) + 1 => c = b
  <2> TAKE c \in Part
  <2>a. c \in Nat /\ b \in Nat
    BY Geometry
  <2>1. c \in Nat /\ Count(c) \in Nat /\ Count(b) \in Nat
    BY <2>a, CountType
  <2>2. Readable(c) => Count(c + 1) = Count(c) + 1
    BY <2>1, CountStep
  <2> QED
    BY <1>1, <2>1, <2>2, CountUnique
<1> QED
  BY <1>1, <1>2, <1>3 DEF Nth

\* What a reader sees of block b.
LEMMA VisibleBlock ==
    ASSUME NEW b \in Part, Readable(b), NEW i \in 1..P, NEW k, k = P * Count(b) + i
    PROVE  k \in DOMAIN Visible /\ Visible[k] = flash[b][i]
<1>a. b \in Nat /\ NB \in Nat
  BY Geometry
<1>1. b \in Nat /\ NB \in Nat /\ Count(b) \in Nat /\ Count(NB) \in Nat
  BY <1>a, CountType
<1>2. Cardinality({c \in Part : Readable(c)}) = Count(NB)
  BY Geometry DEF Count
<1>3. Count(b) < Count(NB)
  BY <1>1, CountOrder, Geometry
<1>4. P * Count(b) + P <= P * Count(NB) /\ P * Count(b) \in Nat /\ P * Count(NB) \in Nat
  BY <1>1, <1>3, TimesP
<1>5. k \in 1..(P * Count(NB))
  BY <1>4, Geometry
<1>6. (k - 1) \div P = Count(b) /\ ((k - 1) % P) + 1 = i
  BY <1>1, PageUnique
<1> QED
  BY <1>2, <1>5, <1>6, NthBlock DEF Visible

-----------------------------------------------------------------------------
(* What every step keeps, and what a writer needs *)

LEMMA MediaKept == [Next]_vars => UNCHANGED <<bad, worn, table, driver>>
BY DEF Next, User, Work, vars, media, Crash, StartWrite, StartErase, StartBackup,
       StartFlash, StartDump, WriteData, ReadShort, WriteClose, Reopen, FlashBlock,
       WriteBlock, MemErase, Program, Verify, EraseBlocks, BackupBlock, DumpBlock

LEMMA CountKept ==
    ASSUME bad' = bad, worn' = worn
    PROVE  \A b : Readable(b)' = Readable(b) /\ Count(b)' = Count(b)
BY DEF Readable, Count

\* Going on past block p, which is skipped or has been used.
LEMMA Advance ==
    ASSUME NEW p \in Nat, Numbered(p)
    PROVE  /\ Numbered(p + 1) /\ Count(p) \in Nat
           /\ Count(p + 1) = IF Readable(p) THEN Count(p) + 1 ELSE Count(p)
<1>1. Count(p) \in Nat /\ Count(p + 1) = IF Readable(p) THEN Count(p) + 1 ELSE Count(p)
  BY CountType, CountStep
<1>2. ASSUME NEW n \in 0..(Count(p + 1) - 1)
      PROVE  \E b \in 0..((p + 1) - 1) : Readable(b) /\ Count(b) = n
  <2>1. CASE n \in 0..(Count(p) - 1)
    BY <2>1 DEF Numbered
  <2>2. CASE n \notin 0..(Count(p) - 1)
    <3>1. Readable(p) /\ n = Count(p) /\ p \in 0..((p + 1) - 1)
      BY <1>1, <1>2, <2>2
    <3> QED
      BY <3>1
  <2> QED
    BY <2>1, <2>2
<1> QED
  BY <1>1, <1>2 DEF Numbered

\* No block has been passed yet.
LEMMA NumberedNone == Count(0) = 0 /\ Numbered(0)
<1>1. Count(0) = 0
  BY CountStep
<1> QED
  BY <1>1 DEF Numbered

\* The mapping in use leads to a block of the partition or the reservoir.
LEMMA DestBlock ==
    ASSUME Shape, pc # "idle", driver = "bml_over_mtd", NEW b \in Part
    PROVE  /\ Dest(b) \in Block
           /\ mapping[b] # NoBlock => Dest(b) = mapping[b] /\ Dest(b) >= NB
           /\ mapping[b] = NoBlock => Dest(b) = b
<1>1. table.at \in NB..(NB + NR - 1) /\ mapping[b] \in Int
  BY TableAssumption DEF Shape, TypeOK
<1>2. mapping[b] = NoBlock \/ (mapping[b] >= NB /\ mapping[b] < table.at)
  BY DEF Shape, MappingSafe
<1>3. CASE mapping[b] = NoBlock
  BY <1>3, Geometry DEF Dest, Block
<1>4. CASE mapping[b] # NoBlock
  BY <1>1, <1>2, <1>4, Geometry DEF Dest, Block
<1> QED
  BY <1>3, <1>4

\* A step that leaves no readable block out has none behind it, and one that
\* goes past a block goes past one that cannot be read.
LEMMA CleanStep ==
    ASSUME [Next]_vars, Clean'
    PROVE  /\ pc # "idle" => Clean
           /\ skipped' = skipped => Clean
           /\ Skip => ~Readable(pos)
<1>1. worn' = worn /\ bad' = bad
  BY MediaKept
<1>2. skipped' \subseteq worn
  BY <1>1 DEF Clean
<1>3. ASSUME pc # "idle" PROVE skipped \subseteq skipped'
  <2>1. skipped' = skipped \/ Skip \/ skipped' = skipped \cup ((pos..(NB - 1)) \ bad)
    BY <1>3 DEF Next, User, Work, vars, writing, Ask, Crash, StartWrite, StartErase,
                StartBackup, StartFlash, StartDump, WriteData, ReadShort, WriteClose,
                Reopen, FlashBlock, WriteBlock, MemErase, Program, Verify, Retry,
                EraseBlocks, BackupBlock, DumpBlock
  <2> QED
    BY <2>1 DEF Skip
<1>4. ASSUME Skip PROVE ~Readable(pos)
  BY <1>2, <1>4 DEF Skip, Readable
<1> QED
  BY <1>2, <1>3, <1>4 DEF Clean

\* Erasing, programming and giving up change the writer's block only.
LEMMA OtherBlocks ==
    ASSUME Shape, MemErase \/ Program \/ Verify
    PROVE  /\ pos \in Block /\ \A b \in Block : b # pos => flash'[b] = flash[b]
           /\ UNCHANGED <<bad, worn, table, driver, file, op, pass, next, mapping>>
<1>0. pc \in {"erase", "program", "verify"}
  BY DEF MemErase, Program, Verify
<1>1. pos \in Block
  BY <1>0, GeometryAssumption, TableAssumption DEF Shape, PositionSafe, TypeOK, Block
<1>2. \A b \in Block : b # pos => flash'[b] = flash[b]
  BY RetryLemma DEF MemErase, Program, Verify, Shape, TypeOK
<1>3. UNCHANGED <<bad, worn, table, driver, file, op, pass, next, mapping>>
  BY DEF MemErase, Program, Verify, media, feeding
<1> QED
  BY <1>1, <1>2, <1>3

\* When the writer has passed the end of the image, the image is there, all
\* but the header in the first pass of a restore.
LEMMA AllShown ==
    ASSUME Shape, Placed, Len(file) <= P * Count(pos)
    PROVE  /\ Fits
           /\ \A b \in Part :
                  Readable(b) /\ (Count(b) >= 1 \/ op # "restore" \/ pass = 2) => Shows(b)
<1>1. /\ P \in Nat /\ P > 0 /\ NB \in Nat /\ Part = 0..(NB - 1)
      /\ pos \in Nat /\ pos <= NB /\ Len(file) \in Nat
  BY Geometry, LenProperties DEF Shape, TypeOK, Placed
<1>2. Count(pos) \in Nat
  BY <1>1, CountType
<1>3. Fits
  <2> SUFFICES ASSUME NEW n \in 0..Len(file), P * n < Len(file)
               PROVE  \E b \in Part : Readable(b) /\ Count(b) = n
    BY DEF Fits
  <2>1. n < Count(pos)
    <3> SUFFICES ASSUME Count(pos) <= n PROVE FALSE
      BY <1>1, <1>2
    <3>1. P * Count(pos) <= P * n /\ P * n \in Nat /\ P * Count(pos) \in Nat
      BY <1>1, <1>2, TimesP
    <3> QED
      BY <3>1, <1>1
  <2>a. n \in 0..(Count(pos) - 1)
    BY <1>1, <1>2, <2>1
  <2>2. PICK b \in 0..(pos - 1) : Readable(b) /\ Count(b) = n
    BY <2>a DEF Placed, Numbered
  <2> QED
    BY <1>1, <2>2
<1>4. ASSUME NEW b \in Part, Readable(b), Count(b) >= 1 \/ op # "restore" \/ pass = 2,
             NEW i \in 1..P, P * Count(b) + i <= Len(file)
      PROVE  flash[b][i] = file[P * Count(b) + i]
  <2>0. b \in Nat
    BY <1>1
  <2>1. Count(b) \in Nat
    BY <2>0, CountType
  <2>2. P * Count(b) \in Nat /\ P * Count(pos) \in Nat
    BY <1>2, <2>1, TimesP
  <2>3. b < pos
    <3> SUFFICES ASSUME pos <= b PROVE FALSE
      BY <1>1, <2>0
    <3>1. Count(pos) <= Count(b)
      BY <1>1, <2>0, CountOrder
    <3>2. P * Count(pos) <= P * Count(b)
      BY <1>2, <2>1, <3>1, TimesP
    <3> QED
      BY <1>1, <1>4, <2>2, <3>2
  <2>4. flash[b][i] = ImagePage(P * Count(b) + i)
    BY <1>1, <1>4, <2>0, <2>3 DEF Placed
  <2>5. Count(b) >= 1 => P * Count(b) >= P
    BY <1>1, <2>1
  <2>6. PageOf(P * Count(b) + i) = file[P * Count(b) + i]
    BY <1>1, <1>4, <2>1, <2>2, <2>5 DEF PageOf
  <2> QED
    BY <1>4, <2>4, <2>6 DEF ImagePage
<1> QED
  BY <1>3, <1>4 DEF Shows

-----------------------------------------------------------------------------
(* Each part of the invariant is kept *)

\* The image is read from where it was.
LEMMA ImageKept ==
    ASSUME UNCHANGED <<file, op, pass>>
    PROVE  \A n : ImagePage(n)' = ImagePage(n)
BY DEF ImagePage, PageOf

\* A step inside a block, that stays at it or goes on past one that cannot
\* be read, keeps what is behind the writer and what it is about to write.
LEMMA InsideBlock ==
    ASSUME Shape, Writing, Clean, op \in {"restore", "patch"}, InBlock, InBlock',
           UNCHANGED <<bad, worn, file, op, pass, next, buf>>,
           \A b \in Block : b # pos => flash'[b] = flash[b],
           pos' = pos \/ (pos' = pos + 1 /\ pos < NB /\ ~Readable(pos))
    PROVE  Placed' /\ Pending'
<1>1. /\ NB \in Nat /\ NR \in Nat /\ Block = 0..(NB + NR - 1)
      /\ pos \in Nat /\ pos <= NB /\ Numbered(pos) /\ Placed /\ Pending
  BY Geometry DEF Shape, TypeOK, Writing, Placed, Block, Active, InBlock
<1>2. /\ \A b : Readable(b)' = Readable(b) /\ Count(b)' = Count(b)
      /\ \A n : ImagePage(n)' = ImagePage(n)
  BY CountKept, ImageKept
<1>3. /\ pos' \in Nat /\ pos' <= NB /\ Numbered(pos') /\ Count(pos') = Count(pos)
  <2>1. CASE pos' = pos
    BY <1>1, <2>1
  <2>2. CASE pos' = pos + 1 /\ pos < NB /\ ~Readable(pos)
    BY <1>1, <2>2, Advance
  <2> QED
    BY <2>1, <2>2
<1>4. Numbered(pos)'
  BY <1>2, <1>3 DEF Numbered
<1>5. \A b \in 0..(pos' - 1) : Readable(b) => b \in 0..(pos - 1) /\ flash'[b] = flash[b]
  BY <1>1
<1>6. Placed'
  BY <1>1, <1>2, <1>3, <1>4, <1>5 DEF Placed, InBlock
<1>7. Count(pos)' = Count(pos)
  BY <1>2, <1>3
<1> QED
  BY <1>1, <1>2, <1>6, <1>7 DEF Pending

LEMMA NextWriting == Shape /\ Writing /\ [Next]_vars => Writing'
<1> SUFFICES ASSUME Shape, Writing, [Next]_vars, Clean',
                    op' \in {"restore", "patch"}, Active'
             PROVE  /\ Placed'
                    /\ IF pc' = "close" THEN op' = "restore" /\ Len(file') <= P * Count(pos)'
                       ELSE Pending'
  BY DEF Writing
<1> DEFINE Goal == /\ Placed'
                   /\ IF pc' = "close" THEN op' = "restore" /\ Len(file') <= P * Count(pos)'
                      ELSE Pending'
<1>g. /\ P \in Nat /\ P > 0 /\ NB \in Nat /\ NB > 0 /\ NR \in Nat
      /\ pos \in Nat /\ next \in Nat /\ Len(file) \in Nat /\ Len(buf) \in Nat
      /\ buf \in Seq(Int) /\ file \in Seq(Int) /\ Count(pos) \in Nat
      /\ P * Count(pos) \in Nat /\ pass \in {1, 2} /\ Block = 0..(NB + NR - 1)
  <2>1. pos \in Nat /\ next \in Nat /\ buf \in Seq(Int) /\ file \in Seq(Int)
        /\ pass \in {1, 2}
    BY DEF Shape, TypeOK
  <2>2. Count(pos) \in Nat
    BY <2>1, CountType
  <2> QED
    BY <2>1, <2>2, Geometry, TimesP, LenProperties DEF Block
<1>c. /\ UNCHANGED <<bad, worn, driver>>
      /\ \A b : Readable(b)' = Readable(b) /\ Count(b)' = Count(b)
  BY MediaKept, CountKept
<1>z. Count(0) = 0 /\ Numbered(0) /\ Numbered(0)'
  BY NumberedNone, <1>c DEF Numbered
<1>w. /\ pc # "idle" => Clean
      /\ skipped' = skipped => Clean
      /\ Skip => ~Readable(pos)
  BY CleanStep
<1> USE <1>w
<1>e. ASSUME pos' = 0, buf' = <<>>, next' = 1, pc' = "feed",
             pass' = 1 \/ (pass' = 2 /\ op' = "restore"), Len(file') \in Nat
      PROVE  Goal
  <2>1. Count(pos)' = 0 /\ Numbered(pos)' /\ Len(buf') = 0
    BY <1>c, <1>z, <1>e, EmptySeq
  <2>2. Placed'
    BY <1>e, <1>g, <2>1 DEF Placed
  <2>3. Pending'
    BY <1>e, <1>g, <2>1 DEF Pending, InBlock
  <2> QED
    BY <1>e, <2>2, <2>3
<1>1. CASE StartWrite
  <2>1. Begin(op', "feed")
    BY <1>1 DEF StartWrite, Begin, Return, Active, InBlock
  <2>2. file' \in Seq(Int)
    BY <1>1, GeometryAssumption DEF StartWrite, Shape, TypeOK
  <2>3. Len(file') \in Nat
    BY <2>2, LenProperties
  <2> QED
    BY <1>e, <2>1, <2>3 DEF Begin
<1>2. CASE WriteData
  <2>1. /\ pc = "feed" /\ op \in {"restore", "patch"} /\ next <= LastPage /\ next <= Len(file)
        /\ buf' = Append(buf, PageOf(next)) /\ next' = next + 1
        /\ pc' = IF Len(buf') = P THEN "block" ELSE "feed"
        /\ UNCHANGED <<flash, file, op, pass, pos>>
    BY <1>2 DEF WriteData
  <2>2. Placed /\ Pending /\ Len(buf) < P
    BY <2>1 DEF Writing, Active, Shape, BufferFull
  <2>3. next = P * Count(pos) + Len(buf) + 1 /\ (pass = 2 => Count(pos) = 0)
    BY <2>1, <2>2, <1>g, EmptySeq DEF Pending, LastPage
  <2>4. \A n : ImagePage(n)' = ImagePage(n)
    BY <2>1, ImageKept
  <2>a. next \in 1..Len(file)
    BY <2>1, <1>g DEF Shape, TypeOK
  <2>b. file[next] \in Int
    BY <2>a, <1>g, ElementOfSeq
  <2>5. PageOf(next) = ImagePage(next) /\ PageOf(next) \in Int
    BY <2>a, <2>b, <1>g DEF ImagePage, PageOf, Zero
  <2>6. /\ Len(buf') = Len(buf) + 1
        /\ \A i \in 1..Len(buf) : buf'[i] = buf[i]
        /\ buf'[Len(buf) + 1] = ImagePage(next)
    BY <2>1, <2>5, <1>g, AppendProperties
  <2>7. Count(pos)' = Count(pos) /\ Numbered(pos)' = Numbered(pos)
    BY <1>c, <2>1 DEF Numbered
  <2>8. Placed'
    BY <1>c, <2>1, <2>2, <2>4, <2>7 DEF Placed
  <2>9. \A i \in 1..(Len(buf) + 1) : buf'[i] = ImagePage(P * Count(pos) + i)
    <3> TAKE i \in 1..(Len(buf) + 1)
    <3>1. CASE i \in 1..Len(buf)
      BY <2>2, <2>6, <3>1 DEF Pending
    <3>2. CASE i = Len(buf) + 1
      BY <2>3, <2>6, <3>2, <1>g
    <3>3. i \in 1..Len(buf) \/ i = Len(buf) + 1
      BY <1>g
    <3> QED
      BY <3>1, <3>2, <3>3
  <2>10. pass = 2 /\ Len(buf') = P => P <= Len(file)
    BY <2>1, <2>3, <2>6, <1>g
  <2>c. (\A i \in 1..Len(buf) : buf[i] = ImagePage(P * Count(pos) + i))'
    BY <2>4, <2>6, <2>7, <2>9
  <2>d. next' = P * Count(pos)' + Len(buf') + 1 /\ (pass' = 1 => next' <= Len(file') + 1)
    <3>1. P * Count(pos)' = P * Count(pos) /\ Len(buf') = Len(buf) + 1
          /\ next' = next + 1 /\ Len(file') = Len(file) /\ next <= Len(file)
      BY <2>1, <2>6, <2>7
    <3> DEFINE x == P * Count(pos)
               l == Len(buf)
    <3>2. x \in Nat /\ l \in Nat /\ next = x + l + 1 /\ Len(file) \in Nat
      BY <2>3, <1>g
    <3> HIDE DEF x, l
    <3>3. next + 1 = x + (l + 1) + 1 /\ next + 1 <= Len(file) + 1
      BY <3>1, <3>2
    <3> QED
      BY <3>1, <3>3 DEF x, l
  <2>e. pass' = 2 => Count(pos)' = 0 /\ (InBlock' => P <= Len(file'))
    BY <2>1, <2>3, <2>7, <2>10 DEF InBlock
  <2>11. Pending'
    BY <2>c, <2>d, <2>e DEF Pending
  <2> QED
    BY <2>1, <2>8, <2>11
<1>3. CASE WriteClose
  <2>1. /\ pc = "feed" /\ op \in {"restore", "patch"} /\ next > LastPage
        /\ UNCHANGED <<flash, file, op, pass, next, pos>>
    BY <1>3 DEF WriteClose, feeding
  <2>2. Placed /\ Pending /\ Len(buf) < P
    BY <2>1 DEF Writing, Active, Shape, BufferFull
  <2>3. Count(pos)' = Count(pos) /\ Numbered(pos)' = Numbered(pos)
    BY <1>c, <2>1 DEF Numbered
  <2>4. \A n : ImagePage(n)' = ImagePage(n)
    BY <2>1, ImageKept
  <2>5. CASE buf = <<>>
    <3>1. pc' = "close" /\ pass = 1 /\ buf' = buf /\ op = "restore"
      BY <1>3, <2>5 DEF WriteClose, Return, Active, InBlock
    <3>2. Len(buf) = 0
      BY <2>5, EmptySeq
    <3>3. Len(file) <= P * Count(pos)
      BY <2>1, <2>2, <3>1, <3>2, <1>g DEF LastPage, Pending
    <3>4. Placed'
      BY <1>c, <2>1, <2>2, <2>3, <2>4, <3>1 DEF Placed
    <3> QED
      BY <2>1, <2>3, <3>1, <3>3, <3>4
  <2>6. CASE buf # <<>>
    <3> DEFINE z == [i \in 1..(P - Len(buf)) |-> Zero]
    <3>1. pc' = "block" /\ buf' = buf \o z
      BY <1>3, <2>6 DEF WriteClose
    <3>2. next = P * Count(pos) + Len(buf) + 1
      BY <2>1, <2>2, <2>6 DEF Pending, InBlock
    <3>3. pass = 1
      BY <2>1, <2>2, <2>6, <3>2, <1>g DEF Pending, LastPage
    <3>4. next = Len(file) + 1
      BY <2>1, <2>2, <3>3, <1>g DEF Pending, LastPage
    <3>5. z \in Seq(Int) /\ Len(z) = P - Len(buf)
      <4>1. z \in [1..(P - Len(buf)) -> Int] /\ P - Len(buf) \in Nat
        BY <1>g, <2>2 DEF Zero
      <4> HIDE DEF z
      <4> QED
        BY <4>1, BlockSeq
    <3>6. \A i \in 1..(P - Len(buf)) : z[i] = Zero
      OBVIOUS
    <3> HIDE DEF z
    <3>7. /\ Len(buf') = P
          /\ \A i \in 1..P : buf'[i] = IF i <= Len(buf) THEN buf[i] ELSE z[i - Len(buf)]
      BY <3>1, <3>5, <1>g, ConcatProperties
    <3>8. \A i \in 1..P : buf'[i] = ImagePage(P * Count(pos) + i)
      <4> TAKE i \in 1..P
      <4>1. CASE i <= Len(buf)
        <5>1. i \in 1..Len(buf)
          BY <4>1, <1>g
        <5> QED
          BY <2>2, <3>7, <4>1, <5>1 DEF Pending
      <4>2. CASE i > Len(buf)
        <5>1. i - Len(buf) \in 1..(P - Len(buf)) /\ P * Count(pos) + i > Len(file)
          <6> DEFINE x == P * Count(pos)
                     l == Len(buf)
          <6>1. /\ x \in Nat /\ l \in Nat /\ P \in Nat /\ Len(file) \in Nat
                /\ x + l + 1 = Len(file) + 1 /\ i > l
            BY <3>2, <3>4, <4>2, <1>g
          <6> HIDE DEF x, l
          <6>2. i - l \in 1..(P - l) /\ x + i > Len(file)
            BY ONLY <6>1, i \in 1..P
          <6> QED
            BY <6>2 DEF x, l
        <5>2. ImagePage(P * Count(pos) + i) = Zero
          BY <5>1, <1>g DEF ImagePage
        <5>3. ~(i <= Len(buf))
          BY <4>2, <1>g
        <5> QED
          BY <3>6, <3>7, <5>1, <5>2, <5>3
      <4> QED
        BY <4>1, <4>2, <1>g
    <3>9. Placed'
      BY <1>c, <2>1, <2>2, <2>3, <2>4, <3>1 DEF Placed
    <3>a. (\A i \in 1..Len(buf) : buf[i] = ImagePage(P * Count(pos) + i))'
      BY <2>3, <2>4, <3>7, <3>8
    <3>b. next' = Len(file') + 1 /\ next' <= P * Count(pos)' + Len(buf') + 1
      BY <2>1, <2>2, <2>3, <3>2, <3>4, <3>7, <1>g
    <3>10. Pending'
      BY <2>1, <3>1, <3>3, <3>a, <3>b, <1>g DEF Pending, InBlock
    <3> QED
      BY <3>1, <3>9, <3>10
  <2> QED
    BY <2>5, <2>6
<1>4. CASE Reopen
  <2>1. /\ pass' = 2 /\ next' = 1 /\ pos' = 0 /\ buf' = <<>> /\ pc' = "feed" /\ pc = "close"
        /\ UNCHANGED <<file, op>>
    BY <1>4 DEF Reopen
  <2>2. op = "restore"
    BY <2>1 DEF Writing, Active
  <2> QED
    BY <1>e, <1>g, <2>1, <2>2
<1>i. ASSUME InBlock, InBlock', UNCHANGED <<file, op, pass, next, buf>>,
             \A b \in Block : b # pos => flash'[b] = flash[b],
             pos' = pos \/ (pos' = pos + 1 /\ pos < NB /\ ~Readable(pos))
      PROVE  Goal
  <2>1. Placed' /\ Pending' /\ pc' # "close"
    BY <1>i, <1>c, InsideBlock DEF InBlock
  <2> QED
    BY <2>1
<1>r. ASSUME Retry, pc \in {"erase", "verify"}, InBlock', UNCHANGED <<file, op, pass, next, buf>>
      PROVE  Goal
  <2>1. driver = "mtd"
    BY <1>r DEF Shape, OpOfDriver, TypeOK
  <2>2. \A b \in Block : b # pos => flash'[b] = flash[b]
    BY <1>r, RetryLemma
  <2>3. CASE retry = 0
    BY <1>i, <1>r, <2>2, <2>3 DEF Retry, InBlock
  <2>4. CASE retry = 1
    <3>1. Skip
      BY <1>r, <2>1, <2>4 DEF Retry
    <3>2. ~Readable(pos) /\ pos < NB /\ pos' = pos + 1
      BY <1>r, <2>1, <3>1 DEF Skip, Shape, PositionSafe
    <3> QED
      BY <1>i, <1>r, <2>2, <3>2 DEF InBlock
  <2> QED
    BY <2>3, <2>4 DEF Shape, TypeOK
<1>5. CASE WriteBlock
  <2>1. /\ pc = "block" /\ UNCHANGED <<flash, file, op, pass, next, buf>>
        /\ pc' \in {"block", "erase"}
    BY <1>5 DEF WriteBlock, feeding, Return, Active, InBlock
  <2>2. pos' = pos \/ (pos' = pos + 1 /\ pos < NB /\ ~Readable(pos))
    <3>1. pos' = pos \/ (Skip /\ ~(driver = "mtd" /\ pos >= NB) /\ driver = "mtd")
      BY <1>5 DEF WriteBlock
    <3> QED
      BY <1>g, <3>1 DEF Skip
  <2> QED
    BY <1>i, <2>1, <2>2 DEF InBlock
<1>6. CASE MemErase
  <2>1. /\ pc = "erase" /\ UNCHANGED <<file, op, pass, next, buf>> /\ InBlock
        /\ \A b \in Block : b # pos => flash'[b] = flash[b]
    BY <1>6, OtherBlocks DEF MemErase, InBlock
  <2>2. InBlock'
    BY <1>6 DEF MemErase, Retry, Return, Active, InBlock
  <2>3. CASE pos' = pos
    BY <1>i, <2>1, <2>2, <2>3
  <2>4. CASE Retry
    BY <1>r, <2>1, <2>2, <2>4
  <2> QED
    BY <1>6, <2>3, <2>4 DEF MemErase
<1>7. CASE Program
  BY <1>7, <1>i, OtherBlocks DEF Program, InBlock
<1>8. CASE Verify
  <2>1. pc = "verify" /\ UNCHANGED <<file, op, pass, next>> /\ InBlock
    BY <1>8, OtherBlocks DEF Verify, InBlock
  <2>2. CASE Retry /\ UNCHANGED buf
    <3>1. InBlock'
      BY <2>2 DEF Retry, Return, Active, InBlock
    <3> QED
      BY <1>r, <2>1, <2>2, <3>1
  <2>3. CASE /\ flash[pos] = buf /\ pos \notin worn
             /\ buf' = <<>> /\ pos' = pos + 1 /\ pc' = "feed"
             /\ UNCHANGED <<flash, retry, result>>
    <3>1. Placed /\ Pending /\ Len(buf) = P
      BY <2>1 DEF Writing, Active, InBlock, Shape, BufferFull
    <3>2. Readable(pos) /\ pos < NB
      BY <2>1, <2>3 DEF Readable, Shape, PositionSafe, OpOfDriver, TypeOK
    <3>3. /\ Numbered(pos + 1) /\ Count(pos + 1) = Count(pos) + 1
          /\ P * (Count(pos) + 1) = P * Count(pos) + P
      BY <3>1, <3>2, <1>g, Advance, TimesP DEF Placed
    <3>4. Count(pos)' = Count(pos) + 1 /\ Numbered(pos)' /\ Len(buf') = 0
      BY <1>c, <2>3, <3>3, EmptySeq DEF Numbered
    <3>5. \A n : ImagePage(n)' = ImagePage(n)
      BY <2>1, ImageKept
    <3>6. \A i \in 1..P : flash[pos][i] = ImagePage(P * Count(pos) + i)
      BY <2>3, <3>1 DEF Pending
    <3>7. \A b \in 0..pos : Readable(b) =>
              \A i \in 1..P : flash[b][i] = ImagePage(P * Count(b) + i)
      <4> SUFFICES ASSUME NEW b \in 0..pos, Readable(b), NEW i \in 1..P
                   PROVE  flash[b][i] = ImagePage(P * Count(b) + i)
        OBVIOUS
      <4>1. b = pos \/ b \in 0..(pos - 1)
        BY <1>g
      <4> QED
        BY <3>1, <3>6, <4>1 DEF Placed
    <3>8. Placed'
      BY <1>c, <1>g, <2>1, <2>3, <3>1, <3>2, <3>4, <3>5, <3>7 DEF Placed
    <3>a. \A i \in 1..Len(buf') : FALSE
      BY <3>4
    <3>b. /\ P * Count(pos)' = P * Count(pos) + P
          /\ buf # <<>> /\ (pass = 2 => Count(pos) = 0)
      BY <1>g, <3>1, <3>3, <3>4, EmptySeq DEF Pending
    <3>c. \/ next' = P * Count(pos)' + Len(buf') + 1
          \/ /\ pass' = 1 /\ next' = Len(file') + 1
             /\ next' <= P * Count(pos)' + Len(buf') + 1 /\ buf' = <<>>
      BY <1>g, <2>1, <2>3, <3>1, <3>4, <3>b DEF Pending
    <3>d. pass' = 1 => next' <= Len(file') + 1
      BY <2>1, <3>1 DEF Pending
    <3>9. Pending'
      BY <1>g, <2>1, <2>3, <3>4, <3>a, <3>b, <3>c, <3>d DEF Pending, InBlock
    <3> QED
      BY <2>3, <3>8, <3>9
  <2> QED
    BY <1>8, <2>2, <2>3 DEF Verify
<1>9. CASE UNCHANGED vars
  <2>1. UNCHANGED <<flash, file, op, pass, next, buf, pos, pc, skipped>>
    BY <1>9 DEF vars, media, feeding, writing
  <2>2. Count(pos)' = Count(pos) /\ Numbered(pos)' = Numbered(pos)
    BY <1>c, <2>1 DEF Numbered
  <2>3. (\A n : ImagePage(n)' = ImagePage(n)) /\ Active
    BY <2>1, ImageKept DEF Active, InBlock
  <2>4. Placed /\ IF pc = "close" THEN op = "restore" /\ Len(file) <= P * Count(pos)
                  ELSE Pending
    BY <2>1, <2>3 DEF Writing
  <2>5. Placed'
    BY <1>c, <2>1, <2>2, <2>3, <2>4 DEF Placed
  <2>6. pc # "close" => Pending'
    BY <2>1, <2>2, <2>3, <2>4 DEF Pending, InBlock
  <2> QED
    BY <2>1, <2>2, <2>4, <2>5, <2>6
<1>10. ASSUME StartErase \/ StartBackup \/ StartFlash \/ StartDump \/ Crash \/ ReadShort
              \/ FlashBlock \/ EraseBlocks \/ BackupBlock \/ DumpBlock
       PROVE  FALSE
  BY <1>10 DEF Begin, Return, StartErase, StartBackup, StartFlash, StartDump, Crash,
               ReadShort, FlashBlock, EraseBlocks, BackupBlock, DumpBlock, Active, InBlock
<1> QED
  BY <1>1, <1>2, <1>3, <1>4, <1>5, <1>6, <1>7, <1>8, <1>9, <1>10 DEF Next, User, Work

\* What is shown stays so while only blocks before the n-th change.
LEMMA ShownKept ==
    ASSUME NEW n, ShownFrom(n), UNCHANGED <<bad, worn, file>>,
           \A b \in Part : Readable(b) /\ Count(b) >= n /\ flash'[b] # flash[b] =>
               \A i \in 1..P : ~(P * Count(b) + i <= Len(file))
    PROVE  Fits' /\ \A b \in Part : (Readable(b) /\ Count(b) >= n => Shows(b))'
<1>1. \A b : Readable(b)' = Readable(b) /\ Count(b)' = Count(b)
  BY CountKept
<1>2. Fits'
  BY <1>1 DEF ShownFrom, Fits
<1>3. ASSUME NEW b \in Part, Readable(b), Count(b) >= n PROVE Shows(b)'
  BY <1>1, <1>3 DEF ShownFrom, Shows
<1> QED
  BY <1>1, <1>2, <1>3

\* The image is complete when the writer is past its end.
LEMMA PatchShown ==
    ASSUME Shape, Writing, Clean, WriteClose, buf = <<>>, pass = 1
    PROVE  pos <= NB /\ Placed /\ Len(file) <= P * Count(pos)
<1>1. /\ pc = "feed" /\ op \in {"restore", "patch"} /\ next > Len(file)
      /\ pos \in Nat /\ next \in Nat /\ Len(file) \in Nat
  BY LenProperties DEF WriteClose, LastPage, Shape, TypeOK
<1>2. Placed /\ Pending /\ Len(buf) = 0
  BY <1>1, EmptySeq DEF Writing, Active
<1>3. Count(pos) \in Nat
  BY <1>1, CountType
<1>4. P * Count(pos) \in Nat
  BY <1>3, TimesP
<1> QED
  BY <1>1, <1>2, <1>4 DEF Pending, Placed

LEMMA NextWiping == Shape /\ Writing /\ Wiping /\ [Next]_vars => Wiping'
<1> SUFFICES ASSUME Shape, Writing, Wiping, [Next]_vars, pc' = "wipe"
             PROVE  /\ op' \in {"patch", "erase"}
                    /\ op' = "patch" /\ Clean' => /\ pos' <= NB
                                                   /\ Len(file') <= P * Count(pos)'
                                                   /\ ShownFrom(0)'
  BY DEF Wiping
<1>c. /\ UNCHANGED <<bad, worn, driver>>
      /\ \A b : Readable(b)' = Readable(b) /\ Count(b)' = Count(b)
  BY MediaKept, CountKept
<1>w. Clean' => (pc # "idle" => Clean) /\ (skipped' = skipped => Clean)
  BY CleanStep
<1>1. CASE StartErase
  BY <1>1 DEF StartErase, Begin
<1>2. CASE WriteClose
  <2>1. /\ op = "patch" /\ buf = <<>> /\ pc = "feed"
        /\ UNCHANGED <<flash, file, op, pos>>
    BY <1>2 DEF WriteClose, Return, feeding
  <2> SUFFICES ASSUME Clean'
               PROVE  pos' <= NB /\ Len(file') <= P * Count(pos)' /\ ShownFrom(0)'
    BY <2>1
  <2>c. Clean
    BY <1>w, <2>1
  <2>2. Placed
    BY <2>1, <2>c DEF Writing, Active
  <2>3. pass = 1
    BY <2>1, <2>2 DEF Placed
  <2>4. pos <= NB /\ Len(file) <= P * Count(pos)
    BY <1>2, <2>1, <2>3, <2>c, PatchShown
  <2>5. ShownFrom(0)
    BY <2>1, <2>2, <2>4, AllShown DEF ShownFrom
  <2>6. Fits' /\ \A b \in Part : (Readable(b) /\ Count(b) >= 0 => Shows(b))'
    BY <1>c, <2>1, <2>5, ShownKept
  <2> QED
    BY <1>c, <2>1, <2>4, <2>6 DEF ShownFrom
<1>3. CASE EraseBlocks
  <2>1. /\ pc = "wipe" /\ pos < NB /\ pos' = pos + 1 /\ UNCHANGED <<file, op>>
        /\ flash' \in {flash, [flash EXCEPT ![pos] = Erased]}
    BY <1>3 DEF EraseBlocks, Return, feeding
  <2> SUFFICES ASSUME op = "patch", Clean'
               PROVE  pos' <= NB /\ Len(file') <= P * Count(pos)' /\ ShownFrom(0)'
    BY <2>1 DEF Wiping
  <2>2. Len(file) <= P * Count(pos) /\ ShownFrom(0)
    BY <1>w, <2>1 DEF Wiping
  <2>3. pos \in Nat /\ pos + 1 \in Nat /\ NB \in Nat /\ Len(file) \in Nat
    BY Geometry, LenProperties DEF Shape, TypeOK
  <2>b. pos <= pos + 1
    BY <2>3
  <2>a. Count(pos) \in Nat /\ Count(pos + 1) \in Nat
    BY <2>3, CountType
  <2>4. Count(pos) \in Nat /\ Count(pos + 1) \in Nat /\ Count(pos) <= Count(pos + 1)
    BY <2>3, <2>a, <2>b, CountOrder
  <2>5. /\ P * Count(pos) <= P * Count(pos + 1)
        /\ P * Count(pos) \in Nat /\ P * Count(pos + 1) \in Nat
    BY <2>4, TimesP
  <2>6. Count(pos)' = Count(pos + 1)
    BY <1>c, <2>1
  <2>7. \A b \in Part : Readable(b) /\ Count(b) >= 0 /\ flash'[b] # flash[b] =>
            \A i \in 1..P : ~(P * Count(b) + i <= Len(file))
    <3> SUFFICES ASSUME NEW b \in Part, flash'[b] # flash[b], NEW i \in 1..P
                 PROVE  ~(P * Count(b) + i <= Len(file))
      OBVIOUS
    <3>a. b \in Block
      BY Geometry DEF Block
    <3>1. b = pos
      BY <2>1, <3>a DEF Shape, TypeOK
    <3> QED
      BY <2>2, <2>3, <2>5, <3>1, Geometry
  <2>8. Fits' /\ \A b \in Part : (Readable(b) /\ Count(b) >= 0 => Shows(b))'
    BY <1>c, <2>1, <2>2, <2>7, ShownKept
  <2>9. Len(file') <= P * Count(pos)'
    BY <2>1, <2>2, <2>3, <2>5, <2>6
  <2> QED
    BY <2>1, <2>3, <2>8, <2>9 DEF ShownFrom
<1>4. CASE UNCHANGED vars
  <2>1. UNCHANGED <<flash, file, op, pos, pc, skipped>>
    BY <1>4 DEF vars, media, feeding, writing
  <2>2. op = "patch" /\ Clean' =>
            Fits' /\ \A b \in Part : (Readable(b) /\ Count(b) >= 0 => Shows(b))'
    BY <1>c, <1>w, <2>1, ShownKept DEF Wiping
  <2> QED
    BY <1>c, <1>w, <2>1, <2>2 DEF Wiping, ShownFrom
<1> QED
  BY <1>1, <1>2, <1>3, <1>4
     DEF Next, User, Work, Begin, Return, Crash, StartWrite, StartBackup,
         StartFlash, StartDump, WriteData, ReadShort, Reopen, FlashBlock,
         WriteBlock, MemErase, Program, Verify, Retry, BackupBlock, DumpBlock

\* While a restore is past its first block there are zeros for a header.
ActiveNoHeader == Active => NoHeader

LEMMA WritingNoHeader == Shape /\ Writing => ActiveNoHeader
<1> SUFFICES ASSUME Shape, Writing, Active, Clean, op = "restore", file # <<>>,
                    pass = 1, next > P + 1
             PROVE  \E b \in Part : Readable(b) /\ Count(b) = 0 /\ flash[b][1] = Zero
  BY DEF ActiveNoHeader, NoHeader
<1>1. /\ P \in Nat /\ P > 0 /\ NB \in Nat /\ Part = 0..(NB - 1) /\ pos \in Nat
      /\ next \in Nat /\ file \in Seq(Int) /\ Len(buf) \in Nat
  BY Geometry, LenProperties DEF Shape, TypeOK
<1>2. Placed /\ (pc = "close" => Len(file) <= P * Count(pos)) /\ (pc # "close" => Pending)
  BY DEF Writing
<1>3. Count(pos) \in Nat /\ Len(file) \in Nat /\ Len(file) > 0
  <2>1. Len(file) \in Nat /\ Len(file) # 0
    BY <1>1, LenProperties, EmptySeq
  <2>2. Count(pos) \in Nat
    BY <1>1, CountType
  <2> QED
    BY <2>1, <2>2
<1>4. Count(pos) >= 1
  <2> SUFFICES ASSUME Count(pos) = 0 PROVE FALSE
    BY <1>3
  <2>1. P * Count(pos) = 0
    BY <1>1
  <2>2. pc # "close" /\ Pending
    BY <1>2, <1>3, <2>1
  <2>3. Len(buf) <= P
    BY <1>1, <2>2 DEF Shape, BufferFull, Active, InBlock
  <2>4. next <= Len(buf) + 1
    BY <1>1, <2>1, <2>2 DEF Pending
  <2> QED
    BY <1>1, <2>3, <2>4
<1>5. 0 \in 0..(Count(pos) - 1)
  BY <1>3, <1>4
<1>6. PICK b \in 0..(pos - 1) : Readable(b) /\ Count(b) = 0
  BY <1>2, <1>5 DEF Placed, Numbered
<1>7. b \in Part /\ 1 \in 1..P
  BY <1>1, <1>2 DEF Placed
<1>8. P * Count(b) + 1 = 1
  BY <1>1, <1>6
<1>9. flash[b][1] = ImagePage(1)
  BY <1>2, <1>6, <1>7, <1>8 DEF Placed
<1>10. ImagePage(1) = Zero
  BY <1>3 DEF ImagePage, PageOf
<1> QED
  BY <1>6, <1>7, <1>9, <1>10

LEMMA NextHeaders ==
    Shape /\ Writing /\ Wiping /\ Reading /\ Headers /\ [Next]_vars => Headers'
<1> SUFFICES ASSUME Shape, Writing, Wiping, Reading, Headers, [Next]_vars, Clean',
                    op' = "restore", file' # <<>>
             PROVE  Headers'
  BY DEF Headers, NoHeader
<1>c. /\ UNCHANGED <<bad, worn, driver>>
      /\ \A b : Readable(b)' = Readable(b) /\ Count(b)' = Count(b)
  BY MediaKept, CountKept
<1>p. Shape' /\ Writing'
  BY NextShape, NextWriting
<1>a. Active' => NoHeader'
  <2>1. ActiveNoHeader'
    <3>1. Shape' /\ Writing' => ActiveNoHeader'
      BY WritingNoHeader, PTL
    <3> QED
      BY <1>p, <3>1
  <2> QED
    BY <2>1 DEF ActiveNoHeader
<1>w. /\ pc # "idle" => Clean
      /\ skipped' = skipped => Clean
      /\ Skip => ~Readable(pos)
  BY CleanStep
<1> USE <1>w
<1>s. ASSUME pass = 2, Clean, op = "restore", UNCHANGED <<file, op, pass>>,
             \A b \in Part : Readable(b) /\ Count(b) >= 1 => flash'[b] = flash[b]
      PROVE  ShownFrom(1)'
  <2>1. ShownFrom(1)
    BY <1>s DEF Headers
  <2>2. Fits' /\ \A b \in Part : (Readable(b) /\ Count(b) >= 1 => Shows(b))'
    BY <1>c, <1>s, <2>1, ShownKept
  <2> QED
    BY <2>2 DEF ShownFrom
<1>k. ASSUME Clean, UNCHANGED <<flash, file, op, pass, next>> PROVE Headers'
  <2>1. NoHeader'
    BY <1>c, <1>k DEF Headers, NoHeader
  <2>2. pass' = 2 => ShownFrom(1)'
    BY <1>k, <1>s
  <2> QED
    BY <2>1, <2>2 DEF Headers
<1>1. CASE StartWrite
  <2>1. Begin("restore", "feed")
    BY <1>1 DEF StartWrite, Begin
  <2> QED
    BY <2>1, Geometry DEF Begin, Headers, NoHeader
<1>2. CASE WriteData
  <2>1. UNCHANGED <<flash, file, op, pass>> /\ Active' /\ Clean
    BY <1>2 DEF WriteData, Active, InBlock
  <2>2. pass' = 2 => ShownFrom(1)'
    BY <1>s, <2>1
  <2> QED
    BY <1>a, <2>1, <2>2 DEF Headers
<1>3. CASE Reopen
  <2>1. pc = "close" /\ pass' = 2 /\ UNCHANGED <<flash, file, op>>
    BY <1>3 DEF Reopen
  <2>2. op = "restore" /\ Placed /\ Len(file) <= P * Count(pos)
    BY <2>1 DEF Writing, Active
  <2>3. ShownFrom(1)
    BY <2>2, AllShown DEF ShownFrom
  <2>4. Fits' /\ \A b \in Part : (Readable(b) /\ Count(b) >= 1 => Shows(b))'
    BY <1>c, <2>1, <2>3, ShownKept
  <2>5. ShownFrom(1)'
    BY <2>4 DEF ShownFrom
  <2> QED
    BY <2>1, <2>5 DEF Headers, NoHeader
<1>4. CASE MemErase \/ Program \/ Verify
  <2>1. /\ UNCHANGED <<file, op, pass, next>> /\ InBlock /\ Active /\ Clean
        /\ \A b \in Block : b # pos => flash'[b] = flash[b]
    BY <1>4, OtherBlocks DEF MemErase, Program, Verify, InBlock, Active
  <2>2. driver = "mtd"
    BY <2>1 DEF Shape, OpOfDriver, TypeOK, InBlock
  <2>3. Active'
    BY <1>4, <2>2 DEF MemErase, Program, Verify, Retry, Active, InBlock
  <2>4. ASSUME pass = 2 PROVE ShownFrom(1)'
    <3>1. Pending /\ Len(buf) = P
      BY <2>1 DEF Writing, InBlock, Shape, BufferFull
    <3>2. Count(pos) = 0
      BY <2>4, <3>1, Geometry, EmptySeq DEF Pending
    <3>3. \A b \in Part : b \in Block
      BY Geometry DEF Block
    <3> QED
      BY <1>s, <2>1, <2>4, <3>2, <3>3
  <2> QED
    BY <1>a, <2>1, <2>3, <2>4 DEF Headers
<1>5. ASSUME EraseBlocks \/ BackupBlock \/ DumpBlock \/ FlashBlock \/ StartErase
             \/ StartBackup \/ StartFlash \/ StartDump
      PROVE  FALSE
  BY <1>5 DEF EraseBlocks, BackupBlock, DumpBlock, FlashBlock, StartErase, StartBackup,
              StartFlash, StartDump, Begin, feeding, Wiping
<1>6. CASE WriteClose \/ WriteBlock \/ ReadShort \/ Crash \/ UNCHANGED vars
  <2>1. UNCHANGED <<flash, file, op, pass, next>> /\ (pc # "idle" \/ skipped' = skipped)
    BY <1>6 DEF WriteClose, WriteBlock, ReadShort, Crash, vars, feeding, writing
  <2> QED
    BY <1>k, <2>1
<1> QED
  BY <1>1, <1>2, <1>3, <1>4, <1>5, <1>6 DEF Next, User, Work

LEMMA NextReading == Shape /\ Reading /\ [Next]_vars => Reading'
<1> SUFFICES ASSUME Shape, Reading, [Next]_vars, pc' = "read"
             PROVE  /\ pos' <= NB /\ op' \in {"backup", "dump"}
                    /\ op' = "backup" /\ Clean' => Copied(pos)'
                    /\ op' = "dump" => Dumped(pos)'
  BY DEF Reading
<1>c. /\ UNCHANGED <<bad, worn, driver>>
      /\ \A b : Readable(b)' = Readable(b) /\ Count(b)' = Count(b)
  BY MediaKept, CountKept
<1>w. Clean' => /\ pc # "idle" => Clean
                /\ skipped' = skipped => Clean
                /\ Skip => ~Readable(pos)
  BY CleanStep
<1>g. /\ P \in Nat /\ P > 0 /\ NB \in Nat /\ NR \in Nat /\ pos \in Nat
      /\ Block = 0..(NB + NR - 1) /\ Part = 0..(NB - 1)
      /\ flash \in [Block -> [1..P -> Int]] /\ file \in Seq(Int) /\ Len(file) \in Nat
      /\ Count(0) = 0 /\ Numbered(0)' /\ P * 0 = 0
  <2>1. Numbered(0)'
    BY <1>c, NumberedNone DEF Numbered
  <2>2. Count(0) = 0
    BY NumberedNone
  <2>3. /\ P \in Nat /\ P > 0 /\ NB \in Nat /\ NR \in Nat
        /\ Block = 0..(NB + NR - 1) /\ Part = 0..(NB - 1)
    BY Geometry DEF Block
  <2>4. pos \in Nat /\ flash \in [Block -> [1..P -> Int]] /\ file \in Seq(Int)
    BY DEF Shape, TypeOK
  <2>5. Len(file) \in Nat
    BY <2>4, LenProperties
  <2>6. P * 0 = 0
    BY <2>3
  <2> QED
    BY <2>1, <2>2, <2>3, <2>4, <2>5, <2>6
<1>1. CASE StartBackup \/ StartDump
  <2>1. pos' = 0 /\ file' = <<>> /\ op' \in {"backup", "dump"}
    BY <1>1 DEF StartBackup, StartDump, Begin, Return
  <2>2. Count(pos)' = 0 /\ Numbered(pos)' /\ Len(file') = 0
    BY <1>c, <1>g, <2>1, EmptySeq
  <2>3. Copied(pos)' /\ Dumped(pos)'
    BY <1>g, <2>1, <2>2 DEF Copied, Dumped
  <2> QED
    BY <1>g, <2>1, <2>3
<1>2. CASE BackupBlock
  <2>a. /\ pc = "read" /\ pos < NB /\ pos' = pos + 1 /\ op = "backup"
        /\ UNCHANGED <<flash, op>>
        /\ \/ Readable(pos) /\ file' = file \o flash[pos]
           \/ Skip /\ file' = file
    BY <1>2 DEF BackupBlock, Return, Skip, feeding
  <2> SUFFICES ASSUME Clean' PROVE Copied(pos)'
    BY <1>g, <2>a
  <2>1. /\ pos < NB /\ pos' = pos + 1 /\ op = "backup" /\ UNCHANGED <<flash, op>>
        /\ file' = IF Readable(pos) THEN file \o flash[pos] ELSE file
        /\ Copied(pos) /\ pos \in Block
    BY <1>w, <1>g, <2>a DEF Reading
  <2>2. /\ Numbered(pos + 1) /\ Count(pos) \in Nat
        /\ Count(pos + 1) = IF Readable(pos) THEN Count(pos) + 1 ELSE Count(pos)
    BY <1>g, <2>1, Advance DEF Copied
  <2>3. Count(pos)' = Count(pos + 1) /\ Numbered(pos)'
    BY <1>c, <2>1, <2>2 DEF Numbered
  <2>4. flash[pos] \in Seq(Int) /\ Len(flash[pos]) = P
    BY <1>g, <2>1, BlockSeq
  <2>5. Len(file) = P * Count(pos) /\ P * (Count(pos) + 1) = P * Count(pos) + P
    BY <2>1, <2>2, TimesP DEF Copied
  <2>6. CASE Readable(pos)
    <3>1. /\ Len(file') = Len(file) + P
          /\ \A k \in 1..Len(file) : file'[k] = file[k]
          /\ \A i \in 1..P : file'[Len(file) + i] = flash[pos][i]
      BY <1>g, <2>1, <2>4, <2>6, Joined
    <3>2. ASSUME NEW b \in 0..pos, Readable(b), NEW i \in 1..P
          PROVE  file'[P * Count(b) + i] = flash[b][i]
      <4>1. CASE b = pos
        BY <2>5, <3>1, <4>1
      <4>2. CASE b # pos
        <5>1. b \in Nat /\ b < pos /\ b \in 0..(pos - 1)
          BY <1>g, <4>2
        <5>2. Count(b) \in Nat
          BY <5>1, CountType
        <5>3. Count(b) < Count(pos)
          BY <1>g, <3>2, <5>1, CountOrder
        <5>5. P * Count(b) + i \in 1..Len(file)
          BY <2>2, <2>5, <5>2, <5>3, PageInside
        <5>6. file[P * Count(b) + i] = flash[b][i]
          BY <2>1, <3>2, <5>1 DEF Copied
        <5> QED
          BY <3>1, <5>5, <5>6
      <4> QED
        BY <4>1, <4>2
    <3>3. Len(file') = P * Count(pos)'
      BY <2>2, <2>3, <2>5, <2>6, <3>1
    <3>4. \A b \in 0..(pos' - 1) : b \in 0..pos
      BY <1>g, <2>1
    <3>5. Copied(pos)'
      BY <1>c, <2>1, <2>3, <3>2, <3>3, <3>4 DEF Copied
    <3> QED
      BY <1>g, <2>1, <3>5
  <2>7. CASE ~Readable(pos)
    <3>1. \A b \in 0..(pos' - 1) : Readable(b) => b \in 0..(pos - 1)
      BY <1>g, <2>1, <2>7
    <3>2. Copied(pos)'
      BY <1>c, <2>1, <2>2, <2>3, <2>7, <3>1 DEF Copied
    <3> QED
      BY <1>g, <2>1, <3>2
  <2> QED
    BY <2>6, <2>7
<1>3. CASE DumpBlock
  <2>1. /\ pos < NB /\ pos' = pos + 1 /\ op = "dump" /\ UNCHANGED <<flash, op, mapping>>
        /\ file' = file \o flash[Dest(pos)]
        /\ Dumped(pos) /\ pos \in Part /\ pc = "read"
    <3>1. /\ pos < NB /\ pos' = pos + 1 /\ op = "dump" /\ UNCHANGED <<flash, op, mapping>>
          /\ file' = file \o flash[Dest(pos)] /\ pc = "read"
      BY <1>3 DEF DumpBlock, Return, feeding
    <3>2. Dumped(pos) /\ pos \in Part
      BY <1>g, <3>1 DEF Reading
    <3> QED
      BY <3>1, <3>2
  <2>2. \A b : Dest(b)' = Dest(b)
    BY <2>1 DEF Dest
  <2>3. Dest(pos) \in Block
    BY <2>1, DestBlock DEF Shape, OpOfDriver, TypeOK
  <2>4. flash[Dest(pos)] \in Seq(Int) /\ Len(flash[Dest(pos)]) = P
    BY <1>g, <2>3, BlockSeq
  <2>5. Len(file) = P * pos /\ P * (pos + 1) = P * pos + P
    BY <1>g, <2>1, TimesP DEF Dumped
  <2>6. /\ Len(file') = Len(file) + P
        /\ \A k \in 1..Len(file) : file'[k] = file[k]
        /\ \A i \in 1..P : file'[Len(file) + i] = flash[Dest(pos)][i]
    BY <1>g, <2>1, <2>4, Joined
  <2>7. ASSUME NEW b \in 0..pos, NEW i \in 1..P
        PROVE  file'[P * b + i] = flash[Dest(b)][i]
    <3>1. CASE b = pos
      BY <2>5, <2>6, <3>1
    <3>2. CASE b # pos
      <4>1. b \in Nat /\ b < pos /\ b \in 0..(pos - 1)
        BY <1>g, <3>2
      <4>3. P * b + i \in 1..Len(file)
        BY <1>g, <2>5, <4>1, PageInside
      <4>4. file[P * b + i] = flash[Dest(b)][i]
        BY <2>1, <4>1 DEF Dumped
      <4> QED
        BY <2>6, <4>3, <4>4
    <3> QED
      BY <3>1, <3>2
  <2>8. \A b \in 0..(pos' - 1) : b \in 0..pos
    BY <1>g, <2>1
  <2>9. Dumped(pos)'
    BY <2>1, <2>2, <2>5, <2>6, <2>7, <2>8 DEF Dumped
  <2> QED
    BY <1>g, <2>1, <2>9
<1>4. CASE UNCHANGED vars
  <2>1. UNCHANGED <<flash, file, op, pos, pc, mapping, skipped>>
    BY <1>4 DEF vars, media, feeding, writing
  <2>2. Numbered(pos)' = Numbered(pos) /\ Count(pos)' = Count(pos)
    BY <1>c, <2>1 DEF Numbered
  <2>3. Copied(pos) => Copied(pos)'
    BY <1>c, <2>1, <2>2 DEF Copied
  <2>4. Dumped(pos) => Dumped(pos)'
    BY <2>1 DEF Dumped, Dest
  <2> QED
    BY <1>w, <2>1, <2>3, <2>4 DEF Reading
<1> QED
  BY <1>1, <1>2, <1>3, <1>4
     DEF Next, User, Work, Begin, Return, Crash, StartWrite, StartErase,
         StartFlash, WriteData, ReadShort, WriteClose, Reopen, FlashBlock,
         WriteBlock, MemErase, Program, Verify, Retry, EraseBlocks

LEMMA NextFlashing == Shape /\ Flashing /\ [Next]_vars => Flashing'
<1> SUFFICES ASSUME Shape, Flashing, [Next]_vars, op' = "flash", pc' # "idle", Distinct'
             PROVE  Flashing'
  BY DEF Flashing, InBlock
<1> DEFINE Loaded(n) == \A i \in 1..P : P * n + i <= Len(file) => buf[i] = file[P * n + i]
<1>c. UNCHANGED <<bad, worn, driver, table>>
  BY MediaKept
<1>d. mapping' = mapping => Distinct
  BY DEF Distinct, Dest
<1>g. /\ P \in Nat /\ P > 0 /\ NB \in Nat /\ NR \in Nat /\ next \in Nat
      /\ Block = 0..(NB + NR - 1) /\ Part = 0..(NB - 1)
      /\ flash \in [Block -> [1..P -> Int]] /\ file \in Seq(Int) /\ Len(file) \in Nat
  BY Geometry, LenProperties DEF Shape, TypeOK, Block
<1>1. CASE StartFlash
  <2>1. next' = 1 /\ pc' = "feed"
    BY <1>1 DEF StartFlash, Begin, Return
  <2>4. next' = P * 0 + 1 /\ Flashed(0)' /\ 0 \in 0..NB
    BY <1>g, <2>1 DEF Flashed
  <2> QED
    BY <2>1, <2>4 DEF Flashing, InBlock
<1>2. CASE FlashBlock
  <2>1. /\ next <= Len(file) /\ pc = "feed" /\ op = "flash"
        /\ buf' = [i \in 1..P |-> IF next + i - 1 <= Len(file)
                                  THEN file[next + i - 1] ELSE Blank]
        /\ pos' = Dest((next - 1) \div P)
        /\ next' = next + P /\ pc' = "block" /\ UNCHANGED <<flash, file, op, mapping>>
    BY <1>2 DEF FlashBlock, Return
  <2>3. PICK n \in 0..NB : next = P * n + 1 /\ Flashed(n)
    BY <1>d, <2>1 DEF Flashing
  <2>4. n \in Nat /\ P * n \in Nat /\ 1 \in 1..P
    BY <1>g, <2>3, TimesP
  <2>5. n \in Part
    <3> SUFFICES ASSUME n = NB PROVE FALSE
      BY <1>g
    <3>1. Len(file) <= NB * P /\ NB * P = P * NB
      BY <1>g, <2>1, TimesP DEF Shape, MappingSafe, OpOfDriver, TypeOK
    <3> QED
      BY <1>g, <2>1, <2>3, <2>4, <3>1
  <2>6. (next - 1) \div P = n
    BY <2>3, <2>4, PageUnique
  <2>7. Flashed(n)' /\ pos' = Dest(n)' /\ next' = P * n + P + 1
    BY <1>g, <2>1, <2>3, <2>4, <2>6 DEF Flashed, Dest
  <2>8. Loaded(n)'
    <3> SUFFICES ASSUME NEW i \in 1..P, P * n + i <= Len(file)
                 PROVE  buf'[i] = file[P * n + i]
      BY <2>1
    <3>1. next + i - 1 = P * n + i
      BY <1>g, <2>3, <2>4
    <3> QED
      BY <2>1, <3>1
  <2> QED
    BY <2>1, <2>5, <2>7, <2>8 DEF Flashing, InBlock
<1>i. ASSUME InBlock, InBlock', UNCHANGED <<file, op, next, buf, mapping>>, pos' = pos,
             \A b \in Block : b # pos => flash'[b] = flash[b]
      PROVE  Flashing'
  <2>1. Distinct /\ pc # "idle" /\ driver = "bml_over_mtd"
    BY <1>d, <1>i DEF InBlock, Shape, OpOfDriver, TypeOK
  <2>2. PICK n \in Part : next = P * n + P + 1 /\ Flashed(n) /\ pos = Dest(n) /\ Loaded(n)
    BY <1>i, <2>1 DEF Flashing
  <2>3. \A b : Dest(b)' = Dest(b)
    BY <1>i DEF Dest
  <2>4. \A b \in 0..(n - 1) : flash'[Dest(b)] = flash[Dest(b)]
    <3> TAKE b \in 0..(n - 1)
    <3>1. b \in Part /\ b # n
      BY <1>g
    <3>2. Dest(b) # pos /\ Dest(b) \in Block
      BY <2>1, <2>2, <3>1, DestBlock DEF Distinct
    <3> QED
      BY <1>i, <3>2
  <2>5. Flashed(n)'
    BY <1>i, <2>2, <2>3, <2>4 DEF Flashed
  <2> QED
    BY <1>i, <2>2, <2>3, <2>5 DEF Flashing, InBlock
<1>3. CASE WriteBlock
  <2>1. /\ pc = "block" /\ UNCHANGED <<flash, file, op, next, buf, mapping>>
    BY <1>3 DEF WriteBlock, feeding
  <2>2. driver = "bml_over_mtd"
    BY <2>1 DEF Shape, OpOfDriver, TypeOK
  <2>3. pc' = "erase" /\ pos' = pos
    BY <1>3, <2>2 DEF WriteBlock, Return
  <2> QED
    BY <1>i, <2>1, <2>3 DEF InBlock
<1>4. CASE MemErase \/ Program \/ Verify
  <2>1. /\ UNCHANGED <<file, op, next, mapping>> /\ InBlock
        /\ \A b \in Block : b # pos => flash'[b] = flash[b]
    BY <1>4, OtherBlocks DEF MemErase, Program, Verify, InBlock
  <2>2. driver = "bml_over_mtd"
    BY <2>1 DEF Shape, OpOfDriver, TypeOK, InBlock
  <2>3. CASE InBlock'
    <3>1. pos' = pos /\ buf' = buf
      BY <1>4, <2>2, <2>3 DEF MemErase, Program, Verify, Retry, Return, InBlock
    <3> QED
      BY <1>i, <2>1, <2>3, <3>1
  <2>4. CASE ~InBlock'
    <3>1. /\ pc = "verify" /\ flash[pos] = buf /\ flash' = flash /\ pc' = "feed"
      BY <1>4, <2>2, <2>4 DEF MemErase, Program, Verify, Retry, Return, InBlock
    <3>2. PICK n \in Part : next = P * n + P + 1 /\ Flashed(n) /\ pos = Dest(n) /\ Loaded(n)
      BY <1>d, <2>1 DEF Flashing
    <3>3. n \in Nat /\ n + 1 \in 0..NB /\ P * (n + 1) = P * n + P
      BY <1>g, TimesP
    <3>4. \A b : Dest(b)' = Dest(b)
      BY <2>1 DEF Dest
    <3>5. ASSUME NEW b \in 0..n, NEW i \in 1..P, P * b + i <= Len(file)
          PROVE  flash[Dest(b)][i] = file[P * b + i]
      <4>1. CASE b = n
        BY <3>1, <3>2, <3>5, <4>1
      <4>2. CASE b \in 0..(n - 1)
        BY <3>2, <3>5, <4>2 DEF Flashed
      <4>3. b = n \/ b \in 0..(n - 1)
        BY <3>3
      <4> QED
        BY <4>1, <4>2, <4>3
    <3>6. (n + 1) - 1 = n
      BY <3>3
    <3>7. Flashed(n + 1)'
      BY <2>1, <3>1, <3>4, <3>5, <3>6 DEF Flashed
    <3>9. next' = P * (n + 1) + 1
      BY <2>1, <3>2, <3>3
    <3> QED
      BY <3>1, <3>3, <3>7, <3>9 DEF Flashing, InBlock
  <2> QED
    BY <2>3, <2>4
<1>5. CASE UNCHANGED vars
  <2>1. UNCHANGED <<flash, file, op, next, buf, pos, pc, mapping>>
    BY <1>5 DEF vars, media, feeding, writing
  <2>2. \A b : Dest(b)' = Dest(b)
    BY <2>1 DEF Dest
  <2>3. \A n : Flashed(n)' = Flashed(n)
    BY <2>1, <2>2 DEF Flashed
  <2> QED
    BY <1>d, <2>1, <2>2, <2>3 DEF Flashing, InBlock
<1>6. ASSUME StartErase \/ StartBackup \/ StartWrite \/ StartDump \/ Crash \/ ReadShort
             \/ WriteData \/ WriteClose \/ BackupBlock \/ DumpBlock
      PROVE  FALSE
  BY <1>6 DEF Begin, Return, StartErase, StartBackup, StartWrite, StartDump, Crash,
              ReadShort, WriteData, WriteClose, BackupBlock, DumpBlock, feeding
<1>7. ASSUME Reopen \/ EraseBlocks PROVE FALSE
  BY <1>7 DEF Reopen, EraseBlocks, feeding, Shape, OpOfDriver, TypeOK
<1> QED
  BY <1>1, <1>2, <1>3, <1>4, <1>5, <1>6, <1>7 DEF Next, User, Work

\* An operation that succeeds has come to its end.
LEMMA NextSuccess ==
    Shape /\ Writing /\ Wiping /\ Headers /\ Reading /\ Flashing /\ Success
    /\ [Next]_vars => Success'
<1> SUFFICES ASSUME Shape, Writing, Wiping, Headers, Reading, Flashing, Success,
                    [Next]_vars, result' = "ok"
             PROVE  Success'
  BY DEF Success
<1>c. /\ UNCHANGED <<bad, worn, driver, table>>
      /\ \A b : Readable(b)' = Readable(b) /\ Count(b)' = Count(b)
      /\ \A n : Numbered(n)' = Numbered(n)
  <2>1. UNCHANGED <<bad, worn, driver, table>>
    BY MediaKept
  <2>2. \A b : Readable(b)' = Readable(b) /\ Count(b)' = Count(b)
    BY <2>1, CountKept
  <2> QED
    BY <2>1, <2>2 DEF Numbered
<1>g. /\ P \in Nat /\ P > 0 /\ NB \in Nat /\ pos \in Nat /\ next \in Nat
      /\ Part = 0..(NB - 1) /\ Len(file) \in Nat /\ file \in Seq(Int)
  BY Geometry, LenProperties DEF Shape, TypeOK
<1>w. Clean' => (pc # "idle" => Clean) /\ (skipped' = skipped => Clean)
  BY CleanStep
<1>d. Distinct' /\ mapping' = mapping => Distinct
  BY DEF Distinct, Dest
<1>k. ASSUME UNCHANGED <<flash, file, op, mapping>>
      PROVE  /\ ShownFrom(0) => ShownFrom(0)'
             /\ \A n : (Copied(n) => Copied(n)') /\ (Dumped(n) => Dumped(n)')
                       /\ (Flashed(n) => Flashed(n)')
  <2>1. \A b : Dest(b)' = Dest(b)
    BY <1>k DEF Dest
  <2>2. ASSUME ShownFrom(0) PROVE ShownFrom(0)'
    <3>1. Fits' /\ \A b \in Part : (Readable(b) /\ Count(b) >= 0 => Shows(b))'
      BY <1>c, <1>k, <2>2, ShownKept
    <3> QED
      BY <3>1 DEF ShownFrom
  <2>3. \A n : Copied(n) => Copied(n)'
    BY <1>c, <1>k DEF Copied
  <2>4. \A n : (Dumped(n) => Dumped(n)') /\ (Flashed(n) => Flashed(n)')
    BY <1>k, <2>1 DEF Dumped, Flashed
  <2> QED
    BY <2>2, <2>3, <2>4
<1>1. CASE WriteClose
  <2>1. /\ pc = "feed" /\ UNCHANGED <<flash, file, op, mapping>> /\ op = "restore"
        /\ pass = 2 /\ next > P /\ buf = <<>> /\ pc' = "idle"
    BY <1>1 DEF WriteClose, Return, feeding, LastPage, Success
  <2> SUFFICES ASSUME Clean' PROVE ShownFrom(0)'
    BY <2>1 DEF Success
  <2>c. Clean
    BY <1>w, <2>1
  <2>2. Placed /\ Pending /\ Len(buf) = 0
    BY <2>1, <2>c, EmptySeq DEF Writing, Active
  <2>3. Count(pos) \in Nat
    BY <1>g, CountType
  <2>4. Count(pos) = 1
    <3> SUFFICES ASSUME Count(pos) = 0 PROVE FALSE
      BY <2>1, <2>2 DEF Pending
    <3>1. P * Count(pos) = 0 /\ next = P * Count(pos) + Len(buf) + 1
      BY <1>g, <2>1, <2>2 DEF Pending
    <3> QED
      BY <1>g, <2>1, <2>2, <3>1
  <2>5. Fits /\ \A b \in Part : Readable(b) => Shows(b)
    <3>1. CASE file = <<>>
      <4>1. Len(file) = 0
        BY <3>1, EmptySeq
      <4>2. \A n \in 0..Len(file) : ~(P * n < Len(file))
        BY <1>g, <4>1
      <4>3. \A b \in Part : \A i \in 1..P : ~(P * Count(b) + i <= Len(file))
        <5> TAKE b \in Part
        <5>1. b \in Nat
          BY <1>g
        <5>2. Count(b) \in Nat
          BY <5>1, CountType
        <5>3. P * Count(b) \in Nat
          BY <5>2, TimesP
        <5> QED
          BY <1>g, <4>1, <5>3
      <4> QED
        BY <4>2, <4>3 DEF Fits, Shows
    <3>2. CASE file # <<>>
      <4>1. ShownFrom(1)
        BY <2>1, <2>c, <3>2 DEF Headers
      <4>2. ASSUME NEW b \in Part, Readable(b), Count(b) = 0, NEW i \in 1..P,
                   P * Count(b) + i <= Len(file)
            PROVE  flash[b][i] = file[P * Count(b) + i]
        <5>1. b \in Nat
          BY <1>g
        <5>2. pos <= b => Count(pos) <= Count(b)
          BY <1>g, <5>1, CountOrder
        <5>3. b \in 0..(pos - 1)
          BY <1>g, <2>4, <4>2, <5>1, <5>2
        <5>4. flash[b][i] = ImagePage(P * Count(b) + i)
          BY <2>2, <4>2, <5>3 DEF Placed
        <5> QED
          BY <2>1, <4>2, <5>4 DEF ImagePage, PageOf
      <4>3. \A b \in Part : Count(b) = 0 \/ Count(b) >= 1
        <5> TAKE b \in Part
        <5>1. b \in Nat
          BY <1>g
        <5>2. Count(b) \in Nat
          BY <5>1, CountType
        <5> QED
          BY <5>2
      <4> QED
        BY <4>1, <4>2, <4>3 DEF ShownFrom, Shows
    <3> QED
      BY <3>1, <3>2
  <2> QED
    BY <1>k, <2>1, <2>5 DEF ShownFrom
<1>2. CASE EraseBlocks
  <2>1. pc = "wipe" /\ UNCHANGED <<flash, file, op, mapping>> /\ pc' = "idle"
    BY <1>2 DEF EraseBlocks, Return, feeding, Success
  <2>2. op \in {"patch", "erase"} /\ (op = "patch" /\ Clean' => ShownFrom(0))
    BY <1>w, <2>1 DEF Wiping
  <2> QED
    BY <1>k, <2>1, <2>2 DEF Success
<1>3. CASE FlashBlock
  <2>1. /\ pc = "feed" /\ op = "flash" /\ next > Len(file) /\ pc' = "idle"
        /\ UNCHANGED <<flash, file, op, mapping>>
    BY <1>3 DEF FlashBlock, Return, Success
  <2> SUFFICES ASSUME Distinct' PROVE Flashed(NB)' /\ Len(file') <= NB * P
    BY <2>1 DEF Success
  <2>2. PICK n \in 0..NB : next = P * n + 1 /\ Flashed(n)
    BY <1>d, <2>1 DEF Flashing
  <2>3. Flashed(NB)
    <3> SUFFICES ASSUME NEW b \in 0..(NB - 1), NEW i \in 1..P, P * b + i <= Len(file)
                 PROVE  flash[Dest(b)][i] = file[P * b + i]
      BY DEF Flashed
    <3>1. b \in Nat /\ n \in Nat /\ P * b \in Nat /\ P * n \in Nat
      BY <1>g, TimesP
    <3>2. b < n
      <4> SUFFICES ASSUME n <= b PROVE FALSE
        BY <3>1
      <4>1. P * n <= P * b
        BY <3>1, TimesP
      <4>2. Len(file) \in Nat /\ Len(file) < P * n + 1 /\ i \in Nat /\ i >= 1 /\ P * b + i <= Len(file)
        BY <1>g, <2>1, <2>2
      <4> QED
        BY ONLY <3>1, <4>1, <4>2
    <3>3. b \in 0..(n - 1)
      BY <3>1, <3>2
    <3> QED
      BY <2>2, <3>3 DEF Flashed
  <2>4. Len(file) <= NB * P
    BY <2>1 DEF Shape, MappingSafe, OpOfDriver, TypeOK
  <2> QED
    BY <1>k, <2>1, <2>3, <2>4
<1>4. CASE BackupBlock
  <2>1. /\ pc = "read" /\ pc' = "idle" /\ op = "backup"
        /\ UNCHANGED <<flash, file, op, mapping>>
        /\ pos >= NB \/ skipped' = skipped \cup ((pos..(NB - 1)) \ bad)
    BY <1>4 DEF BackupBlock, Return, Success, feeding
  <2> SUFFICES ASSUME Clean' PROVE Copied(NB)'
    BY <2>1 DEF Success
  <2>2. Copied(pos) /\ pos <= NB
    BY <1>w, <2>1 DEF Reading
  <2>3. \A b \in 0..(NB - 1) : Readable(b) => b \in 0..(pos - 1)
    <3>1. skipped' \subseteq worn
      BY <1>c DEF Clean
    <3>2. \A b \in 0..(NB - 1) : b \in 0..(pos - 1) \/ b \in pos..(NB - 1)
      BY <1>g
    <3>3. \A b \in pos..(NB - 1) : ~Readable(b)
      BY <1>g, <2>1, <3>1 DEF Readable
    <3> QED
      BY <3>2, <3>3
  <2>4. Count(NB) = Count(pos)
    <3>1. {c \in 0..(NB - 1) : Readable(c)} = {c \in 0..(pos - 1) : Readable(c)}
      BY <1>g, <2>2, <2>3
    <3> QED
      BY <3>1 DEF Count
  <2>5. Numbered(NB)
    <3>1. \A b \in 0..(pos - 1) : b \in 0..(NB - 1)
      BY <1>g, <2>2
    <3> QED
      BY <2>2, <2>4, <3>1 DEF Copied, Numbered
  <2>6. Copied(NB)
    BY <2>2, <2>3, <2>4, <2>5 DEF Copied
  <2> QED
    BY <1>k, <2>1, <2>6
<1>8. CASE DumpBlock
  <2>1. /\ pc = "read" /\ pos >= NB /\ pc' = "idle" /\ op = "dump"
        /\ UNCHANGED <<flash, file, op, mapping>>
    BY <1>8 DEF DumpBlock, Return, Success, feeding
  <2>2. pos = NB
    BY <1>g, <2>1 DEF Reading
  <2> QED
    BY <1>k, <2>1, <2>2 DEF Success, Reading
<1>5. CASE UNCHANGED vars
  <2>1. UNCHANGED <<flash, file, op, mapping, pc, result, skipped>>
    BY <1>5 DEF vars, media, feeding, writing
  <2> QED
    BY <1>d, <1>k, <1>w, <2>1 DEF Success
<1>6. ASSUME StartWrite \/ StartErase \/ StartBackup \/ StartFlash \/ StartDump \/ Crash
             \/ ReadShort
      PROVE  FALSE
  BY <1>6 DEF StartWrite, StartErase, StartBackup, StartFlash, StartDump, Crash, ReadShort,
              Begin, Return
<1>7. ASSUME WriteData \/ Reopen \/ WriteBlock \/ MemErase \/ Program \/ Verify
      PROVE  FALSE
  BY <1>7 DEF WriteData, Reopen, WriteBlock, MemErase, Program, Verify, Retry, Return, Success
<1> QED
  BY <1>1, <1>2, <1>3, <1>4, <1>5, <1>6, <1>7, <1>8 DEF Next, User, Work

-----------------------------------------------------------------------------
(* The theorems *)

LEMMA InitDataInv == Init => DataInv
<1> SUFFICES ASSUME Init PROVE DataInv
  OBVIOUS
<1>1. op = "none" /\ pc = "idle" /\ result = "none"
  BY DEF Init
<1> QED
  BY <1>1 DEF DataInv, Writing, Active, InBlock, Wiping, Headers, NoHeader,
              Reading, Flashing, Success

\* Where the writer stands and what is where: the whole is an invariant, for
\* every geometry, image, table and set of bad and worn blocks.
THEOREM Invariance == Spec => []IInv
<1>1. Init => IInv
  BY InitShape, InitDataInv DEF IInv
<1>2. IInv /\ [Next]_vars => IInv'
  BY NextShape, NextWriting, NextWiping, NextHeaders, NextReading,
     NextFlashing, NextSuccess DEF IInv, DataInv
<1> QED
  BY <1>1, <1>2, PTL DEF Spec

\* A sequence given by a function has its domain's length.
LEMMA LenOf ==
    ASSUME NEW n \in Nat, NEW f, f = [k \in 1..n |-> f[k]]
    PROVE  Len(f) = n /\ DOMAIN f = 1..n
<1>1. f \in [1..n -> {f[k] : k \in 1..n}]
  OBVIOUS
<1>2. f \in Seq({f[k] : k \in 1..n})
  BY <1>1, SeqDef
<1> QED
  BY <1>1, <1>2, LenProperties

\* What the blocks show is what the reader sees.
LEMMA ShownVisible ==
    ASSUME Shape, NEW m \in Nat, ShownFrom(m), NEW k \in 1..Len(file), k > P * m
    PROVE  k \in DOMAIN Visible /\ Visible[k] = file[k]
<1> DEFINE n == (k - 1) \div P
           i == ((k - 1) % P) + 1
<1>0. P \in Nat /\ P > 0 /\ Len(file) \in Nat /\ k \in Nat \ {0}
  BY Geometry, LenProperties DEF Shape, TypeOK
<1>1. n \in Nat /\ i \in 1..P /\ k = P * n + i
  BY <1>0, PageSplit
<1> HIDE DEF n, i
<1>2. P * n \in Nat /\ P * m \in Nat
  BY <1>1, TimesP
<1>3. P * n < Len(file) /\ n <= P * n
  <2>1. n <= P * n
    BY <1>0, <1>1
  <2> QED
    BY <1>0, <1>1, <1>2, <2>1
<1>4. n >= m
  <2> SUFFICES ASSUME n < m PROVE FALSE
    BY <1>1
  <2>1. P * n + P <= P * m
    BY <1>1, TimesP
  <2> QED
    BY <1>0, <1>1, <1>2, <2>1
<1>5. n \in 0..Len(file)
  BY <1>0, <1>1, <1>2, <1>3
<1>6. PICK b \in Part : Readable(b) /\ Count(b) = n
  BY <1>3, <1>5 DEF ShownFrom, Fits
<1>7. k \in DOMAIN Visible /\ Visible[k] = flash[b][i]
  BY <1>1, <1>6, VisibleBlock
<1>8. k <= Len(file)
  BY <1>0
<1>9. flash[b][i] = file[k]
  BY <1>1, <1>4, <1>6, <1>8 DEF ShownFrom, Shows
<1> QED
  BY <1>7, <1>9

LEMMA VisibleLen ==
    /\ P * Count(NB) \in Nat /\ Count(NB) \in Nat
    /\ Len(Visible) = P * Count(NB) /\ DOMAIN Visible = 1..(P * Count(NB))
<1>1. NB \in Nat
  BY Geometry
<1>2. Count(NB) \in Nat
  BY <1>1, CountType
<1>3. P * Count(NB) \in Nat
  BY <1>2, TimesP
<1>4. Cardinality({b \in Part : Readable(b)}) = Count(NB)
  BY Geometry DEF Count
<1>5. Visible = [k \in 1..(P * Count(NB)) |-> Visible[k]]
  BY <1>4 DEF Visible
<1> QED
  BY <1>2, <1>3, <1>5, LenOf

LEMMA LogicalLen ==
    /\ P * NB \in Nat /\ Len(Logical) = P * NB /\ DOMAIN Logical = 1..(P * NB)
<1>1. P * NB \in Nat
  BY Geometry, TimesP
<1>2. Logical = [k \in 1..(P * NB) |-> Logical[k]]
  BY DEF Logical
<1> QED
  BY <1>1, <1>2, LenOf

\* Page k of the file is page i of the block with n others before it.
LEMMA PageBlock ==
    ASSUME NEW n \in Nat, NEW k \in 1..(P * n)
    PROVE  /\ (k - 1) \div P \in 0..(n - 1) /\ ((k - 1) % P) + 1 \in 1..P
           /\ k = P * ((k - 1) \div P) + (((k - 1) % P) + 1)
<1> DEFINE q == (k - 1) \div P
           i == ((k - 1) % P) + 1
<1>0. P * n \in Nat /\ P \in Nat
  BY TimesP, Geometry
<1>1. k \in Nat \ {0} /\ k <= P * n
  BY <1>0
<1>2. q \in Nat /\ i \in 1..P /\ k = P * q + i
  BY <1>1, PageSplit
<1> HIDE DEF q, i
<1>3. q < n
  <2> SUFFICES ASSUME n <= q PROVE FALSE
    BY <1>2
  <2>1. P * n <= P * q /\ P * q \in Nat
    BY <1>2, TimesP
  <2> QED
    BY <1>0, <1>1, <1>2, <2>1
<1> QED
  BY <1>2, <1>3 DEF q, i

\* Two sequences of the same length and the same elements.
LEMMA SameSeq ==
    ASSUME NEW n \in Nat, NEW f \in Seq(Int), Len(f) = n, NEW g, DOMAIN g = 1..n,
           g = [k \in 1..n |-> g[k]], \A k \in 1..n : f[k] = g[k]
    PROVE  f = g
<1>1. f = [k \in 1..n |-> f[k]]
  BY LenProperties
<1>2. [k \in 1..n |-> f[k]] = [k \in 1..n |-> g[k]]
  BY Zenon
<1> QED
  BY <1>1, <1>2

\* An operation that reports success has done what it says: the image is
\* read back whole after a restore, a patch or a flash, and a backup or a
\* dump is what a reader sees, unless a block was left out that reads
\* without errors (Clean), or the table maps two blocks to one (Distinct).
THEOREM ReadsBack == Spec => []ReadBack
<1>1. IInv => ReadBack
  <2> SUFFICES ASSUME Shape, Success, result = "ok"
               PROVE  /\ op \in {"restore", "patch"} /\ Clean => StartsWith(Visible, file)
                      /\ op = "backup" /\ Clean => file = Visible
                      /\ op = "flash" /\ Distinct => StartsWith(Logical, file)
                      /\ op = "dump" => file = Logical
    BY DEF IInv, DataInv, ReadBack
  <2>g. P \in Nat /\ NB \in Nat /\ P * 0 = 0 /\ file \in Seq(Int) /\ Len(file) \in Nat
    BY Geometry, LenProperties DEF Shape, TypeOK
  <2>1. ASSUME op \in {"restore", "patch"}, Clean PROVE StartsWith(Visible, file)
    <3>1. ShownFrom(0)
      BY <2>1 DEF Success
    <3>2. \A k \in 1..Len(file) : k \in DOMAIN Visible /\ Visible[k] = file[k]
      BY <2>g, <3>1, ShownVisible
    <3>3. Len(file) <= Len(Visible)
      <4>1. CASE Len(file) = 0
        BY <4>1, VisibleLen
      <4>2. CASE Len(file) # 0
        <5>1. Len(file) \in DOMAIN Visible
          BY <2>g, <3>2, <4>2
        <5> QED
          BY <5>1, VisibleLen
      <4> QED
        BY <4>1, <4>2
    <3> QED
      BY <2>g, <3>2, <3>3, VisibleLen DEF StartsWith
  <2>2. ASSUME op = "backup", Clean PROVE file = Visible
    <3>1. Copied(NB)
      BY <2>2 DEF Success
    <3>2. \A k \in 1..(P * Count(NB)) : file[k] = Visible[k]
      <4> TAKE k \in 1..(P * Count(NB))
      <4> DEFINE n == (k - 1) \div P
                 i == ((k - 1) % P) + 1
      <4>1. n \in 0..(Count(NB) - 1) /\ i \in 1..P /\ k = P * n + i
        BY VisibleLen, PageBlock
      <4> HIDE DEF n, i
      <4>2. PICK b \in 0..(NB - 1) : Readable(b) /\ Count(b) = n
        BY <3>1, <4>1 DEF Copied, Numbered
      <4>3. b \in Part
        BY DEF Part
      <4>4. Visible[k] = flash[b][i]
        BY <4>1, <4>2, <4>3, VisibleBlock
      <4>5. file[k] = flash[b][i]
        BY <3>1, <4>1, <4>2 DEF Copied
      <4> QED
        BY <4>4, <4>5
    <3>3. Visible = [k \in 1..(P * Count(NB)) |-> Visible[k]]
      <4>1. DOMAIN Visible = 1..(P * Count(NB))
        BY VisibleLen
      <4> QED
        BY <4>1 DEF Visible
    <3> QED
      BY <2>g, <3>1, <3>2, <3>3, VisibleLen, SameSeq DEF Copied
  <2>3. \A b \in Part, i \in 1..P : Logical[P * b + i] = flash[Dest(b)][i]
    <3> TAKE b \in Part, i \in 1..P
    <3> DEFINE k == P * b + i
    <3>1. b \in Nat /\ b < NB
      BY Geometry
    <3>2. k \in 1..(P * NB)
      BY <2>g, <3>1, PageInside
    <3>3. (k - 1) \div P = b /\ ((k - 1) % P) + 1 = i
      BY <3>1, PageUnique
    <3> HIDE DEF k
    <3>4. Logical[k] = flash[Dest(b)][i]
      BY <3>2, <3>3 DEF Logical
    <3> QED
      BY <3>4 DEF k
  <2>4. ASSUME op = "flash", Distinct PROVE StartsWith(Logical, file)
    <3>1. Flashed(NB) /\ Len(file) <= P * NB
      BY <2>4, <2>g, TimesP DEF Success
    <3>2. \A k \in 1..Len(file) : Logical[k] = file[k]
      <4> TAKE k \in 1..Len(file)
      <4>0. k \in 1..(P * NB) /\ k <= Len(file)
        BY <2>g, <3>1, LogicalLen
      <4> DEFINE n == (k - 1) \div P
                 i == ((k - 1) % P) + 1
      <4>1. n \in 0..(NB - 1) /\ i \in 1..P /\ k = P * n + i
        BY <2>g, <4>0, PageBlock
      <4> HIDE DEF n, i
      <4>2. Logical[k] = flash[Dest(n)][i]
        BY <2>3, <4>1 DEF Part
      <4>3. flash[Dest(n)][i] = file[k]
        BY <3>1, <4>0, <4>1 DEF Flashed
      <4> QED
        BY <4>2, <4>3
    <3> QED
      BY <2>g, <3>1, <3>2, LogicalLen DEF StartsWith
  <2>5. ASSUME op = "dump" PROVE file = Logical
    <3>1. Dumped(NB)
      BY <2>5 DEF Success
    <3>2. \A k \in 1..(P * NB) : file[k] = Logical[k]
      <4> TAKE k \in 1..(P * NB)
      <4> DEFINE n == (k - 1) \div P
                 i == ((k - 1) % P) + 1
      <4>1. n \in 0..(NB - 1) /\ i \in 1..P /\ k = P * n + i
        BY <2>g, PageBlock
      <4> HIDE DEF n, i
      <4>2. Logical[k] = flash[Dest(n)][i]
        BY <2>3, <4>1 DEF Part
      <4>3. file[k] = flash[Dest(n)][i]
        BY <3>1, <4>1 DEF Dumped
      <4> QED
        BY <4>2, <4>3
    <3>3. Logical = [k \in 1..(P * NB) |-> Logical[k]]
      BY DEF Logical
    <3> QED
      BY <2>g, <3>1, <3>2, <3>3, LogicalLen, SameSeq DEF Dumped
  <2> QED
    BY <2>1, <2>2, <2>4, <2>5
<1> QED
  BY <1>1, Invariance, PTL

\* The header of an image that is being restored is on the partition only
\* when everything behind the first block is, whenever power is lost, unless
\* a block was given up that reads without errors (Clean).
THEOREM HeaderIsLast == Spec => []HeaderLast
<1>1. IInv => HeaderLast
  <2> SUFFICES ASSUME Shape, Headers, Clean, op = "restore", pass = 2 \/ next > P + 1, file # <<>>,
                      file[1] # Zero, Visible # <<>>, Visible[1] = file[1],
                      NEW k \in (P + 1)..Len(file)
               PROVE  Visible[k] = file[k]
    BY DEF IInv, DataInv, HeaderLast
  <2>g. /\ P \in Nat /\ P > 0 /\ P * 0 = 0 /\ P * 1 = P /\ Len(file) \in Nat
    BY Geometry, LenProperties DEF Shape, TypeOK
  <2>1. CASE pass = 2
    <3>1. ShownFrom(1)
      BY <2>1 DEF Headers
    <3>2. k \in 1..Len(file) /\ k > P * 1
      BY <2>g
    <3> QED
      BY <3>1, <3>2, ShownVisible
  <2>2. CASE pass # 2
    <3>1. pass = 1 /\ next > P + 1
      BY <2>2 DEF Shape, TypeOK
    <3>2. PICK b \in Part : Readable(b) /\ Count(b) = 0 /\ flash[b][1] = Zero
      BY <3>1 DEF Headers, NoHeader
    <3>3. 1 = P * Count(b) + 1 /\ 1 \in 1..P
      BY <2>g, <3>2
    <3>4. Visible[1] = flash[b][1]
      BY <3>2, <3>3, VisibleBlock
    <3> QED
      BY <3>2, <3>4
  <2> QED
    BY <2>1, <2>2
<1> QED
  BY <1>1, Invariance, PTL
=============================================================================
