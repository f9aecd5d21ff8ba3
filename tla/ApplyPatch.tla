----------------------------- MODULE ApplyPatch -----------------------------
(***************************************************************************)
(* The patching phase of an OTA package: updater runs applypatch_check()   *)
(* on every patched location, apply_patch_space() once, then applypatch()  *)
(* on every location (applypatch/applypatch.c, applypatch/freecache.c).    *)
(* Power may be lost between any two writes to storage; recovery then      *)
(* runs the same package again from its first command.                     *)
(*                                                                         *)
(* Data is abstracted to whole file contents: SHA-1 is taken as injective, *)
(* so a content stands for its own digest.                                 *)
(***************************************************************************)
EXTENDS Integers, Functions

CONSTANTS
    N,            \* number of apply_patch() calls of the package
    Loc,          \* the files and partitions they name
    Partition,    \* the "MTD:" and "EMMC:" names among them
    Src, Tgt,     \* source_filename and target_filename of each call
    Content,      \* byte strings a location can hold
    Torn,         \* a partially written or otherwise unusable content
    Absent,       \* no such file
    Accepts,      \* the contents whose digests are in patch_sha1_str
    NoSums,       \* calls whose apply_patch_check() lists no digests
    Target,       \* the content whose digest is target_sha1_str
    Size,         \* size of each content
    CacheFile,    \* deletable regular files in the directories of /cache
    FileSize,     \* their sizes
    OpenFiles,    \* those some process holds open, the package among them
    CacheCap,     \* bytes /cache can hold
    SpaceArg,     \* argument of apply_patch_space()
    Faults,       \* the faults the environment may inject
    MaxRestarts   \* bound on restarts of the package

Job == 1..N
NoData == "nodata"      \* FileContents.data == NULL

ASSUME JobAssumption ==
    /\ N \in Nat \ {0}
    /\ Src \in [Job -> Loc] /\ Tgt \in [Job -> Loc]
    /\ Partition \subseteq Loc /\ NoSums \subseteq Job
    /\ \A j, k \in Job : j # k => /\ Tgt[j] # Tgt[k]
                                  /\ Tgt[j] # Src[k]
                                  /\ Src[j] # Src[k]

ASSUME ContentAssumption ==
    /\ Torn \in Content /\ Absent \notin Content /\ NoData \notin Content
    /\ NoData # Absent
    /\ Accepts \in [Job -> SUBSET (Content \ {Torn})]
    /\ Target \in [Job -> Content \ {Torn}]

ASSUME SpaceAssumption ==
    /\ Size \in [Content -> Nat]
    /\ FileSize \in [CacheFile -> Nat]
    /\ OpenFiles \subseteq CacheFile
    /\ CacheCap \in Nat /\ SpaceArg \in Nat /\ MaxRestarts \in Nat

VARIABLES
    \* storage: survives a restart
    disk,       \* content of each location
    cache,      \* content of CACHE_TEMP_SOURCE, /cache/saved.file
    cacheSize,  \* bytes it occupies
    files,      \* the deletable files still on /cache
    \* memory of the updater process
    pc,         \* the statement about to be executed
    job,        \* the call being executed
    src,        \* source_file.data
    cpy,        \* copy_file.data
    use,        \* source_to_use: "source" or "copy"
    retry,      \* local of applypatch()
    made_copy,  \* local of applypatch()
    out,        \* the "<target>.patch" file, or the MemorySink buffer
    need,       \* argument of MakeFreeSpaceOnCache()
    ret,        \* its caller: "save" or "space"
    victims,    \* names[] not yet tried by MakeFreeSpaceOnCache()
    restarts    \* number of restarts so far

storage == <<disk, cache, cacheSize, files>>
loaded == <<src, cpy, use>>
locals == <<retry, made_copy, out>>
freeing == <<need, ret, victims>>
vars == <<storage, pc, job, loaded, locals, freeing, restarts>>

TypeOK ==
    /\ disk \in [Loc -> Content \cup {Absent}]
    /\ cache \in Content \cup {Absent}
    /\ cacheSize \in Nat
    /\ files \subseteq CacheFile
    /\ pc \in {"check", "space", "free", "start", "loop", "save", "saving",
               "unlink", "patch", "verify", "commit", "writing", "cleanup",
               "done", "failed"}
    /\ job \in Job
    /\ src \in Content \cup {NoData}
    /\ cpy \in Content \cup {NoData}
    /\ use \in {"source", "copy"}
    /\ retry \in {0, 1}
    /\ made_copy \in BOOLEAN
    /\ out \in Content \cup {Absent}
    /\ need \in Nat
    /\ ret \in {"save", "space"}
    /\ victims \subseteq CacheFile
    /\ restarts \in 0..MaxRestarts

Init ==
    /\ disk \in [Loc -> Content \cup {Absent}]
    /\ \A j \in Job : /\ disk[Src[j]] \in Accepts[j]
                      /\ Tgt[j] # Src[j] => disk[Tgt[j]] = Absent
    /\ \A l \in Loc : l \notin {Src[j] : j \in Job} => disk[l] = Absent
    /\ cache = Absent /\ cacheSize = 0
    /\ files = CacheFile
    /\ pc = "check" /\ job = 1
    /\ src = NoData /\ cpy = NoData /\ use = "source"
    /\ retry = 1 /\ made_copy = FALSE /\ out = Absent
    /\ need = 0 /\ ret = "space" /\ victims = {}
    /\ restarts = 0

-----------------------------------------------------------------------------
(* Loading                                                                 *)

\* The digests a call knows: those of the patches and that of the target.
Known(j) == Accepts[j] \cup {Target[j]}

\* LoadPartitionContents() succeeds only on a prefix with a listed digest.
LoadPartitionContents(j, l) ==
    IF disk[l] \in Known(j) THEN disk[l] ELSE NoData

\* A file is loaded whatever it holds, if it exists.
LoadFileContents(j, l) ==
    IF l \in Partition THEN LoadPartitionContents(j, l)
    ELSE IF disk[l] = Absent THEN NoData ELSE disk[l]

FindMatchingPatch(j, data) == data \in Accepts[j]

Fail == /\ pc' = "failed"
        /\ UNCHANGED <<job, loaded, locals, freeing>>

Goto(label) == /\ pc' = label
               /\ UNCHANGED <<job, loaded, locals, freeing>>

-----------------------------------------------------------------------------
(* The checks the package makes before it patches anything                 *)

\* applypatch_check(): the location, or else the saved copy, has a digest
\* of the list.  Without a list it is enough that the location loads, and no
\* saved copy matches.
ApplypatchCheck ==
    /\ pc = "check"
    /\ LET data == LoadFileContents(job, Src[job])
           passed == IF job \in NoSums THEN data # NoData
                     ELSE data \in Known(job) \/ cache \in Known(job)
       IN \/ /\ passed /\ job < N
             /\ job' = job + 1
             /\ UNCHANGED <<pc, loaded, locals, freeing>>
          \/ /\ passed /\ job = N
             /\ need' = SpaceArg /\ ret' = "space" /\ pc' = "space"
             /\ UNCHANGED <<job, loaded, locals, victims>>
          \/ ~passed /\ Fail
    /\ UNCHANGED <<storage, restarts>>

-----------------------------------------------------------------------------
(* MakeFreeSpaceOnCache()                                                  *)

\* FreeSpaceForFile("/cache"), when statfs() succeeds.
FreeSpaceForFile == CacheCap - cacheSize - SumFunctionOnSet(FileSize, files)

\* Its value on failure is (size_t) -1, which every need is below.
StatfsFails == "statfs" \in Faults

\* Return 0 to the caller: applypatch() goes on to SaveFileContents(), and
\* apply_patch_space() lets the package start patching.
SpaceMade == /\ pc' = IF ret = "save" THEN "save" ELSE "start"
             /\ job' = IF ret = "save" THEN job ELSE 1
             /\ UNCHANGED <<loaded, locals, freeing>>

\* EliminateOpenFiles() looks for the open files in /proc/*/fd.  It passes over
\* a directory or a link that it cannot read.
OpenFilesFound == IF "proc" \in Faults THEN SUBSET OpenFiles ELSE {OpenFiles}

\* The first test, then FindExpendableFiles(): every regular file but the
\* saved copy, less the open ones found.  Without /proc it fails.
MakeFreeSpaceOnCache ==
    /\ pc = "space"
    /\ \/ (FreeSpaceForFile >= need \/ StatfsFails) /\ SpaceMade
       \/ FreeSpaceForFile < need /\ (files = {} \/ "proc" \in Faults) /\ Fail
       \/ /\ FreeSpaceForFile < need /\ files # {}
          /\ \E open \in OpenFilesFound : victims' = files \ open
          /\ pc' = "free"
          /\ UNCHANGED <<job, loaded, locals, need, ret>>
    /\ UNCHANGED <<storage, restarts>>

\* The loop: one unlink() per step, in readdir() order, while too little is
\* free.  An unlink() that fails is not noticed, and a statfs() that fails
\* after one ends the loop.
DeleteExpendable ==
    /\ pc = "free"
    /\ \/ /\ FreeSpaceForFile >= need
          /\ SpaceMade
          /\ UNCHANGED files
       \/ /\ FreeSpaceForFile < need /\ victims = {}
          /\ Fail
          /\ UNCHANGED files
       \/ /\ FreeSpaceForFile < need
          /\ \E f \in victims : /\ files' \in {files \ {f}} \cup
                                             (IF "unlink" \in Faults THEN {files} ELSE {})
                                /\ victims' = victims \ {f}
          /\ UNCHANGED <<pc, job, loaded, locals, need, ret>>
       \/ /\ FreeSpaceForFile < need /\ StatfsFails
          /\ \E f \in victims : files' = files \ {f}
          /\ SpaceMade
    /\ UNCHANGED <<disk, cache, cacheSize, restarts>>

-----------------------------------------------------------------------------
(* applypatch()                                                            *)

\* Return 0 from applypatch(): the package goes on to its next call.
NextJob == /\ job' = IF job < N THEN job + 1 ELSE job
           /\ pc' = IF job < N THEN "start" ELSE "done"

\* Mutant: a partition that already is the target is patched again.
LoadSourcePartitionAgain ==
    /\ pc = "start"
    /\ LET t == LoadFileContents(job, Tgt[job])
           s == LoadFileContents(job, Src[job])
           done == t = Target[job] /\ Tgt[job] \notin Partition
       IN \/ done /\ NextJob /\ UNCHANGED <<loaded, retry, made_copy>>
          \/ /\ ~done /\ FindMatchingPatch(job, s)
             /\ src' = s /\ cpy' = NoData /\ use' = "source"
             /\ retry' = 1 /\ made_copy' = FALSE
             /\ pc' = "loop" /\ UNCHANGED job
          \/ /\ ~done /\ ~FindMatchingPatch(job, s)
             /\ FindMatchingPatch(job, cache)
             /\ src' = s /\ cpy' = cache /\ use' = "copy"
             /\ retry' = 1 /\ made_copy' = FALSE
             /\ pc' = "loop" /\ UNCHANGED job
    /\ UNCHANGED <<storage, out, freeing, restarts>>

\* Up to the do loop: the early exit, the source, else the saved copy.
LoadSource ==
    /\ pc = "start"
    /\ LET t == LoadFileContents(job, Tgt[job])
           s == IF t = NoData \/ Tgt[job] # Src[job]
                THEN LoadFileContents(job, Src[job]) ELSE t
       IN \/ /\ t = Target[job]
             /\ NextJob
             /\ UNCHANGED <<loaded, retry, made_copy>>
          \/ /\ t # Target[job] /\ FindMatchingPatch(job, s)
             /\ src' = s /\ cpy' = NoData /\ use' = "source"
             /\ retry' = 1 /\ made_copy' = FALSE
             /\ pc' = "loop" /\ UNCHANGED job
          \/ /\ t # Target[job] /\ ~FindMatchingPatch(job, s)
             /\ FindMatchingPatch(job, cache)
             /\ src' = s /\ cpy' = cache /\ use' = "copy"
             /\ retry' = 1 /\ made_copy' = FALSE
             /\ pc' = "loop" /\ UNCHANGED job
          \/ /\ t # Target[job] /\ ~FindMatchingPatch(job, s)
             /\ ~FindMatchingPatch(job, cache)
             /\ pc' = "failed"
             /\ UNCHANGED <<job, loaded, retry, made_copy>>
    /\ UNCHANGED <<storage, out, freeing, restarts>>

\* source_file.size; a failed partition load leaves the bytes read so far.
SourceSize == IF src = NoData THEN Size[Torn] ELSE Size[src]

BackUpSource == /\ need' = SourceSize /\ ret' = "save" /\ pc' = "space"
                /\ UNCHANGED victims

\* Mutant: the partition is overwritten without a backup.
PartitionTargetUnsaved ==
    /\ pc = "loop" /\ Tgt[job] \in Partition
    /\ retry' = 0 /\ pc' = "patch"
    /\ UNCHANGED <<storage, job, loaded, made_copy, out, freeing, restarts>>

\* A partition target is backed up whatever the source_to_use.
PartitionTarget ==
    /\ pc = "loop" /\ Tgt[job] \in Partition
    /\ retry' = 0
    /\ BackUpSource
    /\ UNCHANGED <<storage, job, loaded, made_copy, out, restarts>>

\* A file target with room beside it, as far as statfs() tells.
EnoughSpace ==
    /\ pc = "loop" /\ Tgt[job] \notin Partition
    /\ retry > 0
    /\ Goto("patch")
    /\ UNCHANGED <<storage, restarts>>

\* Mutant: the source is unlinked before it is saved.
NotEnoughSpaceUnlinkFirst ==
    /\ pc = "loop" /\ Tgt[job] \notin Partition
    /\ retry' = 0
    /\ \/ use = "copy" /\ UNCHANGED <<disk, freeing>> /\ pc' = "patch"
       \/ /\ use = "source"
          /\ disk' = [disk EXCEPT ![Src[job]] = Absent]
          /\ BackUpSource
    /\ UNCHANGED <<cache, cacheSize, files, job, loaded, made_copy, out,
                   restarts>>

\* A file target without room, or the second attempt: the source is moved
\* to /cache unless the saved copy is already in use.
NotEnoughSpace ==
    /\ pc = "loop" /\ Tgt[job] \notin Partition
    /\ retry' = 0
    /\ \/ /\ use = "copy" /\ pc' = "patch" /\ UNCHANGED freeing
       \/ /\ use = "source" /\ Src[job] \in Partition
          /\ pc' = "failed" /\ UNCHANGED freeing
       \/ /\ use = "source" /\ Src[job] \notin Partition
          /\ BackUpSource
    /\ UNCHANGED <<storage, job, loaded, made_copy, out, restarts>>

\* SaveFileContents() up to its writes: O_TRUNC, then any part of the data.
SaveOpen ==
    /\ pc = "save"
    /\ \/ /\ cache' = Torn
          /\ cacheSize' \in {0, SourceSize}
          /\ Goto("saving")
       \/ "write" \in Faults /\ Fail /\ UNCHANGED <<cache, cacheSize>>
    /\ UNCHANGED <<disk, files, restarts>>

\* Mutant: made_copy is not set.
SavedForgotten == /\ pc' = IF Tgt[job] \in Partition THEN "patch" ELSE "unlink"
                  /\ UNCHANGED <<job, loaded, locals, freeing>>

\* After the backup a partition target goes straight on to the patch.
Saved == /\ made_copy' = TRUE
         /\ pc' = IF Tgt[job] \in Partition THEN "patch" ELSE "unlink"
         /\ UNCHANGED <<job, loaded, retry, out, freeing>>

\* SaveFileContents() from its writes on.  When the saved copy is in use,
\* source_file.data was freed: NULL makes write() fail unless the size is
\* 0, and a dangling pointer writes whatever is there now.
SaveFileContents ==
    /\ pc = "saving"
    /\ \/ /\ use = "source"
          /\ cache' = src /\ cacheSize' = Size[src]
          /\ Saved
       \/ /\ use = "copy" /\ src = NoData
          /\ Fail
          /\ UNCHANGED <<cache, cacheSize>>
       \/ /\ use = "copy"
          /\ Saved
          /\ UNCHANGED <<cache, cacheSize>>
       \/ /\ "write" \in Faults
          /\ Fail
          /\ UNCHANGED <<cache, cacheSize>>
       \/ /\ "write" \in Faults /\ use = "source"    \* chmod() or chown()
          /\ cache' = src /\ cacheSize' = Size[src]
          /\ Fail
    /\ UNCHANGED <<disk, files, restarts>>

UnlinkSource ==
    /\ pc = "unlink"
    /\ disk' = [disk EXCEPT ![Src[job]] = Absent]
    /\ Goto("patch")
    /\ UNCHANGED <<cache, cacheSize, files, restarts>>

\* Mutant: a failed patch leaves the retry counter alone.
RunPatchForever ==
    /\ pc = "patch"
    /\ \/ out' = Target[job] /\ pc' = "verify"
       \/ "patch" \in Faults /\ out' = Absent /\ pc' = "loop"
    /\ UNCHANGED <<storage, job, loaded, retry, made_copy, freeing, restarts>>

\* ApplyBSDiffPatch() or ApplyImagePatch() into the sink: success, output
\* that is not the target, or a failure that is retried once.
RunPatch ==
    /\ pc = "patch"
    /\ \/ /\ out' = Target[job] /\ pc' = "verify" /\ UNCHANGED retry
       \/ /\ "patch" \in Faults
          /\ out' = Torn /\ pc' = "verify" /\ UNCHANGED retry
       \/ /\ "patch" \in Faults /\ retry = 0
          /\ pc' = "failed" /\ UNCHANGED <<out, retry>>
       \/ /\ "patch" \in Faults /\ retry = 1
          /\ retry' = 0 /\ out' = Absent /\ pc' = "loop"
    /\ UNCHANGED <<storage, job, loaded, made_copy, freeing, restarts>>

\* Mutant: the digest of the output is not looked at.
VerifyOutputNot == /\ pc = "verify"
                   /\ Goto("commit")
                   /\ UNCHANGED <<storage, restarts>>

\* The digest of the output is compared with target_sha1.
VerifyOutput ==
    /\ pc = "verify"
    /\ IF out = Target[job] THEN Goto("commit") ELSE Fail
    /\ UNCHANGED <<storage, restarts>>

\* chmod(), chown() and rename() of the .patch file.
RenameOutput ==
    /\ pc = "commit" /\ Tgt[job] \notin Partition
    /\ \/ /\ disk' = [disk EXCEPT ![Tgt[job]] = out]
          /\ out' = Absent
          /\ pc' = "cleanup"
       \/ /\ "write" \in Faults
          /\ pc' = "failed" /\ UNCHANGED <<disk, out>>
    /\ UNCHANGED <<cache, cacheSize, files, job, loaded, retry, made_copy,
                   freeing, restarts>>

\* WriteToPartition() overwrites the partition in place.
WriteToPartition ==
    /\ pc = "commit" /\ Tgt[job] \in Partition
    /\ disk' = [disk EXCEPT ![Tgt[job]] = Torn]
    /\ Goto("writing")
    /\ UNCHANGED <<cache, cacheSize, files, restarts>>

\* Mutant: an error of the partition's driver is only printed.
PartitionWrittenAnyway ==
    /\ pc = "writing"
    /\ \/ disk' = [disk EXCEPT ![Tgt[job]] = out]
       \/ "write" \in Faults /\ UNCHANGED disk
    /\ Goto("cleanup")
    /\ UNCHANGED <<cache, cacheSize, files, restarts>>

PartitionWritten ==
    /\ pc = "writing"
    /\ \/ /\ disk' = [disk EXCEPT ![Tgt[job]] = out]
          /\ Goto("cleanup")
       \/ /\ "write" \in Faults
          /\ Fail /\ UNCHANGED disk
    /\ UNCHANGED <<cache, cacheSize, files, restarts>>

\* Only the run that made the copy removes it.
RemoveCopy ==
    /\ pc = "cleanup"
    /\ cache' = IF made_copy THEN Absent ELSE cache
    /\ cacheSize' = IF made_copy THEN 0 ELSE cacheSize
    /\ NextJob
    /\ UNCHANGED <<disk, files, loaded, locals, freeing, restarts>>

-----------------------------------------------------------------------------
(* The environment                                                         *)

\* Power loss at any point, or a second installation of a package that was
\* aborted: the package runs again from its first command.
Restart ==
    /\ pc # "done" /\ restarts < MaxRestarts
    /\ restarts' = restarts + 1
    /\ pc' = "check" /\ job' = 1
    /\ src' = NoData /\ cpy' = NoData /\ use' = "source"
    /\ retry' = 1 /\ made_copy' = FALSE /\ out' = Absent
    /\ need' = 0 /\ ret' = "space" /\ victims' = {}
    /\ UNCHANGED storage

Updater ==
    \/ ApplypatchCheck \/ MakeFreeSpaceOnCache \/ DeleteExpendable
    \/ LoadSource \/ PartitionTarget \/ EnoughSpace \/ NotEnoughSpace
    \/ SaveOpen \/ SaveFileContents \/ UnlinkSource \/ RunPatch
    \/ VerifyOutput \/ RenameOutput \/ WriteToPartition \/ PartitionWritten
    \/ RemoveCopy

Next == Updater \/ Restart

Spec == Init /\ [][Next]_vars

\* The updater process runs until it returns.
FairSpec == Spec /\ WF_vars(Updater)

-----------------------------------------------------------------------------
(* Properties                                                              *)

\* Call j can still reach its target: it is there already, or a content the
\* patches apply to is at the source or in the saved copy.
CanFinish(j) == \/ disk[Tgt[j]] = Target[j]
                \/ disk[Src[j]] \in Accepts[j]
                \/ cache \in Accepts[j]

\* "These important scenarios must be safely restartable at any point": no
\* crash, failure or retry of applypatch() on files loses the only content
\* from which a patched file can be produced.
Recoverable == \A j \in Job : Tgt[j] \notin Partition => CanFinish(j)

\* The same for a partition that is overwritten in place: "We still write
\* the original source to cache, in case the partition write is interrupted."
PartitionRecoverable == \A j \in Job : Tgt[j] \in Partition => CanFinish(j)

\* While a partition patched from its own content is being overwritten, an
\* intact copy of what it held is in CACHE_TEMP_SOURCE.
BackedUpWhileWriting ==
    pc = "writing" /\ use = "source" => cache = src /\ src \in Accepts[job]

\* A package that reports success has brought every location to its target,
\* files and partitions, whichever of its patches were applied by an earlier
\* run, failed at first or were skipped.
DoneMeansPatched == pc = "done" => \A j \in Job : disk[Tgt[j]] = Target[j]

\* "Idempotent": once a location holds its target, no restart, retry or
\* later call ever changes it.
TargetsAreFinal ==
    [][\A j \in Job : disk[Tgt[j]] = Target[j] => disk'[Tgt[j]] = Target[j]]_vars

\* Every run of the package ends, whatever fails: the retry loop and the
\* deletion loop are finite.
Terminates == []<>(pc \in {"done", "failed"})

-----------------------------------------------------------------------------
(* Refinement                                                              *)

\* The calls that patch a file; a partition is overwritten in place.
FileJob == {j \in Job : Tgt[j] \notin Partition}

fileVersion == [j \in FileJob |-> IF disk[Tgt[j]] = Target[j] THEN "new"
                                  ELSE IF CanFinish(j) THEN "old" ELSE "lost"]

Atomic == INSTANCE AtomicPatch WITH Patches <- FileJob, version <- fileVersion

\* The patches a package makes to files behave like AtomicPatch, whatever
\* partitions it patches between them.
ImplementsAtomicPatch == Atomic!Spec

-----------------------------------------------------------------------------
(* The inductive invariant                                                 *)

\* The updater is inside applypatch(), past its early exit.
Patching == \/ pc \in {"loop", "save", "saving", "unlink", "patch", "verify",
                       "commit", "writing"}
            \/ pc \in {"space", "free"} /\ ret = "save"

\* The calls before the current one have succeeded, the current one has not.
EarlierDone ==
    /\ Patching \/ pc \in {"start", "cleanup"} =>
           \A k \in Job : k < job => disk[Tgt[k]] = Target[k]
    /\ Patching => disk[Tgt[job]] # Target[job]
    /\ pc = "cleanup" => disk[Tgt[job]] = Target[job]

\* A call that was ever begun has all its predecessors done.
LaterUntouched ==
    /\ \A j, k \in Job : j < k /\ disk[Tgt[j]] # Target[j] =>
           disk[Src[k]] \in Accepts[k]
    /\ pc = "cleanup" =>
           \A k \in Job : job < k => disk[Src[k]] \in Accepts[k]

\* Before the backup of the source is complete.
NotYetSaved == Patching /\ pc \in {"loop", "space", "free", "save", "saving"}

\* Where the content that the current call patches is.
SourceSafe ==
    /\ Patching /\ use = "source" =>
           /\ src \in Accepts[job]
           /\ IF made_copy THEN cache = src ELSE disk[Src[job]] = src
    /\ Patching /\ use = "copy" /\ Tgt[job] \notin Partition =>
           /\ cache \in Accepts[job]
           /\ pc \in {"loop", "patch", "verify", "commit"}
    /\ NotYetSaved => ~made_copy
    /\ NotYetSaved /\ pc # "loop" => retry = 0
    /\ Patching /\ made_copy => retry = 0
    /\ pc = "unlink" => made_copy /\ Tgt[job] \notin Partition

\* What is about to be written over the target.
OutputSafe ==
    /\ pc \in {"patch", "verify", "commit", "writing"} =>
           (Tgt[job] \in Partition => made_copy)
    /\ pc \in {"commit", "writing"} => out = Target[job]
    /\ pc = "writing" => Tgt[job] \in Partition

IInv == /\ TypeOK /\ Recoverable /\ EarlierDone /\ LaterUntouched
        /\ SourceSafe /\ OutputSafe /\ DoneMeansPatched
=============================================================================
