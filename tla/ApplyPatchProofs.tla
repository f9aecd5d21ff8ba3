--------------------------- MODULE ApplyPatchProofs -------------------------
(***************************************************************************)
(* Proofs about ApplyPatch, for any number of patches, files, partitions,  *)
(* faults and restarts.                                                    *)
(***************************************************************************)
EXTENDS ApplyPatch, TLAPS

\* Loading a location yields its content or nothing at all, and never the
\* target's content from a location that does not hold it.
LEMMA LoadLemma ==
    ASSUME TypeOK, NEW j \in Job, NEW l \in Loc
    PROVE  /\ LoadFileContents(j, l) \in Content \cup {NoData}
           /\ LoadFileContents(j, l) # NoData =>
                  LoadFileContents(j, l) = disk[l]
           /\ disk[l] = Target[j] => LoadFileContents(j, l) = Target[j]
  BY ContentAssumption
     DEF TypeOK, LoadFileContents, LoadPartitionContents, Known

\* The size handed to MakeFreeSpaceOnCache() is a number.
LEMMA SizeLemma == TypeOK => SourceSize \in Nat
  BY ContentAssumption, SpaceAssumption DEF TypeOK, SourceSize

\* MakeFreeSpaceOnCache() deletes files and returns to its caller or fails:
\* nothing that the calls patch changes.
LEMMA FreeingFrame ==
    ASSUME TypeOK, MakeFreeSpaceOnCache \/ DeleteExpendable
    PROVE  /\ pc \in {"space", "free"} /\ files' \subseteq CacheFile /\ victims' \subseteq CacheFile
           /\ UNCHANGED <<disk, cache, cacheSize, src, cpy, use, retry, made_copy, out,
                          need, ret, restarts>>
           /\ \/ pc' = "save" /\ ret = "save" /\ job' = job
              \/ pc' = "start" /\ ret # "save" /\ job' = 1
              \/ pc' \in {"failed", "free"} /\ job' = job
<1>1. CASE MakeFreeSpaceOnCache
  BY <1>1 DEF MakeFreeSpaceOnCache, SpaceMade, Fail, TypeOK, storage, loaded, locals, freeing
<1>2. CASE DeleteExpendable
  BY <1>2 DEF DeleteExpendable, SpaceMade, Fail, TypeOK, storage, loaded, locals, freeing
<1> QED
  BY <1>1, <1>2

\* The inductive invariant holds initially.
LEMMA InitIInv == Init => IInv
<1> SUFFICES ASSUME Init PROVE IInv
  OBVIOUS
<1>1. TypeOK
  <2>1. /\ disk \in [Loc -> Content \cup {Absent}]
        /\ cache \in Content \cup {Absent}
        /\ cacheSize \in Nat /\ files \subseteq CacheFile
    BY DEF Init
  <2>2. job \in Job /\ retry \in {0, 1} /\ need \in Nat
    BY JobAssumption DEF Init, Job
  <2>3. restarts \in 0..MaxRestarts
    BY SpaceAssumption DEF Init
  <2>4. /\ src \in Content \cup {NoData} /\ cpy \in Content \cup {NoData}
        /\ out \in Content \cup {Absent} /\ use \in {"source", "copy"}
        /\ made_copy \in BOOLEAN /\ ret \in {"save", "space"}
        /\ victims \subseteq CacheFile /\ pc = "check"
    BY DEF Init
  <2> QED
    BY <2>1, <2>2, <2>3, <2>4 DEF TypeOK
<1>2. Recoverable /\ LaterUntouched
  BY DEF Init, Recoverable, CanFinish, LaterUntouched
<1>3. EarlierDone /\ SourceSafe /\ OutputSafe
  BY DEF Init, EarlierDone, SourceSafe, OutputSafe, Patching, NotYetSaved
<1>4. DoneMeansPatched
  BY DEF Init, DoneMeansPatched
<1> QED
  BY <1>1, <1>2, <1>3, <1>4 DEF IInv

\* Every step preserves the inductive invariant.
LEMMA NextIInv == IInv /\ [Next]_vars => IInv'
<1> SUFFICES ASSUME IInv, [Next]_vars PROVE IInv'
  OBVIOUS
<1> USE JobAssumption, ContentAssumption, SpaceAssumption
        DEF Job, IInv, storage, loaded, locals, freeing
<1>1. CASE ApplypatchCheck
  <2> USE <1>1 DEF ApplypatchCheck, Fail
  <2>1. TypeOK'
    <3>1. /\ disk' \in [Loc -> Content \cup {Absent}]
          /\ cache' \in Content \cup {Absent}
          /\ cacheSize' \in Nat /\ files' \subseteq CacheFile
      BY DEF TypeOK
    <3>2. /\ job' \in Job /\ retry' \in {0, 1} /\ need' \in Nat
          /\ restarts' \in 0..MaxRestarts
      <4>1. job' = job \/ (job' = job + 1 /\ job < N)
        OBVIOUS
      <4>2. retry' = retry /\ need' \in {need, SpaceArg} /\ restarts' = restarts
        OBVIOUS
      <4> QED
        BY ONLY <4>1, <4>2, IInv, JobAssumption, SpaceAssumption DEF TypeOK, IInv, Job
    <3>3. /\ src' \in Content \cup {NoData} /\ cpy' \in Content \cup {NoData}
          /\ out' \in Content \cup {Absent} /\ use' \in {"source", "copy"}
      BY DEF TypeOK
    <3>4. made_copy' \in BOOLEAN
      BY DEF TypeOK
    <3>5. /\ ret' \in {"save", "space"} /\ victims' \subseteq CacheFile
          /\ pc' \in {"check", "space", "free", "start", "loop", "save", "saving",
                      "unlink", "patch", "verify", "commit", "writing",
                      "cleanup", "done", "failed"}
      BY DEF TypeOK
    <3> QED
      BY <3>1, <3>2, <3>3, <3>4, <3>5 DEF TypeOK
  <2>2. Recoverable'
    BY DEF Recoverable, CanFinish, TypeOK
  <2>3. EarlierDone'
    BY DEF EarlierDone, Patching, TypeOK
  <2>4. LaterUntouched'
    BY DEF LaterUntouched, TypeOK
  <2>5. SourceSafe'
    BY DEF SourceSafe, Patching, NotYetSaved, TypeOK
  <2>6. OutputSafe'
    BY DEF OutputSafe, TypeOK
  <2>7. DoneMeansPatched'
    BY DEF DoneMeansPatched, TypeOK
  <2> QED
    BY <2>1, <2>2, <2>3, <2>4, <2>5, <2>6, <2>7
<1>2. CASE MakeFreeSpaceOnCache \/ DeleteExpendable
  <2>0. /\ pc \in {"space", "free"} /\ files' \subseteq CacheFile /\ victims' \subseteq CacheFile
        /\ UNCHANGED <<disk, cache, cacheSize, src, cpy, use, retry, made_copy, out,
                       need, ret, restarts>>
        /\ \/ pc' = "save" /\ ret = "save" /\ job' = job
           \/ pc' = "start" /\ ret # "save" /\ job' = 1
           \/ pc' \in {"failed", "free"} /\ job' = job
    BY <1>2, FreeingFrame
  <2>1. TypeOK'
    <3>1. job' \in Job /\ pc' \in {"save", "start", "failed", "free"}
      BY <2>0 DEF TypeOK
    <3> QED
      BY <2>0, <3>1 DEF TypeOK
  <2>2. Recoverable'
    BY <2>0 DEF Recoverable, CanFinish
  <2>3. EarlierDone'
    BY <2>0 DEF EarlierDone, Patching, TypeOK
  <2>4. LaterUntouched'
    BY <2>0 DEF LaterUntouched, TypeOK
  <2>5. SourceSafe'
    BY <2>0 DEF SourceSafe, Patching, NotYetSaved
  <2>6. OutputSafe'
    BY <2>0 DEF OutputSafe
  <2>7. DoneMeansPatched'
    BY <2>0 DEF DoneMeansPatched
  <2> QED
    BY <2>1, <2>2, <2>3, <2>4, <2>5, <2>6, <2>7
<1>4. CASE LoadSource
  <2> USE <1>4 DEF LoadSource, NextJob, FindMatchingPatch
  <2>0. /\ LoadFileContents(job, Src[job]) \in Content \cup {NoData}
        /\ LoadFileContents(job, Tgt[job]) \in Content \cup {NoData}
    BY LoadLemma DEF TypeOK
  <2>a. FindMatchingPatch(job, cache) => cache \in Content \cup {NoData}
    BY DEF TypeOK
  <2>1. TypeOK'
    <3>1. /\ disk' \in [Loc -> Content \cup {Absent}]
          /\ cache' \in Content \cup {Absent}
          /\ cacheSize' \in Nat /\ files' \subseteq CacheFile
      BY <2>0, <2>a DEF TypeOK
    <3>2. /\ job' \in Job /\ retry' \in {0, 1} /\ need' \in Nat
          /\ restarts' \in 0..MaxRestarts
      BY <2>0, <2>a DEF TypeOK
    <3>3. /\ src' \in Content \cup {NoData} /\ cpy' \in Content \cup {NoData}
          /\ out' \in Content \cup {Absent} /\ use' \in {"source", "copy"}
      BY <2>0, <2>a DEF TypeOK
    <3>4. made_copy' \in BOOLEAN
      BY <2>0, <2>a DEF TypeOK
    <3>5. /\ ret' \in {"save", "space"} /\ victims' \subseteq CacheFile
          /\ pc' \in {"check", "space", "free", "start", "loop", "save", "saving",
                      "unlink", "patch", "verify", "commit", "writing",
                      "cleanup", "done", "failed"}
      BY <2>0, <2>a DEF TypeOK
    <3> QED
      BY <3>1, <3>2, <3>3, <3>4, <3>5 DEF TypeOK
  <2>2. Recoverable'
    BY DEF Recoverable, CanFinish, TypeOK
  <2>b. disk[Tgt[job]] = Target[job] =>
            LoadFileContents(job, Tgt[job]) = Target[job]
    BY LoadLemma DEF TypeOK
  <2>c. LoadFileContents(job, Tgt[job]) = Target[job] =>
            disk[Tgt[job]] = Target[job]
    BY LoadLemma DEF TypeOK
  <2>3. EarlierDone'
    BY <2>b, <2>c DEF EarlierDone, Patching, TypeOK
  <2>4. LaterUntouched'
    BY DEF LaterUntouched, TypeOK
  <2>d. LoadFileContents(job, Src[job]) # NoData =>
            LoadFileContents(job, Src[job]) = disk[Src[job]]
    BY LoadLemma DEF TypeOK
  <2>e. LoadFileContents(job, Tgt[job]) # NoData =>
            LoadFileContents(job, Tgt[job]) = disk[Tgt[job]]
    BY LoadLemma DEF TypeOK
  <2>f. NoData \notin Accepts[job]
    BY DEF TypeOK
  <2>5. SourceSafe'
    BY <2>d, <2>e, <2>f DEF SourceSafe, Patching, NotYetSaved, TypeOK
  <2>6. OutputSafe'
    BY DEF OutputSafe, TypeOK
  <2>7. DoneMeansPatched'
    <3>1. disk' = disk
      OBVIOUS
    <3>2. ASSUME pc' = "done" PROVE job = N /\ pc = "start" /\ disk[Tgt[job]] = Target[job]
      BY <2>c, <3>2 DEF TypeOK
    <3>3. ASSUME pc' = "done", NEW j \in Job PROVE disk[Tgt[j]] = Target[j]
      <4>1. j < job \/ j = job
        BY <3>2, <3>3 DEF TypeOK
      <4> QED
        BY <3>2, <3>3, <4>1 DEF EarlierDone
    <3> QED
      BY ONLY <3>1, <3>3 DEF DoneMeansPatched, Job
  <2> QED
    BY <2>1, <2>2, <2>3, <2>4, <2>5, <2>6, <2>7
<1>5. CASE PartitionTarget
  <2> USE <1>5 DEF PartitionTarget, BackUpSource
  <2>1. TypeOK'
    BY SizeLemma DEF TypeOK
  <2>2. Recoverable'
    BY DEF Recoverable, CanFinish, TypeOK
  <2>3. EarlierDone'
    BY DEF EarlierDone, Patching, TypeOK
  <2>4. LaterUntouched'
    BY DEF LaterUntouched, TypeOK
  <2>5. SourceSafe'
    BY DEF SourceSafe, Patching, NotYetSaved, TypeOK
  <2>6. OutputSafe'
    BY DEF OutputSafe, TypeOK
  <2>7. DoneMeansPatched'
    BY DEF DoneMeansPatched, TypeOK
  <2> QED
    BY <2>1, <2>2, <2>3, <2>4, <2>5, <2>6, <2>7
<1>6. CASE EnoughSpace
  <2> USE <1>6 DEF EnoughSpace, Goto
  <2>1. TypeOK'
    BY DEF TypeOK
  <2>2. Recoverable'
    BY DEF Recoverable, CanFinish, TypeOK
  <2>3. EarlierDone'
    BY DEF EarlierDone, Patching, TypeOK
  <2>4. LaterUntouched'
    BY DEF LaterUntouched, TypeOK
  <2>5. SourceSafe'
    BY DEF SourceSafe, Patching, NotYetSaved, TypeOK
  <2>6. OutputSafe'
    BY DEF OutputSafe, TypeOK
  <2>7. DoneMeansPatched'
    BY DEF DoneMeansPatched, TypeOK
  <2> QED
    BY <2>1, <2>2, <2>3, <2>4, <2>5, <2>6, <2>7
<1>7. CASE NotEnoughSpace
  <2> USE <1>7 DEF NotEnoughSpace, BackUpSource
  <2>1. TypeOK'
    BY SizeLemma DEF TypeOK
  <2>2. Recoverable'
    BY DEF Recoverable, CanFinish, TypeOK
  <2>3. EarlierDone'
    BY DEF EarlierDone, Patching, TypeOK
  <2>4. LaterUntouched'
    BY DEF LaterUntouched, TypeOK
  <2>5. SourceSafe'
    BY DEF SourceSafe, Patching, NotYetSaved, TypeOK
  <2>6. OutputSafe'
    BY DEF OutputSafe, TypeOK
  <2>7. DoneMeansPatched'
    BY DEF DoneMeansPatched, TypeOK
  <2> QED
    BY <2>1, <2>2, <2>3, <2>4, <2>5, <2>6, <2>7
<1>8. CASE SaveOpen
  <2> USE <1>8 DEF SaveOpen, Goto, Fail
  <2>1. TypeOK'
    <3>1. /\ cache' \in Content \cup {Absent} /\ cacheSize' \in Nat
          /\ pc' \in {"saving", "failed"}
          /\ UNCHANGED <<disk, files, job, loaded, locals, freeing, restarts>>
      BY SizeLemma DEF TypeOK
    <3> QED BY <3>1 DEF TypeOK, loaded, locals, freeing
  <2>2. Recoverable'
    BY DEF Recoverable, CanFinish, TypeOK, EarlierDone, LaterUntouched, SourceSafe, Patching, NotYetSaved
  <2>3. EarlierDone'
    BY DEF EarlierDone, Patching, TypeOK
  <2>4. LaterUntouched'
    BY DEF LaterUntouched, TypeOK
  <2>5. SourceSafe'
    BY DEF SourceSafe, Patching, NotYetSaved, TypeOK
  <2>6. OutputSafe'
    BY DEF OutputSafe, TypeOK
  <2>7. DoneMeansPatched'
    BY DEF DoneMeansPatched, TypeOK
  <2> QED
    BY <2>1, <2>2, <2>3, <2>4, <2>5, <2>6, <2>7
<1>9. CASE SaveFileContents
  <2> USE <1>9 DEF SaveFileContents, Saved, Fail
  <2>1. TypeOK'
    <3>1. /\ disk' \in [Loc -> Content \cup {Absent}]
          /\ cache' \in Content \cup {Absent}
          /\ cacheSize' \in Nat /\ files' \subseteq CacheFile
      BY DEF TypeOK, SourceSafe, Patching
    <3>2. /\ job' \in Job /\ retry' \in {0, 1} /\ need' \in Nat
          /\ restarts' \in 0..MaxRestarts
      BY DEF TypeOK, SourceSafe, Patching
    <3>3. /\ src' \in Content \cup {NoData} /\ cpy' \in Content \cup {NoData}
          /\ out' \in Content \cup {Absent} /\ use' \in {"source", "copy"}
      BY DEF TypeOK, SourceSafe, Patching
    <3>4. made_copy' \in BOOLEAN
      BY DEF TypeOK
    <3>5. /\ ret' \in {"save", "space"} /\ victims' \subseteq CacheFile
          /\ pc' \in {"check", "space", "free", "start", "loop", "save", "saving",
                      "unlink", "patch", "verify", "commit", "writing",
                      "cleanup", "done", "failed"}
      BY DEF TypeOK
    <3> QED
      BY <3>1, <3>2, <3>3, <3>4, <3>5 DEF TypeOK
  <2>2. Recoverable'
    BY DEF Recoverable, CanFinish, TypeOK, EarlierDone, LaterUntouched, SourceSafe, Patching, NotYetSaved
  <2>3. EarlierDone'
    BY DEF EarlierDone, Patching, TypeOK
  <2>4. LaterUntouched'
    BY DEF LaterUntouched, TypeOK
  <2>5. SourceSafe'
    BY DEF SourceSafe, Patching, NotYetSaved, TypeOK
  <2>6. OutputSafe'
    BY DEF OutputSafe, TypeOK
  <2>7. DoneMeansPatched'
    BY DEF DoneMeansPatched, TypeOK
  <2> QED
    BY <2>1, <2>2, <2>3, <2>4, <2>5, <2>6, <2>7
<1>10. CASE UnlinkSource
  <2> USE <1>10 DEF UnlinkSource, Goto
  <2>1. TypeOK'
    BY DEF TypeOK
  <2>2. Recoverable'
    BY DEF Recoverable, CanFinish, TypeOK, SourceSafe, Patching
  <2>3. EarlierDone'
    BY DEF EarlierDone, Patching, TypeOK
  <2>4. LaterUntouched'
    BY DEF LaterUntouched, EarlierDone, Patching, TypeOK
  <2>5. SourceSafe'
    BY DEF SourceSafe, Patching, NotYetSaved, TypeOK
  <2>6. OutputSafe'
    BY DEF OutputSafe, SourceSafe, TypeOK
  <2>7. DoneMeansPatched'
    BY DEF DoneMeansPatched, TypeOK
  <2> QED
    BY <2>1, <2>2, <2>3, <2>4, <2>5, <2>6, <2>7
<1>11. CASE RunPatch
  <2> USE <1>11 DEF RunPatch
  <2>1. TypeOK'
    BY DEF TypeOK
  <2>2. Recoverable'
    BY DEF Recoverable, CanFinish, TypeOK
  <2>3. EarlierDone'
    BY DEF EarlierDone, Patching, TypeOK
  <2>4. LaterUntouched'
    BY DEF LaterUntouched, TypeOK
  <2>5. SourceSafe'
    BY DEF SourceSafe, Patching, NotYetSaved, TypeOK
  <2>6. OutputSafe'
    BY DEF OutputSafe, TypeOK
  <2>7. DoneMeansPatched'
    BY DEF DoneMeansPatched, TypeOK
  <2> QED
    BY <2>1, <2>2, <2>3, <2>4, <2>5, <2>6, <2>7
<1>12. CASE VerifyOutput
  <2> USE <1>12 DEF VerifyOutput, Goto, Fail
  <2>1. TypeOK'
    BY DEF TypeOK
  <2>2. Recoverable'
    BY DEF Recoverable, CanFinish, TypeOK
  <2>3. EarlierDone'
    BY DEF EarlierDone, Patching, TypeOK
  <2>4. LaterUntouched'
    BY DEF LaterUntouched, TypeOK
  <2>5. SourceSafe'
    BY DEF SourceSafe, Patching, NotYetSaved, TypeOK
  <2>6. OutputSafe'
    BY DEF OutputSafe, TypeOK
  <2>7. DoneMeansPatched'
    BY DEF DoneMeansPatched, TypeOK
  <2> QED
    BY <2>1, <2>2, <2>3, <2>4, <2>5, <2>6, <2>7
<1>13. CASE RenameOutput
  <2> USE <1>13 DEF RenameOutput
  <2>1. TypeOK'
    <3>0. disk' \in [Loc -> Content \cup {Absent}]
      <4>1. /\ disk \in [Loc -> Content \cup {Absent}] /\ out \in Content \cup {Absent}
            /\ disk' = disk \/ disk' = [disk EXCEPT ![Tgt[job]] = out]
        BY DEF TypeOK
      <4> QED
        BY ONLY <4>1
    <3>1. /\ cache' \in Content \cup {Absent}
          /\ cacheSize' \in Nat /\ files' \subseteq CacheFile
      BY DEF TypeOK
    <3>2. /\ job' \in Job /\ retry' \in {0, 1} /\ need' \in Nat
          /\ restarts' \in 0..MaxRestarts
      BY DEF TypeOK
    <3>3. /\ src' \in Content \cup {NoData} /\ cpy' \in Content \cup {NoData}
          /\ out' \in Content \cup {Absent} /\ use' \in {"source", "copy"}
      BY DEF TypeOK
    <3>4. made_copy' \in BOOLEAN
      BY DEF TypeOK
    <3>5. /\ ret' \in {"save", "space"} /\ victims' \subseteq CacheFile
          /\ pc' \in {"check", "space", "free", "start", "loop", "save", "saving",
                      "unlink", "patch", "verify", "commit", "writing",
                      "cleanup", "done", "failed"}
      BY DEF TypeOK
    <3> QED
      BY <3>0, <3>1, <3>2, <3>3, <3>4, <3>5 DEF TypeOK
  <2>2. Recoverable'
    BY DEF Recoverable, CanFinish, TypeOK, OutputSafe
  <2>3. EarlierDone'
    BY DEF EarlierDone, Patching, TypeOK, OutputSafe
  <2>4. LaterUntouched'
    <3>1. CASE pc' = "failed" /\ UNCHANGED disk
      BY <3>1 DEF LaterUntouched, TypeOK
    <3>2. CASE disk' = [disk EXCEPT ![Tgt[job]] = out]
      BY <3>2 DEF LaterUntouched, EarlierDone, Patching, TypeOK, OutputSafe
    <3> QED
      BY <3>1, <3>2
  <2>5. SourceSafe'
    BY DEF SourceSafe, Patching, NotYetSaved, TypeOK
  <2>6. OutputSafe'
    BY DEF OutputSafe, TypeOK
  <2>7. DoneMeansPatched'
    BY DEF DoneMeansPatched, TypeOK
  <2> QED
    BY <2>1, <2>2, <2>3, <2>4, <2>5, <2>6, <2>7
<1>14. CASE WriteToPartition
  <2> USE <1>14 DEF WriteToPartition, Goto
  <2>1. TypeOK'
    BY DEF TypeOK
  <2>2. Recoverable'
    BY DEF Recoverable, CanFinish, TypeOK
  <2>3. EarlierDone'
    BY DEF EarlierDone, Patching, TypeOK
  <2>4. LaterUntouched'
    BY DEF LaterUntouched, EarlierDone, Patching, TypeOK
  <2>5. SourceSafe'
    BY DEF SourceSafe, OutputSafe, Patching, NotYetSaved, TypeOK
  <2>6. OutputSafe'
    BY DEF OutputSafe, TypeOK
  <2>7. DoneMeansPatched'
    BY DEF DoneMeansPatched, TypeOK
  <2> QED
    BY <2>1, <2>2, <2>3, <2>4, <2>5, <2>6, <2>7
<1>15. CASE PartitionWritten
  <2> USE <1>15 DEF PartitionWritten, Goto, Fail
  <2>1. TypeOK'
    <3>1. disk' \in [Loc -> Content \cup {Absent}]
      <4>1. /\ disk \in [Loc -> Content \cup {Absent}] /\ out \in Content \cup {Absent}
            /\ disk' = disk \/ disk' = [disk EXCEPT ![Tgt[job]] = out]
        BY DEF TypeOK
      <4> QED
        BY ONLY <4>1
    <3>2. /\ pc' \in {"cleanup", "failed"}
          /\ UNCHANGED <<cache, cacheSize, files, job, src, cpy, use, retry, made_copy,
                         out, need, ret, victims, restarts>>
      OBVIOUS
    <3> QED
      BY ONLY <3>1, <3>2, IInv DEF IInv, TypeOK
  <2>2. Recoverable'
    BY DEF Recoverable, CanFinish, TypeOK, OutputSafe
  <2>3. EarlierDone' /\ LaterUntouched'
    <3>1. CASE pc' = "failed" /\ UNCHANGED disk
      BY <3>1 DEF EarlierDone, LaterUntouched, Patching, TypeOK
    <3>2. CASE pc' = "cleanup" /\ disk' = [disk EXCEPT ![Tgt[job]] = out]
      <4>1. EarlierDone'
        BY <3>2 DEF EarlierDone, Patching, TypeOK, OutputSafe
      <4>2. LaterUntouched'
        BY <3>2 DEF LaterUntouched, EarlierDone, Patching, TypeOK, OutputSafe
      <4> QED
        BY <4>1, <4>2
    <3> QED
      BY <3>1, <3>2
  <2>5. SourceSafe'
    BY DEF SourceSafe, Patching, NotYetSaved, TypeOK
  <2>6. OutputSafe'
    BY DEF OutputSafe, TypeOK
  <2>7. DoneMeansPatched'
    BY DEF DoneMeansPatched, TypeOK
  <2> QED
    BY <2>1, <2>2, <2>3, <2>5, <2>6, <2>7
<1>16. CASE RemoveCopy
  <2> USE <1>16 DEF RemoveCopy, NextJob
  <2>1. TypeOK'
    BY DEF TypeOK
  <2>2. Recoverable'
    BY DEF Recoverable, CanFinish, TypeOK, EarlierDone, LaterUntouched
  <2>3. EarlierDone'
    BY DEF EarlierDone, Patching, TypeOK
  <2>4. LaterUntouched'
    BY DEF LaterUntouched, TypeOK
  <2>5. SourceSafe'
    BY DEF SourceSafe, Patching, NotYetSaved, TypeOK
  <2>6. OutputSafe'
    BY DEF OutputSafe, TypeOK
  <2>7. DoneMeansPatched'
    <3>1. disk' = disk
      OBVIOUS
    <3>2. ASSUME pc' = "done" PROVE job = N /\ pc = "cleanup" /\ disk[Tgt[job]] = Target[job]
      BY <3>2 DEF EarlierDone, TypeOK
    <3>3. ASSUME pc' = "done", NEW j \in Job PROVE disk[Tgt[j]] = Target[j]
      <4>1. j < job \/ j = job
        BY <3>2, <3>3 DEF TypeOK
      <4> QED
        BY <3>2, <3>3, <4>1 DEF EarlierDone
    <3> QED
      BY ONLY <3>1, <3>3 DEF DoneMeansPatched, Job
  <2> QED
    BY <2>1, <2>2, <2>3, <2>4, <2>5, <2>6, <2>7
<1>17. CASE Restart
  <2> USE <1>17 DEF Restart
  <2>1. TypeOK'
    <3>1. /\ disk' \in [Loc -> Content \cup {Absent}]
          /\ cache' \in Content \cup {Absent}
          /\ cacheSize' \in Nat /\ files' \subseteq CacheFile
      BY DEF TypeOK
    <3>2. /\ job' \in Job /\ retry' \in {0, 1} /\ need' \in Nat
          /\ restarts' \in 0..MaxRestarts
      BY DEF TypeOK
    <3>3. /\ src' \in Content \cup {NoData} /\ cpy' \in Content \cup {NoData}
          /\ out' \in Content \cup {Absent} /\ use' \in {"source", "copy"}
      BY DEF TypeOK
    <3>4. made_copy' \in BOOLEAN
      BY DEF TypeOK
    <3>5. /\ ret' \in {"save", "space"} /\ victims' \subseteq CacheFile
          /\ pc' \in {"check", "space", "free", "start", "loop", "save", "saving",
                      "unlink", "patch", "verify", "commit", "writing",
                      "cleanup", "done", "failed"}
      BY DEF TypeOK
    <3> QED
      BY <3>1, <3>2, <3>3, <3>4, <3>5 DEF TypeOK
  <2>2. Recoverable'
    BY DEF Recoverable, CanFinish, TypeOK
  <2>3. EarlierDone'
    BY DEF EarlierDone, Patching, TypeOK
  <2>4. LaterUntouched'
    BY DEF LaterUntouched, TypeOK
  <2>5. SourceSafe'
    BY DEF SourceSafe, Patching, NotYetSaved, TypeOK
  <2>6. OutputSafe'
    BY DEF OutputSafe, TypeOK
  <2>7. DoneMeansPatched'
    BY DEF DoneMeansPatched, TypeOK
  <2> QED
    BY <2>1, <2>2, <2>3, <2>4, <2>5, <2>6, <2>7
<1>18. CASE UNCHANGED vars
  BY <1>18 DEF vars, TypeOK, Recoverable, CanFinish, EarlierDone,
     LaterUntouched, SourceSafe, OutputSafe, DoneMeansPatched, Patching, NotYetSaved
<1> QED
  BY <1>1, <1>2, <1>4, <1>5, <1>6, <1>7, <1>8, <1>9, <1>10, <1>11, <1>12, <1>13, <1>14, <1>15, <1>16, <1>17, <1>18 DEF Next, Updater

\* The inductive invariant is an invariant.
THEOREM Invariance == Spec => []IInv
<1> QED
  BY InitIInv, NextIInv, PTL DEF Spec

\* Every variable keeps its type; in particular no step reads the size of a
\* source that was never loaded.
THEOREM TypeCorrect == Spec => []TypeOK
<1>1. IInv => TypeOK
  BY DEF IInv
<1> QED
  BY <1>1, Invariance, PTL

\* No crash, fault or retry loses the only content a patched file can be
\* produced from.
THEOREM FilesRecoverable == Spec => []Recoverable
<1>1. IInv => Recoverable
  BY DEF IInv
<1> QED
  BY <1>1, Invariance, PTL

\* A partition is only overwritten while /cache holds what it held.
THEOREM BackupBeforeWrite == Spec => []BackedUpWhileWriting
<1>1. IInv => BackedUpWhileWriting
  BY DEF IInv, BackedUpWhileWriting, SourceSafe, OutputSafe, Patching
<1> QED
  BY <1>1, Invariance, PTL

\* A package that reports success has brought every location to its target.
THEOREM SuccessMeansPatched == Spec => []DoneMeansPatched
<1>1. IInv => DoneMeansPatched
  BY DEF IInv
<1> QED
  BY <1>1, Invariance, PTL

\* How a step can change the locations: only the current call's target, to
\* its new content, or the locations of a call that is not done.
LEMMA StepLemma ==
    ASSUME IInv, [Next]_vars, NEW j \in Job, disk[Tgt[j]] = Target[j]
    PROVE  disk'[Tgt[j]] = Target[j]
<1> USE JobAssumption, ContentAssumption DEF Job, IInv, TypeOK
<1>1. CASE UnlinkSource
  BY <1>1 DEF UnlinkSource, EarlierDone, Patching
<1>2. CASE RenameOutput
  BY <1>2 DEF RenameOutput, OutputSafe
<1>3. CASE WriteToPartition
  BY <1>3 DEF WriteToPartition, EarlierDone, Patching
<1>4. CASE PartitionWritten
  BY <1>4 DEF PartitionWritten, OutputSafe
<1>5. CASE UNCHANGED disk
  BY <1>5
<1> QED
  BY <1>1, <1>2, <1>3, <1>4, <1>5
     DEF Next, Updater, vars, storage, ApplypatchCheck, MakeFreeSpaceOnCache,
         DeleteExpendable, LoadSource, PartitionTarget, EnoughSpace,
         NotEnoughSpace, SaveOpen, SaveFileContents, RunPatch, VerifyOutput,
         RemoveCopy, Restart

\* A location that holds its target is never touched again.
THEOREM TargetsFinal == Spec => TargetsAreFinal
<1>1. IInv /\ [Next]_vars =>
        [\A j \in Job : disk[Tgt[j]] = Target[j] => disk'[Tgt[j]] = Target[j]]_vars
  BY StepLemma
<1> QED
  BY <1>1, Invariance, PTL DEF Spec, TargetsAreFinal

\* The abstract version of a call: done, still possible, or lost.
LEMMA VersionLemma ==
    ASSUME IInv
    PROVE  fileVersion = [j \in FileJob |->
                            IF disk[Tgt[j]] = Target[j] THEN "new" ELSE "old"]
  BY DEF IInv, Recoverable, FileJob, fileVersion

\* The file patches of a package implement AtomicPatch, whatever partitions
\* it overwrites in place between them: each takes effect at its rename().
THEOREM Refinement == Spec => ImplementsAtomicPatch
<1> DEFINE V == [j \in FileJob |-> IF disk[Tgt[j]] = Target[j] THEN "new" ELSE "old"]
<1>1. Init => Atomic!Init
  <2> SUFFICES ASSUME Init PROVE Atomic!Init
    OBVIOUS
  <2>1. fileVersion = V
    BY InitIInv, VersionLemma
  <2> QED
    BY <2>1 DEF Atomic!Init
<1>2. IInv /\ IInv' /\ [Next]_vars => [Atomic!Next]_fileVersion
  <2> SUFFICES ASSUME IInv, IInv', [Next]_vars PROVE [Atomic!Next]_fileVersion
    OBVIOUS
  <2> USE JobAssumption, ContentAssumption DEF IInv, TypeOK
  <2>1. fileVersion = V
    BY VersionLemma
  <2>2. fileVersion' = V'
    BY DEF Recoverable, CanFinish, FileJob, fileVersion
  <2>3. CASE RenameOutput
    <3>1. /\ job \in FileJob /\ V[job] = "old"
          /\ \A k \in FileJob : k < job => V[k] = "new"
      BY <2>3 DEF RenameOutput, EarlierDone, Patching, FileJob
    <3> DEFINE W == [V EXCEPT ![job] = "new"]
    <3>2. UNCHANGED disk \/ V' = W
      <4>1. SUFFICES ASSUME disk' = [disk EXCEPT ![Tgt[job]] = out]
                     PROVE  V' = W
        BY <2>3 DEF RenameOutput
      <4>2. \A j \in FileJob : /\ j # job => disk'[Tgt[j]] = disk[Tgt[j]]
                               /\ j = job => disk'[Tgt[j]] = Target[j]
        BY <2>3, <4>1 DEF RenameOutput, OutputSafe, FileJob
      <4>3. \A j \in FileJob : V'[j] = W[j]
        BY <3>1, <4>2
      <4>4. V' = [j \in FileJob |-> V'[j]] /\ W = [j \in FileJob |-> W[j]]
        BY Zenon
      <4> HIDE DEF V, W
      <4> QED
        BY <4>3, <4>4
    <3>3. CASE UNCHANGED disk
      BY <3>3, <2>1, <2>2
    <3>4. CASE V' = W
      <4>1. Atomic!Patch(job)
        BY <3>1, <3>4, <2>1, <2>2 DEF Atomic!Patch
      <4> QED
        BY <3>1, <4>1 DEF Atomic!Next
    <3> QED
      BY <3>2, <3>3, <3>4
  <2>4. CASE UnlinkSource
    <3>1. V' = V
      BY <2>4 DEF UnlinkSource, EarlierDone, Patching, FileJob
    <3> QED
      BY <3>1, <2>1, <2>2
  <2>5. CASE WriteToPartition \/ PartitionWritten
    <3>1. V' = V
      BY <2>5 DEF WriteToPartition, PartitionWritten, OutputSafe, FileJob
    <3> QED
      BY <3>1, <2>1, <2>2
  <2>6. CASE UNCHANGED disk
    BY <2>6, <2>1, <2>2
  <2> QED
    BY <2>3, <2>4, <2>5, <2>6
       DEF Next, Updater, vars, storage, ApplypatchCheck, MakeFreeSpaceOnCache,
           DeleteExpendable, LoadSource, PartitionTarget, EnoughSpace,
           NotEnoughSpace, SaveOpen, SaveFileContents, RunPatch, VerifyOutput,
           RemoveCopy, Restart
<1> QED
  BY <1>1, <1>2, Invariance, PTL DEF Spec, ImplementsAtomicPatch, Atomic!Spec

=============================================================================
