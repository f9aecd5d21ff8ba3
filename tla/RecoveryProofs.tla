--------------------------- MODULE RecoveryProofs ---------------------------
(***************************************************************************)
(* The command protocol, for every set of commands and every number of     *)
(* crashes.  On every device, a factory reset that succeeds has erased the *)
(* user's files, the log is complete, and the encrypted filesystem is not  *)
(* enabled without its keys.  On a device with a bootloader control block  *)
(* whose writes succeed, no power loss, failure or user makes recovery     *)
(* forget a command that it has accepted.                                  *)
(***************************************************************************)
EXTENDS Recovery, SequenceTheorems, TLAPS

\* device_flash_type() == MTD, and set_bootloader_message() returns 0.
Reliable == Mtd /\ "bcb" \notin Faults

\* The lists of volumes main() and the menus erase.
LEMMA ListLemma ==
  /\ <<"data", "cache">> \in Seq(Volume) /\ <<"data", "cache">> # <<>>
  /\ <<"cache">> \in Seq(Volume) /\ <<"cache">> # <<>>
  /\ <<>> \in Seq(Volume)
  BY DEF Volume

\* The messages recovery puts into the BCB.
LEMMA MessageLemma ==
  ASSUME NEW a \in SUBSET Option
  PROVE  /\ [boot |-> TRUE, args |-> a] \in [boot : BOOLEAN, args : SUBSET Option]
         /\ Blank \in [boot : BOOLEAN, args : SUBSET Option]
         /\ [boot |-> TRUE, args |-> {}] \in [boot : BOOLEAN, args : SUBSET Option]
  BY DEF Blank

LEMMA InitTyped == Init => TypeOK /\ Locals
<1> SUFFICES ASSUME Init PROVE TypeOK /\ Locals
  OBVIOUS
<1>1. files \in [Volume -> SUBSET File]
  BY DEF Init, Contents, File, DataFile, CacheFile
<1>2. bcb \in [boot : BOOLEAN, args : SUBSET Option] /\ todo \in Seq(Volume)
  BY MessageLemma, ListLemma DEF Init, FreshMemory
<1>3. TypeOK
  <2>1. fs \in [Volume -> {"ok", "broken"}] /\ intent \in BOOLEAN
    BY RecoveryAssumption DEF Init
  <2>2. command \in (SUBSET Option) \cup {NoFile} /\ log \subseteq 1..MaxLog
    BY DEF Init
  <2>3. /\ requests \in 0..MaxRequests /\ crashes \in 0..MaxCrashes
        /\ tmplog \in 0..MaxLog /\ tmplog_offset \in 0..MaxLog
        /\ restored \in 0..5
    BY RecoveryAssumption DEF Init, FreshMemory
  <2> QED
    BY <1>1, <1>2, <2>1, <2>2, <2>3 DEF Init, TypeOK, FreshMemory, RecoveryPc
<1> QED
  BY <1>3 DEF Init, Locals, FreshMemory

\* RestoreSeq names files of /data.
LEMMA RestoreLemma == \A i \in 1..5 : RestoreSeq[i] \in File
  BY DEF File, DataFile

\* erase_volume()'s continuation stays within the types and the phases.
LEMMA ErasedLemma ==
  ASSUME TypeOK, Locals, NEW ok \in BOOLEAN, Erased(ok),
         pc \in {"erase", "erasing"}
  PROVE  /\ status' \in {"ok", "error"} /\ todo' \in Seq(Volume)
         /\ restored' = 0
         /\ pc' \in {"erase", "prompt", "restore", "after"}
         /\ pc' = "erase" => todo' # <<>>
         /\ ret = "main" => pc' \in {"erase", "restore", "after"}
         /\ ret # "main" => pc' \in {"erase", "prompt"}
<1>1. status' \in {"ok", "error"} /\ restored' = 0
  BY DEF Erased, Failed, TypeOK
<1>2. todo \in Seq(Volume) /\ todo # <<>>
  BY DEF TypeOK, Locals
<1>3. Tail(todo) \in Seq(Volume) /\ (Len(todo) > 1 => Tail(todo) # <<>>)
  <2>1. Tail(todo) \in Seq(Volume) /\ Len(Tail(todo)) = Len(todo) - 1
    BY <1>2
  <2>2. \A seq \in Seq(Volume) : seq = <<>> <=> Len(seq) = 0
    BY EmptySeq
  <2>3. \A n \in Nat : n > 1 => n - 1 # 0
    OBVIOUS
  <2>4. Len(todo) \in Nat
    BY <1>2, LenProperties
  <2>5. Len(todo) > 1 => Len(Tail(todo)) # 0
    BY <2>1, <2>3, <2>4
  <2> QED BY <2>1, <2>2, <2>5
<1>4. todo' \in Seq(Volume) /\ (pc' = "erase" => todo' # <<>>)
  BY <1>3, ListLemma DEF Erased
<1>5. /\ pc' \in {"erase", "prompt", "restore", "after"}
      /\ ret = "main" => pc' \in {"erase", "restore", "after"}
      /\ ret # "main" => pc' \in {"erase", "prompt"}
  BY DEF Erased
<1> QED BY <1>1, <1>4, <1>5

\* The memory of a process that is gone.
LEMMA LostTyped ==
  ASSUME LoseMemory
  PROVE  /\ args' \in SUBSET Option /\ mode' \in {"enabled", "disabled"}
         /\ status' \in {"ok", "error"} /\ todo' \in Seq(Volume)
         /\ restored' \in 0..5 /\ ret' = "main" /\ logLost' \in BOOLEAN
         /\ tmplog' \in 0..MaxLog /\ tmplog_offset' \in 0..MaxLog
<1>1. args' = {} /\ mode' = "disabled" /\ status' = "ok" /\ todo' = <<>> /\ ret' = "main"
  BY DEF LoseMemory
<1>2. restored' = 0 /\ tmplog' = 0 /\ tmplog_offset' = 0
  BY DEF LoseMemory
<1>3. logLost' \in BOOLEAN
  BY Zenon DEF LoseMemory
<1>4. 0 \in 0..5 /\ 0 \in 0..MaxLog
  BY RecoveryAssumption
<1> QED BY <1>1, <1>2, <1>3, <1>4, ListLemma

\* A filesystem holds the files it was made with, or those of a backup.
LEMMA ContentsTyped == \A v \in Volume : Contents(v) \in SUBSET File
  BY DEF Contents, File, DataFile, CacheFile

\* What an interrupted format leaves.
LEMMA RemainsTyped ==
  ASSUME TypeOK, NEW v \in Volume, Remains(v)
  PROVE  /\ files' \in [Volume -> SUBSET File]
         /\ command' \in (SUBSET Option) \cup {NoFile}
         /\ log' \subseteq 1..MaxLog
<1>1. files' \in [Volume -> SUBSET File]
  BY DEF Remains, TypeOK
<1>2. command' \in (SUBSET Option) \cup {NoFile}
  BY DEF Remains, TypeOK
<1>3. log' \subseteq 1..MaxLog
  BY DEF Remains, TypeOK
<1> QED BY <1>1, <1>2, <1>3

\* copy_log_file() appends lines of the temporary log behind the offset, and
\* all of them unless a write fails.
LEMMA CopyLemma ==
  ASSUME TypeOK, tmplog_offset <= tmplog, CopyLog
  PROVE  \/ UNCHANGED <<log, logLost, tmplog_offset>>
         \/ /\ tmplog_offset' = tmplog
            /\ \E n \in 0..tmplog : /\ log' = log \cup (tmplog_offset + 1)..n
                                   /\ logLost' = (logLost \/ n < tmplog)
  BY DEF CopyLog, TypeOK

LEMMA NextTyped == TypeOK /\ Locals /\ [Next]_vars => TypeOK' /\ Locals'
<1> SUFFICES ASSUME TypeOK, Locals, [Next]_vars PROVE TypeOK' /\ Locals'
  OBVIOUS
<1> USE RecoveryAssumption
<1>1. CASE SystemRequests
  BY <1>1 DEF SystemRequests, memory, bounds, TypeOK, Locals, NoFile, RecoveryPc
<1>2. CASE Bootloader
  BY <1>2 DEF Bootloader, memory, bounds, TypeOK, Locals, RecoveryPc
<1>3. CASE Crash
  BY <1>3, LostTyped DEF Crash, storage, TypeOK, Locals, RecoveryPc
<1>4. CASE GetArgs
  BY <1>4 DEF GetArgs, storage, bounds, TypeOK, Locals, RecoveryPc, NoFile
<1>5. CASE SetBcb
  <2>1. bcb' \in [boot : BOOLEAN, args : SUBSET Option]
    BY <1>5, MessageLemma DEF SetBcb, SetBootloaderMessage, TypeOK
  <2> QED
    BY <1>5, <2>1 DEF SetBcb, memory, bounds, TypeOK, Locals, RecoveryPc
<1>6. CASE Dispatch
  <2>1. TypeOK' /\ Locals'
    <3>1. todo' \in Seq(Volume) /\ (pc' = "erase" => todo' # <<>>)
      BY <1>6, ListLemma DEF Dispatch, TypeOK
    <3>2. /\ pc' \in {"read_info", "erase", "after", "install", "script"}
          /\ mode' \in {"enabled", "disabled"} /\ status' \in {"ok", "error"}
          /\ tmplog' \in 0..MaxLog
      BY <1>6 DEF Dispatch, WriteLog, TypeOK
    <3> QED
      BY <1>6, <3>1, <3>2 DEF Dispatch, storage, bounds, TypeOK, Locals,
                              RecoveryPc
  <2> QED BY <2>1
<1>7. CASE ReadInfo
  BY <1>7 DEF ReadInfo, storage, bounds, TypeOK, Locals, RecoveryPc, Volume
<1>8. CASE Erase
  <2> DEFINE v == Head(todo)
  <2>1. v \in Volume
    BY <1>8 DEF Erase, TypeOK, Locals
  <2>2. /\ fs' \in [Volume -> {"ok", "broken"}]
        /\ files' \in [Volume -> SUBSET File]
        /\ command' \in (SUBSET Option) \cup {NoFile}
        /\ log' \subseteq 1..MaxLog
    <3>1. CASE Remains(v)
      <4>2. fs' \in [Volume -> {"ok", "broken"}]
        BY <1>8, <2>1 DEF Erase, TypeOK
      <4> QED BY <2>1, <4>2, <3>1, RemainsTyped
    <3>2. CASE UNCHANGED <<command, fs, files, log>>
      BY <3>2 DEF TypeOK
    <3> QED BY <1>8, <3>1, <3>2 DEF Erase
  <2>3. /\ status' \in {"ok", "error"} /\ todo' \in Seq(Volume)
        /\ restored' \in 0..5
        /\ pc' \in {"erase", "erasing", "prompt", "restore", "after"}
        /\ pc' = "restore" => restored' = 0
        /\ pc' \in {"erase", "erasing"} => todo' # <<>>
        /\ ret = "main" => pc' \in {"erase", "erasing", "restore", "after"}
        /\ ret # "main" => pc' \in {"erase", "erasing", "prompt"}
    <3>1. CASE pc' = "erasing" /\ UNCHANGED <<status, todo, restored>>
      BY <1>8, <3>1 DEF Erase, TypeOK, Locals
    <3>2. CASE Erased(TRUE) \/ Erased(FALSE)
      <4>1. pc = "erase"
        BY <1>8 DEF Erase
      <4>2. /\ status' \in {"ok", "error"} /\ todo' \in Seq(Volume)
            /\ restored' = 0
            /\ pc' \in {"erase", "prompt", "restore", "after"}
            /\ pc' = "erase" => todo' # <<>>
            /\ ret = "main" => pc' \in {"erase", "restore", "after"}
            /\ ret # "main" => pc' \in {"erase", "prompt"}
        BY <4>1, <3>2, ErasedLemma
      <4> QED BY <4>2
    <3> QED BY <1>8, <3>1, <3>2 DEF Erase
  <2>4. tmplog' \in 0..MaxLog /\ tmplog_offset' \in 0..MaxLog
    BY <1>8 DEF Erase, WriteLog, TypeOK
  <2>5. /\ pc = "erase"
        /\ UNCHANGED <<bcb, image, intent, reason, args, mode, ret, owed,
                       requests, crashes>>
    BY <1>8 DEF Erase, bounds
  <2>6. logLost' \in BOOLEAN
    BY <1>8, Zenon DEF Erase, TypeOK
  <2> QED
    BY <2>2, <2>3, <2>4, <2>5, <2>6 DEF TypeOK, Locals, RecoveryPc
<1>9. CASE EraseDone
  <2> DEFINE v == Head(todo)
  <2>1. v \in Volume
    BY <1>9 DEF EraseDone, TypeOK, Locals
  <2>2. /\ fs' \in [Volume -> {"ok", "broken"}]
        /\ files' \in [Volume -> SUBSET File]
        /\ command' \in (SUBSET Option) \cup {NoFile}
        /\ log' \subseteq 1..MaxLog
    <3>1. CASE UNCHANGED <<command, fs, files, log>>
      BY <3>1 DEF TypeOK
    <3>2. CASE /\ fs' = [fs EXCEPT ![v] = "ok"]
               /\ \E S \in {{}, Contents(v)} : files' = [files EXCEPT ![v] = S]
               /\ command' \in {NoFile, command} /\ log' \in {{}, log}
      <4>1. fs' \in [Volume -> {"ok", "broken"}]
        BY <2>1, <3>2 DEF TypeOK
      <4>2. files' \in [Volume -> SUBSET File]
        BY <2>1, <3>2, ContentsTyped DEF TypeOK
      <4>3. command' \in (SUBSET Option) \cup {NoFile} /\ log' \subseteq 1..MaxLog
        BY <3>2 DEF TypeOK
      <4> QED BY <4>1, <4>2, <4>3
    <3> QED BY <1>9, <3>1, <3>2 DEF EraseDone
  <2>3. Erased(TRUE) \/ Erased(FALSE)
    BY <1>9 DEF EraseDone
  <2>4. /\ pc = "erasing"
        /\ UNCHANGED <<bcb, image, intent, reason, args, mode, ret, tmplog,
                       tmplog_offset, owed, requests, crashes>>
    BY <1>9 DEF EraseDone, bounds
  <2>5. /\ status' \in {"ok", "error"} /\ todo' \in Seq(Volume)
        /\ restored' = 0
        /\ pc' \in {"erase", "prompt", "restore", "after"}
        /\ pc' = "erase" => todo' # <<>>
        /\ ret = "main" => pc' \in {"erase", "restore", "after"}
        /\ ret # "main" => pc' \in {"erase", "prompt"}
    BY <2>3, <2>4, ErasedLemma
  <2>6. logLost' \in BOOLEAN
    BY <1>9, Zenon DEF EraseDone
  <2> QED
    BY <2>2, <2>4, <2>5, <2>6 DEF TypeOK, Locals, RecoveryPc
<1>10. CASE RestoreInfo
  <2>1. files' \in [Volume -> SUBSET File]
    <3>1. restored \in 0..5 /\ restored < 5 /\ restored + 1 \in 1..5
      BY <1>10 DEF RestoreInfo, TypeOK, Locals
    <3>2. RestoreSeq[restored + 1] \in File
      BY <3>1, RestoreLemma
    <3> QED BY <1>10, <3>2 DEF RestoreInfo, TypeOK
  <2> QED
    BY <1>10, <2>1 DEF RestoreInfo, bounds, TypeOK, Locals, RecoveryPc
<1>11. CASE Install
  BY <1>11 DEF Install, Failed, WriteLog, bounds, TypeOK, Locals, RecoveryPc
<1>12. CASE InstallDone
  BY <1>12 DEF InstallDone, Failed, bounds, TypeOK, Locals, RecoveryPc
<1>13. CASE RunExtendedCommand
  BY <1>13 DEF RunExtendedCommand, bounds, TypeOK, Locals, RecoveryPc, Volume
<1>14. CASE AfterCommand
  BY <1>14 DEF AfterCommand, storage, bounds, TypeOK, Locals, RecoveryPc
<1>15. CASE FinishRecovery
  <2>2. intent' \in BOOLEAN
    BY <1>15, Zenon DEF FinishRecovery, TypeOK
  <2>3. log' \subseteq 1..MaxLog /\ tmplog_offset' \in 0..MaxLog
    <3>1. CopyLog
      BY <1>15 DEF FinishRecovery
    <3>2. CASE UNCHANGED <<log, logLost, tmplog_offset>>
      BY <3>2 DEF TypeOK
    <3>3. ASSUME tmplog_offset' = tmplog, NEW n \in tmplog_offset..tmplog,
                 log' = log \cup (tmplog_offset + 1)..n
          PROVE  log' \subseteq 1..MaxLog /\ tmplog_offset' \in 0..MaxLog
      BY <3>3 DEF TypeOK
    <3> QED BY <3>1, <3>2, <3>3 DEF CopyLog
  <2>4. logLost' \in BOOLEAN
    BY <1>15, Zenon DEF FinishRecovery, CopyLog, TypeOK
  <2> QED
    BY <1>15, <2>2, <2>3, <2>4 DEF FinishRecovery, bounds, TypeOK, Locals, RecoveryPc
<1>16. CASE FinishBcb
  <2>2. bcb' \in [boot : BOOLEAN, args : SUBSET Option]
    BY <1>16, MessageLemma DEF FinishBcb, SetBootloaderMessage, TypeOK
  <2> QED
    BY <1>16, <2>2 DEF FinishBcb, memory, bounds, TypeOK, Locals, RecoveryPc
<1>17. CASE FinishUnlink
  BY <1>17 DEF FinishUnlink, memory, bounds, TypeOK, Locals, RecoveryPc, NoFile
<1>18. CASE Reboot
  BY <1>18, LostTyped DEF Reboot, bounds, TypeOK, Locals, RecoveryPc
<1>19. CASE User
  <2>1. CASE PromptReboot \/ PromptLoop
    <3>1. ret' \in {"exit", "prompt"} /\ pc' = "finish"
      BY <2>1 DEF PromptReboot, PromptLoop
    <3>2. UNCHANGED <<storage, args, mode, status, todo, restored, tmplog, tmplog_offset,
                      logLost, owed, bounds>>
      BY <2>1 DEF PromptReboot, PromptLoop
    <3> QED BY <3>1, <3>2 DEF storage, bounds, TypeOK, Locals, RecoveryPc
  <2>5. CASE PromptRebootRecovery
    BY <2>5, LostTyped DEF PromptRebootRecovery, TypeOK, Locals, RecoveryPc
  <2>2. CASE MenuWipe
    BY <2>2, ListLemma DEF MenuWipe, storage, bounds, TypeOK, Locals, RecoveryPc, Volume
  <2>3. CASE MenuFormat
    BY <2>3 DEF MenuFormat, storage, bounds, TypeOK, Locals, RecoveryPc
  <2>6. CASE MenuRestore
    BY <2>6 DEF MenuRestore, storage, bounds, TypeOK, Locals, RecoveryPc
  <2>4. CASE MenuInstallZip
    <3>2. bcb' \in [boot : BOOLEAN, args : SUBSET Option]
      BY <2>4, MessageLemma DEF MenuInstallZip, SetBootloaderMessage, TypeOK
    <3> QED
      BY <2>4, <3>2 DEF MenuInstallZip, bounds, TypeOK, Locals, RecoveryPc
  <2> QED BY <1>19, <2>1, <2>2, <2>3, <2>4, <2>5, <2>6 DEF User
<1>20. CASE UNCHANGED vars
  BY <1>20 DEF vars, storage, memory, bounds, TypeOK, Locals
<1> QED
  BY <1>1, <1>2, <1>3, <1>4, <1>5, <1>6, <1>7, <1>8, <1>9, <1>10, <1>11,
     <1>12, <1>13, <1>14, <1>15, <1>16, <1>17, <1>18, <1>19, <1>20
  DEF Next, Main

-----------------------------------------------------------------------------
(* The erase, the log and the encrypted filesystem, on every device        *)

\* A step that is none of erase_volume() and restore_encrypted_fs_info()
\* leaves /data alone.
LEMMA DataFrame ==
  ASSUME TypeOK, Locals, [Next]_vars
  PROVE  \/ Erase \/ EraseDone \/ RestoreInfo
         \/ files'["data"] = files["data"]
BY DEF Next, Main, User, SystemRequests, Bootloader, Crash, GetArgs, SetBcb,
       Dispatch, ReadInfo, Install, InstallDone, RunExtendedCommand,
       AfterCommand, FinishRecovery, FinishBcb, FinishUnlink, Reboot,
       PromptReboot, PromptRebootRecovery, PromptLoop, MenuWipe, MenuFormat,
       MenuRestore, MenuInstallZip, vars, storage, TypeOK, Volume

\* restore_encrypted_fs_info() starts with the first file.
LEMMA NextRestoring == Progress /\ [Next]_vars => Restoring'
<1> SUFFICES ASSUME Progress, [Next]_vars, pc' = "restore"
             PROVE  \A i \in 1..restored' : RestoreSeq[i] \in files'["data"]
  BY DEF Restoring
<1>1. CASE Erase \/ EraseDone
  <2>1. Erased(TRUE) \/ Erased(FALSE)
    BY <1>1 DEF Erase, EraseDone
  <2>2. restored' = 0
    BY <2>1 DEF Erased
  <2> QED BY <2>2
<1>2. CASE RestoreInfo
  <2>1. /\ pc = "restore" /\ restored \in 0..5 /\ restored' = restored + 1
        /\ files'["data"] = files["data"] \cup {RestoreSeq[restored + 1]}
    BY <1>2 DEF RestoreInfo, Progress, TypeOK, Volume
  <2>2. \A i \in 1..(restored + 1) : i \in 1..restored \/ i = restored + 1
    BY <2>1
  <2> QED BY <2>1, <2>2 DEF Progress, Restoring
<1>3. CASE ~(Erase \/ EraseDone \/ RestoreInfo)
  <2>1. files'["data"] = files["data"]
    BY <1>3, DataFrame DEF Progress
  <2>2. pc = "restore" /\ restored' = restored
    BY <1>3 DEF Next, Main, User, SystemRequests, Bootloader, Crash, GetArgs, SetBcb,
       Dispatch, ReadInfo, Install, InstallDone, RunExtendedCommand,
       AfterCommand, FinishRecovery, FinishBcb, FinishUnlink, Reboot,
       PromptReboot, PromptRebootRecovery, PromptLoop, MenuWipe, MenuFormat,
       MenuRestore, MenuInstallZip, vars, memory
  <2> QED BY <2>1, <2>2 DEF Progress, Restoring
<1> QED BY <1>1, <1>2, <1>3

LEMMA TodoLemma ==
  /\ Len(<<"data", "cache">>) = 2 /\ Tail(<<"data", "cache">>) = <<"cache">>
  /\ Head(<<"data", "cache">>) = "data" /\ Head(<<"cache">>) = "cache"
  /\ Len(<<"cache">>) = 1 /\ Len(<<"data">>) = 1 /\ Head(<<"data">>) = "data"
  /\ <<"data">> # <<>> /\ <<"cache">> # <<>>
OBVIOUS

\* A factory reset that succeeds has erased /data: an erase of it fails, or
\* ends with an empty filesystem.
LEMMA NextResetting ==
  "data" \in Mkfs /\ Progress /\ [Next]_vars => Resetting'
<1> SUFFICES ASSUME "data" \in Mkfs, Progress, [Next]_vars, FactoryReset'
             PROVE  Resetting'
  BY DEF Resetting
<1> USE DEF Progress
<1>1. CASE Erase
  <2>1. /\ pc = "erase" /\ args' = args /\ ret' = ret
        /\ FactoryReset /\ Resetting
    BY <1>1 DEF Erase, FactoryReset
  <2>2. CASE ret # "main"
    <3>1. pc' \in {"erasing", "erase", "prompt"}
      BY <1>1, <2>2 DEF Erase, Erased
    <3> QED BY <2>1, <2>2, <3>1 DEF Resetting
  <2>3. CASE ret = "main" /\ todo = <<"data", "cache">>
    <3>1. (pc' = "erasing" /\ todo' = todo) \/ Erased(FALSE)
      BY <1>1, <2>3, TodoLemma DEF Erase
    <3>2. Erased(FALSE) => pc' = "erase" /\ todo' = <<"cache">> /\ status' = "error"
      BY <2>1, <2>3, TodoLemma DEF Erased, Failed, FactoryReset
    <3> QED BY <2>1, <2>3, <3>1, <3>2 DEF Resetting
  <2>4. CASE ret = "main" /\ todo = <<"cache">>
    <3>1. files'["data"] = files["data"]
      BY <1>1, <2>4, TodoLemma DEF Erase, Remains, TypeOK, Volume
    <3>2. \/ pc' = "erasing" /\ todo' = todo /\ status' = status
          \/ Erased(TRUE) \/ Erased(FALSE)
      BY <1>1, <2>4, TodoLemma DEF Erase
    <3>3. \A ok \in BOOLEAN : Erased(ok) => pc' = "after" /\ status' \in {status, "error"}
      BY <2>1, <2>4, TodoLemma DEF Erased, Failed, FactoryReset
    <3>4. status = "ok" => "user" \notin files["data"]
      BY <2>1, <2>4, TodoLemma DEF Resetting
    <3> QED BY <2>1, <2>4, <3>1, <3>2, <3>3, <3>4 DEF Resetting
  <2> QED BY <2>1, <2>2, <2>3, <2>4 DEF Resetting
<1>2. CASE EraseDone
  <2>1. /\ pc = "erasing" /\ args' = args /\ ret' = ret
        /\ FactoryReset /\ Resetting
    BY <1>2 DEF EraseDone, FactoryReset
  <2>2. CASE ret # "main"
    <3>1. pc' \in {"erasing", "erase", "prompt"}
      BY <1>2, <2>2 DEF EraseDone, Erased
    <3> QED BY <2>1, <2>2, <3>1 DEF Resetting
  <2>3. CASE ret = "main" /\ todo = <<"data", "cache">>
    <3>1. (files'["data"] = {} /\ Erased(TRUE)) \/ Erased(FALSE)
      BY <1>2, <2>3, TodoLemma DEF EraseDone, TypeOK, Volume
    <3>2. \A ok \in BOOLEAN : Erased(ok) =>
              pc' = "erase" /\ todo' = <<"cache">> /\ (~ok => status' = "error")
      BY <2>1, <2>3, TodoLemma DEF Erased, Failed, FactoryReset
    <3> QED BY <2>1, <2>3, <3>1, <3>2 DEF Resetting
  <2>4. CASE ret = "main" /\ todo = <<"cache">>
    <3>1. files'["data"] = files["data"] /\ (Erased(TRUE) \/ Erased(FALSE))
      BY <1>2, <2>4, TodoLemma DEF EraseDone, TypeOK, Volume
    <3>3. \A ok \in BOOLEAN : Erased(ok) => pc' = "after" /\ status' \in {status, "error"}
      BY <2>1, <2>4, TodoLemma DEF Erased, Failed, FactoryReset
    <3>4. status = "ok" => "user" \notin files["data"]
      BY <2>1, <2>4, TodoLemma DEF Resetting
    <3> QED BY <2>1, <2>4, <3>1, <3>3, <3>4 DEF Resetting
  <2> QED BY <2>1, <2>2, <2>3, <2>4 DEF Resetting
<1>3. CASE RestoreInfo
  <2>1. pc = "restore" /\ args' = args
    BY <1>3 DEF RestoreInfo
  <2> QED BY <2>1 DEF Resetting, FactoryReset
<1>4. CASE GetArgs
  BY <1>4 DEF GetArgs, Resetting
<1>5. CASE Dispatch
  <2>1. pc' = "erase" /\ todo' = <<"data", "cache">>
    BY <1>5 DEF Dispatch, FactoryReset
  <2> QED BY <2>1 DEF Resetting
<1>6. CASE ~(Erase \/ EraseDone \/ RestoreInfo \/ GetArgs \/ Dispatch)
  <2>1. files'["data"] = files["data"]
    BY <1>6, DataFrame
  <2>2. CASE args' = args
    <3>1. FactoryReset /\ Resetting
      BY <2>2 DEF FactoryReset
    <3> QED
      BY <1>6, <2>1, <2>2, <3>1 DEF Resetting, Next, Main, User, SystemRequests, Bootloader,
       Crash, SetBcb, ReadInfo, Install, InstallDone, RunExtendedCommand,
       AfterCommand, FinishRecovery, FinishBcb, FinishUnlink, Reboot, LoseMemory,
       PromptReboot, PromptRebootRecovery, PromptLoop, MenuWipe, MenuFormat,
       MenuRestore, MenuInstallZip, vars, memory, Failed
  <2>3. CASE args' # args
    <3>1. pc' = "bootloader"
      BY <1>6, <2>3 DEF Next, Main, User, SystemRequests, Bootloader,
       Crash, SetBcb, ReadInfo, Install, InstallDone, RunExtendedCommand,
       AfterCommand, FinishRecovery, FinishBcb, FinishUnlink, Reboot,
       PromptReboot, PromptRebootRecovery, PromptLoop, MenuWipe, MenuFormat,
       MenuRestore, MenuInstallZip, vars, memory
    <3> QED BY <3>1 DEF Resetting
  <2> QED BY <2>2, <2>3
<1> QED BY <1>1, <1>2, <1>3, <1>4, <1>5, <1>6

\* finish_recovery() appends from the offset; an erase of /cache resets it.
LEMMA NextLogged == Progress /\ [Next]_vars => Logged'
<1> SUFFICES ASSUME Progress, [Next]_vars PROVE Logged'
  OBVIOUS
<1> USE DEF Progress
<1>a. /\ tmplog \in Nat /\ tmplog_offset \in Nat /\ MaxLog \in Nat /\ log \subseteq 1..MaxLog
      /\ tmplog <= MaxLog /\ Logged
  BY RecoveryAssumption DEF TypeOK
<1>b. WriteLog => tmplog' \in Nat /\ tmplog <= tmplog' /\ 1..tmplog \subseteq 1..tmplog'
  BY <1>a DEF WriteLog
<1>1. CASE SystemRequests
  BY <1>1, <1>a DEF SystemRequests, memory, Logged
<1>2. CASE Bootloader
  BY <1>2, <1>a DEF Bootloader, memory, Logged
<1>3. CASE Crash \/ Reboot \/ PromptRebootRecovery
  <2>1. /\ pc' = "bootloader" /\ tmplog' = 0 /\ tmplog_offset' = 0 /\ logLost' = FALSE
    BY <1>3 DEF Crash, Reboot, PromptRebootRecovery, LoseMemory
  <2> QED BY <2>1 DEF Logged
<1>4. CASE GetArgs \/ SetBcb \/ ReadInfo \/ RunExtendedCommand \/ AfterCommand
  BY <1>4, <1>a DEF GetArgs, SetBcb, ReadInfo, RunExtendedCommand, AfterCommand, storage,
     memory, Logged, Locals
<1>5. CASE Dispatch \/ Install
  <2>1. /\ WriteLog /\ tmplog_offset' = tmplog_offset /\ log' = log /\ logLost' = logLost
        /\ pc \in {"dispatch", "install"} /\ pc' \notin {"system", "bootloader", "finish_bcb", "erasing"}
        /\ pc' = "erase" => ret' = "main"
    BY <1>5 DEF Dispatch, Install, storage, Locals
  <2> QED BY <2>1, <1>a, <1>b DEF Logged
<1>6. CASE Erase
  <2> DEFINE wipes == Head(todo) = "cache" /\ ~Bypass
  <2>1. /\ WriteLog /\ pc = "erase" /\ ret' = ret
        /\ log' \in {{}, log}
        /\ tmplog_offset' = IF wipes THEN 0 ELSE tmplog_offset
    BY <1>6 DEF Erase, Remains
  <2>2. ~wipes /\ ~logLost' => ~logLost /\ log' = log
    BY <1>6, Zenon DEF Erase
  <2>3. \/ pc' = "erasing" /\ todo' = todo
        \/ pc' \in {"erase", "prompt", "restore", "after"}
    BY <1>6, <2>1, ErasedLemma DEF Erase
  <2>4. log' \subseteq 1..tmplog' /\ tmplog_offset' <= tmplog'
    <3>1. log \subseteq 1..tmplog /\ tmplog_offset <= tmplog
      BY <2>1, <1>a DEF Logged
    <3>2. tmplog \in Nat /\ tmplog' \in Nat /\ tmplog <= tmplog' /\ 1..tmplog \subseteq 1..tmplog'
      BY <2>1, <1>a, <1>b
    <3>3. tmplog_offset' \in {0, tmplog_offset}
      BY <2>1
    <3>4. log' \subseteq 1..tmplog'
      BY <2>1, <3>1, <3>2
    <3>5. tmplog_offset' <= tmplog'
      BY <3>1, <3>2, <3>3, <1>a
    <3> QED BY <3>4, <3>5
  <2>5. ~logLost' => 1..tmplog_offset' \subseteq log'
    <3>1. CASE wipes
      BY <2>1, <3>1
    <3>2. CASE ~wipes
      BY <2>1, <2>2, <3>2, <1>a DEF Logged
    <3> QED BY <3>1, <3>2
  <2>6. pc' = "erasing" /\ Head(todo') = "cache" => tmplog_offset' = 0 \/ Bypass'
    BY <2>1, <2>3 DEF Bypass
  <2> QED BY <2>3, <2>4, <2>5, <2>6 DEF Logged
<1>7. CASE EraseDone
  <2>1. /\ pc = "erasing" /\ ret' = ret /\ tmplog' = tmplog /\ tmplog_offset' = tmplog_offset
        /\ log' = log \/ (log' = {} /\ Head(todo) = "cache")
        /\ Erased(TRUE) \/ Erased(FALSE)
    BY <1>7 DEF EraseDone
  <2>2. pc' \in {"erase", "prompt", "restore", "after"}
    BY <2>1, ErasedLemma
  <2>3. ~logLost' => ~logLost /\ (log' = log \/ ~Bypass)
    BY <1>7, Zenon DEF EraseDone
  <2>4. ~logLost' => 1..tmplog_offset' \subseteq log'
    <3>1. CASE log' = log
      BY <2>1, <2>3, <3>1, <1>a DEF Logged
    <3>2. CASE ~Bypass /\ log' = {} /\ Head(todo) = "cache"
      <4>1. tmplog_offset' = 0
        BY <2>1, <3>2, <1>a DEF Logged
      <4> QED BY <3>2, <4>1
    <3> QED BY <2>1, <2>3, <3>1, <3>2
  <2>5. log' \subseteq 1..tmplog' /\ tmplog_offset' <= tmplog'
    BY <2>1, <1>a DEF Logged
  <2> QED BY <2>2, <2>4, <2>5 DEF Logged
<1>8. CASE RestoreInfo \/ InstallDone \/ FinishBcb \/ FinishUnlink
  BY <1>8, <1>a DEF RestoreInfo, InstallDone, FinishBcb, FinishUnlink, memory, Logged
<1>9. CASE FinishRecovery
  <2>1. CopyLog /\ pc = "finish" /\ pc' = "finish_bcb" /\ tmplog' = tmplog
    BY <1>9 DEF FinishRecovery
  <2>2. log \subseteq 1..tmplog /\ tmplog_offset <= tmplog
    BY <2>1, <1>a DEF Logged
  <2>3. CASE UNCHANGED <<log, logLost, tmplog_offset>>
    BY <2>1, <2>2, <2>3, <1>a DEF Logged
  <2>4. ASSUME tmplog_offset' = tmplog, NEW n \in 0..tmplog,
               log' = log \cup (tmplog_offset + 1)..n,
               logLost' = (logLost \/ n < tmplog)
        PROVE  Logged'
    <3>1. log' \subseteq 1..tmplog'
      BY <2>1, <2>2, <2>4, <1>a
    <3>2. ASSUME ~logLost' PROVE 1..tmplog_offset' \subseteq log'
      <4>0. ~(n < tmplog)
        BY <3>2, <2>4, Zenon
      <4>1. n = tmplog
        BY <4>0, <2>4, <1>a
      <4>2. 1..tmplog_offset \subseteq log
        BY <3>2, <2>4, <1>a DEF Logged
      <4>3. \A k \in 1..tmplog : k \in 1..tmplog_offset \/ k \in (tmplog_offset + 1)..tmplog
        BY <1>a
      <4> QED BY <4>1, <4>2, <4>3, <2>4
    <3> QED BY <2>1, <2>4, <3>1, <3>2, <1>a DEF Logged
  <2> QED BY <2>1, <2>2, <2>3, <2>4, CopyLemma
<1>10. CASE PromptReboot \/ PromptLoop \/ MenuWipe \/ MenuFormat \/ MenuRestore \/ MenuInstallZip
  <2>1. /\ pc = "prompt" /\ pc' \in {"finish", "erase", "install"} /\ log' = log
        /\ tmplog' = tmplog /\ tmplog_offset' = tmplog_offset /\ logLost' = logLost
    BY <1>10 DEF PromptReboot, PromptLoop, MenuWipe, MenuFormat, MenuRestore, MenuInstallZip,
                 storage
  <2> QED BY <2>1, <1>a DEF Logged
<1>11. CASE UNCHANGED vars
  BY <1>11, <1>a DEF vars, storage, memory, Logged, Bypass
<1> QED
  BY <1>1, <1>2, <1>3, <1>4, <1>5, <1>6, <1>7, <1>8, <1>9, <1>10, <1>11
  DEF Next, Main, User

LEMMA InitProgress == Init => Progress
<1> SUFFICES ASSUME Init PROVE Progress
  OBVIOUS
<1>1. TypeOK /\ Locals
  BY InitTyped
<1>2. Restoring /\ Resetting
  BY DEF Init, FreshMemory, Restoring, Resetting
<1>3. Logged
  BY DEF Init, FreshMemory, Logged
<1> QED BY <1>1, <1>2, <1>3 DEF Progress

LEMMA NextProgress == Progress /\ [Next]_vars => Progress'
<1> SUFFICES ASSUME Progress, [Next]_vars PROVE Progress'
  OBVIOUS
<1>1. TypeOK' /\ Locals'
  BY NextTyped DEF Progress
<1> QED
  BY <1>1, NextRestoring, NextResetting, NextLogged DEF Progress

\* On every device: types, how far erase, restore and log have come.
THEOREM ProgressInvariance == Spec => []Progress
  BY InitProgress, NextProgress, PTL DEF Spec

\* A factory reset main() takes for a success has erased the user's files,
\* where /data is erased by making a new filesystem: format_volume() fails or
\* leaves an empty one.  (An erase with rm is skipped, with success, when the
\* volume does not mount.)
THEOREM ResetsErase == ASSUME "data" \in Mkfs PROVE Spec => []ResetErases
<1>1. Progress => ResetErases
  BY DEF Progress, Resetting, ResetErases
<1> QED BY <1>1, ProgressInvariance, PTL

\* finish_recovery() leaves the whole log on /cache, whatever erases, restarts
\* and menu operations came before.  Only two things excuse a line, and both
\* are recorded in logLost: a write to LOG_FILE that failed (the offset advances
\* all the same), and a format of /cache by the partition menu or by a nandroid
\* restore (neither resets the offset).
THEOREM LogsComplete == Spec => []LogComplete
<1>1. Progress => LogComplete
  BY DEF Progress, Logged, LogComplete
<1> QED BY <1>1, ProgressInvariance, PTL

\* restore_encrypted_fs_info() writes the property that marks the encrypted
\* filesystem as enabled after each of the files it stands for.  The theorem is
\* about the order of the writes: the code does not fsync() any of them.
THEOREM KeysBeforeFlag == Spec => SecfsComplete
<1> DEFINE Flag == /\ "secfs.enabled" \notin files["data"]
                   /\ "secfs.enabled" \in files'["data"]
                   => Provisioned \subseteq files'["data"]
<1>1. Progress /\ [Next]_vars => [Flag]_vars
  <2> SUFFICES ASSUME Progress, [Next]_vars, "secfs.enabled" \notin files["data"],
                      "secfs.enabled" \in files'["data"]
               PROVE  Provisioned \subseteq files'["data"]
    OBVIOUS
  <2> USE DEF Progress
  <2>1. ~Erase /\ ~EraseDone
    <3>1. ASSUME Erase PROVE FALSE
      <4>1. Head(todo) \in Volume
        BY <3>1 DEF Erase, TypeOK, Locals
      <4>2. files' = files \/ Remains(Head(todo))
        BY <3>1 DEF Erase
      <4>3. \E S \in SUBSET files["data"] : files'["data"] = S
        BY <4>1, <4>2 DEF Remains, TypeOK, Volume
      <4> QED BY <4>3
    <3>2. ASSUME EraseDone PROVE FALSE
      <4>1. Head(todo) \in Volume
        BY <3>2 DEF EraseDone, TypeOK, Locals
      <4>2. files'["data"] \in {files["data"], {}, Contents("data")}
        BY <3>2, <4>1 DEF EraseDone, TypeOK, Volume
      <4> QED BY <4>2 DEF Contents, SourceFile
    <3> QED BY <3>1, <3>2
  <2>2. RestoreInfo
    BY <2>1, DataFrame
  <2>3. /\ pc = "restore" /\ restored \in 0..4
        /\ files'["data"] = files["data"] \cup {RestoreSeq[restored + 1]}
    BY <2>2 DEF RestoreInfo, TypeOK, Locals, Volume
  <2>4. restored = 4
    BY <2>3 DEF RestoreSeq
  <2>5. \A i \in 1..4 : RestoreSeq[i] \in files["data"]
    BY <2>3, <2>4 DEF Restoring
  <2> QED BY <2>3, <2>5 DEF RestoreSeq, Provisioned
<1> QED BY <1>1, ProgressInvariance, PTL DEF Spec, SecfsComplete

-----------------------------------------------------------------------------
(* The command, on a device with a BCB whose writes succeed                *)

LEMMA NextOwed ==
  Reliable /\ IInv /\ [Next]_vars => OwedInBcb' /\ OwedByPhase'
<1> SUFFICES ASSUME Reliable, IInv, [Next]_vars PROVE OwedInBcb' /\ OwedByPhase'
  OBVIOUS
<1> USE DEF IInv, Progress, OwedInBcb, OwedByPhase, Working
<1>1. CASE SystemRequests
  BY <1>1 DEF SystemRequests, memory
<1>2. CASE Bootloader
  BY <1>2 DEF Bootloader, memory
<1>3. CASE Crash
  BY <1>3 DEF Crash, LoseMemory, storage
<1>4. CASE GetArgs
  BY <1>4 DEF GetArgs, storage, Reliable
<1>5. CASE SetBcb
  <2>1. bcb' = [boot |-> TRUE, args |-> args]
    BY <1>5 DEF SetBcb, SetBootloaderMessage, Reliable
  <2>2. owed' = args
    BY <1>5 DEF SetBcb
  <2> QED
    BY <1>5, <2>1, <2>2 DEF SetBcb, memory
<1>6. CASE Dispatch
  BY <1>6 DEF Dispatch, storage, Locals
<1>7. CASE ReadInfo
  BY <1>7 DEF ReadInfo, storage, Locals
<1>8. CASE Erase \/ EraseDone
  <2>1. /\ pc \in {"erase", "erasing"} /\ UNCHANGED <<bcb, args, ret, owed>>
        /\ pc' = "erasing" \/ Erased(TRUE) \/ Erased(FALSE)
    BY <1>8 DEF Erase, EraseDone
  <2>2. /\ ret = "main" => pc' \in {"erase", "erasing", "restore", "after"}
        /\ ret # "main" => pc' \in {"erase", "erasing", "prompt"}
    <3>1. CASE pc' = "erasing"
      BY <3>1
    <3>2. CASE Erased(TRUE) \/ Erased(FALSE)
      BY <3>2, <2>1, ErasedLemma
    <3> QED BY <2>1, <3>1, <3>2
  <2> QED BY <2>1, <2>2
<1>9. CASE RestoreInfo
  BY <1>9 DEF RestoreInfo
<1>10. CASE Install
  BY <1>10 DEF Install
<1>11. CASE InstallDone
  BY <1>11 DEF InstallDone
<1>12. CASE RunExtendedCommand
  BY <1>12 DEF RunExtendedCommand
<1>13. CASE AfterCommand
  BY <1>13 DEF AfterCommand, storage
<1>14. CASE FinishRecovery
  BY <1>14 DEF FinishRecovery
<1>15. CASE FinishBcb
  BY <1>15 DEF FinishBcb, memory
<1>16. CASE FinishUnlink
  BY <1>16 DEF FinishUnlink, memory
<1>17. CASE Reboot
  BY <1>17 DEF Reboot, LoseMemory
<1>18. CASE User
  BY <1>18 DEF User, PromptReboot, PromptRebootRecovery, PromptLoop, MenuWipe,
               MenuFormat, MenuRestore, MenuInstallZip, storage, LoseMemory
<1>19. CASE UNCHANGED vars
  BY <1>19 DEF vars, storage, memory
<1> QED
  BY <1>1, <1>2, <1>3, <1>4, <1>5, <1>6, <1>7, <1>8, <1>9, <1>10, <1>11,
     <1>12, <1>13, <1>14, <1>15, <1>16, <1>17, <1>18, <1>19
  DEF Next, Main

LEMMA InitIInv == Init => IInv
  BY InitProgress DEF Init, IInv, OwedInBcb, OwedByPhase, Working, FreshMemory

LEMMA NextIInv == Reliable /\ IInv /\ [Next]_vars => IInv'
  BY NextProgress, NextOwed DEF IInv

\* The inductive invariant of the recovery command protocol.
THEOREM Invariance == ASSUME Reliable PROVE Spec => []IInv
  BY InitIInv, NextIInv, PTL DEF Spec

\* The main system never runs while an accepted command is unfinished:
\* get_args() writes the BCB before main() touches anything, and only
\* finish_recovery() clears it.
THEOREM CommandKept == ASSUME Reliable PROVE Spec => []NeverAbandoned
<1>1. IInv => NeverAbandoned
  BY DEF IInv, OwedByPhase, NeverAbandoned
<1> QED BY <1>1, Invariance, PTL
=============================================================================
