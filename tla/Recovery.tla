------------------------------ MODULE Recovery ------------------------------
(***************************************************************************)
(* The life of a recovery command: the main system leaves it in            *)
(* /cache/recovery/command, get_args() copies it to the bootloader control *)
(* block (BCB), main() carries it out, finish_recovery() clears both, and  *)
(* the device reboots (recovery.c, bootloader.c,                           *)
(* encryptedfs_provisioning.c).  Power may be lost between any two writes  *)
(* to storage.                                                             *)
(*                                                                         *)
(* A command is the set of its options; the contents of a volume are the   *)
(* set of the files that matter here.                                      *)
(***************************************************************************)
EXTENDS Integers, Sequences

CONSTANTS
    Mtd,          \* device_flash_type() == MTD
    Mkfs,         \* volumes erased by making a new filesystem; the others
                  \* are mounted and emptied with rm (format_unknown_device)
    Commands,     \* commands the main system may write
    InitFs,       \* the states the filesystems may be in at first
    MenuErases,   \* volumes the user wipes from the cleanup menu
    MenuFormats,  \* volumes the user formats from the partition menu
    MenuRestores, \* volumes the user restores from a nandroid backup
    Faults,       \* the failures that may happen
    MaxRequests,  \* bound on reboots into recovery that are asked for
    MaxCrashes,   \* bound on power losses
    MaxLog        \* bound on lines in the temporary log

Volume == {"data", "cache"}

\* What read_encrypted_fs_info() needs, and what
\* restore_encrypted_fs_info() writes, in its order.
SourceFile == {"fs_key.dat", "hash_salt.dat", "password.key", "entropy.dat"}

\* Mutant: the property is set before the files it stands for are there.
RestoreSeqFlagFirst == <<"secfs.enabled", "fs_key.dat", "hash_salt.dat",
                         "hash.dat", "ported_entropy.dat">>

RestoreSeq == <<"fs_key.dat", "hash_salt.dat", "hash.dat",
                "ported_entropy.dat", "secfs.enabled">>
Provisioned == {"fs_key.dat", "hash_salt.dat", "hash.dat",
                "ported_entropy.dat"}

DataFile == {"user"} \cup SourceFile \cup {RestoreSeq[i] : i \in 1..5}
CacheFile == {"package", "extendedcommand"}
File == DataFile \cup CacheFile

Option == {"send_intent", "update_package", "wipe_data", "wipe_cache",
           "secfs_on", "secfs_off", "secfs_bad"}
NoFile == {"nofile"}     \* there is no COMMAND_FILE

ASSUME RecoveryAssumption ==
    /\ Mtd \in BOOLEAN /\ Mkfs \subseteq Volume
    /\ Commands \subseteq SUBSET Option
    /\ InitFs \subseteq [Volume -> {"ok", "broken"}]
    /\ MenuErases \subseteq Volume /\ MenuFormats \subseteq Volume
    /\ MenuRestores \subseteq Volume
    /\ MaxRequests \in Nat /\ MaxCrashes \in Nat /\ MaxLog \in Nat

VARIABLES
    \* storage: survives a crash
    bcb,            \* boot.command is "boot-recovery"; options in boot.recovery
    command,        \* options in COMMAND_FILE, on /cache
    fs,             \* filesystem of each volume: "ok", or "broken" (no mount)
    files,          \* files on each volume
    image,          \* /system: "old", "half" updated or "new"
    intent,         \* INTENT_FILE was written
    log,            \* lines of this run's temporary log that are in LOG_FILE
    reason,         \* what the last reboot() asked of the bootloader
    \* memory of the recovery process
    pc, args, mode, status,
    todo,           \* volumes main() still has to erase
    restored,       \* files restore_encrypted_fs_info() has written
    ret,            \* the caller: main(), the cleanup menu, the partition menu,
                    \* a nandroid restore, the exit
    tmplog,         \* lines in TEMPORARY_LOG_FILE
    tmplog_offset,
    \* history
    owed,           \* the options accepted and not yet finished
    logLost,        \* lines before tmplog_offset were not written to LOG_FILE,
                    \* or were lost with it in a format without erase_volume()
    requests, crashes

storage == <<bcb, command, fs, files, image, intent, log, reason>>
memory == <<args, mode, status, todo, restored, ret, tmplog, tmplog_offset,
            logLost>>
bounds == <<requests, crashes>>
vars == <<storage, pc, memory, owed, bounds>>

Blank == [boot |-> FALSE, args |-> {}]

RecoveryPc == {"get_args", "set_bcb", "dispatch", "read_info", "erase",
               "erasing", "restore", "install", "installing", "script",
               "after", "finish", "finish_bcb", "finish_unlink", "prompt",
               "reboot"}

TypeOK ==
    /\ bcb \in [boot : BOOLEAN, args : SUBSET Option]
    /\ command \in (SUBSET Option) \cup {NoFile}
    /\ fs \in [Volume -> {"ok", "broken"}]
    /\ files \in [Volume -> SUBSET File]
    /\ image \in {"old", "half", "new"}
    /\ intent \in BOOLEAN
    /\ log \subseteq 1..MaxLog
    /\ reason \in {"normal", "recovery"}
    /\ pc \in {"system", "bootloader"} \cup RecoveryPc
    /\ args \in SUBSET Option
    /\ mode \in {"enabled", "disabled"}
    /\ status \in {"ok", "error"}
    /\ todo \in Seq(Volume)
    /\ restored \in 0..5
    /\ ret \in {"main", "prompt", "format", "nandroid", "exit"}
    /\ tmplog \in 0..MaxLog /\ tmplog_offset \in 0..MaxLog
    /\ owed \in SUBSET Option /\ logLost \in BOOLEAN
    /\ requests \in 0..MaxRequests /\ crashes \in 0..MaxCrashes

FreshMemory ==
    /\ args = {} /\ mode = "disabled" /\ status = "ok" /\ todo = <<>>
    /\ restored = 0 /\ ret = "main" /\ tmplog = 0 /\ tmplog_offset = 0
    /\ logLost = FALSE

\* What a volume holds at first, and what a nandroid backup holds of it.
Contents(v) == IF v = "data" THEN {"user"} \cup SourceFile ELSE CacheFile

Init ==
    /\ bcb = Blank /\ command = NoFile
    /\ fs \in InitFs
    /\ files = [v \in Volume |-> Contents(v)]
    /\ image = "old" /\ intent = FALSE /\ log = {} /\ reason = "normal"
    /\ pc = "system" /\ FreshMemory
    /\ owed = {} /\ requests = 0 /\ crashes = 0

-----------------------------------------------------------------------------
(* The rest of the device                                                  *)

\* The main system writes a command, or none, and reboots into recovery.
SystemRequests ==
    /\ pc = "system" /\ requests < MaxRequests
    /\ \E c \in Commands \cup {NoFile} :
           /\ c # NoFile => fs["cache"] = "ok"
           /\ command' = IF c = NoFile THEN command ELSE c
    /\ reason' = "recovery" /\ pc' = "bootloader"
    /\ requests' = requests + 1
    /\ UNCHANGED <<bcb, fs, files, image, intent, log, memory, owed, crashes>>

\* The bootloader reads the BCB, where there is one.
Bootloader ==
    /\ pc = "bootloader"
    /\ pc' = IF bcb.boot \/ reason = "recovery" THEN "get_args" ELSE "system"
    /\ reason' = "normal" /\ log' = {}
    /\ UNCHANGED <<bcb, command, fs, files, image, intent, memory, owed,
                   bounds>>

\* The memory of a process that is gone, /tmp included.
LoseMemory ==
    /\ args' = {} /\ mode' = "disabled" /\ status' = "ok" /\ todo' = <<>>
    /\ restored' = 0 /\ ret' = "main" /\ tmplog' = 0 /\ tmplog_offset' = 0
    /\ logLost' = FALSE

Crash ==
    /\ pc \in RecoveryPc /\ crashes < MaxCrashes
    /\ crashes' = crashes + 1
    /\ pc' = "bootloader" /\ LoseMemory
    /\ UNCHANGED <<storage, owed, requests>>

-----------------------------------------------------------------------------
(* get_args()                                                              *)

\* Mutant: fopen_path() is not tested for failure.
GetArgsUntested ==
    /\ pc = "get_args"
    /\ args' = IF Mtd /\ bcb.args # {} THEN bcb.args ELSE command
    /\ pc' = "set_bcb"
    /\ UNCHANGED <<storage, mode, status, todo, restored, ret, tmplog,
                   tmplog_offset, logLost, owed, bounds>>

\* The BCB comes first; COMMAND_FILE is read when it names no option.
GetArgs ==
    /\ pc = "get_args"
    /\ LET boot == IF Mtd THEN bcb.args ELSE {}
       IN args' = IF boot # {} THEN boot
                  ELSE IF fs["cache"] = "ok" /\ command # NoFile THEN command
                  ELSE {}
    /\ pc' = "set_bcb"
    /\ UNCHANGED <<storage, mode, status, todo, restored, ret, tmplog,
                   tmplog_offset, logLost, owed, bounds>>

\* set_bootloader_message(): its result is ignored.  On flash the block is
\* erased before it is written.
SetBootloaderMessage(message) ==
    \/ bcb' = message
    \/ "bcb" \in Faults /\ bcb' \in {bcb, Blank}

\* Mutant: the options are not written back.
SetBcbNoArgs ==
    /\ pc = "set_bcb"
    /\ IF Mtd THEN SetBootloaderMessage([boot |-> TRUE, args |-> {}])
              ELSE UNCHANGED bcb
    /\ owed' = owed \cup args
    /\ pc' = "dispatch"
    /\ UNCHANGED <<command, fs, files, image, intent, log, reason, memory,
                   bounds>>

SetBcb ==
    /\ pc = "set_bcb"
    /\ IF Mtd THEN SetBootloaderMessage([boot |-> TRUE, args |-> args])
              ELSE UNCHANGED bcb
    /\ owed' = owed \cup args
    /\ pc' = "dispatch"
    /\ UNCHANGED <<command, fs, files, image, intent, log, reason, memory,
                   bounds>>

-----------------------------------------------------------------------------
(* main()                                                                  *)

WriteLog == tmplog' = IF tmplog < MaxLog THEN tmplog + 1 ELSE tmplog

\* Which branch main() takes.  A bad argument of
\* --set_encrypted_filesystems is an error before anything is erased.
Dispatch ==
    /\ pc = "dispatch"
    /\ WriteLog
    /\ \/ /\ "secfs_on" \in args
          /\ mode' = "enabled" /\ pc' = "read_info"
          /\ UNCHANGED <<status, todo>>
       \/ /\ "secfs_off" \in args /\ "secfs_on" \notin args
          /\ mode' = "disabled" /\ pc' = "erase"
          /\ todo' = <<"data", "cache">> /\ UNCHANGED status
       \/ /\ "secfs_bad" \in args /\ {"secfs_on", "secfs_off"} \cap args = {}
          /\ status' = "error" /\ pc' = "after"
          /\ UNCHANGED <<mode, todo>>
       \/ /\ {"secfs_on", "secfs_off", "secfs_bad"} \cap args = {}
          /\ UNCHANGED mode
          /\ \/ /\ "update_package" \in args
                /\ pc' = "install" /\ UNCHANGED <<status, todo>>
             \/ /\ "update_package" \notin args
                /\ {"wipe_data", "wipe_cache"} \cap args # {}
                /\ todo' = IF "wipe_data" \in args THEN <<"data", "cache">>
                           ELSE <<"cache">>
                /\ pc' = "erase" /\ UNCHANGED status
             \/ /\ {"update_package", "wipe_data", "wipe_cache"} \cap args = {}
                /\ status' = "error"
                /\ pc' = IF /\ fs["cache"] = "ok"
                            /\ "extendedcommand" \in files["cache"]
                         THEN "script" ELSE "after"
                /\ UNCHANGED todo
    /\ UNCHANGED <<storage, args, restored, ret, tmplog_offset, logLost, owed, bounds>>

\* Mutant: without its settings the transition is put off to the next boot.
ReadInfoPutOff ==
    /\ pc = "read_info"
    /\ LET ok == fs["data"] = "ok" /\ SourceFile \subseteq files["data"]
       IN pc' = IF ok THEN "erase" ELSE "reboot"
    /\ todo' = <<"data", "cache">>
    /\ UNCHANGED <<storage, args, mode, status, restored, ret, tmplog,
                   tmplog_offset, logLost, owed, bounds>>

\* read_encrypted_fs_info(): "if the data partition is damaged, disable".
ReadInfo ==
    /\ pc = "read_info"
    /\ mode' = IF fs["data"] = "ok" /\ SourceFile \subseteq files["data"]
               THEN "enabled" ELSE "disabled"
    /\ todo' = <<"data", "cache">>
    /\ pc' = "erase"
    /\ UNCHANGED <<storage, args, status, restored, ret, tmplog,
                   tmplog_offset, logLost, owed, bounds>>

\* Mutant: a failed erase is not an error.
ErasedRegardless(ok) ==
    /\ LET more == Len(todo) > 1
       IN /\ todo' = IF more THEN Tail(todo) ELSE <<>>
          /\ pc' = IF more THEN "erase"
                   ELSE IF ret # "main" THEN "prompt" ELSE "after"
    /\ restored' = 0 /\ UNCHANGED status

\* The result main() keeps; a menu only prints it.
Failed == IF ret = "main" THEN "error" ELSE status

\* After the last erase of a branch of main(), or of a menu operation.
Erased(ok) ==
    /\ status' = IF ok THEN status ELSE Failed
    /\ LET secfs == {"secfs_on", "secfs_off"} \cap args # {} /\ ret = "main"
           more == Len(todo) > 1 /\ (ok \/ ~secfs)
       IN /\ todo' = IF more THEN Tail(todo) ELSE <<>>
          /\ pc' = IF more THEN "erase"
                   ELSE IF ret # "main" THEN "prompt"
                   ELSE IF secfs /\ ok /\ mode = "enabled" THEN "restore"
                   ELSE "after"
          /\ restored' = 0

\* An interrupted format or rm leaves any part of the files, LOG_FILE too.
Remains(v) ==
    /\ \E rest \in {{}, files[v], files[v] \ {"user"},
                    files[v] \cap {"secfs.enabled"}} :
           files' = [files EXCEPT ![v] = rest]
    /\ command' \in IF v = "cache" THEN {command, NoFile} ELSE {command}
    /\ log' \in IF v = "cache" THEN {log, {}} ELSE {log}

\* Mutant: the log offset survives the erase.
EraseKeepOffset ==
    /\ pc = "erase" /\ todo # <<>>
    /\ WriteLog
    /\ Remains(Head(todo))
    /\ pc' = "erasing"
    /\ UNCHANGED <<fs, bcb, image, intent, reason, args, mode, status, todo,
                   restored, ret, tmplog_offset, logLost, owed, bounds>>

\* The partition menu and nandroid format a volume without erase_volume().
Bypass == ret \in {"format", "nandroid"}

\* erase_volume() resets the offset, then format_volume() starts.  Where the
\* volume does not mount now, format_unknown_device() skips it and returns 0.
Erase ==
    /\ pc = "erase"
    /\ WriteLog
    /\ LET v == Head(todo)
       IN /\ tmplog_offset' = IF v = "cache" /\ ~Bypass
                              THEN 0 ELSE tmplog_offset
          /\ \/ /\ v \in Mkfs
                /\ \E s \in {"ok", "broken"} : fs' = [fs EXCEPT ![v] = s]
                /\ Remains(v)
                /\ pc' = "erasing" /\ UNCHANGED <<status, todo, restored>>
             \/ /\ v \notin Mkfs /\ fs[v] = "ok"
                /\ Remains(v)
                /\ pc' = "erasing" /\ UNCHANGED <<fs, status, todo, restored>>
             \/ /\ v \notin Mkfs /\ (fs[v] = "broken" \/ "format" \in Faults)
                /\ Erased(TRUE)
                /\ UNCHANGED <<command, fs, files, log>>
             \/ /\ "format" \in Faults
                /\ Erased(FALSE)
                /\ UNCHANGED <<command, fs, files, log>>
          /\ logLost' = IF v = "cache" /\ ~Bypass
                        THEN FALSE ELSE logLost \/ log' # log
    /\ UNCHANGED <<bcb, image, intent, reason, args, mode, ret, owed, bounds>>

\* format_volume() or format_device() ends; a nandroid restore then unpacks
\* its image, if it can.  An rm that fails is not noticed.
EraseDone ==
    /\ pc = "erasing"
    /\ LET v == Head(todo)
       IN \/ /\ fs' = [fs EXCEPT ![v] = "ok"]
             /\ \E unpacked \in {{}} \cup (IF ret = "nandroid" THEN {Contents(v)} ELSE {}) :
                    files' = [files EXCEPT ![v] = unpacked]
             /\ command' = IF v = "cache" THEN NoFile ELSE command
             /\ log' = IF v = "cache" THEN {} ELSE log
             /\ Erased(TRUE)
          \/ /\ "format" \in Faults
             /\ Erased(v \notin Mkfs)
             /\ UNCHANGED <<command, fs, files, log>>
    /\ logLost' = (logLost \/ (Bypass /\ log' # log))
    /\ UNCHANGED <<bcb, image, intent, reason, args, mode, ret, tmplog,
                   tmplog_offset, owed, bounds>>

\* restore_encrypted_fs_info(), one file per step.
RestoreInfo ==
    /\ pc = "restore"
    /\ \/ /\ fs["data"] = "ok"
          /\ restored' = restored + 1
          /\ files' = [files EXCEPT !["data"] =
                           @ \cup {RestoreSeq[restored + 1]}]
          /\ pc' = IF restored = 4 THEN "after" ELSE "restore"
          /\ UNCHANGED status
       \/ /\ fs["data"] # "ok" \/ "write" \in Faults
          /\ status' = "error" /\ pc' = "after"
          /\ UNCHANGED <<files, restored>>
    /\ UNCHANGED <<bcb, command, fs, image, intent, log, reason, args, mode,
                   todo, ret, tmplog, tmplog_offset, logLost, owed, bounds>>

\* install_package() of a package on /cache.
Install ==
    /\ pc = "install"
    /\ WriteLog
    /\ \/ /\ fs["cache"] = "ok" /\ "package" \in files["cache"]
          /\ image' = "half" /\ pc' = "installing" /\ UNCHANGED status
       \/ /\ ~(fs["cache"] = "ok" /\ "package" \in files["cache"])
          /\ status' = Failed /\ UNCHANGED image
          /\ pc' = IF ret # "main" THEN "prompt" ELSE "after"
    /\ UNCHANGED <<bcb, command, fs, files, intent, log, reason, args, mode,
                   todo, restored, ret, tmplog_offset, logLost, owed, bounds>>

InstallDone ==
    /\ pc = "installing"
    /\ \/ image' = "new" /\ UNCHANGED status
       \/ "package" \in Faults /\ status' = Failed /\ UNCHANGED image
    /\ pc' = IF ret # "main" THEN "prompt" ELSE "after"
    /\ UNCHANGED <<bcb, command, fs, files, intent, log, reason, args, mode,
                   todo, restored, ret, tmplog, tmplog_offset, logLost, owed, bounds>>

\* run_and_remove_extendedcommand(): removed before it is run.
RunExtendedCommand ==
    /\ pc = "script"
    /\ files' = [files EXCEPT !["cache"] = @ \ {"extendedcommand"}]
    /\ status' \in {"ok", "error"}
    /\ pc' = "after"
    /\ UNCHANGED <<bcb, command, fs, image, intent, log, reason, args, mode,
                   todo, restored, ret, tmplog, tmplog_offset, logLost, owed, bounds>>

\* The menu is shown after an error, and when the text is visible.
AfterCommand ==
    /\ pc = "after"
    /\ \/ ret' = "prompt"
       \/ status = "ok" /\ ret' = "exit"
    /\ pc' = "finish"
    /\ UNCHANGED <<storage, args, mode, status, todo, restored, tmplog,
                   tmplog_offset, logLost, owed, bounds>>

-----------------------------------------------------------------------------
(* finish_recovery()                                                       *)

\* copy_log_file() appends what is behind the offset.  What could not be
\* written, to a full /cache, is counted by the offset too; LOG_FILE that could
\* not be opened leaves the offset as it was.
CopyLog ==
    \/ /\ fs["cache"] = "ok"
       /\ \E n \in tmplog_offset..tmplog :
              /\ n = tmplog \/ "log" \in Faults
              /\ log' = log \cup (tmplog_offset + 1)..n
              /\ logLost' = (logLost \/ n < tmplog)
       /\ tmplog_offset' = tmplog
    \/ /\ fs["cache"] # "ok" \/ "log" \in Faults
       /\ UNCHANGED <<log, logLost, tmplog_offset>>

\* The intent, passed by the last call only, and the log.
FinishRecovery ==
    /\ pc = "finish"
    /\ owed' = owed \ args
    /\ LET sent == /\ ret = "exit" /\ "send_intent" \in args /\ fs["cache"] = "ok"
       IN \/ intent' = (intent \/ sent)
          \/ "log" \in Faults /\ UNCHANGED intent
    /\ CopyLog
    /\ pc' = "finish_bcb"
    /\ UNCHANGED <<bcb, command, fs, files, image, reason, args, mode, status,
                   todo, restored, ret, tmplog, bounds>>

\* Mutant: the BCB is not reset.
FinishBcbNot ==
    /\ pc = "finish_bcb" /\ pc' = "finish_unlink"
    /\ UNCHANGED <<storage, memory, owed, bounds>>

FinishBcb ==
    /\ pc = "finish_bcb"
    /\ IF Mtd THEN SetBootloaderMessage(Blank) ELSE UNCHANGED bcb
    /\ pc' = "finish_unlink"
    /\ UNCHANGED <<command, fs, files, image, intent, log, reason, memory,
                   owed, bounds>>

FinishUnlink ==
    /\ pc = "finish_unlink"
    /\ command' = IF fs["cache"] = "ok" THEN NoFile ELSE command
    /\ pc' = IF ret = "exit" THEN "reboot" ELSE "prompt"
    /\ UNCHANGED <<bcb, fs, files, image, intent, log, reason, memory, owed,
                   bounds>>

Reboot ==
    /\ pc = "reboot"
    /\ reason' = "normal" /\ pc' = "bootloader" /\ LoseMemory
    /\ UNCHANGED <<bcb, command, fs, files, image, intent, log, owed, bounds>>

-----------------------------------------------------------------------------
(* prompt_and_wait()                                                       *)

\* ITEM_REBOOT and ITEM_POWEROFF return to main().
PromptReboot ==
    /\ pc = "prompt"
    /\ ret' = "exit" /\ pc' = "finish"
    /\ UNCHANGED <<storage, args, mode, status, todo, restored, tmplog,
                   tmplog_offset, logLost, owed, bounds>>

\* ITEM_REBOOT_RECOVERY.
PromptRebootRecovery ==
    /\ pc = "prompt" /\ requests < MaxRequests
    /\ reason' = "recovery" /\ pc' = "bootloader" /\ LoseMemory
    /\ requests' = requests + 1
    /\ UNCHANGED <<bcb, command, fs, files, image, intent, log, owed, crashes>>

\* A submenu is left: the loop starts over with finish_recovery(NULL).
PromptLoop ==
    /\ pc = "prompt"
    /\ ret' = "prompt" /\ pc' = "finish"
    /\ UNCHANGED <<storage, args, mode, status, todo, restored, tmplog,
                   tmplog_offset, logLost, owed, bounds>>

\* cleanup_menu(): "wipe cache" and "factory reset", with erase_volume().
MenuWipe ==
    /\ pc = "prompt" /\ tmplog < MaxLog
    /\ \/ MenuErases = Volume /\ todo' = <<"data", "cache">>
       \/ "cache" \in MenuErases /\ todo' = <<"cache">>
    /\ ret' = "prompt" /\ pc' = "erase"
    /\ UNCHANGED <<storage, args, mode, status, restored, tmplog,
                   tmplog_offset, logLost, owed, bounds>>

\* show_partition_menu(): format_volume(), without erase_volume().
MenuFormat ==
    /\ pc = "prompt" /\ tmplog < MaxLog
    /\ \E v \in MenuFormats : todo' = <<v>>
    /\ ret' = "format" /\ pc' = "erase"
    /\ UNCHANGED <<storage, args, mode, status, restored, tmplog,
                   tmplog_offset, logLost, owed, bounds>>

\* The nandroid menus: nandroid_restore_partition_extended() formats the volume
\* with format_device() or format_volume() and unpacks the image of it.
MenuRestore ==
    /\ pc = "prompt" /\ tmplog < MaxLog
    /\ \E v \in MenuRestores : todo' = <<v>>
    /\ ret' = "nandroid" /\ pc' = "erase"
    /\ UNCHANGED <<storage, args, mode, status, restored, tmplog,
                   tmplog_offset, logLost, owed, bounds>>

\* install_zip() asks the bootloader to come back to recovery.
MenuInstallZip ==
    /\ pc = "prompt" /\ tmplog < MaxLog
    /\ IF Mtd THEN SetBootloaderMessage([boot |-> TRUE, args |-> {}])
              ELSE UNCHANGED bcb
    /\ ret' = "prompt" /\ pc' = "install"
    /\ UNCHANGED <<command, fs, files, image, intent, log, reason, args, mode,
                   status, todo, restored, tmplog, tmplog_offset, logLost, owed, bounds>>

User == \/ PromptReboot \/ PromptRebootRecovery \/ PromptLoop
        \/ MenuWipe \/ MenuFormat \/ MenuRestore \/ MenuInstallZip

Main ==
    \/ GetArgs \/ SetBcb \/ Dispatch \/ ReadInfo \/ Erase \/ EraseDone
    \/ RestoreInfo \/ Install \/ InstallDone \/ RunExtendedCommand
    \/ AfterCommand \/ FinishRecovery \/ FinishBcb \/ FinishUnlink \/ Reboot

Next == SystemRequests \/ Bootloader \/ Crash \/ Main \/ User

Spec == Init /\ [][Next]_vars

\* The device boots and recovery runs; nothing is asked of the user.
FairSpec == Spec /\ WF_vars(Bootloader) /\ WF_vars(Main)

-----------------------------------------------------------------------------
(* Properties                                                              *)

\* The options with which main() takes the branch of the factory reset.
FactoryReset ==
    /\ "wipe_data" \in args
    /\ {"update_package", "secfs_on", "secfs_off", "secfs_bad"} \cap args = {}

\* "After this, rebooting will restart the erase" (the update, the
\* transition): the main system never runs while a command that recovery
\* had accepted is unfinished.
NeverAbandoned == pc = "system" => owed = {}

\* The encrypted filesystem is only ever marked as enabled when the key, salt,
\* hash and entropy the main system then needs have been written to /data before,
\* however often restore_encrypted_fs_info() is cut short, fails or is run
\* again.  (The order of its steps: none of them waits for the disk.)
SecfsComplete ==
    [][/\ "secfs.enabled" \notin files["data"]
       /\ "secfs.enabled" \in files'["data"]
       => Provisioned \subseteq files'["data"]]_vars

\* A factory reset that main() takes for a success has erased user data.
ResetErases ==
    pc = "after" /\ status = "ok" /\ FactoryReset => "user" \notin files["data"]

\* "Rebooting will restart the transition": enabling the encrypted
\* filesystem ends with it enabled, when the main system prepared it.
TransitionCompletes ==
    pc = "after" /\ status = "ok" /\ "secfs_on" \in args
        => "secfs.enabled" \in files["data"]

\* What finish_recovery() counts as copied is in LOG_FILE, through every erase
\* of /cache, failed erase and restart of the menus: no line of this run's log is
\* passed over.  Excepted are the lines that a write to /cache failed to store,
\* and those lost in a format that bypasses erase_volume().
LogComplete == pc = "finish_bcb" /\ ~logLost => 1..tmplog_offset \subseteq log

\* "So recovery won't cycle indefinitely": the device does not boot into
\* recovery for ever.
NoCycle == <>[](pc \notin {"bootloader", "get_args", "set_bcb", "dispatch"})

\* An accepted command is finished, whatever the power losses.
Carried == (owed # {}) ~> (owed = {})

-----------------------------------------------------------------------------
(* The inductive invariants: Progress on every device, IInv on those with  *)
(* a BCB whose writes succeed                                              *)

\* An operation of main() itself, not of a menu.
Working == \/ pc \in {"dispatch", "read_info", "restore", "script", "after"}
           \/ pc \in {"erase", "erasing", "install", "installing"}
              /\ ret = "main"

\* The BCB holds what is owed.
OwedInBcb == owed # {} => bcb.boot /\ bcb.args = owed

\* What is owed is what is being worked on; once finish_recovery() has
\* begun, nothing is.
OwedByPhase ==
    /\ pc = "set_bcb" /\ owed # {} => args = owed
    /\ Working => owed = args
    /\ pc = "finish" => owed \in {{}, args}
    /\ pc \in {"finish_bcb", "finish_unlink", "prompt", "reboot", "system"}
           => owed = {}
    /\ pc \in {"erase", "erasing", "install", "installing"} /\ ret # "main"
           => owed = {}

\* Where the program counter and the locals belong together.
Locals ==
    /\ pc \in {"erase", "erasing"} => todo # <<>>
    /\ pc = "restore" => restored < 5
    /\ pc \in {"system", "bootloader", "get_args", "set_bcb", "dispatch",
              "read_info", "restore", "script", "after"} => ret = "main"

\* restore_encrypted_fs_info() has written the first files of its list.
Restoring ==
    pc = "restore" => \A i \in 1..restored : RestoreSeq[i] \in files["data"]

\* A factory reset erases /data, then /cache, and nothing else happens; its
\* status stays "ok" only if the user's files are gone.
Resetting ==
    FactoryReset =>
        /\ pc \notin {"read_info", "restore", "script"}
        /\ pc \in {"install", "installing"} => ret # "main"
        /\ pc \in {"erase", "erasing"} /\ ret = "main" =>
               \/ todo = <<"data", "cache">>
               \/ /\ todo = <<"cache">>
                  /\ status = "ok" => "user" \notin files["data"]
        /\ pc = "after" /\ status = "ok" => "user" \notin files["data"]

\* The log on /cache is a part of this run's, at least as long as the offset
\* says; the offset is reset before erase_volume() loses the log.
Logged ==
    /\ ~logLost => 1..tmplog_offset \subseteq log
    /\ IF pc \in {"system", "bootloader"}
       THEN tmplog = 0 /\ tmplog_offset = 0 /\ ~logLost
       ELSE log \subseteq 1..tmplog /\ tmplog_offset <= tmplog
    /\ pc = "erasing" /\ Head(todo) = "cache" => tmplog_offset = 0 \/ Bypass

Progress ==
    /\ TypeOK /\ Locals /\ Restoring /\ Logged
    /\ "data" \in Mkfs => Resetting

IInv == Progress /\ OwedInBcb /\ OwedByPhase
=============================================================================
