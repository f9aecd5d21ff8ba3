------------------------------ MODULE Nandroid ------------------------------
(***************************************************************************)
(* Backup and restore of the device's partitions to a directory on         *)
(* /sdcard (nandroid.c), the menus that start them, format and mount       *)
(* volumes and delete a backup (extendedcommands.c), and the mounts at the *)
(* start of main() (recovery.c).                                           *)
(*                                                                         *)
(* A backup is a set of images, each an img or a tar file, and, once they  *)
(* are all there, the sums of the img files in nandroid.md5.  All of them  *)
(* are files on the device that holds /sdcard, so whatever wipes that      *)
(* device wipes them.                                                      *)
(***************************************************************************)
EXTENDS Volumes

CONSTANTS
    MountPoints,   \* the mount points of the volumes of Fstab
    InitDisk,      \* block devices with their filesystems and files
    MaxAge,        \* bound on the runs of the main system
    MaxCrashes,    \* bound on power losses
    MaxTasks       \* bound on what the user asks for

VARIABLES
    dev,       \* the device, as in Volumes
    pc,        \* "start", "idle", or the function at work
    plan,      \* the partitions it has still to deal with
    result,    \* how the last backup or restore ended
    age,       \* the version of the files the main system writes
    snap,      \* the contents of the partitions when the backup was begun
    whole,     \* the partitions the backup was to contain
    chosen,    \* the partitions the restore was asked for
    kept,      \* paths whose last format kept files and returned success
    crashes,
    tasks      \* what the user has asked for so far

vars == <<dev, pc, plan, result, age, snap, whole, chosen, kept, crashes,
          tasks>>

Partition == {"/boot", "/recovery", "/system", "/data", "/dbdata", Secure,
              "/cache"}
RawTypes == {"mtd", "bml", "emmc"}
StartUpOrder == <<"/system", "/cache", "/data", "/dbdata", "/sdcard">>

\* What a partition holds, mounted or not.
Holds(s, p) ==
    {x.ver : x \in {y \in s.disk[VolumeForPath(p).device].files : y.dir = p}}
Content(p) == IF HasVolume(p) THEN Holds(dev, p) ELSE {}

\* The backup directory, when /sdcard is mounted.  Intact: nandroid.md5 is
\* there and names no image that has changed.
Card == VolumeForPath("/sdcard").device
Images == dev.disk[Card].images
Intact == dev.disk[Card].summed /\ dev.disk[Card].sums \subseteq Images

\* What a device holds.
FileSystems == {"yaffs2", "ext2", "ext3", "ext4", "rfs", "vfat", "raw", "none"}
Files == [dir : Partition \cup {"/sdcard"}, ver : Int]
ImageFiles == [of : Partition, fs : FileSystems, kind : {"img", "tar"},
               files : SUBSET Int]
DiskContents == [fs : FileSystems, files : SUBSET Files, images : SUBSET ImageFiles,
                 summed : BOOLEAN, sums : SUBSET ImageFiles]
Disks == [DOMAIN InitDisk -> DiskContents]

\* Each volume has a device of its own, and only the card a second one, which
\* is not in use as long as the card can be mounted; it is a vfat card.
ASSUME FstabAssumption ==
    /\ "/sdcard" \in MountPoints
    /\ \A mp \in MountPoints :
           /\ VolumeForPath(mp).mount_point = mp
           /\ VolumeForPath(mp).fs_type # "ramdisk"
           /\ VolumeForPath(mp).device \in DOMAIN InitDisk
           /\ mp # "/sdcard" => VolumeForPath(mp).device2 = Null
    /\ \A p \in Partition : HasVolume(p) => MountPointOf(p) \in MountPoints
    /\ \A m, n \in MountPoints :
           VolumeForPath(m).device = VolumeForPath(n).device => m = n
    /\ VolumeForPath("/sdcard").fs_type = "vfat"

\* There is no backup on the card yet.
ASSUME DiskAssumption ==
    /\ InitDisk \in Disks /\ Null \notin DOMAIN InitDisk
    /\ InitDisk[Card].fs = "vfat" /\ InitDisk[Card].images = {}
    /\ ~InitDisk[Card].summed

ASSUME BoundAssumption == MaxAge \in Nat /\ MaxCrashes \in Nat /\ MaxTasks \in Nat

Init ==
    /\ dev = [disk |-> InitDisk, mounted |-> [mp \in MountPoints |-> Null],
              spoilt |-> {}]
    /\ pc = "start" /\ plan = StartUpOrder /\ result = "none"
    /\ age = 0 /\ crashes = 0 /\ tasks = 0
    /\ snap = [p \in Partition |-> {}] /\ whole = {}
    /\ chosen = {} /\ kept = {}

\* The partitions of a plan.
Elems(q) == {q[i] : i \in DOMAIN q}

\* A device with other files or other images on it.
WithFiles(k, files) == [k EXCEPT !.files = files]
WithImages(k, images) == [k EXCEPT !.images = images]

asked == <<age, snap, whole, chosen, crashes, tasks>>
history == <<asked, kept>>

-----------------------------------------------------------------------------
(* The device                                                              *)

\* The user chooses from a menu.
Asked == pc = "idle" /\ tasks < MaxTasks /\ tasks' = tasks + 1

Rebooted == [dev EXCEPT !.mounted = [mp \in MountPoints |-> Null]]

\* The user leaves recovery; the main system changes every file it can and
\* recovery is started again.
SystemRuns ==
    /\ pc = "idle" /\ age < MaxAge
    /\ age' = age + 1
    /\ dev' = [Rebooted EXCEPT !.disk = [d \in DOMAIN dev.disk |->
                  [dev.disk[d] EXCEPT !.files = {[x EXCEPT !.ver = age + 1] :
                                                     x \in dev.disk[d].files}]]]
    /\ pc' = "start" /\ plan' = StartUpOrder /\ result' = "none"
    /\ chosen' = {}
    /\ UNCHANGED <<snap, whole, kept, crashes, tasks>>

Crash ==
    /\ crashes < MaxCrashes /\ crashes' = crashes + 1
    /\ dev' = Rebooted
    /\ pc' = "start" /\ plan' = StartUpOrder /\ result' = "none"
    /\ chosen' = {}
    /\ UNCHANGED <<age, snap, whole, kept, tasks>>

\* One image of a backup with sums is corrupted on the card (an empty
\* nandroid.md5 protects nothing).
Corrupt == {-1}
DamageImage ==
    /\ pc = "idle" /\ Intact /\ dev.disk[Card].sums # {}
    /\ \A i \in Images : i.files # Corrupt
    /\ \E i \in Images :
           /\ i.kind \in Faults
           /\ dev' = [dev EXCEPT !.disk[Card] = WithImages(@,
                          (Images \ {i}) \cup {[i EXCEPT !.files = Corrupt]})]
    /\ result' = "none"
    /\ UNCHANGED <<pc, plan, history>>

-----------------------------------------------------------------------------
(* The mounts at the start of main()                                       *)

\* One volume after the other is mounted, as far as that works, and looked up
\* after get_partition_free() has scanned the mounts again.
StartUp ==
    /\ pc = "start"
    /\ \E m \in EnsurePathMounted(dev, Head(plan)) : dev' = m.s
    /\ plan' = Tail(plan)
    /\ pc' = IF Len(plan) = 1 THEN "idle" ELSE "start"
    /\ UNCHANGED <<result, history>>

-----------------------------------------------------------------------------
(* Backup                                                                  *)

FullBackup == <<"/boot", "/recovery", "/system", "/data", "/dbdata", Secure,
                "/cache">>
BackupPlans == {FullBackup, <<"/system">>, <<"/data", "/dbdata">>}

\* nandroid_backup() and nandroid_backup_selective(), into a new directory.
StartBackup ==
    /\ Asked /\ Images = {} /\ ~dev.disk[Card].summed
    /\ \E m \in EnsurePathMounted(dev, "/sdcard") :
           /\ dev' = m.s
           /\ \/ /\ m.ret # 0 /\ result' = "failed"
                 /\ UNCHANGED <<pc, plan, snap, whole, kept>>
              \/ /\ m.ret = 0 /\ result' = "none"
                 /\ plan' \in BackupPlans /\ pc' = "backup"
                 /\ snap' = [p \in Partition |-> Content(p)]
                 /\ whole' = Elems(plan') /\ kept' = {}
    /\ UNCHANGED <<age, chosen, crashes>>

\* A file written below /sdcard lands on the card only while it is mounted.
SaveImage(s, image) ==
    IF DeviceAt(s, "/sdcard") = Null THEN s
    ELSE [s EXCEPT !.disk[DeviceAt(s, "/sdcard")] =
                       WithImages(@, @.images \cup {image})]

\* Mutant: every partition is unmounted.
UmountAlways(p) == TRUE

\* /sdcard/.android_secure and /cache stay mounted.
UmountWhenFinished(p) == p \notin {Secure, "/cache"}

Finished(s, p) ==
    IF UmountWhenFinished(p) THEN {u.s : u \in EnsurePathUnmounted(s, p)} ELSE {s}

Ends(how) == pc' = "idle" /\ plan' = <<>> /\ result' = how

\* A partition that is not there is no error; /cache must be.  An empty
\* .android_secure counts as none.
NotThere(p) == \/ ~HasVolume(p) /\ p # "/cache"
               \/ p = Secure /\ Content(p) = {}

BackedUp ==
    /\ plan' = Tail(plan) /\ pc' = IF Len(plan) = 1 THEN "md5" ELSE "backup"
    /\ UNCHANGED result

SkipBackup ==
    /\ pc = "backup" /\ NotThere(Head(plan))
    /\ BackedUp
    /\ UNCHANGED <<dev, history>>

\* nandroid_backup_partition() of a flash partition without a filesystem.
BackupRaw ==
    /\ pc = "backup" /\ VolumeForPath(Head(plan)).fs_type \in RawTypes
    /\ LET image == [of |-> Head(plan), fs |-> "raw", kind |-> "img",
                     files |-> Content(Head(plan))]
       IN \/ dev' = SaveImage(dev, image) /\ BackedUp
          \/ /\ "write" \in Faults
             /\ dev' = SaveImage(dev, [image EXCEPT !.files = {}])
             /\ Ends("failed")
    /\ UNCHANGED history

\* nandroid_backup_partition_extended()
BackupFiles ==
    /\ pc = "backup" /\ ~NotThere(Head(plan))
    /\ VolumeForPath(Head(plan)).fs_type \notin RawTypes
    /\ \E m \in EnsurePathMounted(dev, Head(plan)) :
         \/ m.ret # 0 /\ dev' = m.s /\ Ends("failed")
         \/ /\ m.ret = 0
            /\ LET p == Head(plan)
                   fs == m.s.disk[DeviceAt(m.s, p)].fs
                   image == [of |-> p, fs |-> fs, files |-> Content(p),
                             kind |-> IF fs = "yaffs2" THEN "img" ELSE "tar"]
               IN \/ dev' \in Finished(SaveImage(m.s, image), p) /\ BackedUp
                  \/ /\ "write" \in Faults
                     /\ dev' \in Finished(
                            SaveImage(m.s, [image EXCEPT !.files = {}]), p)
                     /\ Ends("failed")
    /\ UNCHANGED history

\* nandroid-md5.sh: "md5sum *img > nandroid.md5".  The file is there even
\* when md5sum fails, as it does when no file matches.
GenerateMd5 ==
    /\ pc = "md5"
    /\ LET imgs == {i \in Images : i.kind = "img"}
           Sum(set) == dev' = [dev EXCEPT !.disk[Card] =
                                   [@ EXCEPT !.summed = TRUE, !.sums = set]]
       IN \/ imgs # {} /\ Sum(imgs) /\ Ends("saved")
          \/ /\ imgs = {} \/ "write" \in Faults
             /\ Sum({}) /\ Ends("failed")
    /\ UNCHANGED history

-----------------------------------------------------------------------------
(* Restore                                                                 *)

RestoreOrder == <<"/boot", "/system", "/data", "/dbdata", Secure, "/cache">>
RestorePlans == {RestoreOrder, <<"/boot">>, <<"/system">>,
                 <<"/data", "/dbdata", Secure>>, <<"/cache">>}

\* Mutant: the sums are not checked.
StartRestoreUnchecked ==
    /\ Asked /\ Images # {}
    /\ \E m \in EnsurePathMounted(dev, "/sdcard") :
           /\ dev' = m.s /\ m.ret = 0
           /\ plan' = RestoreOrder /\ pc' = "restore" /\ result' = "none"
           /\ chosen' = Elems(plan')
    /\ UNCHANGED <<age, snap, whole, kept, crashes>>

\* nandroid_restore(): "MD5 mismatch!" before anything is touched.  An empty
\* nandroid.md5 is a mismatch to some versions of md5sum.
StartRestore ==
    /\ Asked /\ Images # {}
    /\ \E m \in EnsurePathMounted(dev, "/sdcard") :
           /\ dev' = m.s
           /\ \/ /\ m.ret # 0 \/ ~Intact \/ dev.disk[Card].sums = {}
                 /\ result' = "failed" /\ UNCHANGED <<pc, plan, chosen>>
              \/ /\ m.ret = 0 /\ Intact
                 /\ plan' \in RestorePlans
                 /\ chosen' = Elems(plan')
                 /\ pc' = "restore" /\ result' = "none"
    /\ UNCHANGED <<age, snap, whole, kept, crashes>>

ImagesOf(p) == {i \in Images : i.of = p}
ImageOf(p) == CHOOSE i \in ImagesOf(p) : TRUE

Restored ==
    IF Len(plan) > 1
    THEN plan' = Tail(plan) /\ pc' = "restore" /\ UNCHANGED result
    ELSE Ends("restored")

\* "%s.img not found. Skipping restore": only a raw partition needs one.
SkipRestore ==
    /\ pc = "restore"
    /\ \/ ~HasVolume(Head(plan))
       \/ /\ VolumeForPath(Head(plan)).fs_type \notin RawTypes
          /\ ImagesOf(Head(plan)) = {}
    /\ Restored
    /\ UNCHANGED <<dev, history>>

\* Whether a format of path has kept files without an error; one that fails
\* leaves that as it was.
Formatted(path, f) ==
    kept' = IF f.silent THEN kept \cup {path}
            ELSE IF f.ret = 0 THEN kept \ {path} ELSE kept

\* The partition is formatted, with the filesystem of the backup where its
\* own is not "auto".
ErasePartition ==
    /\ pc = "restore" /\ HasVolume(Head(plan))
    /\ LET p == Head(plan)
           v == VolumeForPath(p)
           raw == v.fs_type \in RawTypes
       IN /\ ~raw => ImagesOf(p) # {}
          /\ \E f \in IF raw \/ v.fs_type = "auto" THEN FormatVolume(dev, p)
                      ELSE FormatDevice(dev, v.device, p, ImageOf(p).fs) :
                 /\ dev' = f.s /\ Formatted(p, f)
                 /\ IF f.ret # 0 THEN Ends("failed")
                    ELSE pc' = "fill" /\ UNCHANGED <<plan, result>>
    /\ UNCHANGED asked

Filled(s, p, device) ==
    [s EXCEPT !.disk[device] = WithFiles(@,
                  @.files \cup {[dir |-> p, ver |-> n] : n \in ImageOf(p).files})]

\* restore_raw_partition() overwrites the partition from its start;
\* cmd_bml_restore_raw_partition() knows two names only.
FillRaw ==
    /\ pc = "fill" /\ VolumeForPath(Head(plan)).fs_type \in RawTypes
    /\ LET p == Head(plan)
           v == VolumeForPath(p)
           ready == /\ v.fs_type = "bml" => v.device \in {"boot", "recovery"}
                    /\ ImagesOf(p) # {} /\ DeviceAt(dev, "/sdcard") # Null
           cleared == [dev EXCEPT !.disk[v.device] = WithFiles(@, {})]
       IN \/ ready /\ dev' = Filled(cleared, p, v.device) /\ Restored
          \/ ready /\ "write" \in Faults /\ dev' = cleared /\ Ends("failed")
          \/ ~ready /\ UNCHANGED dev /\ Ends("failed")
    /\ UNCHANGED history

\* The rest of nandroid_restore_partition_extended().
FillFiles ==
    /\ pc = "fill" /\ VolumeForPath(Head(plan)).fs_type \notin RawTypes
    /\ \E m \in EnsurePathMounted(dev, Head(plan)) :
           LET p == Head(plan)
               ready == m.ret = 0 /\ DeviceAt(m.s, "/sdcard") # Null
           IN \/ /\ ready
                 /\ dev' \in Finished(Filled(m.s, p, DeviceAt(m.s, p)), p)
                 /\ Restored
              \/ /\ ~ready \/ "write" \in Faults
                 /\ dev' = m.s /\ Ends("failed")
    /\ UNCHANGED history

-----------------------------------------------------------------------------
(* Menus                                                                   *)

\* show_partition_menu(): mount or unmount a volume, or format it.
MenuMounts ==
    {mp \in MountPoints : VolumeForPath(mp).fs_type \notin RawTypes}
ForbidFormat == {"/misc", "/radio", "/bootloader", "/recovery", "/efs"}
MenuFormats ==
    {mp \in MountPoints : VolumeForPath(mp).fs_type \notin {"bml", "emmc"}}
        \ ForbidFormat

MenuMount ==
    /\ Asked
    /\ \E mp \in MenuMounts :
           \E r \in IF dev.mounted[mp] # Null THEN EnsurePathUnmounted(dev, mp)
                    ELSE EnsurePathMounted(dev, mp) :
               dev' = r.s
    /\ UNCHANGED <<pc, plan, result, age, snap, whole, chosen, kept, crashes>>

MenuFormat ==
    /\ Asked
    /\ \E mp \in MenuFormats :
           \E f \in FormatVolume(dev, mp) : dev' = f.s /\ Formatted(mp, f)
    /\ result' = "none"
    /\ UNCHANGED <<pc, plan, age, snap, whole, chosen, crashes>>

\* show_nandroid_restore_delete_menu(1): the confirmation guards only the
\* next statement, crop_lastchar(); the backup is deleted either way.
DeleteBackup ==
    /\ Asked /\ Images # {}
    /\ \E m \in EnsurePathMounted(dev, "/sdcard") :
           /\ m.ret = 0
           /\ dev' = [m.s EXCEPT !.disk[Card] = [@ EXCEPT
                          !.images = {}, !.sums = {}, !.summed = FALSE]]
    /\ result' = "none"
    /\ UNCHANGED <<pc, plan, age, snap, whole, chosen, kept, crashes>>

Work == \/ StartUp \/ SkipBackup \/ BackupRaw \/ BackupFiles \/ GenerateMd5
        \/ SkipRestore \/ ErasePartition \/ FillRaw \/ FillFiles

User == StartBackup \/ StartRestore \/ MenuMount \/ MenuFormat \/ DeleteBackup

Next == Work \/ User \/ SystemRuns \/ Crash \/ DamageImage

Spec == Init /\ [][Next]_vars

-----------------------------------------------------------------------------
(* Properties                                                              *)

\* "Make sure that the volume is unmounted": no filesystem is made on a
\* device that is mounted.
NeverFormatsMounted == dev.spoilt = {}

\* A backup that passes the check of its sums holds every partition it was
\* to contain, as it was when the backup was begun, unless the user has had
\* /sdcard formatted since and the rm has failed half-way.
BackupExact ==
    Intact /\ "/sdcard" \notin kept => \A p \in whole :
        snap[p] # {} => \E i \in Images : i.of = p /\ i.files = snap[p]

\* "Restore complete!": every partition that has an image is as it was when
\* the backup was begun, with nothing left over, unless its format was one
\* that returns success without having emptied it: "Skipping format..." when
\* the volume could not be mounted, or an rm whose result is ignored.
RestoreExact ==
    result = "restored" =>
        \A p \in chosen \ kept : ImagesOf(p) # {} => Content(p) = snap[p]

\* A restore never destroys the backup it reads from.
KeepsBackup == pc \in {"restore", "fill"} =>
                   Images' = Images /\ (Intact)'

BackupSurvives == [][KeepsBackup]_vars

-----------------------------------------------------------------------------
(* The inductive invariant                                                 *)

\* What is mounted where it belongs, and what the card is.
Sound(s) ==
    /\ s \in [disk : Disks, mounted : [MountPoints -> DOMAIN InitDisk \cup {Null}],
              spoilt : SUBSET DOMAIN InitDisk]
    /\ \A mp \in MountPoints : s.mounted[mp] \in {Null, VolumeForPath(mp).device}
    /\ s.spoilt = {}
    /\ s.disk[Card].fs = "vfat"

Todo == Elems(plan)

TypeOK ==
    /\ Sound(dev)
    /\ pc \in {"start", "idle", "backup", "md5", "restore", "fill"}
    /\ plan \in Seq(Partition \cup {"/sdcard"})
    /\ pc \notin {"idle", "md5"} => plan # <<>>
    /\ pc \in {"idle", "md5"} => plan = <<>>
    /\ pc \in {"backup", "restore", "fill"} =>
           /\ "/sdcard" \notin Todo
           /\ dev.mounted["/sdcard"] = Card \/ (pc = "fill" /\ Head(plan) = Secure)
    /\ pc = "fill" =>
           /\ HasVolume(Head(plan))
           /\ VolumeForPath(Head(plan)).fs_type \notin RawTypes =>
                  ImagesOf(Head(plan)) # {}
    /\ result \in {"none", "failed", "saved", "restored"}
    /\ pc # "idle" => result = "none"
    /\ age \in 0..MaxAge /\ crashes \in 0..MaxCrashes /\ tasks \in 0..MaxTasks
    /\ snap \in [Partition -> SUBSET Int]
    /\ whole \subseteq Partition /\ chosen \subseteq Partition
    /\ kept \subseteq Partition \cup MountPoints

\* What is read from is a backup that passed the check.
Reading == pc \in {"restore", "fill"} => Intact

Safe == TypeOK /\ Reading

\* The images are what was to be saved, as long as they are good.
Good == Intact \/ pc \in {"backup", "md5"}
ImagesGood ==
    /\ Good => \A i \in Images : i.files = snap[i.of]
    /\ Intact /\ dev.disk[Card].sums # {} =>
           {i \in Images : i.kind = "img"} \subseteq dev.disk[Card].sums
    /\ \A p \in Partition : ~HasVolume(p) => snap[p] = {}

\* A partition is saved, or its turn is to come and it has not changed.
Saved(p) == snap[p] # {} => \E i \in Images : i.of = p /\ i.files = snap[p]
BackingUp ==
    pc \in {"backup", "md5"} =>
        /\ ~dev.disk[Card].summed
        /\ \A p \in Todo : Content(p) = snap[p]
        /\ \A p \in whole : p \in Todo \/ Saved(p)
        /\ kept = {}

\* A partition is restored, or its turn is to come.
IsRestored(p) == ImagesOf(p) # {} => Content(p) = snap[p]
Restoring ==
    pc \in {"restore", "fill"} =>
        /\ \A p \in chosen \ kept : p \in Todo \/ IsRestored(p)
        /\ pc = "fill" /\ VolumeForPath(Head(plan)).fs_type \notin RawTypes =>
               Content(Head(plan)) = {} \/ Head(plan) \in kept

IInv == Safe /\ ImagesGood /\ BackingUp /\ BackupExact /\ Restoring /\ RestoreExact
=============================================================================
