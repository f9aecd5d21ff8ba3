------------------------------ MODULE Volumes ------------------------------
(***************************************************************************)
(* Mounting, unmounting and formatting of volumes (roots.c, mounts.c and   *)
(* the format functions of extendedcommands.c).  A C function that changes *)
(* the device is an operator from the state of the device to the set of    *)
(* its outcomes: what it returns, the new state, and whether it returns    *)
(* success for something that has failed.                                  *)
(*                                                                         *)
(* The state s of the device has the fields                                *)
(*   disk     for each block device its filesystem and what is on it       *)
(*   mounted  for each mount point the device mounted there, or Null       *)
(*   spoilt   devices that were made anew while they were mounted          *)
(*                                                                         *)
(* g_mounts_state is no part of it: every function scans before it looks   *)
(* a volume up.  A file is a record of its directory and its version.      *)
(***************************************************************************)
EXTENDS Integers, Sequences

CONSTANTS
    Fstab,    \* the lines of /etc/recovery.fstab
    Faults    \* what may fail; here "umount", "mkfs", "rm" and the mounting of
              \* the mount points in the set

Null == "null"

\* "/sdcard/.android_secure" is the one directory the code formats or backs
\* up that is not a mount point.
Secure == "/sdcard/.android_secure"
MountPointOf(path) == IF path = Secure THEN "/sdcard" ELSE path

-----------------------------------------------------------------------------
(* The volume table                                                        *)

Ramdisk == [mount_point |-> "/tmp", fs_type |-> "ramdisk", device |-> Null,
            device2 |-> Null, fs_type2 |-> Null]

\* One line of recovery.fstab: where there is a second type, it comes first
\* in the table.
Entry(line) ==
    [line EXCEPT !.fs_type = IF line.fs_type2 # Null THEN line.fs_type2 ELSE @,
                 !.fs_type2 = IF @ # Null THEN line.fs_type ELSE Null]

\* device_volumes, as load_volume_table() leaves it.
DeviceVolumes == <<Ramdisk>> \o [i \in DOMAIN Fstab |-> Entry(Fstab[i])]

NoVolume == [Ramdisk EXCEPT !.mount_point = Null]

VolumeForPath(path) ==
    LET found == {i \in DOMAIN DeviceVolumes :
                      DeviceVolumes[i].mount_point = MountPointOf(path)}
    IN IF found = {} THEN NoVolume
       ELSE DeviceVolumes[CHOOSE i \in found : \A j \in found : i <= j]

HasVolume(path) == VolumeForPath(path) # NoVolume

IsDataMedia == VolumeForPath("/data").fs_type = "auto" /\ ~HasVolume("/sdcard")

-----------------------------------------------------------------------------
(* Mounting                                                                *)

Ok(s) == {[ret |-> 0, s |-> s, silent |-> FALSE]}
Error(s) == {[ret |-> -1, s |-> s, silent |-> FALSE]}
Silent(s) == {[ret |-> 0, s |-> s, silent |-> TRUE]}

\* The mount points scan_mounted_volumes() finds.
ScanMountedVolumes(s) == {mp \in DOMAIN s.mounted : s.mounted[mp] # Null}

\* try_mount() ends with ext4 and rfs whatever the type it was given.
TryMount(s, device, mount_point, fs_type) ==
    /\ device # Null /\ fs_type # Null
    /\ s.disk[device].fs \in {fs_type, "ext4", "rfs"} \cup
           (IF mount_point = "/sdcard" THEN {"vfat"} ELSE {})

\* The devices ensure_path_mounted() finds mountable, in its order.
Mountable(s, v, path) ==
    LET try(d, t) == IF TryMount(s, d, v.mount_point, t) THEN <<d>> ELSE <<>>
    IN CASE v.fs_type = "yaffs2" ->
              IF s.disk[v.device].fs = "yaffs2" THEN <<v.device>> ELSE <<>>
         [] v.fs_type \in {"ext4", "ext3", "rfs", "vfat"} ->
              try(v.device, v.fs_type) \o try(v.device2, v.fs_type) \o
              try(v.device, v.fs_type2) \o try(v.device2, v.fs_type2)
         [] OTHER ->
              IF \/ s.disk[v.device].fs \in {"ext4", "rfs"}
                 \/ path = v.mount_point /\ s.disk[v.device].fs # "none"
              THEN <<v.device>> ELSE <<>>

\* A volume that can be mounted may fail to be just now, with all the
\* attempts of this call.
MountVolume(s, v, path) ==
    IF v.fs_type = "ramdisk" THEN Ok(s)
    ELSE IF v.mount_point \in ScanMountedVolumes(s) THEN Ok(s)
    ELSE IF Mountable(s, v, path) = <<>> THEN Error(s)
    ELSE Ok([s EXCEPT !.mounted[v.mount_point] = Head(Mountable(s, v, path))])
         \cup (IF v.mount_point \in Faults THEN Error(s) ELSE {})

EnsurePathMounted(s, path) ==
    IF HasVolume(path) THEN MountVolume(s, VolumeForPath(path), path)
    ELSE IF MountPointOf(path) = "/sdcard" /\ IsDataMedia
    THEN MountVolume(s, VolumeForPath("/data"), "/data")
    ELSE Error(s)

\* Mutant: the result of umount() is not returned.
EnsurePathUnmountedQuietly(s, path) ==
    LET mp == VolumeForPath(path).mount_point
    IN IF mp \notin ScanMountedVolumes(s) THEN Ok(s)
       ELSE Ok([s EXCEPT !.mounted[mp] = Null]) \cup Ok(s)

\* umount() fails where the volume is busy.
EnsurePathUnmounted(s, path) ==
    LET mp == VolumeForPath(path).mount_point
    IN IF ~HasVolume("/sdcard") /\ MountPointOf(path) \in {"/sdcard", "/data"}
       THEN Ok(s)
       ELSE IF VolumeForPath(path).fs_type = "ramdisk" THEN Error(s)
       ELSE IF mp \notin ScanMountedVolumes(s) THEN Ok(s)
       ELSE Ok([s EXCEPT !.mounted[mp] = Null])
            \cup (IF "umount" \in Faults THEN Error(s) ELSE {})

-----------------------------------------------------------------------------
(* Formatting                                                              *)

Blank(fs) == [fs |-> fs, files |-> {}, images |-> {}, summed |-> FALSE,
              sums |-> {}]

\* The device a path's files are on, or Null: /data/media stands in for
\* /sdcard.
DeviceAt(s, path) ==
    LET mp == IF HasVolume(path) \/ MountPointOf(path) # "/sdcard"
              THEN MountPointOf(path) ELSE "/data"
    IN IF mp \in DOMAIN s.mounted THEN s.mounted[mp] ELSE Null

Directories(path) == IF path = "/sdcard" THEN {"/sdcard", Secure} ELSE {path}

\* Mutant: everything on the volume is removed, not only the directory.
RemoveFilesOfVolume(s, path) ==
    [s EXCEPT !.disk[DeviceAt(s, path)] = Blank(@.fs)]

\* rm -rf of everything in a mounted directory; of /data, all but media.
RemoveFiles(s, path) ==
    [s EXCEPT !.disk[DeviceAt(s, path)] =
        [(IF path = "/sdcard" THEN Blank(@.fs) ELSE @) EXCEPT
            !.files = {x \in s.disk[DeviceAt(s, path)].files :
                           x.dir \notin Directories(path)}]]

\* What a device may hold after an rm that has failed: some files of the
\* directory, and of /sdcard some images, with the sums or without.
Leftovers(k, path) ==
    LET inside == {x \in k.files : x.dir \in Directories(path)}
        card == path = "/sdcard"
        parts == [files : SUBSET inside,
                  images : IF card THEN SUBSET k.images ELSE {k.images},
                  summed : IF card THEN {k.summed, FALSE} ELSE {k.summed}]
    IN {[k EXCEPT !.files = (k.files \ inside) \cup x.files,
                  !.images = x.images, !.summed = x.summed] : x \in parts}

RemovedInPart(s, path) ==
    {[s EXCEPT !.disk[DeviceAt(s, path)] = k] :
         k \in Leftovers(s.disk[DeviceAt(s, path)], path)}

\* The result of the rm is not looked at.
EmptyDirectory(s, path) ==
    Ok(RemoveFiles(s, path))
    \cup (IF "rm" \in Faults THEN UNION {Silent(t) : t \in RemovedInPart(s, path)}
          ELSE {})

\* A new filesystem, or an erased flash partition.  A mkfs that fails leaves
\* nothing that can be mounted.
Make(s, device, fs) ==
    LET spoils == {d \in {device} :
                       \E mp \in DOMAIN s.mounted : s.mounted[mp] = d}
        made(t) == [s EXCEPT !.disk[device] = Blank(t),
                             !.spoilt = @ \cup spoils]
    IN Ok(made(fs)) \cup (IF "mkfs" \in Faults THEN Error(made("none")) ELSE {})

FormatUnknownDevice(s, device, path, fs_type) ==
    CASE fs_type = "bml" -> Ok(s)     \* "TODO: implement raw wipe"
      [] fs_type \in {"mtd", "emmc"} -> Make(s, device, "none")
      [] path = "/sd-ext" /\ ~HasVolume(path) -> Ok(s)
      [] fs_type \in {"ext2", "ext3"} ->
           UNION {IF u.ret # 0 THEN Error(u.s) ELSE Make(u.s, device, fs_type) :
                  u \in EnsurePathUnmounted(s, path)}
      [] OTHER ->                     \* "Skipping format..." returns 0
           UNION {IF m.ret # 0 THEN Silent(m.s)
                  ELSE UNION {{[e EXCEPT !.s = u.s] :
                                   u \in EnsurePathUnmounted(e.s, path)} :
                              e \in EmptyDirectory(m.s, path)} :
                  m \in EnsurePathMounted(s, path)}

\* format_device(); format_volume() is the same for the volume's own device
\* and type.
FormatDevice(s, device, path, fs_type) ==
    CASE ~HasVolume(path) ->
           IF MountPointOf(path) = "/sdcard" /\ IsDataMedia
           THEN FormatUnknownDevice(s, Null, path, Null) ELSE Error(s)
      [] HasVolume(path) /\ fs_type = "ramdisk" -> Error(s)
      [] /\ HasVolume(path) /\ fs_type # "ramdisk"
         /\ VolumeForPath(path).mount_point # path ->
           FormatUnknownDevice(s, VolumeForPath(path).device, path, Null)
      [] OTHER ->
           UNION {CASE u.ret # 0 -> Error(u.s)
                    [] u.ret = 0 /\ fs_type \in {"yaffs2", "ext4"} ->
                         Make(u.s, device, fs_type)
                    [] u.ret = 0 /\ fs_type = "mtd" -> Make(u.s, device, "none")
                    [] OTHER -> FormatUnknownDevice(u.s, device, path, fs_type) :
                  u \in EnsurePathUnmounted(s, path)}

FormatVolume(s, path) ==
    FormatDevice(s, VolumeForPath(path).device, path, VolumeForPath(path).fs_type)
=============================================================================
