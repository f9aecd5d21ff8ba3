----------------------------- MODULE MCNandroid -----------------------------
(* Small instances of Nandroid for TLC.                                    *)
EXTENDS Nandroid

Line(mp, t, d) == [mount_point |-> mp, fs_type |-> t, device |-> d,
                   device2 |-> Null, fs_type2 |-> Null]
With(line, d2, t2) == [line EXCEPT !.device2 = d2, !.fs_type2 = t2]
Full(fs, dirs) == [Blank(fs) EXCEPT !.files = {[dir |-> d, ver |-> 0] : d \in dirs}]

\* A Galaxy S: /system converted to ext4, which mkfs makes anew, /cache still
\* rfs, which is emptied with rm, and the card on the first of two devices.
GalaxyS == <<Line("/boot", "bml", "boot"),
             With(Line("/system", "rfs", "stl9"), Null, "ext4"),
             Line("/cache", "rfs", "stl11"),
             With(Line("/sdcard", "vfat", "mmcblk0p1"), "mmcblk1p1", Null)>>
GalaxySDisk == [boot |-> Full("raw", {"/boot"}),
                stl9 |-> Full("ext4", {"/system"}),
                stl11 |-> Full("rfs", {"/cache"}),
                mmcblk0p1 |-> Full("vfat", {Secure}),
                mmcblk1p1 |-> Blank("none")]
GalaxySPoints == {"/boot", "/system", "/cache", "/sdcard"}
=============================================================================
