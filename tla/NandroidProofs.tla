---------------------------- MODULE NandroidProofs ----------------------------
(***************************************************************************)
(* Proofs about Nandroid, for every volume table that gives each volume a  *)
(* device of its own and has a vfat card.                                  *)
(***************************************************************************)
EXTENDS Nandroid, SequenceTheorems, TLAPS

Path == Partition \cup MountPoints

-----------------------------------------------------------------------------
(* The volume table *)

LEMMA Points ==
    ASSUME NEW mp \in MountPoints
    PROVE  MountPointOf(mp) = mp /\ HasVolume(mp)
<1>1. VolumeForPath(Secure) = VolumeForPath("/sdcard")
  BY DEF VolumeForPath, MountPointOf, Secure
<1>2. mp # Secure
  BY <1>1, FstabAssumption DEF Secure
<1>3. NoVolume.fs_type = "ramdisk"
  BY DEF NoVolume, Ramdisk
<1> QED
  BY <1>2, <1>3, FstabAssumption DEF MountPointOf, HasVolume

LEMMA SecureOnCard ==
    /\ VolumeForPath(Secure) = VolumeForPath("/sdcard") /\ HasVolume(Secure)
    /\ HasVolume("/sdcard") /\ MountPointOf("/sdcard") = "/sdcard"
    /\ MountPointOf(Secure) = "/sdcard" /\ Secure # "/sdcard"
    /\ Card \in DOMAIN InitDisk /\ Card # Null
    /\ VolumeForPath("/sdcard").mount_point = "/sdcard"
    /\ VolumeForPath("/sdcard").fs_type = "vfat"
<1>1. VolumeForPath(Secure) = VolumeForPath("/sdcard") /\ MountPointOf(Secure) = "/sdcard"
  BY DEF VolumeForPath, MountPointOf, Secure
<1>2. HasVolume("/sdcard") /\ MountPointOf("/sdcard") = "/sdcard"
  BY Points, FstabAssumption
<1>3. HasVolume(Secure)
  BY <1>1, <1>2 DEF HasVolume
<1>4. Card \in DOMAIN InitDisk /\ Card # Null
  BY FstabAssumption, DiskAssumption DEF Card
<1> QED
  BY <1>1, <1>2, <1>3, <1>4, FstabAssumption DEF Secure

\* What is known of the volume of a path.
LEMMA PathVolume ==
    ASSUME NEW p \in Path, HasVolume(p)
    PROVE  /\ MountPointOf(p) \in MountPoints
           /\ VolumeForPath(p) = VolumeForPath(MountPointOf(p))
           /\ VolumeForPath(p).mount_point = MountPointOf(p)
           /\ VolumeForPath(p).fs_type # "ramdisk"
           /\ VolumeForPath(p).device \in DOMAIN InitDisk
           /\ VolumeForPath(p).device # Null
           /\ MountPointOf(p) # "/sdcard" =>
                  VolumeForPath(p).device2 = Null /\ VolumeForPath(p).device # Card
           /\ MountPointOf(p) = "/sdcard" => VolumeForPath(p) = VolumeForPath("/sdcard")
           /\ p # Secure => MountPointOf(p) = p
<1>1. MountPointOf(p) \in MountPoints
  BY Points, FstabAssumption DEF Path
<1>2. p # Secure => MountPointOf(p) = p
  BY DEF MountPointOf
<1>3. VolumeForPath(p) = VolumeForPath(MountPointOf(p))
  BY <1>2, SecureOnCard
<1>4. MountPointOf(p) # "/sdcard" => VolumeForPath(p).device # Card
  BY <1>1, <1>3, FstabAssumption DEF Card
<1> QED
  BY <1>1, <1>2, <1>3, <1>4, FstabAssumption, DiskAssumption

\* Two partitions share a device only where they are the same.
LEMMA OwnDevice ==
    ASSUME NEW p \in Partition, HasVolume(p), NEW q \in Partition, HasVolume(q),
           VolumeForPath(p).device = VolumeForPath(q).device
    PROVE  p = q
<1>1. p \in Path /\ q \in Path
  BY DEF Path
<1>2. MountPointOf(p) = MountPointOf(q)
  BY <1>1, PathVolume, FstabAssumption
<1>3. \A r \in Partition : r # Secure => r # "/sdcard"
  BY DEF Partition, Secure
<1> QED
  BY <1>1, <1>2, <1>3, PathVolume, SecureOnCard

-----------------------------------------------------------------------------
(* Mounting *)

LEMMA OneDevice ==
    ASSUME NEW d, NEW a \in Seq({d}), NEW b \in Seq({d})
    PROVE  a \o b \in Seq({d}) /\ (a # <<>> => Head(a) = d)
<1>1. a \o b \in Seq({d})
  BY ConcatProperties
<1>2. a # <<>> => Head(a) = d
  BY HeadTailProperties
<1> QED
  BY <1>1, <1>2

LEMMA FirstDevice ==
    ASSUME NEW d, NEW S, d \in S, NEW b \in Seq(S)
    PROVE  Head(<<d>> \o b) = d /\ <<d>> \o b \in Seq(S) /\ <<d>> \o b # <<>>
<1>1. <<d>> \in Seq(S) /\ Len(<<d>>) = 1 /\ <<d>>[1] = d
  OBVIOUS
<1>2. <<d>> \o b \in Seq(S) /\ Len(<<d>> \o b) = 1 + Len(b) /\ Len(b) \in Nat
  BY <1>1, ConcatProperties, LenProperties
<1>3. (<<d>> \o b)[1] = d
  BY <1>1, <1>2, ConcatProperties
<1>4. <<d>> \o b # <<>>
  BY <1>2, EmptySeq
<1> QED
  BY <1>2, <1>3, <1>4, HeadTailProperties

\* A volume is mounted from its own device.
LEMMA MountHead ==
    ASSUME NEW s, Sound(s), NEW p \in Path, HasVolume(p),
           Mountable(s, VolumeForPath(p), p) # <<>>
    PROVE  Head(Mountable(s, VolumeForPath(p), p)) = VolumeForPath(p).device
<1> DEFINE v == VolumeForPath(p)
           try(d, t) == IF TryMount(s, d, v.mount_point, t) THEN <<d>> ELSE <<>>
           all == try(v.device, v.fs_type) \o try(v.device2, v.fs_type) \o
                  try(v.device, v.fs_type2) \o try(v.device2, v.fs_type2)
<1>1. CASE v.fs_type = "yaffs2"
  BY <1>1 DEF Mountable
<1>2. CASE v.fs_type \in {"ext4", "ext3", "rfs", "vfat"}
  <2>0. Mountable(s, v, p) = all
    BY <1>2 DEF Mountable
  <2>1. CASE MountPointOf(p) # "/sdcard"
    <3>1. v.device2 = Null
      BY <2>1, PathVolume
    <3>2. \A t : try(v.device2, t) = <<>> /\ try(v.device, t) \in {<<>>, <<v.device>>}
      BY <3>1 DEF TryMount
    <3>a. <<>> \in Seq({v.device}) /\ <<v.device>> \in Seq({v.device})
      OBVIOUS
    <3> HIDE DEF v
    <3>3. \A t : try(v.device2, t) \in Seq({v.device}) /\ try(v.device, t) \in Seq({v.device})
      BY <3>2, <3>a
    <3> USE DEF v
    <3> HIDE DEF try
    <3>4. all \in Seq({v.device})
      BY <3>3, OneDevice
    <3> QED
      BY <2>0, <3>4, OneDevice
  <2>2. CASE MountPointOf(p) = "/sdcard"
    <3>1. /\ v.device = Card /\ v.fs_type = "vfat" /\ v.device # Null
          /\ s.disk[v.device].fs = "vfat"
      BY <2>2, PathVolume, SecureOnCard DEF Card, Sound
    <3>2. try(v.device, v.fs_type) = <<v.device>>
      BY <3>1 DEF TryMount, Null
    <3>3. \A t : /\ try(v.device2, t) \in Seq({v.device, v.device2})
                 /\ try(v.device, t) \in Seq({v.device, v.device2})
      <4> DEFINE a == v.device
                 b == v.device2
      <4>1. <<>> \in Seq({a, b}) /\ <<a>> \in Seq({a, b}) /\ <<b>> \in Seq({a, b})
        <5> HIDE DEF a, b
        <5> QED
          OBVIOUS
      <4> QED
        BY <4>1
    <3> DEFINE x == try(v.device2, v.fs_type)
               y == try(v.device, v.fs_type2)
               z == try(v.device2, v.fs_type2)
               S == {v.device, v.device2}
    <3>4. x \in Seq(S) /\ y \in Seq(S) /\ z \in Seq(S) /\ v.device \in S
      BY <3>3
    <3>5. all = ((<<v.device>> \o x) \o y) \o z
      BY <3>2
    <3> HIDE DEF try, x, y, z, S, all
    <3>6. <<v.device>> \o x \in Seq(S) /\ Head(<<v.device>> \o x) = v.device
          /\ <<v.device>> \o x # <<>>
      BY <3>4, FirstDevice
    <3>7. \A a \in Seq(S), b \in Seq(S) : a # <<>> =>
              a \o b \in Seq(S) /\ a \o b # <<>> /\ Head(a \o b) = Head(a)
      <4> SUFFICES ASSUME NEW a \in Seq(S), NEW b \in Seq(S), a # <<>>
                   PROVE  a \o b \in Seq(S) /\ a \o b # <<>> /\ Head(a \o b) = Head(a)
        OBVIOUS
      <4>1. Len(a) \in Nat /\ Len(a) # 0 /\ Len(b) \in Nat
        BY LenProperties, EmptySeq
      <4>2. a \o b \in Seq(S) /\ Len(a \o b) = Len(a) + Len(b) /\ (a \o b)[1] = a[1]
        BY <4>1, ConcatProperties
      <4>3. a \o b # <<>>
        BY <4>1, <4>2, EmptySeq
      <4> QED
        BY <4>2, <4>3, HeadTailProperties
    <3>8. Head((<<v.device>> \o x) \o y) = v.device /\ (<<v.device>> \o x) \o y \in Seq(S)
          /\ (<<v.device>> \o x) \o y # <<>>
      BY <3>4, <3>6, <3>7
    <3>9. Head(((<<v.device>> \o x) \o y) \o z) = v.device
      BY <3>4, <3>7, <3>8
    <3> QED
      BY <2>0, <3>5, <3>9
  <2> QED
    BY <2>1, <2>2
<1>3. CASE v.fs_type \notin {"yaffs2", "ext4", "ext3", "rfs", "vfat"}
  BY <1>3 DEF Mountable
<1> QED
  BY <1>1, <1>2, <1>3

\* A record of a device, field by field.
LEMMA SoundFields ==
    ASSUME NEW s, Sound(s)
    PROVE  /\ s = [disk |-> s.disk, mounted |-> s.mounted, spoilt |-> s.spoilt]
           /\ s.disk \in Disks /\ s.mounted \in [MountPoints -> DOMAIN InitDisk \cup {Null}]
           /\ s.spoilt = {} /\ s.disk[Card].fs = "vfat"
           /\ \A mp \in MountPoints : s.mounted[mp] \in {Null, VolumeForPath(mp).device}
BY DEF Sound

LEMMA SoundFrom ==
    ASSUME NEW disk \in Disks, disk[Card].fs = "vfat",
           NEW mounted \in [MountPoints -> DOMAIN InitDisk \cup {Null}],
           \A mp \in MountPoints : mounted[mp] \in {Null, VolumeForPath(mp).device},
           NEW s, s = [disk |-> disk, mounted |-> mounted, spoilt |-> {}]
    PROVE  Sound(s) /\ s.disk = disk /\ s.mounted = mounted
BY DEF Sound

LEMMA Mounting ==
    ASSUME NEW s, Sound(s), NEW p \in Path, NEW r \in EnsurePathMounted(s, p)
    PROVE  /\ Sound(r.s) /\ r.s.disk = s.disk
           /\ \A mp \in MountPoints : mp # MountPointOf(p) => r.s.mounted[mp] = s.mounted[mp]
           /\ \A mp \in MountPoints :
                  s.mounted[mp] # Null => r.s.mounted[mp] = s.mounted[mp]
           /\ r.ret = 0 => HasVolume(p) /\ r.s.mounted[MountPointOf(p)] = VolumeForPath(p).device
           /\ r.ret # 0 => r.s = s
           /\ HasVolume(p) /\ s.mounted[MountPointOf(p)] # Null => r.ret = 0
<1>0. /\ s = [disk |-> s.disk, mounted |-> s.mounted, spoilt |-> s.spoilt]
      /\ s.disk \in Disks /\ s.mounted \in [MountPoints -> DOMAIN InitDisk \cup {Null}]
      /\ s.spoilt = {} /\ s.disk[Card].fs = "vfat"
      /\ \A mp \in MountPoints : s.mounted[mp] \in {Null, VolumeForPath(mp).device}
  BY SoundFields
<1>1. CASE ~HasVolume(p)
  <2>1. EnsurePathMounted(s, p) = Error(s)
    BY <1>1, SecureOnCard DEF EnsurePathMounted, IsDataMedia
  <2> QED
    BY <1>1, <2>1 DEF Error
<1>2. CASE HasVolume(p)
  <2> DEFINE v == VolumeForPath(p)
             mp0 == MountPointOf(p)
             L == Mountable(s, v, p)
  <2>1. /\ mp0 \in MountPoints /\ v.mount_point = mp0 /\ v.fs_type # "ramdisk"
        /\ v = VolumeForPath(mp0) /\ v.device \in DOMAIN InitDisk /\ v.device # Null
    BY <1>2, PathVolume
  <2>2. L # <<>> => Head(L) = v.device
    BY <1>2, MountHead
  <2>3. EnsurePathMounted(s, p) = MountVolume(s, v, p)
    BY <1>2 DEF EnsurePathMounted
  <2> HIDE DEF L, v, mp0
  <2>4. CASE s.mounted[mp0] # Null
    <3>1. MountVolume(s, v, p) = Ok(s)
      BY <1>0, <2>1, <2>4 DEF MountVolume, ScanMountedVolumes, v
    <3>2. r.ret = 0 /\ r.s = s /\ s.mounted[mp0] = v.device
      BY <1>0, <2>1, <2>3, <2>4, <3>1 DEF Ok
    <3> QED
      BY <1>2, <3>2 DEF v, mp0
  <2>5. CASE s.mounted[mp0] = Null
    <3>1. mp0 \notin ScanMountedVolumes(s)
      BY <1>0, <2>5 DEF ScanMountedVolumes
    <3>2. CASE L = <<>>
      <4>1. EnsurePathMounted(s, p) = Error(s)
        BY <2>1, <2>3, <3>1, <3>2 DEF MountVolume, L, v
      <4> QED
        BY <2>5, <4>1 DEF Error, mp0
    <3>3. CASE L # <<>>
      <4> DEFINE t == [s EXCEPT !.mounted[mp0] = v.device]
      <4>1. \/ r.ret = 0 /\ r.s = t
            \/ r.ret = -1 /\ r.s = s
        BY <2>1, <2>2, <2>3, <3>1, <3>3 DEF MountVolume, L, v, Ok, Error
      <4>2. t = [disk |-> s.disk, mounted |-> [s.mounted EXCEPT ![mp0] = v.device],
                 spoilt |-> {}]
        BY <1>0
      <4> HIDE DEF t
      <4>3. Sound(t) /\ t.disk = s.disk /\ t.mounted = [s.mounted EXCEPT ![mp0] = v.device]
        <5>1. \A mp \in MountPoints : [s.mounted EXCEPT ![mp0] = v.device][mp]
                                          \in {Null, VolumeForPath(mp).device}
          BY <1>0, <2>1
        <5>2. [s.mounted EXCEPT ![mp0] = v.device] \in
                  [MountPoints -> DOMAIN InitDisk \cup {Null}]
          BY <1>0, <2>1
        <5> QED
          BY <1>0, <4>2, <5>1, <5>2, SoundFrom
      <4>4. \A mp \in MountPoints : mp # mp0 => t.mounted[mp] = s.mounted[mp]
        BY <1>0, <4>3
      <4>5. t.mounted[mp0] = v.device
        BY <1>0, <2>1, <4>3
      <4>6. /\ \A mp \in MountPoints : mp # mp0 => r.s.mounted[mp] = s.mounted[mp]
            /\ \A mp \in MountPoints : s.mounted[mp] # Null => r.s.mounted[mp] = s.mounted[mp]
        BY <2>5, <4>1, <4>4
      <4>7. Sound(r.s) /\ r.s.disk = s.disk
        BY <4>1, <4>3
      <4>8. r.ret = 0 => r.s.mounted[mp0] = v.device
        BY <4>1, <4>5
      <4>9. r.ret # 0 => r.s = s
        BY <4>1
      <4> QED
        BY <1>2, <2>5, <4>6, <4>7, <4>8, <4>9 DEF mp0, v
    <3> QED
      BY <3>2, <3>3
  <2> QED
    BY <2>4, <2>5
<1> QED
  BY <1>1, <1>2

LEMMA Unmounting ==
    ASSUME NEW s, Sound(s), NEW p \in Path, NEW r \in EnsurePathUnmounted(s, p)
    PROVE  /\ Sound(r.s) /\ r.s.disk = s.disk
           /\ \A mp \in MountPoints : mp # MountPointOf(p) => r.s.mounted[mp] = s.mounted[mp]
           /\ HasVolume(p) /\ r.ret = 0 => r.s.mounted[MountPointOf(p)] = Null
<1>0. /\ s = [disk |-> s.disk, mounted |-> s.mounted, spoilt |-> s.spoilt]
      /\ s.disk \in Disks /\ s.mounted \in [MountPoints -> DOMAIN InitDisk \cup {Null}]
      /\ s.spoilt = {} /\ s.disk[Card].fs = "vfat"
      /\ \A mp \in MountPoints : s.mounted[mp] \in {Null, VolumeForPath(mp).device}
  BY SoundFields
<1>1. CASE ~HasVolume(p)
  <2>1. VolumeForPath(p).fs_type = "ramdisk"
    BY <1>1 DEF HasVolume, NoVolume, Ramdisk
  <2>2. EnsurePathUnmounted(s, p) = Error(s)
    BY <2>1, SecureOnCard DEF EnsurePathUnmounted
  <2> QED
    BY <1>1, <2>2 DEF Error
<1>2. CASE HasVolume(p)
  <2> DEFINE mp0 == MountPointOf(p)
             t == [s EXCEPT !.mounted[mp0] = Null]
  <2>1. /\ mp0 \in MountPoints /\ VolumeForPath(p).mount_point = mp0
        /\ VolumeForPath(p).fs_type # "ramdisk"
    BY <1>2, PathVolume
  <2>2. CASE mp0 \notin ScanMountedVolumes(s)
    <3>1. EnsurePathUnmounted(s, p) = Ok(s)
      BY <2>1, <2>2, SecureOnCard DEF EnsurePathUnmounted
    <3>2. s.mounted[mp0] = Null
      BY <1>0, <2>1, <2>2 DEF ScanMountedVolumes
    <3> QED
      BY <3>1, <3>2 DEF Ok
  <2>3. CASE mp0 \in ScanMountedVolumes(s)
    <3>0. EnsurePathUnmounted(s, p) = Ok(t) \cup (IF "umount" \in Faults THEN Error(s) ELSE {})
      BY <2>1, <2>3, SecureOnCard DEF EnsurePathUnmounted
    <3>1. (r.ret = 0 /\ r.s = t) \/ (r.ret = -1 /\ r.s = s)
      <4> HIDE DEF t
      <4>1. r \in Ok(t) \/ r \in Error(s)
        BY <3>0
      <4> QED
        BY <4>1 DEF Ok, Error
    <3>2. t = [disk |-> s.disk, mounted |-> [s.mounted EXCEPT ![mp0] = Null],
               spoilt |-> {}]
      BY <1>0
    <3> HIDE DEF t, mp0
    <3>3. Sound(t) /\ t.disk = s.disk /\ t.mounted = [s.mounted EXCEPT ![mp0] = Null]
      <4>1. \A mp \in MountPoints : [s.mounted EXCEPT ![mp0] = Null][mp]
                                        \in {Null, VolumeForPath(mp).device}
        BY <1>0, <2>1
      <4>2. [s.mounted EXCEPT ![mp0] = Null] \in [MountPoints -> DOMAIN InitDisk \cup {Null}]
        BY <1>0, <2>1
      <4> QED
        BY <1>0, <3>2, <4>1, <4>2, SoundFrom
    <3>4. /\ \A mp \in MountPoints : mp # mp0 => t.mounted[mp] = s.mounted[mp]
          /\ t.mounted[mp0] = Null
      BY <1>0, <2>1, <3>3
    <3>5. CASE r.ret = 0 /\ r.s = t
      BY <3>3, <3>4, <3>5 DEF mp0
    <3>6. CASE r.ret = -1 /\ r.s = s
      BY <3>6
    <3> QED
      BY <3>1, <3>5, <3>6
  <2> QED
    BY <2>2, <2>3
<1> QED
  BY <1>1, <1>2

-----------------------------------------------------------------------------
(* Formatting *)

\* What formatting path p may do to the device s.
Wiped(s, t, p) ==
    /\ Sound(t)
    /\ \A d \in DOMAIN InitDisk : d # VolumeForPath(p).device => t.disk[d] = s.disk[d]
    /\ \A mp \in MountPoints : mp # MountPointOf(p) => t.mounted[mp] = s.mounted[mp]
    /\ p # "/sdcard" => /\ t.disk[Card].images = s.disk[Card].images
                        /\ t.disk[Card].sums = s.disk[Card].sums
                        /\ t.disk[Card].summed = s.disk[Card].summed
    /\ p = "/sdcard" => /\ t.disk[Card].images \subseteq s.disk[Card].images
                        /\ t.disk[Card].summed => /\ s.disk[Card].summed
                                                  /\ t.disk[Card].sums = s.disk[Card].sums

\* Mounting and unmounting around it change nothing on the devices.
LEMMA WipedAround ==
    ASSUME NEW s, NEW t, NEW u, NEW p, Wiped(t, u, p), t.disk = s.disk,
           \A mp \in MountPoints : mp # MountPointOf(p) => t.mounted[mp] = s.mounted[mp]
    PROVE  Wiped(s, u, p)
BY DEF Wiped

\* One device of several changes.
Put(s, d, k) == [s EXCEPT !.disk[d] = k]

LEMMA SoundDisk ==
    ASSUME NEW s, Sound(s), NEW d \in DOMAIN InitDisk,
           NEW k \in DiskContents,
           d = Card => k.fs = "vfat"
    PROVE  /\ Sound(Put(s, d, k)) /\ Put(s, d, k).mounted = s.mounted
           /\ Put(s, d, k).disk[d] = k
           /\ \A e \in DOMAIN InitDisk : e # d => Put(s, d, k).disk[e] = s.disk[e]
<1>0. /\ s = [disk |-> s.disk, mounted |-> s.mounted, spoilt |-> s.spoilt]
      /\ s.disk \in Disks /\ s.mounted \in [MountPoints -> DOMAIN InitDisk \cup {Null}]
      /\ s.spoilt = {} /\ s.disk[Card].fs = "vfat"
      /\ \A mp \in MountPoints : s.mounted[mp] \in {Null, VolumeForPath(mp).device}
  BY SoundFields
<1> DEFINE D == [s.disk EXCEPT ![d] = k]
           t == Put(s, d, k)
<1>1. t = [disk |-> D, mounted |-> s.mounted, spoilt |-> {}]
  BY <1>0 DEF Put
<1>2. D \in Disks /\ D[d] = k /\ \A e \in DOMAIN InitDisk : e # d => D[e] = s.disk[e]
  BY <1>0 DEF Disks
<1>3. D[Card].fs = "vfat"
  BY <1>0, <1>2, SecureOnCard
<1> HIDE DEF D, t
<1>4. Sound(t) /\ t.disk = D /\ t.mounted = s.mounted
  BY <1>0, <1>1, <1>2, <1>3, SoundFrom
<1> QED
  BY <1>2, <1>4 DEF t

LEMMA Making ==
    ASSUME NEW s, Sound(s), NEW p \in Path, HasVolume(p), MountPointOf(p) # "/sdcard",
           s.mounted[MountPointOf(p)] = Null, NEW fs \in FileSystems,
           NEW r \in Make(s, VolumeForPath(p).device, fs)
    PROVE  Wiped(s, r.s, p) /\ Holds(r.s, p) = {}
<1> DEFINE d == VolumeForPath(p).device
           spoils == {x \in {d} : \E mp \in DOMAIN s.mounted : s.mounted[mp] = x}
           made(t) == [s EXCEPT !.disk[d] = Blank(t), !.spoilt = @ \cup spoils]
<1>0. /\ s = [disk |-> s.disk, mounted |-> s.mounted, spoilt |-> s.spoilt]
      /\ s.disk \in Disks /\ s.mounted \in [MountPoints -> DOMAIN InitDisk \cup {Null}]
      /\ s.spoilt = {} /\ s.disk[Card].fs = "vfat"
      /\ \A mp \in MountPoints : s.mounted[mp] \in {Null, VolumeForPath(mp).device}
  BY SoundFields
<1>1. /\ MountPointOf(p) \in MountPoints /\ d \in DOMAIN InitDisk /\ d # Null /\ d # Card
      /\ d = VolumeForPath(MountPointOf(p)).device
  BY PathVolume
<1>2. spoils = {}
  BY <1>0, <1>1, FstabAssumption
<1>3. \A t : made(t) = Put(s, d, Blank(t))
  <2> SUFFICES ASSUME NEW t PROVE made(t) = Put(s, d, Blank(t))
    OBVIOUS
  <2> DEFINE k == Blank(t)
             u == [s EXCEPT !.disk[d] = k]
  <2>1. made(t) = [u EXCEPT !.spoilt = s.spoilt \cup spoils]
    <3> HIDE DEF d, spoils
    <3> QED
      BY <1>0
  <2>2. u = [disk |-> [s.disk EXCEPT ![d] = k], mounted |-> s.mounted, spoilt |-> s.spoilt]
    BY <1>0
  <2>3. s.spoilt \cup spoils = s.spoilt
    BY <1>0, <1>2
  <2> HIDE DEF u, made, k
  <2>4. made(t) = u
    BY <2>1, <2>2, <2>3
  <2> QED
    BY <2>4 DEF u, k, Put
<1>4. PICK t \in FileSystems : r.s = made(t)
  <2>1. Make(s, d, fs) = Ok(made(fs)) \cup (IF "mkfs" \in Faults THEN Error(made("none")) ELSE {})
    BY DEF Make
  <2> HIDE DEF made
  <2>2. r \in Ok(made(fs)) \/ r \in Error(made("none"))
    BY <2>1
  <2>3. r.s = made(fs) \/ r.s = made("none")
    BY <2>2 DEF Ok, Error
  <2> QED
    BY <2>3 DEF FileSystems
<1>5. r.s = Put(s, d, Blank(t))
  BY <1>3, <1>4
<1>6. Blank(t) \in DiskContents
  BY DEF Blank, DiskContents
<1>7. /\ Sound(r.s) /\ r.s.mounted = s.mounted /\ r.s.disk[d] = Blank(t)
      /\ \A e \in DOMAIN InitDisk : e # d => r.s.disk[e] = s.disk[e]
  BY <1>1, <1>5, <1>6, SoundDisk
<1>8. Holds(r.s, p) = {}
  BY <1>7 DEF Holds, Blank
<1>9. Wiped(s, r.s, p)
  BY <1>1, <1>7, SecureOnCard DEF Wiped
<1> QED
  BY <1>8, <1>9

\* rm -rf of a mounted directory.
LEMMA Removing ==
    ASSUME NEW s, Sound(s), NEW p \in Path, HasVolume(p),
           s.mounted[MountPointOf(p)] = VolumeForPath(p).device
    PROVE  /\ Wiped(s, RemoveFiles(s, p), p) /\ Holds(RemoveFiles(s, p), p) = {}
           /\ RemoveFiles(s, p).mounted = s.mounted
           /\ p = "/sdcard" => ~RemoveFiles(s, p).disk[Card].summed
<1> DEFINE d == VolumeForPath(p).device
           old == s.disk[d]
           base == IF p = "/sdcard" THEN Blank(old.fs) ELSE old
           k == [base EXCEPT !.files = {x \in old.files : x.dir \notin Directories(p)}]
<1>0. /\ s = [disk |-> s.disk, mounted |-> s.mounted, spoilt |-> s.spoilt]
      /\ s.disk \in Disks /\ s.mounted \in [MountPoints -> DOMAIN InitDisk \cup {Null}]
      /\ s.spoilt = {} /\ s.disk[Card].fs = "vfat"
      /\ \A mp \in MountPoints : s.mounted[mp] \in {Null, VolumeForPath(mp).device}
  BY SoundFields
<1>1. /\ MountPointOf(p) \in MountPoints /\ d \in DOMAIN InitDisk
      /\ MountPointOf(p) # "/sdcard" => d # Card
      /\ MountPointOf(p) = "/sdcard" => d = Card
  BY PathVolume DEF Card
<1>2. DeviceAt(s, p) = d
  BY <1>0, <1>1 DEF DeviceAt
<1>3. RemoveFiles(s, p) = Put(s, d, k)
  BY <1>0, <1>1, <1>2 DEF RemoveFiles, Disks, Put
<1>4. old \in DiskContents
  BY <1>0, <1>1 DEF Disks
<1> HIDE DEF old
<1>5. /\ k \in DiskContents
      /\ k.fs = old.fs /\ k.files = {x \in old.files : x.dir \notin Directories(p)}
      /\ p # "/sdcard" => /\ k.images = old.images /\ k.sums = old.sums
                          /\ k.summed = old.summed
      /\ p = "/sdcard" => k.images = {} /\ k.summed = FALSE
  BY <1>4 DEF Blank, DiskContents
<1> HIDE DEF k
<1> DEFINE t == RemoveFiles(s, p)
<1>6. /\ Sound(t) /\ t.mounted = s.mounted /\ t.disk[d] = k
      /\ \A e \in DOMAIN InitDisk : e # d => t.disk[e] = s.disk[e]
  <2>1. d = Card => k.fs = "vfat"
    BY <1>0, <1>5 DEF old
  <2>2. t = Put(s, d, k) /\ d \in DOMAIN InitDisk
    BY <1>1, <1>3
  <2> HIDE DEF d, t
  <2> QED
    BY <1>5, <2>1, <2>2, SoundDisk
<1> HIDE DEF t
<1>7. Holds(t, p) = {}
  BY <1>5, <1>6 DEF Holds, Directories
<1>8. Wiped(s, t, p)
  BY <1>1, <1>5, <1>6, SecureOnCard DEF Wiped, MountPointOf, old
<1>9. p = "/sdcard" => ~t.disk[Card].summed
  BY <1>1, <1>5, <1>6, SecureOnCard
<1> QED
  BY <1>6, <1>7, <1>8, <1>9 DEF t

\* An rm that fails keeps some of what was there.
LEMMA Left ==
    ASSUME NEW old \in DiskContents, NEW p, NEW k \in Leftovers(old, p)
    PROVE  /\ k \in DiskContents /\ k.fs = old.fs /\ k.sums = old.sums
           /\ k.images \subseteq old.images /\ (k.summed => old.summed)
           /\ p # "/sdcard" => k.images = old.images /\ k.summed = old.summed
<1> DEFINE inside == {x \in old.files : x.dir \in Directories(p)}
           I == IF p = "/sdcard" THEN SUBSET old.images ELSE {old.images}
           B == IF p = "/sdcard" THEN {old.summed, FALSE} ELSE {old.summed}
<1>1. PICK x \in [files : SUBSET inside, images : I, summed : B] :
          k = [old EXCEPT !.files = (old.files \ inside) \cup x.files,
                          !.images = x.images, !.summed = x.summed]
  BY DEF Leftovers
<1>2. x.files \subseteq inside /\ x.images \in I /\ x.summed \in B
  <2> HIDE DEF inside, I, B
  <2> QED
    BY <1>1
<1>3. /\ k.fs = old.fs /\ k.sums = old.sums /\ k.images = x.images
      /\ k.summed = x.summed
  <2> HIDE DEF inside, I, B
  <2> QED
    BY <1>1 DEF DiskContents
<1>4. k \in DiskContents
  <2>1. x.files \subseteq Files /\ x.images \subseteq ImageFiles /\ x.summed \in BOOLEAN
    BY <1>2 DEF DiskContents
  <2>2. old.files \ inside \subseteq Files
    BY DEF DiskContents
  <2> HIDE DEF inside, I, B
  <2> QED
    BY <1>1, <2>1, <2>2 DEF DiskContents
<1> QED
  BY <1>2, <1>3, <1>4

LEMMA RemovingInPart ==
    ASSUME NEW s, Sound(s), NEW p \in Path, HasVolume(p),
           s.mounted[MountPointOf(p)] = VolumeForPath(p).device,
           NEW t \in RemovedInPart(s, p)
    PROVE  Wiped(s, t, p) /\ t.mounted = s.mounted
<1> DEFINE d == VolumeForPath(p).device
           old == s.disk[d]
<1>0. /\ s.disk \in Disks /\ s.mounted \in [MountPoints -> DOMAIN InitDisk \cup {Null}]
      /\ s.disk[Card].fs = "vfat"
  BY SoundFields
<1>1. /\ MountPointOf(p) \in MountPoints /\ d \in DOMAIN InitDisk
      /\ MountPointOf(p) # "/sdcard" => d # Card
      /\ MountPointOf(p) = "/sdcard" => d = Card
  BY PathVolume DEF Card
<1>2. DeviceAt(s, p) = d
  BY <1>0, <1>1 DEF DeviceAt
<1>3. old \in DiskContents
  BY <1>0, <1>1 DEF Disks
<1>4. PICK k \in Leftovers(old, p) : t = Put(s, d, k)
  BY <1>2 DEF RemovedInPart, Put
<1> HIDE DEF old
<1>5. /\ k \in DiskContents /\ k.fs = old.fs /\ k.sums = old.sums
      /\ k.images \subseteq old.images /\ (k.summed => old.summed)
      /\ p # "/sdcard" => k.images = old.images /\ k.summed = old.summed
  BY <1>3, Left
<1>6. /\ Sound(t) /\ t.mounted = s.mounted /\ t.disk[d] = k
      /\ \A e \in DOMAIN InitDisk : e # d => t.disk[e] = s.disk[e]
  <2>1. d = Card => k.fs = "vfat"
    BY <1>0, <1>5 DEF old
  <2> HIDE DEF d
  <2> QED
    BY <1>1, <1>4, <1>5, <2>1, SoundDisk
<1>7. p = "/sdcard" => d = Card
  BY <1>1, SecureOnCard
<1>8. d = Card => old = s.disk[Card]
  BY DEF old
<1>9. /\ p = "/sdcard" => /\ t.disk[Card].images \subseteq s.disk[Card].images
                          /\ t.disk[Card].summed => /\ s.disk[Card].summed
                                                    /\ t.disk[Card].sums = s.disk[Card].sums
      /\ p # "/sdcard" => /\ t.disk[Card].images = s.disk[Card].images
                          /\ t.disk[Card].sums = s.disk[Card].sums
                          /\ t.disk[Card].summed = s.disk[Card].summed
  <2> HIDE DEF d
  <2>1. CASE d = Card
    BY <2>1, <1>5, <1>6, <1>8
  <2>2. CASE d # Card
    BY <2>2, <1>6, <1>7, SecureOnCard
  <2> QED
    BY <2>1, <2>2
<1> QED
  BY <1>6, <1>9 DEF Wiped

LEMMA Emptying ==
    ASSUME NEW s, Sound(s), NEW p \in Path, HasVolume(p),
           s.mounted[MountPointOf(p)] = VolumeForPath(p).device,
           NEW e \in EmptyDirectory(s, p)
    PROVE  /\ Wiped(s, e.s, p) /\ e.s.mounted = s.mounted /\ e.ret = 0
           /\ \/ e.silent
              \/ Holds(e.s, p) = {} /\ (p = "/sdcard" => ~e.s.disk[Card].summed)
<1>1. CASE e \in Ok(RemoveFiles(s, p))
  <2>1. e.s = RemoveFiles(s, p) /\ e.ret = 0
    BY <1>1 DEF Ok
  <2> QED
    BY <2>1, Removing
<1>2. CASE e \notin Ok(RemoveFiles(s, p))
  <2>1. PICK t \in RemovedInPart(s, p) : e \in Silent(t)
    BY <1>2 DEF EmptyDirectory
  <2>2. e.s = t /\ e.ret = 0 /\ e.silent
    BY <2>1 DEF Silent
  <2> QED
    BY <2>2, RemovingInPart
<1> QED
  BY <1>1, <1>2

\* Nothing at all changes, or no more than what is mounted.
LEMMA WipedNot ==
    ASSUME NEW s, NEW t, Sound(t), t.disk = s.disk, NEW p \in Path,
           \A mp \in MountPoints : mp # MountPointOf(p) => t.mounted[mp] = s.mounted[mp]
    PROVE  Wiped(s, t, p)
BY DEF Wiped

LEMMA WipedThen ==
    ASSUME NEW s, NEW t, NEW u, NEW p, Wiped(s, t, p), Sound(u), u.disk = t.disk,
           \A mp \in MountPoints : mp # MountPointOf(p) => u.mounted[mp] = t.mounted[mp]
    PROVE  Wiped(s, u, p)
BY DEF Wiped

\* format_unknown_device(): a card that is not emptied is one of the formats
\* that return success all the same.
LEMMA Unknown ==
    ASSUME NEW s, Sound(s), NEW p \in Path, HasVolume(p), NEW fs,
           MountPointOf(p) # "/sdcard" => s.mounted[MountPointOf(p)] = Null,
           MountPointOf(p) = "/sdcard" => fs \in {"vfat", Null},
           NEW r \in FormatUnknownDevice(s, VolumeForPath(p).device, p, fs)
    PROVE  /\ Wiped(s, r.s, p)
           /\ \/ fs = "bml" \/ r.silent
              \/ Holds(r.s, p) = {} /\ (p = "/sdcard" => ~r.s.disk[Card].summed)
<1> DEFINE d == VolumeForPath(p).device
<1>a. MountPointOf(p) \in MountPoints
  BY PathVolume
<1>1. CASE fs = "bml"
  <2>1. r.s = s
    BY <1>1 DEF FormatUnknownDevice, Ok
  <2> QED
    BY <1>1, <2>1, WipedNot
<1>2. CASE fs \in {"mtd", "emmc"}
  <2>1. r \in Make(s, d, "none")
    BY <1>2 DEF FormatUnknownDevice
  <2>2. MountPointOf(p) # "/sdcard" /\ "none" \in FileSystems
    BY <1>2 DEF Null, FileSystems
  <2> QED
    BY <2>1, <2>2, Making, SecureOnCard
<1>3. CASE fs \in {"ext2", "ext3"}
  <2>1. PICK u \in EnsurePathUnmounted(s, p) :
            r \in IF u.ret # 0 THEN Error(u.s) ELSE Make(u.s, d, fs)
    BY <1>3 DEF FormatUnknownDevice
  <2>2. /\ Sound(u.s) /\ u.s.disk = s.disk
        /\ \A mp \in MountPoints : mp # MountPointOf(p) => u.s.mounted[mp] = s.mounted[mp]
        /\ u.ret = 0 => u.s.mounted[MountPointOf(p)] = Null
    BY Unmounting
  <2>3. MountPointOf(p) # "/sdcard" /\ fs \in FileSystems
    BY <1>3 DEF Null, FileSystems
  <2>4. u.s = s
    <3>1. MountPointOf(p) \notin ScanMountedVolumes(s)
      BY <2>3 DEF ScanMountedVolumes
    <3>2. VolumeForPath(p).mount_point = MountPointOf(p) /\ VolumeForPath(p).fs_type # "ramdisk"
      BY PathVolume
    <3>3. EnsurePathUnmounted(s, p) = Ok(s)
      BY <3>1, <3>2, SecureOnCard DEF EnsurePathUnmounted
    <3> QED
      BY <3>3 DEF Ok
  <2>5. u.ret = 0
    <3>1. MountPointOf(p) \notin ScanMountedVolumes(s)
      BY <2>3 DEF ScanMountedVolumes
    <3>2. VolumeForPath(p).mount_point = MountPointOf(p) /\ VolumeForPath(p).fs_type # "ramdisk"
      BY PathVolume
    <3>3. EnsurePathUnmounted(s, p) = Ok(s)
      BY <3>1, <3>2, SecureOnCard DEF EnsurePathUnmounted
    <3> QED
      BY <3>3 DEF Ok
  <2>6. r \in Make(s, d, fs)
    BY <2>1, <2>4, <2>5
  <2> QED
    BY <2>3, <2>6, Making, SecureOnCard
<1>4. CASE fs \notin {"bml", "mtd", "emmc", "ext2", "ext3"}
  <2>1. PICK m \in EnsurePathMounted(s, p) :
            r \in IF m.ret # 0 THEN Silent(m.s)
                   ELSE UNION {{[e EXCEPT !.s = u.s] :
                                    u \in EnsurePathUnmounted(e.s, p)} :
                               e \in EmptyDirectory(m.s, p)}
    BY <1>4, SecureOnCard DEF FormatUnknownDevice
  <2>2. /\ Sound(m.s) /\ m.s.disk = s.disk
        /\ \A mp \in MountPoints : mp # MountPointOf(p) => m.s.mounted[mp] = s.mounted[mp]
        /\ m.ret = 0 => m.s.mounted[MountPointOf(p)] = VolumeForPath(p).device
        /\ m.ret # 0 => m.s = s
    BY Mounting
  <2>3. CASE m.ret # 0
    <3>1. r.s = s /\ r.silent
      BY <2>1, <2>2, <2>3 DEF Silent
    <3> QED
      BY <3>1, WipedNot
  <2>4. CASE m.ret = 0
    <3>0. PICK e \in EmptyDirectory(m.s, p) :
              \E u \in EnsurePathUnmounted(e.s, p) : r = [e EXCEPT !.s = u.s]
      BY <2>1, <2>4
    <3>1. PICK u \in EnsurePathUnmounted(e.s, p) : r = [e EXCEPT !.s = u.s]
      BY <3>0
    <3> DEFINE t == e.s
    <3>2. /\ Wiped(m.s, t, p) /\ t.mounted = m.s.mounted
          /\ \/ e.silent
             \/ Holds(t, p) = {} /\ (p = "/sdcard" => ~t.disk[Card].summed)
      BY <2>2, <2>4, Emptying
    <3>3. r.s = u.s /\ (e.silent => r.silent)
      <4>1. PICK x : e \in Ok(x) \/ e \in Silent(x)
        BY <3>0 DEF EmptyDirectory
      <4>2. CASE e \in Ok(x)
        BY <3>1, <4>2 DEF Ok
      <4>3. CASE e \in Silent(x)
        BY <3>1, <4>3 DEF Silent
      <4> QED
        BY <4>1, <4>2, <4>3
    <3>4. Wiped(s, t, p) /\ Sound(t)
      <4> HIDE DEF t
      <4>1. Wiped(s, t, p)
        BY <2>2, <3>2, WipedAround
      <4> QED
        BY <4>1 DEF Wiped
    <3> HIDE DEF t
    <3>5. /\ Sound(u.s) /\ u.s.disk = t.disk
          /\ \A mp \in MountPoints : mp # MountPointOf(p) => u.s.mounted[mp] = t.mounted[mp]
      BY <3>1, <3>4, Unmounting DEF t
    <3>6. Wiped(s, r.s, p)
      BY <3>3, <3>4, <3>5, WipedThen
    <3>7. \/ r.silent
          \/ Holds(r.s, p) = {} /\ (p = "/sdcard" => ~r.s.disk[Card].summed)
      <4>1. Holds(r.s, p) = Holds(t, p) /\ r.s.disk = t.disk
        BY <3>3, <3>5 DEF Holds
      <4>2. CASE e.silent
        BY <3>3, <4>2
      <4>3. CASE ~e.silent
        <5>1. Holds(t, p) = {} /\ (p = "/sdcard" => ~t.disk[Card].summed)
          BY <3>2, <4>3
        <5> QED
          BY <4>1, <5>1
      <4> QED
        BY <4>2, <4>3
    <3> QED
      BY <3>6, <3>7
  <2> QED
    BY <2>3, <2>4
<1> QED
  BY <1>1, <1>2, <1>3, <1>4

LEMMA Formatting ==
    ASSUME NEW s, Sound(s), NEW p \in Path, HasVolume(p), NEW fs,
           p = "/sdcard" => fs = "vfat",
           NEW r \in FormatDevice(s, VolumeForPath(p).device, p, fs)
    PROVE  /\ Wiped(s, r.s, p)
           /\ r.ret = 0 => fs = "bml" \/ r.silent \/ Holds(r.s, p) = {}
           /\ p = "/sdcard" => \/ r.silent \/ ~r.s.disk[Card].summed
                               \/ r.ret # 0 /\ r.s.disk = s.disk
<1> DEFINE d == VolumeForPath(p).device
<1>a. /\ MountPointOf(p) \in MountPoints /\ VolumeForPath(p).mount_point = MountPointOf(p)
      /\ p # Secure => MountPointOf(p) = p
  BY PathVolume
<1>b. MountPointOf(Secure) = "/sdcard" /\ Secure # "/sdcard"
  BY SecureOnCard
<1>1. CASE fs = "ramdisk"
  <2>1. r.s = s /\ r.ret = -1
    BY <1>1 DEF FormatDevice, Error
  <2> QED
    BY <2>1, WipedNot
<1>2. CASE fs # "ramdisk" /\ p = Secure
  <2>1. r \in FormatUnknownDevice(s, d, p, Null)
    BY <1>2, <1>a, <1>b DEF FormatDevice
  <2>2. Null # "bml"
    BY DEF Null
  <2> QED
    BY <1>2, <1>a, <1>b, <2>1, <2>2, Unknown
<1>3. CASE fs # "ramdisk" /\ p # Secure
  <2>1. PICK u \in EnsurePathUnmounted(s, p) :
            r \in CASE u.ret # 0 -> Error(u.s)
                    [] u.ret = 0 /\ fs \in {"yaffs2", "ext4"} -> Make(u.s, d, fs)
                    [] u.ret = 0 /\ fs = "mtd" -> Make(u.s, d, "none")
                    [] OTHER -> FormatUnknownDevice(u.s, d, p, fs)
    BY <1>3, <1>a DEF FormatDevice
  <2>2. /\ Sound(u.s) /\ u.s.disk = s.disk
        /\ \A mp \in MountPoints : mp # MountPointOf(p) => u.s.mounted[mp] = s.mounted[mp]
        /\ u.ret = 0 => u.s.mounted[MountPointOf(p)] = Null
    BY Unmounting
  <2>3. CASE u.ret # 0
    <3>1. r.s = u.s /\ r.ret = -1
      BY <2>1, <2>3 DEF Error
    <3>2. Wiped(s, r.s, p)
      BY <2>2, <3>1, WipedNot
    <3> QED
      BY <2>2, <3>1, <3>2
  <2>4. CASE u.ret = 0 /\ fs \in {"yaffs2", "ext4", "mtd"}
    <3>1. PICK f \in FileSystems : r \in Make(u.s, d, f)
      <4>1. CASE fs = "mtd"
        BY <2>1, <2>4, <4>1 DEF FileSystems
      <4>2. CASE fs \in {"yaffs2", "ext4"}
        BY <2>1, <2>4, <4>2 DEF FileSystems
      <4> QED
        BY <2>4, <4>1, <4>2
    <3>2. MountPointOf(p) # "/sdcard"
      BY <1>3, <1>a, <2>4
    <3>3. Wiped(u.s, r.s, p) /\ Holds(r.s, p) = {}
      BY <2>2, <2>4, <3>1, <3>2, Making
    <3> QED
      BY <1>3, <1>a, <2>2, <3>2, <3>3, WipedAround
  <2>5. CASE u.ret = 0 /\ fs \notin {"yaffs2", "ext4", "mtd"}
    <3>1. r \in FormatUnknownDevice(u.s, d, p, fs)
      BY <2>1, <2>5
    <3>2. MountPointOf(p) = "/sdcard" => fs \in {"vfat", Null}
      BY <1>3, <1>a
    <3>3. /\ Wiped(u.s, r.s, p)
          /\ \/ fs = "bml" \/ r.silent
             \/ Holds(r.s, p) = {} /\ (p = "/sdcard" => ~r.s.disk[Card].summed)
      BY <2>2, <2>5, <3>1, <3>2, Unknown
    <3>4. Wiped(s, r.s, p)
      BY <2>2, <3>3, WipedAround
    <3> QED
      BY <1>3, <1>a, <3>3, <3>4
  <2> QED
    BY <2>3, <2>4, <2>5
<1> QED
  BY <1>1, <1>2, <1>3

-----------------------------------------------------------------------------
(* Plans *)

LEMMA PlanStep ==
    ASSUME NEW S, NEW q \in Seq(S), q # <<>>
    PROVE  /\ Head(q) \in S /\ Head(q) \in Elems(q) /\ Elems(q) \subseteq S
           /\ Tail(q) \in Seq(S) /\ Elems(q) = {Head(q)} \cup Elems(Tail(q))
           /\ Len(q) = 1 <=> Tail(q) = <<>>
           /\ Len(q) > 1 <=> Tail(q) # <<>>
<1>1. /\ Len(q) \in Nat /\ Len(q) >= 1 /\ DOMAIN q = 1..Len(q)
      /\ \A i \in 1..Len(q) : q[i] \in S
  BY LenProperties, EmptySeq
<1>2. /\ Head(q) = q[1] /\ Tail(q) \in Seq(S) /\ Len(Tail(q)) = Len(q) - 1
      /\ \A i \in 1..Len(q) - 1 : Tail(q)[i] = q[i + 1]
  BY <1>1, HeadTailProperties
<1>3. DOMAIN Tail(q) = 1..Len(q) - 1
  BY <1>2, LenProperties
<1>4. Tail(q) = <<>> <=> Len(q) = 1
  BY <1>1, <1>2, EmptySeq
<1>5. Elems(q) \subseteq {Head(q)} \cup Elems(Tail(q))
  <2> SUFFICES ASSUME NEW i \in 1..Len(q), i # 1
               PROVE  \E j \in DOMAIN Tail(q) : q[i] = Tail(q)[j]
    BY <1>1, <1>2 DEF Elems
  <2>1. i - 1 \in 1..Len(q) - 1
    BY <1>1
  <2>2. Tail(q)[i - 1] = q[i]
    BY <1>1, <1>2, <2>1
  <2> QED
    BY <1>3, <2>1, <2>2
<1>6. {Head(q)} \cup Elems(Tail(q)) \subseteq Elems(q)
  <2>1. Head(q) \in Elems(q)
    BY <1>1, <1>2 DEF Elems
  <2>2. ASSUME NEW j \in 1..Len(q) - 1 PROVE Tail(q)[j] \in Elems(q)
    <3>1. j + 1 \in 1..Len(q) /\ Tail(q)[j] = q[j + 1]
      BY <1>1, <1>2
    <3> QED
      BY <1>1, <3>1 DEF Elems
  <2> QED
    BY <1>3, <2>1, <2>2 DEF Elems
<1>7. Elems(q) \subseteq S
  BY <1>1 DEF Elems
<1> QED
  BY <1>1, <1>2, <1>4, <1>5, <1>6, <1>7

LEMMA NoPlan == Elems(<<>>) = {}
BY DEF Elems

\* The plans are not empty, and only the mount check looks at /sdcard.
LEMMA Plans ==
    /\ StartUpOrder \in Seq(Partition \cup {"/sdcard"}) /\ StartUpOrder # <<>>
    /\ \A q \in BackupPlans \cup RestorePlans :
           /\ q \in Seq(Partition \cup {"/sdcard"}) /\ q # <<>>
           /\ Elems(q) \subseteq Partition /\ "/sdcard" \notin Elems(q)
<1> DEFINE All == Partition \cup {"/sdcard"}
<1>0. "/sdcard" \notin Partition
  BY DEF Partition, Secure
<1>1. /\ "/boot" \in Partition /\ "/recovery" \in Partition /\ "/system" \in Partition
      /\ "/data" \in Partition /\ "/dbdata" \in Partition /\ Secure \in Partition
      /\ "/cache" \in Partition
  BY DEF Partition
<1>2. \A S, T : S \subseteq T => Seq(S) \subseteq Seq(T)
  OBVIOUS
<1> HIDE DEF Partition
<1>3. StartUpOrder \in Seq(All) /\ StartUpOrder # <<>>
  BY <1>1 DEF StartUpOrder
<1>a. <<"/system">> \in Seq(Partition) /\ <<"/system">> # <<>>
  BY <1>1
<1>b. <<"/boot">> \in Seq(Partition) /\ <<"/boot">> # <<>>
  BY <1>1
<1>c. <<"/cache">> \in Seq(Partition) /\ <<"/cache">> # <<>>
  BY <1>1
<1>d. <<"/data", "/dbdata">> \in Seq(Partition) /\ <<"/data", "/dbdata">> # <<>>
  BY <1>1
<1>e. <<"/data", "/dbdata", Secure>> \in Seq(Partition) /\ <<"/data", "/dbdata", Secure>> # <<>>
  BY <1>1
<1>f. FullBackup \in Seq(Partition) /\ FullBackup # <<>>
  BY <1>1 DEF FullBackup
<1>g. RestoreOrder \in Seq(Partition) /\ RestoreOrder # <<>>
  BY <1>1 DEF RestoreOrder
<1>4. \A q \in BackupPlans : q \in Seq(Partition) /\ q # <<>>
  BY <1>a, <1>d, <1>f, Zenon DEF BackupPlans
<1>5. \A q \in RestorePlans : q \in Seq(Partition) /\ q # <<>>
  BY <1>a, <1>b, <1>c, <1>e, <1>g, Zenon DEF RestorePlans
<1>6. \A q \in BackupPlans \cup RestorePlans : q \in Seq(Partition) /\ q # <<>>
  BY <1>4, <1>5
<1>7. \A q \in BackupPlans \cup RestorePlans : Elems(q) \subseteq Partition
  BY <1>6, PlanStep
<1>8. \A q \in BackupPlans \cup RestorePlans : q \in Seq(All)
  BY <1>2, <1>6
<1> QED
  BY <1>0, <1>3, <1>6, <1>7, <1>8

-----------------------------------------------------------------------------
(* Writing *)

\* The backup on the card of s is that of t.
SameBackup(s, t) ==
    /\ t.disk[Card].images = s.disk[Card].images
    /\ t.disk[Card].sums = s.disk[Card].sums
    /\ t.disk[Card].summed = s.disk[Card].summed

LEMMA Contents ==
    ASSUME NEW s, Sound(s), NEW d \in DOMAIN InitDisk
    PROVE  /\ s.disk[d] \in DiskContents /\ s.disk[d].fs \in FileSystems
           /\ s.disk[d].files \subseteq Files /\ s.disk[d].images \subseteq ImageFiles
           /\ s.disk[d].sums \subseteq ImageFiles /\ s.disk[d].summed \in BOOLEAN
<1>1. s.disk[d] \in DiskContents
  BY SoundFields DEF Disks
<1> QED
  BY <1>1 DEF DiskContents

LEMMA Held ==
    ASSUME NEW s, Sound(s), NEW p \in Path, HasVolume(p)
    PROVE  Holds(s, p) \subseteq Int
<1>1. s.disk[VolumeForPath(p).device].files \subseteq Files
  BY PathVolume, Contents
<1> QED
  BY <1>1 DEF Holds, Files

LEMMA AtCard ==
    ASSUME NEW s, Sound(s)
    PROVE  /\ DeviceAt(s, "/sdcard") = s.mounted["/sdcard"]
           /\ s.mounted["/sdcard"] \in {Null, Card}
<1>1. s.mounted["/sdcard"] \in {Null, Card} /\ "/sdcard" \in DOMAIN s.mounted
  BY SoundFields, FstabAssumption DEF Card
<1> QED
  BY <1>1, SecureOnCard DEF DeviceAt

LEMMA At ==
    ASSUME NEW s, Sound(s), NEW p \in Path, HasVolume(p)
    PROVE  DeviceAt(s, p) = s.mounted[MountPointOf(p)]
BY SoundFields, PathVolume DEF DeviceAt

LEMMA Saving ==
    ASSUME NEW s, Sound(s), NEW image \in ImageFiles
    PROVE  LET t == SaveImage(s, image) IN
           /\ Sound(t) /\ t.mounted = s.mounted
           /\ \A d \in DOMAIN InitDisk : t.disk[d].files = s.disk[d].files
           /\ t.disk[Card].summed = s.disk[Card].summed
           /\ t.disk[Card].sums = s.disk[Card].sums
           /\ t.disk[Card].images = s.disk[Card].images \cup
                                        (IF s.mounted["/sdcard"] = Null THEN {} ELSE {image})
<1> DEFINE t == SaveImage(s, image)
           k == WithImages(s.disk[Card], s.disk[Card].images \cup {image})
<1>1. CASE s.mounted["/sdcard"] = Null
  <2>1. t = s
    BY <1>1, AtCard DEF SaveImage
  <2> QED
    BY <1>1, <2>1
<1>2. CASE s.mounted["/sdcard"] # Null
  <2>1. t = Put(s, Card, k)
    BY <1>2, AtCard DEF SaveImage, Put
  <2>2. s.disk[Card] \in DiskContents /\ s.disk[Card].fs = "vfat" /\ Card \in DOMAIN InitDisk
    BY Contents, SecureOnCard, SoundFields
  <2> DEFINE old == s.disk[Card]
  <2>3. /\ k \in DiskContents /\ k.fs = "vfat" /\ k.files = old.files
        /\ k.summed = old.summed /\ k.sums = old.sums /\ k.images = old.images \cup {image}
    <3> HIDE DEF old
    <3>1. k = [old EXCEPT !.images = old.images \cup {image}] /\ old \in DiskContents
          /\ old.fs = "vfat"
      BY <2>2 DEF old, WithImages
    <3> QED
      BY <3>1 DEF DiskContents
  <2> HIDE DEF k
  <2>4. /\ Sound(t) /\ t.mounted = s.mounted /\ t.disk[Card] = k
        /\ \A e \in DOMAIN InitDisk : e # Card => t.disk[e] = s.disk[e]
    BY <2>1, <2>2, <2>3, SoundDisk
  <2>5. \A d \in DOMAIN InitDisk : t.disk[d].files = s.disk[d].files
    BY <2>3, <2>4
  <2> QED
    BY <1>2, <2>3, <2>4, <2>5
<1> QED
  BY <1>1, <1>2

\* The files of one device change.
LEMMA Writing ==
    ASSUME NEW s, Sound(s), NEW d \in DOMAIN InitDisk, NEW F \in SUBSET Files,
           NEW t, t = Put(s, d, WithFiles(s.disk[d], F))
    PROVE  /\ Sound(t) /\ t.mounted = s.mounted /\ t.disk[d].files = F
           /\ \A e \in DOMAIN InitDisk : e # d => t.disk[e] = s.disk[e]
           /\ SameBackup(s, t)
<1> DEFINE old == s.disk[d]
           k == WithFiles(old, F)
<1>1. old \in DiskContents /\ (d = Card => old.fs = "vfat")
  BY Contents, SoundFields
<1>2. /\ k \in DiskContents /\ k.fs = old.fs /\ k.files = F
      /\ k.summed = old.summed /\ k.sums = old.sums /\ k.images = old.images
  <2> HIDE DEF old
  <2> QED
    BY <1>1 DEF DiskContents, WithFiles
<1>a. t = Put(s, d, k)
  OBVIOUS
<1> HIDE DEF k, old
<1>3. /\ Sound(t) /\ t.mounted = s.mounted /\ t.disk[d] = k
      /\ \A e \in DOMAIN InitDisk : e # d => t.disk[e] = s.disk[e]
  BY <1>1, <1>2, <1>a, SoundDisk
<1>4. SameBackup(s, t)
  BY <1>2, <1>3, SecureOnCard DEF SameBackup, old
<1> QED
  BY <1>2, <1>3, <1>4

-----------------------------------------------------------------------------
(* What the steps of a backup and a restore do to the device *)

LEMMA AtHead ==
    ASSUME TypeOK, pc \in {"backup", "restore", "fill"}
    PROVE  /\ Head(plan) \in Partition /\ Head(plan) \in Path /\ Head(plan) # "/sdcard"
           /\ Head(plan) \in Todo /\ Todo = {Head(plan)} \cup Elems(Tail(plan))
           /\ Tail(plan) \in Seq(Partition \cup {"/sdcard"})
           /\ Len(plan) = 1 <=> Tail(plan) = <<>>
           /\ Len(plan) > 1 <=> Tail(plan) # <<>>
           /\ Todo \subseteq Partition
<1>1. plan \in Seq(Partition \cup {"/sdcard"}) /\ plan # <<>> /\ "/sdcard" \notin Todo
  BY DEF TypeOK
<1>2. /\ Head(plan) \in Partition \cup {"/sdcard"} /\ Head(plan) \in Todo
      /\ Todo \subseteq Partition \cup {"/sdcard"}
      /\ Tail(plan) \in Seq(Partition \cup {"/sdcard"})
      /\ Todo = {Head(plan)} \cup Elems(Tail(plan))
      /\ Len(plan) = 1 <=> Tail(plan) = <<>>
      /\ Len(plan) > 1 <=> Tail(plan) # <<>>
  BY <1>1, PlanStep DEF Todo
<1> QED
  BY <1>1, <1>2 DEF Path

LEMMA Finishing ==
    ASSUME NEW s, Sound(s), NEW p \in Partition, NEW t \in Finished(s, p)
    PROVE  Sound(t) /\ t.disk = s.disk /\ t.mounted["/sdcard"] = s.mounted["/sdcard"]
<1>1. CASE ~UmountWhenFinished(p)
  BY <1>1 DEF Finished
<1>2. CASE UmountWhenFinished(p)
  <2>1. PICK u \in EnsurePathUnmounted(s, p) : t = u.s
    BY <1>2 DEF Finished
  <2>2. p \in Path /\ MountPointOf(p) # "/sdcard"
    BY <1>2 DEF Path, UmountWhenFinished, MountPointOf, Partition
  <2> QED
    BY <2>1, <2>2, Unmounting, FstabAssumption
<1> QED
  BY <1>1, <1>2

\* An image is added to the backup.
Adds(s, t, image) ==
    /\ Sound(t) /\ t.mounted["/sdcard"] = s.mounted["/sdcard"]
    /\ \A d \in DOMAIN InitDisk : t.disk[d].files = s.disk[d].files
    /\ t.disk[Card].summed = s.disk[Card].summed
    /\ t.disk[Card].sums = s.disk[Card].sums
    /\ t.disk[Card].images = s.disk[Card].images \cup {image}

LEMMA Adding ==
    ASSUME NEW s, Sound(s), s.mounted["/sdcard"] # Null, NEW image \in ImageFiles
    PROVE  Adds(s, SaveImage(s, image), image)
BY Saving DEF Adds

LEMMA AddingFinished ==
    ASSUME NEW s, NEW t, NEW image, Adds(s, t, image),
           NEW p \in Partition, NEW u \in Finished(t, p)
    PROVE  Adds(s, u, image)
<1>1. Sound(t)
  BY DEF Adds
<1>2. Sound(u) /\ u.disk = t.disk /\ u.mounted["/sdcard"] = t.mounted["/sdcard"]
  BY <1>1, Finishing
<1> QED
  BY <1>2 DEF Adds

LEMMA BackupStep ==
    ASSUME TypeOK, BackupRaw \/ BackupFiles
    PROVE  /\ pc = "backup" /\ UNCHANGED history
           /\ \/ Sound(dev') /\ dev'.disk = dev.disk /\ Ends("failed")
              \/ \E image \in ImageFiles :
                     /\ image.of = Head(plan) /\ Adds(dev, dev', image)
                     /\ \/ Ends("failed")
                        \/ image.files = Content(Head(plan)) /\ BackedUp
<1> DEFINE p == Head(plan)
<1>1. pc = "backup" /\ UNCHANGED history
  BY DEF BackupRaw, BackupFiles
<1>2. /\ p \in Partition /\ p \in Path /\ Sound(dev) /\ dev.mounted["/sdcard"] = Card
      /\ Card # Null
  BY <1>1, AtHead, SecureOnCard DEF TypeOK
<1>3. Content(p) \subseteq Int
  BY <1>2, Held DEF Content
<1> HIDE DEF p
<1>4. CASE BackupRaw
  <2> DEFINE image == [of |-> p, fs |-> "raw", kind |-> "img", files |-> Content(p)]
             broken == [image EXCEPT !.files = {}]
  <2>1. \/ dev' = SaveImage(dev, image) /\ BackedUp
        \/ dev' = SaveImage(dev, broken) /\ Ends("failed")
    BY <1>4 DEF BackupRaw, p
  <2>2. /\ image \in ImageFiles /\ image.of = p /\ image.files = Content(p)
        /\ broken \in ImageFiles /\ broken.of = p
    BY <1>2, <1>3 DEF ImageFiles, FileSystems
  <2> HIDE DEF image, broken
  <2>3. Adds(dev, SaveImage(dev, image), image) /\ Adds(dev, SaveImage(dev, broken), broken)
    BY <1>2, <2>2, Adding
  <2> QED
    BY <1>1, <2>1, <2>2, <2>3 DEF p
<1>5. CASE BackupFiles
  <2>1. PICK m \in EnsurePathMounted(dev, p) :
         \/ m.ret # 0 /\ dev' = m.s /\ Ends("failed")
         \/ /\ m.ret = 0
            /\ LET fs == m.s.disk[DeviceAt(m.s, p)].fs
                   image == [of |-> p, fs |-> fs, files |-> Content(p),
                             kind |-> IF fs = "yaffs2" THEN "img" ELSE "tar"]
               IN \/ dev' \in Finished(SaveImage(m.s, image), p) /\ BackedUp
                  \/ /\ dev' \in Finished(
                            SaveImage(m.s, [image EXCEPT !.files = {}]), p)
                     /\ Ends("failed")
    BY <1>5 DEF BackupFiles, p
  <2>2. /\ Sound(m.s) /\ m.s.disk = dev.disk
        /\ m.s.mounted["/sdcard"] = dev.mounted["/sdcard"]
        /\ m.ret = 0 => HasVolume(p) /\ m.s.mounted[MountPointOf(p)] = VolumeForPath(p).device
    BY <1>2, Mounting, FstabAssumption
  <2>3. CASE m.ret # 0
    BY <1>1, <2>1, <2>2, <2>3
  <2>4. CASE m.ret = 0
    <3> DEFINE fs == m.s.disk[DeviceAt(m.s, p)].fs
               image == [of |-> p, fs |-> fs, files |-> Content(p),
                         kind |-> IF fs = "yaffs2" THEN "img" ELSE "tar"]
               broken == [image EXCEPT !.files = {}]
    <3>1. fs \in FileSystems
      BY <1>2, <2>2, <2>4, At, PathVolume, Contents
    <3>2. /\ image \in ImageFiles /\ image.of = p /\ image.files = Content(p)
          /\ broken \in ImageFiles /\ broken.of = p
      <4> HIDE DEF fs
      <4> QED
        BY <1>2, <1>3, <3>1 DEF ImageFiles
    <3>3. \/ dev' \in Finished(SaveImage(m.s, image), p) /\ BackedUp
          \/ dev' \in Finished(SaveImage(m.s, broken), p) /\ Ends("failed")
      BY <2>1, <2>4
    <3> HIDE DEF image, broken
    <3>4. /\ Adds(m.s, SaveImage(m.s, image), image)
          /\ Adds(m.s, SaveImage(m.s, broken), broken)
      BY <1>2, <2>2, <3>2, Adding
    <3>5. \/ Adds(m.s, dev', image) /\ BackedUp
          \/ Adds(m.s, dev', broken) /\ Ends("failed")
      BY <1>2, <3>3, <3>4, AddingFinished
    <3>6. \/ Adds(dev, dev', image) /\ BackedUp
          \/ Adds(dev, dev', broken) /\ Ends("failed")
      BY <2>2, <3>5 DEF Adds
    <3> QED
      BY <1>1, <3>2, <3>6 DEF p
  <2> QED
    BY <2>3, <2>4
<1> QED
  BY <1>4, <1>5

LEMMA Chosen ==
    ASSUME TypeOK, NEW p \in Partition, ImagesOf(p) # {}
    PROVE  /\ ImageOf(p) \in Images /\ ImageOf(p).of = p
           /\ ImageOf(p).fs \in FileSystems /\ ImageOf(p).files \subseteq Int
<1>1. ImageOf(p) \in ImagesOf(p)
  BY DEF ImageOf
<1>2. ImageOf(p) \in Images /\ ImageOf(p).of = p
  BY <1>1 DEF ImagesOf
<1>3. Images \subseteq ImageFiles
  BY Contents, SecureOnCard DEF TypeOK, Images
<1> QED
  BY <1>2, <1>3 DEF ImageFiles

LEMMA EraseStep ==
    ASSUME TypeOK, ErasePartition
    PROVE  /\ pc = "restore" /\ UNCHANGED asked /\ HasVolume(Head(plan))
           /\ kept' \ {Head(plan)} = kept \ {Head(plan)}
           /\ VolumeForPath(Head(plan)).fs_type \notin RawTypes => ImagesOf(Head(plan)) # {}
           /\ Wiped(dev, dev', Head(plan))
           /\ \/ Ends("failed")
              \/ /\ pc' = "fill" /\ UNCHANGED <<plan, result>>
                 /\ VolumeForPath(Head(plan)).fs_type \notin RawTypes =>
                        Holds(dev', Head(plan)) = {} \/ Head(plan) \in kept'
<1> DEFINE p == Head(plan)
           v == VolumeForPath(p)
           raw == v.fs_type \in RawTypes
<1>1. /\ pc = "restore" /\ UNCHANGED asked /\ HasVolume(p)
      /\ ~raw => ImagesOf(p) # {}
  BY DEF ErasePartition
<1>2. /\ p \in Partition /\ p \in Path /\ Sound(dev) /\ dev.mounted["/sdcard"] = Card
      /\ Card # Null /\ p # "/sdcard"
  BY <1>1, AtHead, SecureOnCard DEF TypeOK
<1>3. PICK f \in IF raw \/ v.fs_type = "auto" THEN FormatVolume(dev, p)
                 ELSE FormatDevice(dev, v.device, p, ImageOf(p).fs) :
             /\ dev' = f.s /\ Formatted(p, f)
             /\ IF f.ret # 0 THEN Ends("failed")
                ELSE pc' = "fill" /\ UNCHANGED <<plan, result>>
  BY DEF ErasePartition
<1>4. PICK fs : /\ f \in FormatDevice(dev, v.device, p, fs)
                /\ ~raw => fs # "bml"
  <2>1. CASE raw \/ v.fs_type = "auto"
    BY <1>3, <2>1 DEF FormatVolume, RawTypes
  <2>2. CASE ~raw /\ v.fs_type # "auto"
    <3>1. ImageOf(p).fs \in FileSystems
      BY <1>1, <1>2, <2>2, Chosen
    <3> QED
      BY <1>3, <2>2, <3>1 DEF FileSystems
  <2> QED
    BY <2>1, <2>2
<1>5. /\ Wiped(dev, f.s, p)
      /\ f.ret = 0 => fs = "bml" \/ f.silent \/ Holds(f.s, p) = {}
  BY <1>1, <1>2, <1>4, Formatting
<1>6. kept' \ {p} = kept \ {p} /\ (f.silent => p \in kept')
  BY <1>3 DEF Formatted
<1> QED
  BY <1>1, <1>3, <1>4, <1>5, <1>6

\* The partition is filled from its image, and nothing else changes.
Fills(s, t, p) ==
    /\ Sound(t) /\ SameBackup(s, t)
    /\ \A d \in DOMAIN InitDisk : d # VolumeForPath(p).device => t.disk[d] = s.disk[d]

LEMMA Filling ==
    ASSUME TypeOK, NEW s, Sound(s), NEW p \in Partition, HasVolume(p), ImagesOf(p) # {},
           NEW t, t = Filled(s, p, VolumeForPath(p).device)
    PROVE  /\ Fills(s, t, p) /\ t.mounted = s.mounted
           /\ Holds(t, p) = Holds(s, p) \cup ImageOf(p).files
<1> DEFINE d == VolumeForPath(p).device
           new == {[dir |-> p, ver |-> n] : n \in ImageOf(p).files}
           F == s.disk[d].files \cup new
<1>1. d \in DOMAIN InitDisk /\ ImageOf(p).files \subseteq Int
  BY PathVolume, Chosen DEF Path
<1>2. t = Put(s, d, WithFiles(s.disk[d], F))
  BY DEF Filled, Put
<1>3. F \in SUBSET Files
  <2>1. s.disk[d].files \subseteq Files
    BY <1>1, Contents
  <2> QED
    BY <1>1, <2>1 DEF Files
<1>4. /\ Sound(t) /\ t.mounted = s.mounted /\ t.disk[d].files = F
      /\ \A e \in DOMAIN InitDisk : e # d => t.disk[e] = s.disk[e]
      /\ SameBackup(s, t)
  <2> HIDE DEF d, F
  <2> QED
    BY <1>1, <1>2, <1>3, Writing
<1>5. Holds(t, p) = {x.ver : x \in {y \in F : y.dir = p}}
  BY <1>4 DEF Holds
<1>6. {y \in F : y.dir = p} = {y \in s.disk[d].files : y.dir = p} \cup new
  OBVIOUS
<1>7. {x.ver : x \in new} = ImageOf(p).files
  <2> DEFINE file(n) == [dir |-> p, ver |-> n]
  <2>1. \A n : file(n).ver = n
    OBVIOUS
  <2>2. new = {file(n) : n \in ImageOf(p).files}
    OBVIOUS
  <2> HIDE DEF file, new
  <2>3. ASSUME NEW n \in ImageOf(p).files PROVE n \in {x.ver : x \in new}
    <3>1. file(n) \in new /\ file(n).ver = n
      BY <2>1, <2>2
    <3> QED
      BY <3>1
  <2>4. ASSUME NEW x \in new PROVE x.ver \in ImageOf(p).files
    BY <2>1, <2>2
  <2> QED
    BY <2>3, <2>4
<1>8. Holds(t, p) = Holds(s, p) \cup ImageOf(p).files
  BY <1>5, <1>6, <1>7 DEF Holds
<1> QED
  BY <1>4, <1>8 DEF Fills

LEMMA FillStep ==
    ASSUME TypeOK, FillRaw \/ FillFiles
    PROVE  /\ pc = "fill" /\ UNCHANGED history /\ Fills(dev, dev', Head(plan))
           /\ \/ Ends("failed")
              \/ /\ Restored /\ dev'.mounted["/sdcard"] = Card
                 /\ ImagesOf(Head(plan)) # {}
                 /\ \/ VolumeForPath(Head(plan)).fs_type \in RawTypes
                    \/ Content(Head(plan)) = {}
                    => Holds(dev', Head(plan)) = ImageOf(Head(plan)).files
<1> DEFINE p == Head(plan)
           v == VolumeForPath(p)
           d == v.device
<1>1. pc = "fill" /\ UNCHANGED history
  BY DEF FillRaw, FillFiles
<1>2. /\ p \in Partition /\ p \in Path /\ Sound(dev) /\ Card # Null /\ p # "/sdcard"
      /\ HasVolume(p) /\ d \in DOMAIN InitDisk
      /\ v.fs_type \notin RawTypes => ImagesOf(p) # {}
  BY <1>1, AtHead, SecureOnCard, PathVolume DEF TypeOK
<1>3. Fills(dev, dev, p)
  BY <1>2 DEF Fills, SameBackup
<1>4. CASE FillRaw
  <2> DEFINE cleared == [dev EXCEPT !.disk[d] = WithFiles(@, {})]
  <2>1. \/ /\ ImagesOf(p) # {} /\ DeviceAt(dev, "/sdcard") # Null
           /\ dev' = Filled(cleared, p, d) /\ Restored
        \/ dev' = cleared /\ Ends("failed")
        \/ dev' = dev /\ Ends("failed")
    BY <1>4 DEF FillRaw
  <2>2. cleared = Put(dev, d, WithFiles(dev.disk[d], {}))
    BY DEF Put
  <2> HIDE DEF cleared
  <2>3. /\ Sound(cleared) /\ cleared.mounted = dev.mounted /\ cleared.disk[d].files = {}
        /\ \A e \in DOMAIN InitDisk : e # d => cleared.disk[e] = dev.disk[e]
        /\ SameBackup(dev, cleared)
    <3>1. {} \in SUBSET Files
      OBVIOUS
    <3> QED
      BY <1>2, <2>2, <3>1, Writing
  <2>4. Fills(dev, cleared, p)
    BY <2>3 DEF Fills
  <2>5. CASE /\ ImagesOf(p) # {} /\ DeviceAt(dev, "/sdcard") # Null
             /\ dev' = Filled(cleared, p, d) /\ Restored
    <3>1. /\ Fills(cleared, dev', p) /\ dev'.mounted = cleared.mounted
          /\ Holds(dev', p) = Holds(cleared, p) \cup ImageOf(p).files
      BY <1>2, <2>3, <2>5, Filling
    <3>2. Holds(cleared, p) = {}
      BY <2>3 DEF Holds
    <3>3. Fills(dev, dev', p)
      BY <2>4, <3>1 DEF Fills, SameBackup
    <3>4. dev'.mounted["/sdcard"] = Card
      BY <1>2, <2>3, <2>5, <3>1, AtCard
    <3> QED
      BY <1>1, <2>5, <3>1, <3>2, <3>3, <3>4
  <2> QED
    BY <1>1, <1>3, <2>1, <2>4, <2>5
<1>5. CASE FillFiles
  <2>1. PICK m \in EnsurePathMounted(dev, p) :
           \/ /\ m.ret = 0 /\ DeviceAt(m.s, "/sdcard") # Null
              /\ dev' \in Finished(Filled(m.s, p, DeviceAt(m.s, p)), p)
              /\ Restored
           \/ dev' = m.s /\ Ends("failed")
    BY <1>5 DEF FillFiles
  <2>2. /\ Sound(m.s) /\ m.s.disk = dev.disk
        /\ m.ret = 0 => m.s.mounted[MountPointOf(p)] = d
    BY <1>2, Mounting
  <2>3. Fills(dev, m.s, p)
    BY <2>2 DEF Fills, SameBackup
  <2>4. v.fs_type \notin RawTypes /\ ImagesOf(p) # {}
    BY <1>2, <1>5 DEF FillFiles
  <2>5. CASE /\ m.ret = 0 /\ DeviceAt(m.s, "/sdcard") # Null
             /\ dev' \in Finished(Filled(m.s, p, DeviceAt(m.s, p)), p) /\ Restored
    <3> DEFINE t == Filled(m.s, p, d)
    <3>1. DeviceAt(m.s, p) = d
      BY <1>2, <2>2, <2>5, At
    <3>2. dev' \in Finished(t, p)
      BY <2>5, <3>1
    <3>3. /\ Fills(m.s, t, p) /\ t.mounted = m.s.mounted
          /\ Holds(t, p) = Holds(m.s, p) \cup ImageOf(p).files
      BY <1>2, <2>2, <2>4, Filling
    <3> HIDE DEF t
    <3>4. /\ Sound(dev') /\ dev'.disk = t.disk
          /\ dev'.mounted["/sdcard"] = t.mounted["/sdcard"]
      <4>1. Sound(t)
        BY <3>3 DEF Fills
      <4> QED
        BY <1>2, <3>2, <4>1, Finishing
    <3>5. Fills(dev, dev', p)
      BY <2>3, <3>3, <3>4 DEF Fills, SameBackup
    <3>6. dev'.mounted["/sdcard"] = Card
      BY <2>2, <2>5, <3>3, <3>4, AtCard
    <3>7. Holds(dev', p) = Holds(dev, p) \cup ImageOf(p).files
      BY <2>2, <3>3, <3>4 DEF Holds
    <3>8. Content(p) = {} => Holds(dev', p) = ImageOf(p).files
      BY <1>2, <3>7 DEF Content
    <3> QED
      BY <1>1, <2>4, <2>5, <3>5, <3>6, <3>8
  <2> QED
    BY <1>1, <2>1, <2>3, <2>5
<1> QED
  BY <1>4, <1>5

-----------------------------------------------------------------------------
(* Every step is type correct and leaves alone the backup it reads from.   *)

HistoryOK ==
    /\ age \in 0..MaxAge /\ crashes \in 0..MaxCrashes /\ tasks \in 0..MaxTasks
    /\ snap \in [Partition -> SUBSET Int]
    /\ whole \subseteq Partition /\ chosen \subseteq Partition
    /\ kept \subseteq Path

LEMMA HistoryFrom == TypeOK => HistoryOK
BY DEF TypeOK, HistoryOK, Path

LEMMA HistoryKept == HistoryOK /\ UNCHANGED history => HistoryOK'
BY DEF HistoryOK, history, asked

LEMMA InitSafe == Init => Safe
<1> SUFFICES ASSUME Init PROVE Safe
  OBVIOUS
<1> DEFINE M == [mp \in MountPoints |-> Null]
<1>1. dev = [disk |-> InitDisk, mounted |-> M, spoilt |-> {}]
  BY DEF Init
<1>2. /\ M \in [MountPoints -> DOMAIN InitDisk \cup {Null}]
      /\ \A mp \in MountPoints : M[mp] \in {Null, VolumeForPath(mp).device}
  OBVIOUS
<1> HIDE DEF M
<1>3. Sound(dev)
  BY <1>1, <1>2, DiskAssumption, SoundFrom
<1>4. HistoryOK
  BY BoundAssumption DEF Init, HistoryOK
<1>5. /\ pc = "start" /\ result = "none"
      /\ plan \in Seq(Partition \cup {"/sdcard"}) /\ plan # <<>>
  BY Plans DEF Init
<1> QED
  BY <1>3, <1>4, <1>5 DEF Safe, TypeOK, Reading, HistoryOK, Path

\* The ways a step may leave the process.
LEMMA ToIdle ==
    ASSUME Sound(dev)', HistoryOK', pc' = "idle", plan' = <<>>,
           result' \in {"none", "failed", "saved", "restored"}
    PROVE  Safe'
<1>1. plan' \in Seq(Partition \cup {"/sdcard"})
  OBVIOUS
<1> QED
  BY <1>1 DEF Safe, TypeOK, Reading, HistoryOK, Path

LEMMA ToStart ==
    ASSUME Sound(dev)', HistoryOK', pc' = "start", result' = "none",
           plan' \in Seq(Partition \cup {"/sdcard"}), plan' # <<>>
    PROVE  Safe'
BY DEF Safe, TypeOK, Reading, HistoryOK, Path

LEMMA ToBackup ==
    ASSUME Sound(dev)', HistoryOK', pc' = "backup", result' = "none",
           plan' \in Seq(Partition \cup {"/sdcard"}), plan' # <<>>,
           "/sdcard" \notin Elems(plan)', dev'.mounted["/sdcard"] = Card
    PROVE  Safe'
BY DEF Safe, TypeOK, Reading, HistoryOK, Path, Todo

LEMMA ToMd5 ==
    ASSUME Sound(dev)', HistoryOK', pc' = "md5", result' = "none", plan' = <<>>
    PROVE  Safe'
<1>1. plan' \in Seq(Partition \cup {"/sdcard"})
  OBVIOUS
<1> QED
  BY <1>1 DEF Safe, TypeOK, Reading, HistoryOK, Path

LEMMA ToRestore ==
    ASSUME Sound(dev)', HistoryOK', pc' = "restore", result' = "none",
           plan' \in Seq(Partition \cup {"/sdcard"}), plan' # <<>>,
           "/sdcard" \notin Elems(plan)', dev'.mounted["/sdcard"] = Card, Intact'
    PROVE  Safe'
BY DEF Safe, TypeOK, Reading, HistoryOK, Path, Todo

LEMMA BackedUpSafe ==
    ASSUME TypeOK, pc = "backup", Sound(dev)', dev'.mounted["/sdcard"] = Card,
           UNCHANGED history, BackedUp
    PROVE  Safe'
<1>1. HistoryOK' /\ result' = "none"
  BY HistoryFrom, HistoryKept DEF TypeOK, BackedUp
<1>2. /\ plan' = Tail(plan) /\ plan' \in Seq(Partition \cup {"/sdcard"})
      /\ "/sdcard" \notin Elems(plan')
      /\ Len(plan) = 1 <=> plan' = <<>>
      /\ pc' = IF Len(plan) = 1 THEN "md5" ELSE "backup"
  BY AtHead DEF BackedUp, TypeOK
<1> QED
  BY <1>1, <1>2, ToBackup, ToMd5

LEMMA RestoredSafe ==
    ASSUME TypeOK, pc \in {"restore", "fill"}, Sound(dev)',
           dev'.mounted["/sdcard"] = Card, Intact', UNCHANGED history, Restored
    PROVE  Safe'
<1>1. HistoryOK'
  BY HistoryFrom, HistoryKept
<1>2. CASE Len(plan) > 1
  <2>1. /\ plan' = Tail(plan) /\ plan' \in Seq(Partition \cup {"/sdcard"})
        /\ "/sdcard" \notin Elems(plan') /\ plan' # <<>> /\ pc' = "restore"
        /\ result' = "none"
    BY <1>2, AtHead DEF Restored, TypeOK
  <2> QED
    BY <1>1, <2>1, ToRestore
<1>3. CASE ~(Len(plan) > 1)
  <2>1. pc' = "idle" /\ plan' = <<>> /\ result' = "restored"
    BY <1>3 DEF Restored, Ends
  <2> QED
    BY <1>1, <2>1, ToIdle
<1> QED
  BY <1>2, <1>3

\* A backup that is still on the card as it was passes the check as it did.
LEMMA SameIntact ==
    ASSUME SameBackup(dev, dev')
    PROVE  Images' = Images /\ (Intact)' = Intact
BY DEF SameBackup, Images, Intact

LEMMA SameDisk ==
    ASSUME dev'.disk = dev.disk
    PROVE  SameBackup(dev, dev')
BY DEF SameBackup

LEMMA SoundReboot ==
    ASSUME Sound(dev)
    PROVE  Sound(Rebooted) /\ Rebooted.disk = dev.disk
<1> DEFINE M == [mp \in MountPoints |-> Null]
<1>0. dev = [disk |-> dev.disk, mounted |-> dev.mounted, spoilt |-> dev.spoilt]
      /\ dev.spoilt = {}
  BY SoundFields
<1>1. Rebooted = [disk |-> dev.disk, mounted |-> M, spoilt |-> {}]
  <2>1. Rebooted = [dev EXCEPT !.mounted = M]
    BY DEF Rebooted
  <2> HIDE DEF M
  <2> QED
    BY <1>0, <2>1
<1>2. /\ M \in [MountPoints -> DOMAIN InitDisk \cup {Null}]
      /\ \A mp \in MountPoints : M[mp] \in {Null, VolumeForPath(mp).device}
  OBVIOUS
<1>3. dev.disk \in Disks /\ dev.disk[Card].fs = "vfat"
  BY SoundFields
<1> HIDE DEF M
<1> QED
  BY <1>1, <1>2, <1>3, SoundFrom

LEMMA Aged ==
    ASSUME TypeOK, SystemRuns
    PROVE  Sound(dev') /\ SameBackup(dev, dev')
<1> DEFINE new(d) == {[x EXCEPT !.ver = age + 1] : x \in dev.disk[d].files}
           D == [d \in DOMAIN dev.disk |-> WithFiles(dev.disk[d], new(d))]
<1>1. Sound(dev) /\ Sound(Rebooted) /\ age \in Int
  BY SoundReboot DEF TypeOK
<1>2. dev' = [Rebooted EXCEPT !.disk = D]
  BY DEF SystemRuns, WithFiles
<1>3. DOMAIN dev.disk = DOMAIN InitDisk
  BY <1>1, SoundFields DEF Disks
<1>4. ASSUME NEW d \in DOMAIN InitDisk
      PROVE  /\ D[d] \in DiskContents /\ D[d].fs = dev.disk[d].fs
             /\ D[d].images = dev.disk[d].images /\ D[d].sums = dev.disk[d].sums
             /\ D[d].summed = dev.disk[d].summed
  <2> DEFINE old == dev.disk[d]
             F == new(d)
  <2>1. old \in DiskContents /\ old.files \subseteq Files
    BY <1>1, Contents
  <2>2. F \subseteq Files
    BY <1>1, <2>1 DEF Files
  <2>3. D[d] = WithFiles(old, F)
    BY <1>3
  <2> HIDE DEF F, old
  <2>4. /\ WithFiles(old, F) \in DiskContents /\ WithFiles(old, F).fs = old.fs
        /\ WithFiles(old, F).images = old.images /\ WithFiles(old, F).sums = old.sums
        /\ WithFiles(old, F).summed = old.summed
    BY <2>1, <2>2 DEF DiskContents, WithFiles
  <2> HIDE DEF D
  <2> QED
    BY <2>3, <2>4 DEF old
<1>5. D \in Disks
  <2>1. D = [d \in DOMAIN InitDisk |-> D[d]]
    BY <1>3
  <2> HIDE DEF D
  <2> QED
    BY <1>4, <2>1 DEF Disks
<1>6. D[Card].fs = "vfat"
  <2> HIDE DEF D
  <2> QED
    BY <1>1, <1>4, SecureOnCard, SoundFields
<1> HIDE DEF D
<1>7. dev' = [disk |-> D, mounted |-> Rebooted.mounted, spoilt |-> {}]
  <2> DEFINE t == Rebooted
  <2>1. /\ t = [disk |-> t.disk, mounted |-> t.mounted, spoilt |-> t.spoilt]
        /\ t.spoilt = {} /\ dev' = [t EXCEPT !.disk = D]
    BY <1>1, <1>2, SoundFields
  <2> HIDE DEF t
  <2>2. dev' = [disk |-> D, mounted |-> t.mounted, spoilt |-> {}]
    BY <2>1
  <2> QED
    BY <2>2 DEF t
<1>8. Sound(dev') /\ dev'.disk = D
  BY <1>1, <1>5, <1>6, <1>7, SoundFields, SoundFrom
<1>9. SameBackup(dev, dev')
  BY <1>4, <1>8, SecureOnCard DEF SameBackup
<1> QED
  BY <1>8, <1>9

\* The format menu may wipe the card and with it the backup; what it leaves
\* of it without an error is known to be a part.
LEMMA MenuFormatStep ==
    ASSUME TypeOK, MenuFormat
    PROVE  /\ Sound(dev') /\ kept' \subseteq Path
           /\ \/ SameBackup(dev, dev') /\ ("/sdcard" \in kept => "/sdcard" \in kept')
              \/ ~dev'.disk[Card].summed
              \/ /\ "/sdcard" \in kept'
                 /\ dev'.disk[Card].images \subseteq dev.disk[Card].images
                 /\ dev'.disk[Card].summed => /\ dev.disk[Card].summed
                                              /\ dev'.disk[Card].sums = dev.disk[Card].sums
<1>1. PICK mp \in MenuFormats : \E f \in FormatVolume(dev, mp) : dev' = f.s /\ Formatted(mp, f)
  BY DEF MenuFormat
<1>2. PICK f \in FormatVolume(dev, mp) : dev' = f.s /\ Formatted(mp, f)
  BY <1>1
<1>3. mp \in MountPoints /\ mp \in Path /\ HasVolume(mp) /\ Sound(dev) /\ kept \subseteq Path
  BY Points DEF MenuFormats, Path, TypeOK
<1>4. f \in FormatDevice(dev, VolumeForPath(mp).device, mp, VolumeForPath(mp).fs_type)
  BY DEF FormatVolume
<1>5. /\ Wiped(dev, f.s, mp)
      /\ mp = "/sdcard" => \/ f.silent \/ ~f.s.disk[Card].summed
                           \/ f.ret # 0 /\ f.s.disk = dev.disk
  <2>1. mp = "/sdcard" => VolumeForPath(mp).fs_type = "vfat"
    BY FstabAssumption
  <2>2. PICK fs : fs = VolumeForPath(mp).fs_type
    OBVIOUS
  <2>3. f \in FormatDevice(dev, VolumeForPath(mp).device, mp, fs) /\ (mp = "/sdcard" => fs = "vfat")
    BY <1>4, <2>1, <2>2
  <2>4. Wiped(dev, f.s, mp)
    BY <1>3, <2>3, Formatting
  <2>5. ASSUME mp = "/sdcard"
        PROVE  \/ f.silent \/ ~f.s.disk[Card].summed
               \/ f.ret # 0 /\ f.s.disk = dev.disk
    BY <1>3, <2>3, <2>5, Formatting
  <2> QED
    BY <2>4, <2>5
<1>6. /\ kept' \subseteq Path /\ (f.silent => mp \in kept')
      /\ mp # "/sdcard" => ("/sdcard" \in kept => "/sdcard" \in kept')
      /\ f.ret # 0 => ("/sdcard" \in kept => "/sdcard" \in kept')
  BY <1>2, <1>3 DEF Formatted
<1>7. CASE mp # "/sdcard"
  BY <1>2, <1>5, <1>6, <1>7 DEF Wiped, SameBackup
<1>8. CASE mp = "/sdcard"
  <2>1. CASE f.silent
    BY <1>2, <1>5, <1>6, <1>8, <2>1 DEF Wiped
  <2>2. CASE ~f.s.disk[Card].summed
    BY <1>2, <1>5, <1>6, <2>2 DEF Wiped
  <2>3. CASE f.ret # 0 /\ f.s.disk = dev.disk
    BY <1>2, <1>5, <1>6, <2>3 DEF Wiped, SameBackup
  <2> QED
    BY <1>5, <1>8, <2>1, <2>2, <2>3
<1> QED
  BY <1>7, <1>8

\* What the card holds, with other images or sums.
LEMMA CardWritten ==
    ASSUME NEW s, Sound(s), NEW k \in DiskContents, k.fs = "vfat",
           k.files = s.disk[Card].files, NEW t, t = Put(s, Card, k)
    PROVE  /\ Sound(t) /\ t.mounted = s.mounted /\ t.disk[Card] = k
           /\ \A d \in DOMAIN InitDisk : t.disk[d].files = s.disk[d].files
<1>1. /\ Sound(t) /\ t.mounted = s.mounted /\ t.disk[Card] = k
      /\ \A d \in DOMAIN InitDisk : d # Card => t.disk[d] = s.disk[d]
  BY SecureOnCard, SoundDisk
<1> QED
  BY <1>1

LEMMA Md5Step ==
    ASSUME TypeOK, GenerateMd5
    PROVE  /\ pc = "md5" /\ UNCHANGED history /\ Sound(dev')
           /\ \A d \in DOMAIN InitDisk : dev'.disk[d].files = dev.disk[d].files
           /\ dev'.disk[Card].images = Images
           /\ dev'.disk[Card].sums \in {{i \in Images : i.kind = "img"}, {}}
           /\ Ends("saved") \/ Ends("failed")
<1> DEFINE imgs == {i \in Images : i.kind = "img"}
           old == dev.disk[Card]
           k(set) == [old EXCEPT !.summed = TRUE, !.sums = set]
<1>1. pc = "md5" /\ UNCHANGED history /\ (Ends("saved") \/ Ends("failed"))
  BY DEF GenerateMd5
<1>2. PICK set \in {imgs, {}} : dev' = [dev EXCEPT !.disk[Card] = k(set)]
  <2>1. \/ dev' = [dev EXCEPT !.disk[Card] = k(imgs)]
        \/ dev' = [dev EXCEPT !.disk[Card] = k({})]
    BY DEF GenerateMd5
  <2> HIDE DEF k, imgs
  <2> QED
    BY <2>1
<1>3. Sound(dev) /\ old \in DiskContents /\ old.fs = "vfat" /\ old.images = Images
  BY SecureOnCard, Contents, SoundFields DEF TypeOK, Images
<1>4. set \subseteq ImageFiles
  BY <1>2, <1>3 DEF DiskContents
<1> DEFINE n == k(set)
<1>5. n \in DiskContents /\ n.fs = "vfat" /\ n.files = old.files /\ n.images = Images
      /\ n.sums = set
  <2> HIDE DEF old
  <2> QED
    BY <1>3, <1>4 DEF DiskContents
<1>6. dev' = Put(dev, Card, n)
  BY <1>2 DEF Put
<1> HIDE DEF n
<1>7. /\ Sound(dev') /\ dev'.disk[Card] = n
      /\ \A d \in DOMAIN InitDisk : dev'.disk[d].files = dev.disk[d].files
  BY <1>3, <1>5, <1>6, CardWritten
<1> QED
  BY <1>1, <1>2, <1>5, <1>7

LEMMA DeleteStep ==
    ASSUME TypeOK, DeleteBackup
    PROVE  Sound(dev') /\ dev'.disk[Card].images = {} /\ ~dev'.disk[Card].summed
<1>1. PICK m \in EnsurePathMounted(dev, "/sdcard") :
          dev' = [m.s EXCEPT !.disk[Card] = [@ EXCEPT
                          !.images = {}, !.sums = {}, !.summed = FALSE]]
  BY DEF DeleteBackup
<1> DEFINE old == m.s.disk[Card]
           k == [old EXCEPT !.images = {}, !.sums = {}, !.summed = FALSE]
<1>2. Sound(m.s)
  BY Mounting, FstabAssumption DEF TypeOK, Path
<1>3. old \in DiskContents /\ old.fs = "vfat"
  BY <1>2, SecureOnCard, Contents, SoundFields
<1>4. dev' = Put(m.s, Card, k)
  BY <1>1 DEF Put
<1>5. k \in DiskContents /\ k.fs = "vfat" /\ k.files = old.files /\ k.images = {}
      /\ k.summed = FALSE
  <2> HIDE DEF old
  <2> QED
    BY <1>3 DEF DiskContents
<1> HIDE DEF k
<1>6. Sound(dev') /\ dev'.disk[Card] = k
  BY <1>2, <1>4, <1>5, CardWritten
<1> QED
  BY <1>5, <1>6

LEMMA DamageStep ==
    ASSUME TypeOK, DamageImage
    PROVE  /\ Sound(dev') /\ dev'.disk[Card].sums = dev.disk[Card].sums
           /\ \E i \in Images : /\ i.kind \in Faults /\ i \notin dev'.disk[Card].images
<1>1. PICK i \in Images :
          /\ i.kind \in Faults
          /\ dev' = [dev EXCEPT !.disk[Card] = WithImages(@,
                          (Images \ {i}) \cup {[i EXCEPT !.files = Corrupt]})]
  BY DEF DamageImage
<1> DEFINE old == dev.disk[Card]
           j == [i EXCEPT !.files = Corrupt]
           I == (Images \ {i}) \cup {j}
           k == WithImages(old, I)
<1>2. Sound(dev) /\ old \in DiskContents /\ old.fs = "vfat" /\ old.images = Images
  BY SecureOnCard, Contents, SoundFields DEF TypeOK, Images
<1>3. i \in ImageFiles
  BY <1>2 DEF DiskContents
<1>4. j \in ImageFiles /\ j.files = Corrupt
  BY <1>3 DEF ImageFiles, Corrupt
<1>5. i.files # Corrupt
  BY DEF DamageImage
<1> HIDE DEF j
<1>6. i # j
  BY <1>4, <1>5
<1>7. I \subseteq ImageFiles /\ i \notin I
  BY <1>2, <1>4, <1>6 DEF DiskContents
<1>8. dev' = Put(dev, Card, k)
  BY <1>1 DEF Put, j
<1>9. k \in DiskContents /\ k.fs = "vfat" /\ k.files = old.files /\ k.images = I
      /\ k.sums = old.sums
  <2> HIDE DEF old, I
  <2> QED
    BY <1>2, <1>7 DEF DiskContents, WithImages
<1> HIDE DEF k, I
<1>10. Sound(dev') /\ dev'.disk[Card] = k
  BY <1>2, <1>8, <1>9, CardWritten
<1> QED
  BY <1>1, <1>7, <1>9, <1>10

\* Counting what the user asks for.
LEMMA Asking ==
    ASSUME TypeOK, Asked
    PROVE  pc = "idle" /\ plan = <<>> /\ tasks' \in 0..MaxTasks
BY BoundAssumption DEF TypeOK, Asked

LEMMA MountsCard ==
    ASSUME TypeOK, NEW m \in EnsurePathMounted(dev, "/sdcard")
    PROVE  /\ Sound(m.s) /\ m.s.disk = dev.disk
           /\ m.ret = 0 => m.s.mounted["/sdcard"] = Card
<1>1. "/sdcard" \in Path /\ Sound(dev)
  BY FstabAssumption DEF Path, TypeOK
<1> QED
  BY <1>1, Mounting, SecureOnCard DEF Card

LEMMA SafeNext == Safe /\ [Next]_vars => Safe'
<1> SUFFICES ASSUME Safe, [Next]_vars PROVE Safe'
  OBVIOUS
<1>0. TypeOK /\ Reading /\ Sound(dev) /\ HistoryOK
  BY HistoryFrom DEF Safe, TypeOK
<1>1. CASE StartUp
  <2>1. pc = "start" /\ plan # <<>> /\ plan \in Seq(Partition \cup {"/sdcard"})
        /\ result' = "none" /\ HistoryOK'
    BY <1>0, <1>1, HistoryKept DEF StartUp, TypeOK
  <2>2. /\ Head(plan) \in Path /\ Tail(plan) \in Seq(Partition \cup {"/sdcard"})
        /\ Len(plan) = 1 <=> Tail(plan) = <<>>
    BY <2>1, PlanStep, FstabAssumption DEF Path
  <2>3. PICK m \in EnsurePathMounted(dev, Head(plan)) :
            /\ dev' = m.s /\ plan' = Tail(plan)
            /\ pc' = IF Len(plan) = 1 THEN "idle" ELSE "start"
    BY <1>1 DEF StartUp
  <2>4. Sound(dev')
    BY <1>0, <2>2, <2>3, Mounting
  <2>5. \/ pc' = "idle" /\ plan' = <<>>
        \/ pc' = "start" /\ plan' # <<>> /\ plan' \in Seq(Partition \cup {"/sdcard"})
    BY <2>2, <2>3
  <2> QED
    BY <2>1, <2>4, <2>5, ToIdle, ToStart
<1>2. CASE SkipBackup
  <2>1. pc = "backup" /\ UNCHANGED history /\ BackedUp /\ dev' = dev
    BY <1>2 DEF SkipBackup
  <2>2. dev.mounted["/sdcard"] = Card
    BY <1>0, <2>1 DEF TypeOK
  <2> QED
    BY <1>0, <2>1, <2>2, BackedUpSafe
<1>3. CASE BackupRaw \/ BackupFiles
  <2>1. pc = "backup" /\ UNCHANGED history
    BY <1>0, <1>3, BackupStep
  <2>2. Sound(dev') /\ (Ends("failed") \/ (BackedUp /\ dev'.mounted["/sdcard"] = Card))
    <3>1. dev.mounted["/sdcard"] = Card
      BY <1>0, <2>1 DEF TypeOK
    <3> QED
      BY <1>0, <1>3, <3>1, BackupStep DEF Adds
  <2>3. CASE Ends("failed")
    BY <1>0, <2>1, <2>2, <2>3, HistoryKept, ToIdle DEF Ends
  <2>4. CASE BackedUp /\ dev'.mounted["/sdcard"] = Card
    BY <1>0, <2>1, <2>2, <2>4, BackedUpSafe
  <2> QED
    BY <2>2, <2>3, <2>4
<1>4. CASE GenerateMd5
  <2>1. Sound(dev') /\ UNCHANGED history /\ (Ends("saved") \/ Ends("failed"))
    BY <1>0, <1>4, Md5Step
  <2> QED
    BY <1>0, <2>1, HistoryKept, ToIdle DEF Ends
<1>5. CASE SkipRestore
  <2>1. pc = "restore" /\ UNCHANGED history /\ Restored /\ dev' = dev
    BY <1>5 DEF SkipRestore
  <2>2. dev.mounted["/sdcard"] = Card /\ Intact
    BY <1>0, <2>1 DEF TypeOK, Reading
  <2>3. Intact'
    BY <2>1, <2>2 DEF Intact, Images
  <2> QED
    BY <1>0, <2>1, <2>2, <2>3, RestoredSafe
<1>6. CASE ErasePartition
  <2>1. /\ pc = "restore" /\ UNCHANGED asked /\ HasVolume(Head(plan))
        /\ kept' \ {Head(plan)} = kept \ {Head(plan)}
        /\ VolumeForPath(Head(plan)).fs_type \notin RawTypes => ImagesOf(Head(plan)) # {}
        /\ Wiped(dev, dev', Head(plan))
        /\ Ends("failed") \/ (pc' = "fill" /\ UNCHANGED <<plan, result>>)
    BY <1>0, <1>6, EraseStep
  <2>2. Head(plan) \in Path /\ Head(plan) # "/sdcard" /\ Head(plan) \in Partition
    BY <1>0, <2>1, AtHead
  <2>3. Sound(dev') /\ SameBackup(dev, dev')
    BY <2>1, <2>2 DEF Wiped, SameBackup
  <2>4. HistoryOK'
    <3>1. kept' \subseteq Path
      BY <1>0, <2>1, <2>2 DEF HistoryOK
    <3> QED
      BY <1>0, <2>1, <3>1 DEF HistoryOK, asked
  <2>5. CASE Ends("failed")
    BY <2>3, <2>4, <2>5, ToIdle DEF Ends
  <2>6. CASE pc' = "fill" /\ UNCHANGED <<plan, result>>
    <3>1. Intact' /\ Images' = Images
      BY <1>0, <2>1, <2>3, SameIntact DEF Reading
    <3>2. ImagesOf(Head(plan))' = ImagesOf(Head(plan))
      BY <2>6, <3>1 DEF ImagesOf
    <3>3. dev'.mounted["/sdcard"] = Card \/ Head(plan) = Secure
      <4>1. dev.mounted["/sdcard"] = Card
        BY <1>0, <2>1 DEF TypeOK
      <4>2. Head(plan) # Secure => MountPointOf(Head(plan)) # "/sdcard"
        BY <2>2 DEF MountPointOf
      <4> QED
        BY <2>1, <4>1, <4>2, FstabAssumption DEF Wiped
    <3>4. /\ plan' \in Seq(Partition \cup {"/sdcard"}) /\ plan' # <<>>
          /\ "/sdcard" \notin Elems(plan') /\ result' = "none"
      BY <1>0, <2>1, <2>6 DEF TypeOK, Todo
    <3> QED
      BY <2>1, <2>3, <2>4, <2>6, <3>1, <3>2, <3>3, <3>4
         DEF Safe, TypeOK, Reading, HistoryOK, Path, Todo
  <2> QED
    BY <2>1, <2>5, <2>6
<1>7. CASE FillRaw \/ FillFiles
  <2>1. /\ pc = "fill" /\ UNCHANGED history /\ Fills(dev, dev', Head(plan))
        /\ Ends("failed") \/ (Restored /\ dev'.mounted["/sdcard"] = Card)
    BY <1>0, <1>7, FillStep
  <2>2. Sound(dev') /\ Intact'
    BY <1>0, <2>1, SameIntact DEF Fills, Reading
  <2>3. CASE Ends("failed")
    BY <1>0, <2>1, <2>2, <2>3, HistoryKept, ToIdle DEF Ends
  <2>4. CASE Restored /\ dev'.mounted["/sdcard"] = Card
    BY <1>0, <2>1, <2>2, <2>4, RestoredSafe
  <2> QED
    BY <2>1, <2>3, <2>4
<1>8. CASE StartBackup
  <2>1. pc = "idle" /\ plan = <<>> /\ tasks' \in 0..MaxTasks
    BY <1>0, <1>8, Asking DEF StartBackup
  <2>2. PICK m \in EnsurePathMounted(dev, "/sdcard") :
           /\ dev' = m.s
           /\ \/ /\ m.ret # 0 /\ result' = "failed"
                 /\ UNCHANGED <<pc, plan, snap, whole, kept>>
              \/ /\ m.ret = 0 /\ result' = "none"
                 /\ plan' \in BackupPlans /\ pc' = "backup"
                 /\ snap' = [p \in Partition |-> Content(p)]
                 /\ whole' = Elems(plan') /\ kept' = {}
    BY <1>8 DEF StartBackup
  <2>3. /\ Sound(dev')
        /\ m.ret = 0 => dev'.mounted["/sdcard"] = Card
    BY <1>0, <2>2, MountsCard
  <2>4. UNCHANGED <<age, chosen, crashes>>
    BY <1>8 DEF StartBackup
  <2>5. CASE m.ret # 0
    <3>1. HistoryOK'
      BY <1>0, <2>1, <2>2, <2>4, <2>5 DEF HistoryOK
    <3> QED
      BY <2>1, <2>2, <2>3, <2>5, <3>1, ToIdle
  <2>6. CASE m.ret = 0
    <3>1. \A p \in Partition : Content(p) \subseteq Int
      BY <1>0, Held DEF Content, Path
    <3>2. snap' \in [Partition -> SUBSET Int]
      BY <2>2, <2>6, <3>1
    <3>3. /\ plan' \in Seq(Partition \cup {"/sdcard"}) /\ plan' # <<>>
          /\ Elems(plan') \subseteq Partition /\ "/sdcard" \notin Elems(plan')
      BY <2>2, <2>6, Plans
    <3>4. HistoryOK'
      BY <1>0, <2>1, <2>2, <2>4, <2>6, <3>2, <3>3 DEF HistoryOK
    <3> QED
      BY <2>2, <2>3, <2>6, <3>3, <3>4, ToBackup
  <2> QED
    BY <2>5, <2>6, <2>2
<1>9. CASE StartRestore
  <2>1. pc = "idle" /\ plan = <<>> /\ tasks' \in 0..MaxTasks
    BY <1>0, <1>9, Asking DEF StartRestore
  <2>2. PICK m \in EnsurePathMounted(dev, "/sdcard") :
           /\ dev' = m.s
           /\ \/ result' = "failed" /\ UNCHANGED <<pc, plan, chosen>>
              \/ /\ m.ret = 0 /\ Intact
                 /\ plan' \in RestorePlans /\ chosen' = Elems(plan')
                 /\ pc' = "restore" /\ result' = "none"
    BY <1>9 DEF StartRestore
  <2>3. /\ Sound(dev') /\ dev'.disk = dev.disk
        /\ m.ret = 0 => dev'.mounted["/sdcard"] = Card
    BY <1>0, <2>2, MountsCard
  <2>4. UNCHANGED <<age, snap, whole, kept, crashes>>
    BY <1>9 DEF StartRestore
  <2>5. CASE result' = "failed" /\ UNCHANGED <<pc, plan, chosen>>
    <3>1. HistoryOK'
      BY <1>0, <2>1, <2>4, <2>5 DEF HistoryOK
    <3> QED
      BY <2>1, <2>3, <2>5, <3>1, ToIdle
  <2>6. CASE /\ m.ret = 0 /\ Intact
             /\ plan' \in RestorePlans /\ chosen' = Elems(plan')
             /\ pc' = "restore" /\ result' = "none"
    <3>1. /\ plan' \in Seq(Partition \cup {"/sdcard"}) /\ plan' # <<>>
          /\ Elems(plan') \subseteq Partition /\ "/sdcard" \notin Elems(plan')
      BY <2>6, Plans
    <3>2. HistoryOK'
      BY <1>0, <2>1, <2>4, <2>6, <3>1 DEF HistoryOK
    <3>3. Intact'
      BY <2>3, <2>6, SameDisk, SameIntact
    <3> QED
      BY <2>3, <2>6, <3>1, <3>2, <3>3, ToRestore
  <2> QED
    BY <2>2, <2>5, <2>6
<1>10. CASE MenuMount
  <2>1. pc = "idle" /\ plan = <<>> /\ tasks' \in 0..MaxTasks
    BY <1>0, <1>10, Asking DEF MenuMount
  <2>2. PICK mp \in MenuMounts :
           \E r \in IF dev.mounted[mp] # Null THEN EnsurePathUnmounted(dev, mp)
                    ELSE EnsurePathMounted(dev, mp) : dev' = r.s
    BY <1>10 DEF MenuMount
  <2>3. Sound(dev')
    BY <1>0, <2>2, Mounting, Unmounting DEF MenuMounts, Path
  <2>4. UNCHANGED <<pc, plan, result, age, snap, whole, chosen, kept, crashes>>
    BY <1>10 DEF MenuMount
  <2>5. HistoryOK' /\ result' \in {"none", "failed", "saved", "restored"}
    BY <1>0, <2>1, <2>4 DEF HistoryOK, TypeOK
  <2> QED
    BY <2>1, <2>3, <2>4, <2>5, ToIdle
<1>11. CASE MenuFormat
  <2>1. pc = "idle" /\ plan = <<>> /\ tasks' \in 0..MaxTasks
    BY <1>0, <1>11, Asking DEF MenuFormat
  <2>2. UNCHANGED <<pc, plan, age, snap, whole, chosen, crashes>> /\ result' = "none"
    BY <1>11 DEF MenuFormat
  <2>3. Sound(dev') /\ HistoryOK'
    BY <1>0, <1>11, <2>1, <2>2, MenuFormatStep DEF HistoryOK
  <2> QED
    BY <2>1, <2>2, <2>3, ToIdle
<1>12. CASE DeleteBackup
  <2>1. pc = "idle" /\ plan = <<>> /\ tasks' \in 0..MaxTasks
    BY <1>0, <1>12, Asking DEF DeleteBackup
  <2>2. UNCHANGED <<pc, plan, age, snap, whole, chosen, kept, crashes>> /\ result' = "none"
    BY <1>12 DEF DeleteBackup
  <2>3. Sound(dev') /\ HistoryOK'
    BY <1>0, <1>12, <2>1, <2>2, DeleteStep DEF HistoryOK
  <2> QED
    BY <2>1, <2>2, <2>3, ToIdle
<1>13. CASE SystemRuns \/ Crash
  <2>1. Sound(dev')
    BY <1>0, <1>13, Aged, SoundReboot DEF Crash
  <2>2. pc' = "start" /\ plan' = StartUpOrder /\ result' = "none"
    BY <1>13 DEF SystemRuns, Crash
  <2>3. HistoryOK'
    BY <1>0, <1>13, BoundAssumption DEF SystemRuns, Crash, HistoryOK
  <2> QED
    BY <2>1, <2>2, <2>3, Plans, ToStart
<1>14. CASE DamageImage
  <2>1. pc = "idle" /\ UNCHANGED <<pc, plan, history>> /\ result' = "none"
    BY <1>14 DEF DamageImage
  <2>2. Sound(dev') /\ HistoryOK' /\ plan = <<>>
    BY <1>0, <1>14, <2>1, DamageStep, HistoryKept DEF TypeOK
  <2> QED
    BY <2>1, <2>2, ToIdle
<1>15. CASE UNCHANGED vars
  BY <1>15 DEF vars, Safe, TypeOK, Reading, Intact, Images, ImagesOf, Todo, Elems
<1> QED
  BY <1>1, <1>2, <1>3, <1>4, <1>5, <1>6, <1>7, <1>8, <1>9, <1>10, <1>11, <1>12,
     <1>13, <1>14, <1>15 DEF Next, Work, User

\* The state of the device, the process and what it has been asked for is well
\* formed, each volume is mounted from its own device, and what a restore
\* reads from has passed the check: whatever fails, and for every volume
\* table that FstabAssumption allows.
THEOREM SafeInvariance == Spec => []Safe
<1>1. Init => Safe
  BY InitSafe
<1>2. Safe /\ [Next]_vars => Safe'
  BY SafeNext
<1> QED
  BY <1>1, <1>2, PTL DEF Spec

\* No filesystem is made on a device that is mounted: format_device() and
\* format_unknown_device() return when ensure_path_unmounted() fails.
THEOREM FormatsUnmounted == Spec => []NeverFormatsMounted
<1>1. Safe => NeverFormatsMounted
  BY SoundFields DEF Safe, TypeOK, NeverFormatsMounted
<1> QED
  BY <1>1, SafeInvariance, PTL

LEMMA RestoreKeeps == Safe /\ [Next]_vars => [KeepsBackup]_vars
<1> SUFFICES ASSUME Safe, [Next]_vars, pc \in {"restore", "fill"}, ~UNCHANGED vars
             PROVE  Images' = Images /\ (Intact)'
  BY DEF KeepsBackup
<1>0. TypeOK /\ Intact
  BY DEF Safe, Reading
<1>1. SkipRestore \/ ErasePartition \/ FillRaw \/ FillFiles \/ Crash
  BY DEF Next, Work, User, StartUp, SkipBackup, BackupRaw, BackupFiles, GenerateMd5,
         StartBackup, StartRestore, MenuMount, MenuFormat, DeleteBackup, Asked,
         SystemRuns, DamageImage
<1>2. SameBackup(dev, dev')
  <2>1. CASE SkipRestore
    BY <2>1, SameDisk DEF SkipRestore
  <2>2. CASE ErasePartition
    BY <1>0, <2>2, EraseStep, AtHead DEF Wiped, SameBackup
  <2>3. CASE FillRaw \/ FillFiles
    BY <1>0, <2>3, FillStep DEF Fills
  <2>4. CASE Crash
    BY <1>0, <2>4, SoundReboot, SameDisk DEF Crash, TypeOK
  <2> QED
    BY <1>1, <2>1, <2>2, <2>3, <2>4
<1> QED
  BY <1>0, <1>2, SameIntact

\* Formatting and filling the partitions, /sdcard/.android_secure on the card
\* itself included, never touches the backup that is being restored.
THEOREM BackupKept == Spec => BackupSurvives
<1>1. Safe /\ [Next]_vars => [KeepsBackup]_vars
  BY RestoreKeeps
<1> QED
  BY <1>1, SafeInvariance, PTL DEF Spec, BackupSurvives

-----------------------------------------------------------------------------
(* The images and the partitions.  The sums do not cover the tar files, so *)
(* what follows needs cards that do not damage one.                        *)

Exact == ImagesGood /\ BackingUp /\ BackupExact

LEMMA SameFiles ==
    ASSUME \A d \in DOMAIN InitDisk : dev'.disk[d].files = dev.disk[d].files,
           NEW p \in Partition
    PROVE  Content(p)' = Content(p)
<1>1. CASE ~HasVolume(p)
  BY <1>1 DEF Content
<1>2. CASE HasVolume(p)
  <2>1. VolumeForPath(p).device \in DOMAIN InitDisk
    BY <1>2, PathVolume DEF Path
  <2> QED
    BY <1>2, <2>1 DEF Content, Holds
<1> QED
  BY <1>1, <1>2

\* What happens on the device of one partition is nothing to the others.
LEMMA OtherFiles ==
    ASSUME NEW p \in Partition, HasVolume(p), NEW q \in Partition, q # p,
           \A d \in DOMAIN InitDisk : d # VolumeForPath(p).device => dev'.disk[d] = dev.disk[d]
    PROVE  Content(q)' = Content(q)
<1>1. CASE ~HasVolume(q)
  BY <1>1 DEF Content
<1>2. CASE HasVolume(q)
  <2>1. VolumeForPath(q).device \in DOMAIN InitDisk /\
        VolumeForPath(q).device # VolumeForPath(p).device
    BY <1>2, PathVolume, OwnDevice DEF Path
  <2> QED
    BY <1>2, <2>1 DEF Content, Holds
<1> QED
  BY <1>1, <1>2

\* A step that neither backs up nor touches the backup.
LEMMA ExactKept ==
    ASSUME Exact, SameBackup(dev, dev'), snap' = snap, whole' = whole,
           pc' \notin {"backup", "md5"}, "/sdcard" \in kept => "/sdcard" \in kept'
    PROVE  Exact'
<1>1. Images' = Images /\ (Intact)' = Intact
  BY SameIntact
<1>2. dev'.disk[Card].sums = dev.disk[Card].sums
  BY DEF SameBackup
<1>3. ImagesGood'
  BY <1>1, <1>2 DEF Exact, ImagesGood, Good
<1>4. BackupExact'
  BY <1>1 DEF Exact, BackupExact
<1>5. BackingUp'
  BY DEF BackingUp
<1> QED
  BY <1>3, <1>4, <1>5 DEF Exact

\* A step after which the backup does not pass the check.
LEMMA ExactNone ==
    ASSUME Exact, ~(Intact)', snap' = snap, pc' \notin {"backup", "md5"}
    PROVE  Exact'
BY DEF Exact, ImagesGood, Good, BackingUp, BackupExact

\* A step that leaves a part of the backup and is known to.
LEMMA ExactInPart ==
    ASSUME Exact, snap' = snap, pc' \notin {"backup", "md5"}, "/sdcard" \in kept',
           dev'.disk[Card].images \subseteq dev.disk[Card].images,
           dev'.disk[Card].summed => /\ dev.disk[Card].summed
                                     /\ dev'.disk[Card].sums = dev.disk[Card].sums
    PROVE  Exact'
<1>1. Images' \subseteq Images
  BY DEF Images
<1>2. (Intact)' => Intact /\ dev'.disk[Card].sums = dev.disk[Card].sums
  BY <1>1 DEF Intact
<1>3. ImagesGood'
  BY <1>1, <1>2 DEF Exact, ImagesGood, Good
<1> QED
  BY <1>3 DEF Exact, BackingUp, BackupExact

LEMMA NoRestore ==
    ASSUME pc' \notin {"restore", "fill"}, result' # "restored"
    PROVE  Restoring' /\ RestoreExact'
BY DEF Restoring, RestoreExact

\* The partition at the head of the plan is dealt with.
LEMMA ExactBackedUp ==
    ASSUME TypeOK, Exact, pc = "backup", BackedUp, UNCHANGED history,
           ~dev'.disk[Card].summed, Images \subseteq Images',
           \A i \in Images' : i.files = snap[i.of],
           \A p \in Partition : Content(p)' = Content(p),
           snap[Head(plan)] # {} =>
               \E i \in Images' : i.of = Head(plan) /\ i.files = snap[Head(plan)]
    PROVE  Exact' /\ Restoring' /\ RestoreExact'
<1>1. /\ plan' = Tail(plan) /\ pc' \in {"backup", "md5"} /\ result' = "none"
      /\ snap' = snap /\ whole' = whole /\ kept' = {}
  BY DEF BackedUp, TypeOK, history, asked, Exact, BackingUp
<1>2. /\ Todo = {Head(plan)} \cup Elems(Tail(plan)) /\ Todo \subseteq Partition
  BY AtHead
<1>3. Todo' = Elems(Tail(plan))
  BY <1>1 DEF Todo
<1>4. ~(Intact)'
  BY DEF Intact
<1>5. ImagesGood'
  BY <1>1, <1>4 DEF Exact, ImagesGood, Good
<1>6. BackupExact'
  BY <1>4 DEF BackupExact
<1>7. \A p \in Todo' : Content(p)' = snap'[p]
  BY <1>1, <1>2, <1>3 DEF Exact, BackingUp
<1>8. ASSUME NEW p \in whole PROVE p \in Todo' \/ Saved(p)'
  <2>1. p \in Todo \/ Saved(p)
    BY DEF Exact, BackingUp
  <2>2. CASE Saved(p)
    BY <1>1, <2>2 DEF Saved
  <2>3. CASE p = Head(plan)
    BY <1>1, <2>3 DEF Saved
  <2> QED
    BY <1>2, <1>3, <2>1, <2>2, <2>3
<1>9. BackingUp'
  BY <1>1, <1>7, <1>8 DEF BackingUp
<1> QED
  BY <1>1, <1>5, <1>6, <1>9, NoRestore DEF Exact

LEMMA SkipBackupExact ==
    ASSUME TypeOK, Exact, SkipBackup
    PROVE  Exact' /\ Restoring' /\ RestoreExact'
<1>1. pc = "backup" /\ NotThere(Head(plan)) /\ BackedUp /\ UNCHANGED history /\ dev' = dev
  BY DEF SkipBackup
<1>2. Head(plan) \in Partition /\ Head(plan) \in Todo
  BY <1>1, AtHead
<1>3. snap[Head(plan)] = {}
  BY <1>1, <1>2 DEF NotThere, Exact, ImagesGood, BackingUp
<1>4. Images' = Images /\ ~dev'.disk[Card].summed
  BY <1>1 DEF Images, Exact, BackingUp
<1>5. \A i \in Images' : i.files = snap[i.of]
  BY <1>1, <1>4 DEF Exact, ImagesGood, Good
<1>6. \A p \in Partition : Content(p)' = Content(p)
  BY <1>1, SameFiles
<1> QED
  BY <1>1, <1>3, <1>4, <1>5, <1>6, ExactBackedUp

LEMMA BackupExactStep ==
    ASSUME TypeOK, Exact, BackupRaw \/ BackupFiles
    PROVE  Exact' /\ Restoring' /\ RestoreExact'
<1>1. /\ pc = "backup" /\ UNCHANGED history
      /\ \/ Sound(dev') /\ dev'.disk = dev.disk /\ Ends("failed")
         \/ \E image \in ImageFiles :
                /\ image.of = Head(plan) /\ Adds(dev, dev', image)
                /\ \/ Ends("failed")
                   \/ image.files = Content(Head(plan)) /\ BackedUp
  BY BackupStep
<1>2. ~dev.disk[Card].summed
  BY <1>1 DEF Exact, BackingUp
<1>3. CASE Ends("failed")
  <2>1. ~dev'.disk[Card].summed
    BY <1>1, <1>2, <1>3 DEF Adds, BackedUp, Ends
  <2>2. ~(Intact)' /\ snap' = snap /\ pc' = "idle" /\ result' = "failed"
    BY <1>1, <1>3, <2>1 DEF Intact, history, asked, Ends
  <2> QED
    BY <2>2, ExactNone, NoRestore
<1>4. CASE ~Ends("failed")
  <2>1. PICK image \in ImageFiles :
            /\ image.of = Head(plan) /\ Adds(dev, dev', image)
            /\ image.files = Content(Head(plan)) /\ BackedUp
    BY <1>1, <1>4
  <2>2. Head(plan) \in Partition /\ Head(plan) \in Todo
    BY <1>1, AtHead
  <2>3. image.files = snap[Head(plan)]
    BY <1>1, <2>1, <2>2 DEF Exact, BackingUp
  <2>4. Images' = Images \cup {image} /\ ~dev'.disk[Card].summed
    BY <1>2, <2>1 DEF Adds, Images
  <2>5. \A i \in Images' : i.files = snap[i.of]
    BY <1>1, <2>1, <2>3, <2>4 DEF Exact, ImagesGood, Good
  <2>6. \A p \in Partition : Content(p)' = Content(p)
    BY <2>1, SameFiles DEF Adds
  <2>7. \E i \in Images' : i.of = Head(plan) /\ i.files = snap[Head(plan)]
    BY <2>1, <2>3, <2>4
  <2> QED
    BY <1>1, <2>1, <2>4, <2>5, <2>6, <2>7, ExactBackedUp
<1> QED
  BY <1>3, <1>4

LEMMA Md5Exact ==
    ASSUME TypeOK, Exact, GenerateMd5
    PROVE  Exact' /\ Restoring' /\ RestoreExact'
<1>1. /\ pc = "md5" /\ UNCHANGED history /\ Images' = Images
      /\ dev'.disk[Card].sums \in {{i \in Images : i.kind = "img"}, {}}
      /\ Ends("saved") \/ Ends("failed")
  BY Md5Step DEF Images
<1>2. pc' = "idle" /\ result' # "restored" /\ snap' = snap /\ whole' = whole
  BY <1>1 DEF Ends, history, asked
<1>3. Todo = {}
  BY <1>1, NoPlan DEF TypeOK, Todo
<1>4. \A p \in whole : Saved(p)
  BY <1>1, <1>3 DEF Exact, BackingUp
<1>5. BackupExact'
  BY <1>1, <1>2, <1>4 DEF BackupExact, Saved
<1>6. ImagesGood'
  BY <1>1, <1>2 DEF Exact, ImagesGood, Good
<1>7. BackingUp'
  BY <1>2 DEF BackingUp
<1> QED
  BY <1>2, <1>5, <1>6, <1>7, NoRestore DEF Exact

LEMMA StartBackupExact ==
    ASSUME TypeOK, Exact, StartBackup
    PROVE  Exact' /\ Restoring' /\ RestoreExact'
<1>1. PICK m \in EnsurePathMounted(dev, "/sdcard") :
           /\ dev' = m.s
           /\ \/ /\ m.ret # 0 /\ result' = "failed"
                 /\ UNCHANGED <<pc, plan, snap, whole, kept>>
              \/ /\ m.ret = 0 /\ result' = "none"
                 /\ plan' \in BackupPlans /\ pc' = "backup"
                 /\ snap' = [p \in Partition |-> Content(p)]
                 /\ whole' = Elems(plan') /\ kept' = {}
  BY DEF StartBackup
<1>2. Images = {} /\ ~dev.disk[Card].summed /\ pc = "idle"
  BY DEF StartBackup, Asked
<1>3. dev'.disk = dev.disk
  BY <1>1, MountsCard
<1>4. Images' = {} /\ ~dev'.disk[Card].summed /\ ~(Intact)'
  BY <1>2, <1>3 DEF Images, Intact
<1>5. CASE UNCHANGED <<pc, snap>> /\ result' = "failed"
  BY <1>2, <1>4, <1>5, ExactNone, NoRestore
<1>6. CASE /\ result' = "none" /\ plan' \in BackupPlans /\ pc' = "backup"
           /\ snap' = [p \in Partition |-> Content(p)] /\ whole' = Elems(plan')
           /\ kept' = {}
  <2>1. Todo' = Elems(plan') /\ Elems(plan') \subseteq Partition
    BY <1>6, Plans DEF Todo
  <2>2. \A p \in Partition : Content(p)' = Content(p) /\ snap'[p] = Content(p)
    BY <1>3, <1>6, SameFiles
  <2>3. BackingUp'
    BY <1>4, <1>6, <2>1, <2>2 DEF BackingUp
  <2>4. ImagesGood'
    BY <1>4, <2>2 DEF ImagesGood, Content
  <2>5. BackupExact'
    BY <1>4 DEF BackupExact
  <2> QED
    BY <1>6, <2>3, <2>4, <2>5, NoRestore DEF Exact
<1> QED
  BY <1>1, <1>5, <1>6

\* The partition at the head of the plan is restored, or needs not be.
LEMMA HeadRestored ==
    ASSUME TypeOK, Restoring, pc \in {"restore", "fill"}, Restored, UNCHANGED history,
           Images' = Images, NEW h, h = Head(plan), h \in kept \/ IsRestored(h)',
           \A q \in Partition : q # Head(plan) => Content(q)' = Content(q)
    PROVE  Restoring' /\ RestoreExact'
<1>1. chosen' = chosen /\ snap' = snap /\ chosen \subseteq Partition /\ kept' = kept
  BY DEF history, asked, TypeOK
<1>2. /\ Todo = {Head(plan)} \cup Elems(Tail(plan))
      /\ Len(plan) = 1 <=> Tail(plan) = <<>>
      /\ Len(plan) > 1 <=> Tail(plan) # <<>>
  BY AtHead
<1>3. \A p \in chosen \ kept : p \in Elems(Tail(plan)) \/ IsRestored(p)'
  <2> SUFFICES ASSUME NEW p \in chosen \ kept, p \notin Todo, p # h
               PROVE  IsRestored(p)'
    BY <1>2
  <2>1. IsRestored(p)
    BY DEF Restoring
  <2>2. Content(p)' = Content(p)
    BY <1>1
  <2> QED
    BY <1>1, <2>1, <2>2 DEF IsRestored, ImagesOf
<1>4. CASE Len(plan) > 1
  <2>1. plan' = Tail(plan) /\ pc' = "restore" /\ result' = "none"
    BY <1>4 DEF Restored, TypeOK
  <2>2. Todo' = Elems(Tail(plan))
    BY <2>1 DEF Todo
  <2> QED
    BY <1>1, <1>3, <2>1, <2>2 DEF Restoring, RestoreExact
<1>5. CASE ~(Len(plan) > 1)
  <2>1. pc' = "idle" /\ Elems(Tail(plan)) = {}
    BY <1>2, <1>5, NoPlan DEF Restored, Ends
  <2>2. \A p \in chosen' \ kept' : IsRestored(p)'
    BY <1>1, <1>3, <2>1
  <2> QED
    BY <2>1, <2>2 DEF Restoring, RestoreExact, IsRestored
<1> QED
  BY <1>4, <1>5

LEMMA SkipRestoreExact ==
    ASSUME Safe, Exact, Restoring, SkipRestore
    PROVE  Exact' /\ Restoring' /\ RestoreExact'
<1>1. /\ pc = "restore" /\ Restored /\ dev' = dev /\ UNCHANGED history /\ TypeOK
      /\ ~HasVolume(Head(plan)) \/ ImagesOf(Head(plan)) = {}
  BY DEF SkipRestore, Safe
<1>2. SameBackup(dev, dev') /\ Images' = Images
  BY <1>1, SameDisk, SameIntact
<1>3. snap' = snap /\ whole' = whole /\ pc' \notin {"backup", "md5"} /\ kept' = kept
  BY <1>1 DEF history, asked, Restored, Ends
<1>4. \A q \in Partition : Content(q)' = Content(q)
  BY <1>1, SameFiles
<1>5. PICK h : h = Head(plan)
  OBVIOUS
<1>6. IsRestored(h)'
  <2>1. CASE ~HasVolume(h)
    <3>1. h \in Partition
      BY <1>1, <1>5, AtHead
    <3>2. snap[h] = {} /\ Content(h) = {}
      BY <2>1, <3>1 DEF Exact, ImagesGood, Content
    <3> QED
      BY <1>3, <1>4, <3>1, <3>2 DEF IsRestored
  <2>2. CASE ImagesOf(h) = {}
    BY <1>2, <2>2 DEF IsRestored, ImagesOf
  <2> QED
    BY <1>1, <1>5, <2>1, <2>2
<1> QED
  BY <1>1, <1>2, <1>3, <1>4, <1>5, <1>6, ExactKept, HeadRestored

LEMMA EraseExact ==
    ASSUME Safe, Exact, Restoring, ErasePartition
    PROVE  Exact' /\ Restoring' /\ RestoreExact'
<1>0. TypeOK
  BY DEF Safe
<1>1. PICK h : h = Head(plan)
  OBVIOUS
<1>2. /\ pc = "restore" /\ UNCHANGED asked /\ HasVolume(h)
      /\ kept' \ {h} = kept \ {h}
      /\ Wiped(dev, dev', h)
      /\ \/ Ends("failed")
         \/ /\ pc' = "fill" /\ UNCHANGED <<plan, result>>
            /\ VolumeForPath(h).fs_type \notin RawTypes =>
                   Holds(dev', h) = {} \/ h \in kept'
  BY <1>0, <1>1, EraseStep
<1>3. h \in Partition /\ h # "/sdcard" /\ h \in Todo
  BY <1>0, <1>1, <1>2, AtHead
<1>4. SameBackup(dev, dev')
  BY <1>2, <1>3 DEF Wiped, SameBackup
<1>5. Exact'
  <2>1. /\ snap' = snap /\ whole' = whole /\ pc' \notin {"backup", "md5"}
        /\ "/sdcard" \in kept => "/sdcard" \in kept'
    BY <1>2, <1>3 DEF asked, Ends
  <2> QED
    BY <1>4, <2>1, ExactKept
<1>6. CASE Ends("failed")
  BY <1>5, <1>6, NoRestore DEF Ends
<1>7. CASE /\ pc' = "fill" /\ UNCHANGED <<plan, result>>
           /\ VolumeForPath(h).fs_type \notin RawTypes =>
                  Holds(dev', h) = {} \/ h \in kept'
  <2>1. result' # "restored"
    BY <1>0, <1>2, <1>7 DEF TypeOK
  <2>2. \A q \in Partition : q # h => Content(q)' = Content(q)
    BY <1>2, <1>3, OtherFiles DEF Wiped
  <2>3. /\ Images' = Images /\ snap' = snap /\ chosen' = chosen /\ Todo' = Todo
        /\ chosen \subseteq Partition
    BY <1>0, <1>2, <1>4, <1>7, SameIntact DEF history, asked, Todo, TypeOK
  <2>4. ASSUME NEW p \in chosen \ kept' PROVE p \in Todo' \/ IsRestored(p)'
    <3>1. CASE p \in Todo
      BY <2>3, <3>1
    <3>2. CASE p \notin Todo
      <4>0. p # h /\ p \notin kept
        BY <1>2, <1>3, <3>2
      <4>1. IsRestored(p) /\ Content(p)' = Content(p)
        BY <1>2, <2>2, <2>3, <3>2, <4>0 DEF Restoring
      <4> QED
        BY <2>3, <4>1 DEF IsRestored, ImagesOf
    <3> QED
      BY <3>1, <3>2
  <2>5. VolumeForPath(h).fs_type \notin RawTypes => Content(h)' = {} \/ h \in kept'
    BY <1>2, <1>7 DEF Content
  <2>6. Head(plan') = h
    BY <1>1, <1>7
  <2>7. Restoring'
    BY <1>7, <2>3, <2>4, <2>5, <2>6 DEF Restoring
  <2> QED
    BY <1>5, <2>1, <2>7 DEF RestoreExact
<1> QED
  BY <1>2, <1>6, <1>7

LEMMA FillExact ==
    ASSUME Safe, Exact, Restoring, FillRaw \/ FillFiles
    PROVE  Exact' /\ Restoring' /\ RestoreExact'
<1>0. TypeOK /\ Reading
  BY DEF Safe
<1>1. PICK h : h = Head(plan)
  OBVIOUS
<1>2. /\ pc = "fill" /\ UNCHANGED history /\ Fills(dev, dev', h)
      /\ \/ Ends("failed")
         \/ /\ Restored /\ ImagesOf(h) # {}
            /\ \/ VolumeForPath(h).fs_type \in RawTypes
               \/ Content(h) = {}
               => Holds(dev', h) = ImageOf(h).files
  BY <1>0, <1>1, FillStep
<1>3. h \in Partition /\ HasVolume(h)
  BY <1>0, <1>1, <1>2, AtHead DEF TypeOK
<1>4. Exact'
  <2>1. /\ snap' = snap /\ whole' = whole /\ pc' \notin {"backup", "md5"}
        /\ kept' = kept
    BY <1>2 DEF history, asked, Ends, Restored
  <2> QED
    BY <1>2, <2>1, ExactKept DEF Fills
<1>5. CASE Ends("failed")
  BY <1>4, <1>5, NoRestore DEF Ends
<1>6. CASE ~Ends("failed")
  <2>1. Restored /\ ImagesOf(h) # {}
    BY <1>2, <1>6
  <2>2. ImageOf(h).files = snap[h]
    <3>1. ImageOf(h) \in Images /\ ImageOf(h).of = h
      BY <1>0, <1>3, <2>1, Chosen
    <3>2. Intact
      BY <1>0, <1>2 DEF Reading
    <3> QED
      BY <3>1, <3>2 DEF Exact, ImagesGood, Good
  <2>3. h \in kept \/ Holds(dev', h) = ImageOf(h).files
    BY <1>1, <1>2, <1>6 DEF Restoring
  <2>4. h \in kept \/ IsRestored(h)'
    <3>1. Holds(dev', h) = ImageOf(h).files => Content(h)' = snap'[h]
      BY <1>2, <1>3, <2>2 DEF Content, history, asked
    <3> QED
      BY <2>3, <3>1 DEF IsRestored
  <2>5. Images' = Images
    BY <1>2, SameIntact DEF Fills
  <2>6. \A q \in Partition : q # h => Content(q)' = Content(q)
    BY <1>2, <1>3, OtherFiles DEF Fills
  <2> QED
    BY <1>0, <1>1, <1>2, <1>4, <2>1, <2>4, <2>5, <2>6, HeadRestored
<1> QED
  BY <1>5, <1>6

LEMMA StartRestoreExact ==
    ASSUME Safe, Exact, Restoring, StartRestore
    PROVE  Exact' /\ Restoring' /\ RestoreExact'
<1>1. PICK m \in EnsurePathMounted(dev, "/sdcard") :
           /\ dev' = m.s
           /\ \/ result' = "failed" /\ UNCHANGED <<pc, plan, chosen>>
              \/ /\ plan' \in RestorePlans /\ chosen' = Elems(plan')
                 /\ pc' = "restore" /\ result' = "none"
  BY DEF StartRestore
<1>2. pc = "idle" /\ UNCHANGED <<snap, whole, kept>>
  BY DEF StartRestore, Asked
<1>3. SameBackup(dev, dev')
  BY <1>1, MountsCard, SameDisk DEF Safe
<1>4. Exact'
  BY <1>1, <1>2, <1>3, ExactKept
<1>5. CASE result' = "failed" /\ pc' = pc
  BY <1>2, <1>4, <1>5, NoRestore
<1>6. CASE chosen' = Elems(plan') /\ pc' = "restore" /\ result' = "none"
  BY <1>4, <1>6 DEF Restoring, RestoreExact, Todo
<1> QED
  BY <1>1, <1>5, <1>6

\* With cards that do not damage the tar files, the strengthened invariant is
\* inductive.
LEMMA NextIInv ==
    ASSUME "tar" \notin Faults
    PROVE  IInv /\ [Next]_vars => IInv'
<1> SUFFICES ASSUME IInv, [Next]_vars PROVE IInv'
  OBVIOUS
<1>0. Safe /\ Exact /\ Restoring /\ RestoreExact /\ TypeOK /\ Safe'
  BY SafeNext DEF IInv, Exact, Safe
<1> SUFFICES Exact' /\ Restoring' /\ RestoreExact'
  BY <1>0 DEF IInv, Exact
<1>1. CASE StartUp
  <2>1. /\ pc = "start" /\ plan # <<>> /\ plan \in Seq(Partition \cup {"/sdcard"})
        /\ result = "none" /\ UNCHANGED <<result, history>> /\ pc' \in {"start", "idle"}
    BY <1>0, <1>1 DEF StartUp, TypeOK
  <2>2. Head(plan) \in Path
    BY <2>1, PlanStep, FstabAssumption DEF Path
  <2>3. PICK m \in EnsurePathMounted(dev, Head(plan)) : dev' = m.s
    BY <1>1 DEF StartUp
  <2>4. SameBackup(dev, dev')
    BY <1>0, <2>2, <2>3, Mounting, SameDisk DEF TypeOK
  <2>5. pc' \notin {"backup", "md5", "restore", "fill"} /\ result' # "restored"
        /\ snap' = snap /\ whole' = whole /\ kept' = kept
    BY <2>1 DEF history, asked
  <2> QED
    BY <1>0, <2>4, <2>5, ExactKept, NoRestore
<1>2. CASE SkipBackup
  BY <1>0, <1>2, SkipBackupExact
<1>3. CASE BackupRaw \/ BackupFiles
  BY <1>0, <1>3, BackupExactStep
<1>4. CASE GenerateMd5
  BY <1>0, <1>4, Md5Exact
<1>5. CASE SkipRestore
  BY <1>0, <1>5, SkipRestoreExact
<1>6. CASE ErasePartition
  BY <1>0, <1>6, EraseExact
<1>7. CASE FillRaw \/ FillFiles
  BY <1>0, <1>7, FillExact
<1>8. CASE StartBackup
  BY <1>0, <1>8, StartBackupExact
<1>9. CASE StartRestore
  BY <1>0, <1>9, StartRestoreExact
<1>10. CASE MenuMount
  <2>1. PICK mp \in MenuMounts :
           \E r \in IF dev.mounted[mp] # Null THEN EnsurePathUnmounted(dev, mp)
                    ELSE EnsurePathMounted(dev, mp) : dev' = r.s
    BY <1>10 DEF MenuMount
  <2>2. dev'.disk = dev.disk
    BY <1>0, <2>1, Mounting, Unmounting DEF MenuMounts, Path, TypeOK
  <2>3. SameBackup(dev, dev') /\ Images' = Images
    BY <2>2, SameDisk, SameIntact
  <2>4. /\ UNCHANGED <<pc, result, snap, whole, chosen, kept>> /\ pc = "idle"
        /\ chosen \subseteq Partition
    BY <1>0, <1>10 DEF MenuMount, Asked, TypeOK
  <2>5. \A p \in Partition : Content(p)' = Content(p)
    BY <2>2, SameFiles
  <2>6. Exact'
    BY <1>0, <2>3, <2>4, ExactKept
  <2>7. Restoring'
    BY <2>4 DEF Restoring
  <2>8. RestoreExact'
    BY <1>0, <2>3, <2>4, <2>5 DEF RestoreExact, ImagesOf
  <2> QED
    BY <2>6, <2>7, <2>8
<1>11. CASE MenuFormat
  <2>1. UNCHANGED <<pc, snap, whole>> /\ result' = "none" /\ pc = "idle"
    BY <1>11 DEF MenuFormat, Asked
  <2>2. CASE SameBackup(dev, dev') /\ ("/sdcard" \in kept => "/sdcard" \in kept')
    BY <1>0, <2>1, <2>2, ExactKept, NoRestore
  <2>3. CASE ~dev'.disk[Card].summed
    <3>1. ~(Intact)'
      BY <2>3 DEF Intact
    <3> QED
      BY <1>0, <2>1, <3>1, ExactNone, NoRestore
  <2>4. CASE /\ "/sdcard" \in kept'
             /\ dev'.disk[Card].images \subseteq dev.disk[Card].images
             /\ dev'.disk[Card].summed => /\ dev.disk[Card].summed
                                          /\ dev'.disk[Card].sums = dev.disk[Card].sums
    BY <1>0, <2>1, <2>4, ExactInPart, NoRestore
  <2> QED
    BY <1>0, <1>11, <2>2, <2>3, <2>4, MenuFormatStep
<1>12. CASE DeleteBackup
  <2>1. UNCHANGED <<pc, snap, whole>> /\ result' = "none" /\ pc = "idle"
    BY <1>12 DEF DeleteBackup, Asked
  <2>2. ~(Intact)'
    BY <1>0, <1>12, DeleteStep DEF Intact
  <2> QED
    BY <1>0, <2>1, <2>2, ExactNone, NoRestore
<1>13. CASE SystemRuns \/ Crash
  <2>1. SameBackup(dev, dev')
    BY <1>0, <1>13, Aged, SoundReboot, SameDisk DEF Crash, TypeOK
  <2>2. pc' = "start" /\ result' = "none" /\ snap' = snap /\ whole' = whole /\ kept' = kept
    BY <1>13 DEF SystemRuns, Crash
  <2> QED
    BY <1>0, <2>1, <2>2, ExactKept, NoRestore
<1>14. CASE DamageImage
  <2>1. /\ pc = "idle" /\ pc' = pc /\ snap' = snap /\ result' = "none"
        /\ Intact /\ dev.disk[Card].sums # {}
    BY <1>14 DEF DamageImage, history, asked
  <2>2. PICK i \in Images : i.kind \in Faults /\ i \notin dev'.disk[Card].images
    BY <1>0, <1>14, DamageStep
  <2>3. i.kind = "img"
    <3>1. Images \subseteq ImageFiles
      BY <1>0, Contents, SecureOnCard DEF TypeOK, Images
    <3> QED
      BY <2>2, <3>1 DEF ImageFiles
  <2>4. i \in dev.disk[Card].sums
    BY <1>0, <2>1, <2>2, <2>3 DEF Exact, ImagesGood
  <2>5. ~(Intact)'
    BY <1>0, <1>14, <2>2, <2>4, DamageStep DEF Intact, Images
  <2> QED
    BY <1>0, <2>1, <2>5, ExactNone, NoRestore
<1>15. CASE UNCHANGED vars
  BY <1>0, <1>15 DEF vars, Exact, ImagesGood, BackingUp, BackupExact, Restoring, RestoreExact,
     Good, Intact, Images, ImagesOf, Saved, IsRestored, Content, Todo
<1> QED
  BY <1>1, <1>2, <1>3, <1>4, <1>5, <1>6, <1>7, <1>8, <1>9, <1>10, <1>11, <1>12,
     <1>13, <1>14, <1>15 DEF Next, Work, User

LEMMA InitIInv == Init => IInv
<1> SUFFICES ASSUME Init PROVE IInv
  OBVIOUS
<1>1. /\ pc = "start" /\ result = "none" /\ dev.disk = InitDisk /\ kept = {}
      /\ snap = [p \in Partition |-> {}]
  BY DEF Init
<1>2. ~Intact
  BY <1>1, DiskAssumption DEF Intact
<1>3. ImagesGood
  BY <1>1, <1>2 DEF ImagesGood, Good
<1> QED
  BY <1>1, <1>2, <1>3, InitSafe
     DEF IInv, BackingUp, BackupExact, Restoring, RestoreExact

\* Each partition is saved or waits its turn unchanged, each is restored or
\* waits its turn, and a backup that passes the check is what it was meant to
\* be, whichever step fails and whenever the power goes.
THEOREM Invariance ==
    ASSUME "tar" \notin Faults
    PROVE  Spec => []IInv
<1>1. Init => IInv
  BY InitIInv
<1>2. IInv /\ [Next]_vars => IInv'
  BY NextIInv
<1> QED
  BY <1>1, <1>2, PTL DEF Spec

\* nandroid_backup(): the sums are written only after every partition has been
\* saved, so a backup with good sums is complete, as long as no format of
\* /sdcard has removed a part of it and returned success.
THEOREM BackupIsExact ==
    ASSUME "tar" \notin Faults
    PROVE  Spec => []BackupExact
<1>1. IInv => BackupExact
  BY DEF IInv
<1> QED
  BY <1>1, Invariance, PTL

\* nandroid_restore(): "Restore complete!" is said only when every chosen
\* partition with an image is as it was when the backup was begun, save those
\* whose format kept files and returned success (a volume that could not be
\* mounted, an rm that failed).
THEOREM RestoreIsExact ==
    ASSUME "tar" \notin Faults
    PROVE  Spec => []RestoreExact
<1>1. IInv => RestoreExact
  BY DEF IInv
<1> QED
  BY <1>1, Invariance, PTL
=============================================================================
