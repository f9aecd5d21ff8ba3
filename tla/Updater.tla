------------------------------ MODULE Updater -------------------------------
(***************************************************************************)
(* updater/updater.c and updater/install.c: the update binary, a process   *)
(* of its own, opens the package again, evaluates its updater-script with  *)
(* the functions below and writes commands to the pipe it was given.       *)
(*                                                                         *)
(* A path is a string whose first character names a volume's mount point   *)
(* or, in other roots, a directory of the ramdisk.  The content of a file, *)
(* its SHA-1 and the text of it are one value.                             *)
(***************************************************************************)
EXTENDS Edify, Zip, FiniteSets, TLC

CONSTANTS
    Packages,
    Exprs,          \* the expressions of their scripts, and the parts of these
    Volumes,        \* mount points
    Roots,          \* first characters of absolute paths, mount points among them
    ScriptName,     \* META-INF/com/google/android/updater-script
    Props,          \* system properties
    PropFiles,      \* contents that are property files: [key -> value]
    PipeCap,        \* lines a pipe holds
    MaxFaults       \* bound on the calls that fail

ASSUME UpdaterAssumption ==
    /\ Volumes \subseteq Roots
    /\ PipeCap \in Nat \ {0} /\ MaxFaults \in Nat
    /\ \A p \in Packages :
        /\ p.script \in Exprs
        /\ \A o \in p.ends : /\ IsSeq(p.dir[o])
                             /\ \A i \in DOMAIN p.dir[o] : p.dir[o][i].name \in Seq(DOMAIN Ord)
    \* parser.y gives the operators two arguments.
    /\ \A e \in Exprs : /\ e.args \in Seq(Exprs) /\ IsSeq(e.text)
                        /\ e.fn \in {"&&", "||"} => Len(e.args) = 2
    /\ \A k \in DOMAIN Props : IsSeq(Props[k])
    /\ \A f \in DOMAIN PropFiles : \A k \in DOMAIN PropFiles[f] : IsSeq(PropFiles[f][k])

VARIABLES
    package,    \* the file being installed
    cpc,        \* where the updater is: "none" before it is started
    status,     \* what waitpid() would return
    out,        \* lines it has still to write
    pipe,
    entries,    \* za: its archive
    xi, seen,   \* package_extract_dir(): i + 1, or 0, and seenMatch
    tree,       \* nodes of the ramdisk and of every volume
    mounted,
    raw,        \* contents of raw partitions
    faults,
    trace,      \* results of the functions below, in order
    lost        \* an entry's extraction failed halfway

device == <<tree, mounted, raw>>
walk == <<xi, seen, lost>>
process == <<package, cpc, status, pipe, entries>>
child == <<edify, process, out, walk, device, faults, trace>>

\* The archives that can be open.
Archives == [p \in Packages |-> mzOpenZipArchive(p)]

Signal == 256
Torn == "torn"
NoData == "none"
Line(cmd, arg) == [cmd |-> cmd, arg |-> arg]

Fails == faults < MaxFaults /\ faults' = faults + 1
Works == UNCHANGED faults

-----------------------------------------------------------------------------
(* Files *)

FILEMODE == 420     \* 0644
Node(kind, d) == [kind |-> kind, d |-> d, m |-> FILEMODE]
Place(path) == IF Head(path) \in mounted THEN Head(path) ELSE "ram"
Files(path) == tree[Place(path)]
Exists(path) == path # <<>> /\ path \in DOMAIN Files(path)
Kind(path) == IF Exists(path) THEN Files(path)[path].kind ELSE "none"
\* A symbolic link is followed once, within its volume.
Real(path) == IF Kind(path) = "link" THEN Files(path)[path].d ELSE path
IsFile(path) == Kind(Real(path)) = "file"
Content(path) == IF IsFile(path) THEN Files(Real(path))[Real(path)].d ELSE <<NoData>>

Store(path, f) == [tree EXCEPT ![Place(path)] = f]
Without(f, S) == [p \in DOMAIN f \ S |-> f[p]]
Below(path) == {p \in DOMAIN Files(path) : IsPrefix(Append(path, Slash), p)}

\* getPathDirStatus() of the directories a path is in.
Parents(path) == {SubSeq(path, 1, i - 1) : i \in {j \in 3..Len(path) : path[j] = Slash}}
Illegal(path) == \E q \in Parents(path) : Exists(q) /\ Kind(Real(q)) # "dir"
Missing(path) == {q \in Parents(path) : ~Exists(q)}
WithDirs(path, S) ==
    [q \in S \cup DOMAIN Files(path) |-> IF q \in S THEN Node("dir", <<>>) ELSE Files(path)[q]]
\* dirCreateHierarchy() makes the directories from the root on, as far as
\* it gets.
Hierarchies(path) ==
    {WithDirs(path, {q \in Missing(path) : Len(q) < n}) : n \in 0..Len(path)}

\* creat() and what is written: an existing file keeps its mode.
Written(f, path, d) ==
    LET mode == IF path \in DOMAIN f THEN f[path].m ELSE FILEMODE
    IN  [q \in DOMAIN f \cup {path} |->
            IF q = path THEN [kind |-> "file", d |-> <<d>>, m |-> mode] ELSE f[q]]
Reachable(path) == path # <<>> /\ ~Illegal(path) /\ Missing(path) = {}
CanCreate(path) == Reachable(path) /\ Kind(Real(path)) # "dir"

-----------------------------------------------------------------------------
(* Calls *)

MaxArgc == 9        \* bound on the arguments of a call
AtLeast(n) == n..MaxArgc
Arity ==
    [mount |-> {4}, is_mounted |-> {1}, unmount |-> {1}, format |-> {3},
     show_progress |-> {2}, set_progress |-> {1},
     delete |-> AtLeast(0), delete_recursive |-> AtLeast(0),
     package_extract_dir |-> {2}, package_extract_file |-> {1, 2},
     symlink |-> AtLeast(1), set_perm |-> AtLeast(4), set_perm_recursive |-> AtLeast(5),
     getprop |-> {1}, file_getprop |-> AtLeast(0), write_raw_image |-> AtLeast(0),
     apply_patch |-> {n \in AtLeast(6) : n % 2 = 0}, apply_patch_check |-> AtLeast(1),
     apply_patch_space |-> AtLeast(0), read_file |-> {1}, sha1_check |-> AtLeast(1),
     ui_print |-> AtLeast(0), run_program |-> AtLeast(1)]

\* Nothing is pending: the interpreter goes on.
Running == cpc = "eval" /\ out = <<>> /\ xi = 0

Call(fn) == Running /\ In({fn}) /\ Argc \in Arity[fn] /\ Got = Reads

Done(v) == Value(v) /\ trace' = Append(trace, v)
Answer(b) == Done(StringValue(IF b THEN True ELSE False))
Abort(msg) == ErrorAbort(msg) /\ trace' = Append(trace, Null)
Emit(lines) == out' = lines
Quiet == UNCHANGED out

\* The process dies of a signal.
Crash == cpc' = "exited" /\ status' = Signal /\ UNCHANGED <<package, pipe, entries>>

WrongArgc ==
    /\ Running /\ In(DOMAIN Arity) /\ Argc \notin Arity[Top.e.fn]
    /\ Abort(<<"wrong number of args">>)
    /\ UNCHANGED <<process, out, walk, device, faults>>

\* apply_patch() looks at the size before it evaluates the patches.
BadSize == Top.e.fn = "apply_patch" /\ Got = 4 /\ ~StartsInt(A(4))

Arguments ==
    /\ Running /\ In(DOMAIN Arity) /\ Argc \in Arity[Top.e.fn] /\ ~BadSize
    /\ ReadArgs(DOMAIN Arity)
    /\ UNCHANGED <<process, out, walk, device, faults, trace>>

\* An argument behind the last one is asked for.
Overrun ==
    /\ Running /\ In(DOMAIN Fixed) /\ Got < Reads /\ Got = Argc
    /\ Crash
    /\ UNCHANGED <<edify, out, walk, device, faults, trace>>

\* Functions that do not return NULL for a NULL argument: the cleanup loop of
\* delete() counts the wrong variable and frees paths[0] again, at which the
\* allocator aborts, unless there is nothing to free; the patch functions read
\* through a null pointer.
Mishandles ==
    \/ Top.e.fn \in {"delete", "delete_recursive"} /\ Got >= 1
    \/ Top.e.fn = "apply_patch" /\ Got >= 4
    \/ Top.e.fn = "apply_patch_check" /\ Got >= 1

Mishandled ==
    /\ Running /\ stack # <<>> /\ ret = Null /\ Mishandles
    /\ Crash
    /\ UNCHANGED <<edify, out, walk, device, faults, trace>>

\* ReadArgs(), ReadVarArgs() and ReadValueVarArgs() meet a NULL, and so does
\* the function that called them.
NullArgument ==
    /\ Running /\ GivesUp(DOMAIN Arity) /\ ~Mishandles
    /\ UNCHANGED <<process, out, walk, device, faults, trace>>

Interpret == Running /\ Builtin /\ UNCHANGED <<process, out, walk, device, faults, trace>>

-----------------------------------------------------------------------------
(* Volumes *)

Empty(n) == \E i \in 1..n : A(i) = <<>>

\* mount(fs_type, partition_type, location, mount_point)
MountFn ==
    /\ Call("mount")
    /\ \/ Empty(4) /\ Abort(<<"argument can't be empty">>) /\ UNCHANGED <<mounted, faults>>
       \/ /\ ~Empty(4) /\ A(4)[1] \in Volumes \ mounted
          /\ mounted' = mounted \cup {A(4)[1]}
          /\ Done(StringValue(A(4))) /\ Works
       \/ /\ ~Empty(4) /\ A(4)[1] \in Volumes \ mounted /\ Fails
          /\ Answer(FALSE) /\ UNCHANGED mounted
       \/ /\ ~Empty(4) /\ A(4)[1] \notin Volumes \ mounted
          /\ Answer(FALSE) /\ UNCHANGED <<mounted, faults>>
    /\ UNCHANGED <<process, out, walk, tree, raw>>

IsMountedFn ==
    /\ Call("is_mounted")
    /\ \/ Empty(1) /\ Abort(<<"argument can't be empty">>)
       \/ ~Empty(1) /\ Done(StringValue(IF A(1)[1] \in mounted THEN A(1) ELSE False))
    /\ UNCHANGED <<process, out, walk, device, faults>>

\* Whether umount() worked is not looked at.
UnmountFn ==
    /\ Call("unmount")
    /\ \/ Empty(1) /\ Abort(<<"argument can't be empty">>) /\ UNCHANGED <<mounted, faults>>
       \/ ~Empty(1) /\ A(1)[1] \notin mounted /\ Answer(FALSE) /\ UNCHANGED <<mounted, faults>>
       \/ /\ ~Empty(1) /\ A(1)[1] \in mounted /\ Done(StringValue(A(1)))
          /\ \/ mounted' = mounted \ {A(1)[1]} /\ Works
             \/ UNCHANGED mounted /\ Fails
    /\ UNCHANGED <<process, out, walk, tree, raw>>

\* format(fs_type, partition_type, location): an unknown file system is
\* NULL without a message.
FormatFn ==
    LET known == A(2) = <<"MTD">> \/ A(1) \in {<<"ext2">>, <<"ext3">>, <<"ext4">>}
        v == A(3)[1]
    IN
    /\ Call("format")
    /\ \/ Empty(3) /\ Abort(<<"argument can't be empty">>) /\ UNCHANGED <<tree, faults>>
       \/ ~Empty(3) /\ ~known /\ Done(Null) /\ UNCHANGED <<tree, faults>>
       \/ ~Empty(3) /\ known /\ v \notin Volumes /\ Answer(FALSE) /\ UNCHANGED <<tree, faults>>
       \/ /\ ~Empty(3) /\ known /\ v \in Volumes /\ Done(StringValue(A(3))) /\ Works
          /\ tree' = [tree EXCEPT ![v] = Without(@, DOMAIN @)]
       \/ /\ ~Empty(3) /\ known /\ v \in Volumes /\ Answer(FALSE) /\ Fails
          /\ tree' \in {tree, [tree EXCEPT ![v] = Without(@, DOMAIN @)]}
    /\ UNCHANGED <<process, out, walk, mounted, raw>>

-----------------------------------------------------------------------------
(* Files *)

At(S, p) == {q \in S : Place(q) = p}
Removed(S) == [p \in DOMAIN tree |-> Without(tree[p], At(S, p))]

\* unlink() or dirUnlinkHierarchy(), which stops at the first failure.  What
\* could not be deleted only shows in the number returned, which is never
\* false.
DeleteFn(name) ==
    LET gone(i) == {A(i)} \cup (IF name = "delete_recursive" THEN Below(A(i)) ELSE {})
        able(i) == Exists(A(i)) /\ (name = "delete_recursive" \/ Kind(A(i)) # "dir")
    IN
    /\ Call(name)
    /\ \E bad \in SUBSET {i \in 1..Argc : able(i)} :
       \E part \in SUBSET UNION {gone(i) \ {A(i)} : i \in bad} :
        LET good(i) == able(i) /\ i \notin bad
            first(i) == good(i) /\ \A j \in 1..(i - 1) : good(j) => A(i) \notin gone(j)
        IN  /\ \A q \in part : Below(q) \subseteq part
            /\ IF bad = {} THEN Works ELSE Fails
            /\ tree' = Removed(part \cup UNION {gone(i) : i \in {j \in 1..Argc : good(j)}})
            /\ Done(StringValue(<<ToString(Cardinality({i \in 1..Argc : first(i)}))>>))
    /\ UNCHANGED <<process, out, walk, mounted, raw>>

\* symlink(target, src1, src2, ...): what is in the way is unlinked first,
\* failures are only printed.
SymlinkFn ==
    LET able == {i \in 2..Argc : Reachable(A(i)) /\ Kind(A(i)) # "dir"}
    IN
    /\ Call("symlink")
    /\ \E bad \in SUBSET able : \E kept \in SUBSET bad :
        /\ tree' = [p \in DOMAIN tree |->
               [q \in At({A(i) : i \in able \ bad}, p) |-> Node("link", A(1))]
                   @@ Removed({A(i) : i \in able \ kept})[p]]
        /\ IF bad = {} THEN Works ELSE Fails
    /\ Answer(FALSE)
    /\ UNCHANGED <<process, out, walk, mounted, raw>>

\* set_perm(uid, gid, mode, path...), set_perm_recursive(uid, gid, dirmode,
\* filemode, path...): failures are only printed; links below are skipped,
\* and the first failure ends the walk, which enters a directory last.
SetPermFn(name) ==
    LET numbers == IF name = "set_perm" THEN 3 ELSE 4
        touched(i) == IF name = "set_perm" THEN {Real(A(i))}
                      ELSE {p \in Below(A(i)) \cup {A(i)} : Kind(p) \in {"file", "dir"}}
        mode(p) == IF name = "set_perm" \/ Kind(p) = "dir" THEN NumberOf(A(3)) ELSE NumberOf(A(4))
    IN
    /\ Call(name)
    /\ \/ /\ \E i \in 1..numbers : ~IsNumber(A(i))
          /\ Abort(<<"not a valid number">>) /\ UNCHANGED <<tree, faults>>
       \/ /\ \A i \in 1..numbers : IsNumber(A(i))
          /\ \E bad \in SUBSET ((numbers + 1)..Argc) :
             \E part \in SUBSET UNION {touched(i) : i \in bad} :
                LET S == part \cup UNION {touched(i) : i \in ((numbers + 1)..Argc) \ bad}
                IN  /\ \A q \in part : Parents(q) \cap UNION {touched(i) : i \in bad} \subseteq part
                    /\ tree' = [p \in DOMAIN tree |-> [q \in DOMAIN tree[p] |->
                                  IF q \in S /\ p = Place(q)
                                  THEN [tree[p][q] EXCEPT !.m = mode(q)] ELSE tree[p][q]]]
                    /\ IF bad = {} THEN Works ELSE Fails
          /\ Answer(FALSE)
    /\ UNCHANGED <<process, out, walk, mounted, raw>>

\* file_getprop(file, key): strtok() finds no line in an empty file.
FileGetPropFn ==
    /\ Call("file_getprop")
    /\ \/ IsFile(A(1)) /\ Content(A(1)) = <<"">> /\ Crash /\ UNCHANGED <<edify, trace, faults>>
       \/ /\ Content(A(1))[1] \in DOMAIN PropFiles /\ UNCHANGED process
          /\ \/ /\ LET f == PropFiles[Content(A(1))[1]]
                   IN  Done(StringValue(IF A(2) \in DOMAIN f THEN f[A(2)] ELSE False))
                /\ Works
             \/ Abort(<<"failed to read">>) /\ Fails
       \/ /\ Content(A(1))[1] \notin DOMAIN PropFiles \cup {""}
          /\ Abort(<<"not a prop file">>) /\ UNCHANGED <<process, faults>>
    /\ UNCHANGED <<out, walk, device>>

ReadFileFn ==
    /\ Call("read_file")
    /\ \/ IsFile(A(1)) /\ Done(Blob(Content(A(1))[1])) /\ Works
       \/ IsFile(A(1)) /\ Abort(<<"loading failed">>) /\ Fails
       \/ ~IsFile(A(1)) /\ Abort(<<"loading failed">>) /\ Works
    /\ UNCHANGED <<process, out, walk, device>>

-----------------------------------------------------------------------------
(* The package *)

\* package_extract_dir(package_path, destination_path): mzExtractRecursive()
\* with MZ_EXTRACT_FILES_ONLY walks through the sorted entries.
Relative(s) == s = <<>> \/ s[1] \notin Roots \cup {Slash}
Absolute(s) == s # <<>> /\ s[1] \in Roots

PackageExtractDirFn ==
    /\ Call("package_extract_dir")
    /\ \/ ~(Relative(A(1)) /\ Absolute(A(2))) /\ Answer(FALSE) /\ UNCHANGED walk
       \/ /\ Relative(A(1)) /\ Absolute(A(2))
          /\ xi' = 1 /\ seen' = FALSE
          /\ UNCHANGED <<edify, trace, lost>>
    /\ UNCHANGED <<process, out, device, faults>>

Extracting == cpc = "eval" /\ xi > 0
Break(ok) == Answer(ok) /\ xi' = 0 /\ seen' = FALSE
Continue == xi' = xi + 1 /\ UNCHANGED <<edify, trace>>

\* Entries that are not below the directory, directories, and the end: the
\* first mismatch after a match ends the walk, as the entries are sorted.
SkipEntry ==
    /\ Extracting
    /\ \/ xi > Len(entries) /\ Break(TRUE)
       \/ /\ xi <= Len(entries)
          /\ \/ ~Matches(entries[xi], ZPath(A(1))) /\ seen /\ Break(TRUE)
             \/ ~Matches(entries[xi], ZPath(A(1))) /\ ~seen /\ Continue /\ UNCHANGED seen
             \/ /\ Matches(entries[xi], ZPath(A(1))) /\ IsDirectory(entries[xi])
                /\ Continue /\ seen' = TRUE
    /\ UNCHANGED <<process, out, device, faults, lost>>

\* The result of extracting one file: dirCreateHierarchy() or creat() fails;
\* its data cannot be written, or utime() fails, which ends the walk but
\* leaves the outer "ok" alone; or it is complete.
ExtractEntry ==
    /\ Extracting /\ xi <= Len(entries)
    /\ Matches(entries[xi], ZPath(A(1))) /\ ~IsDirectory(entries[xi])
    /\ LET e == entries[xi]
           target == targetEntryPath(A(2), ZPath(A(1)), e)
           f == WithDirs(target, Missing(target))
           made == ~Illegal(target) /\ Kind(Real(target)) # "dir"
       IN  \/ /\ Illegal(target) /\ Works /\ Break(FALSE)
              /\ UNCHANGED <<tree, lost>>
           \/ /\ ~Illegal(target) /\ Fails /\ Break(FALSE)
              /\ \E h \in Hierarchies(target) : tree' = Store(target, h)
              /\ UNCHANGED lost
           \/ /\ ~Illegal(target) /\ ~made /\ Works /\ Break(FALSE)
              /\ tree' = Store(target, f) /\ UNCHANGED lost
           \/ /\ made /\ (IF e.intact THEN Fails ELSE Works) /\ Break(TRUE)
              /\ tree' = Store(target, Written(f, Real(target), Torn)) /\ lost' = TRUE
           \/ /\ made /\ e.intact /\ Fails /\ Break(TRUE)
              /\ tree' = Store(target, Written(f, Real(target), e.data)) /\ lost' = TRUE
           \/ /\ made /\ e.intact /\ Works /\ Continue
              /\ tree' = Store(target, Written(f, Real(target), e.data))
              /\ seen' = TRUE /\ UNCHANGED lost
    /\ UNCHANGED <<process, out, mounted, raw>>

\* package_extract_file(package_path, destination_path), or, with one
\* argument, the contents, which may be none.
PackageExtractFileFn ==
    LET e == mzFindZipEntry(entries, A(1))
        target == Real(A(2))
    IN
    /\ Call("package_extract_file")
    /\ \/ Argc = 1 /\ e.intact /\ Done(Blob(e.data)) /\ Works /\ UNCHANGED tree
       \/ /\ Argc = 1 /\ Done(Blob(NoData)) /\ UNCHANGED tree
          /\ IF e.intact THEN Fails ELSE Works
       \/ /\ Argc = 2 /\ (e = NoEntry \/ ~CanCreate(A(2)))
          /\ Answer(FALSE) /\ Works /\ UNCHANGED tree
       \/ /\ Argc = 2 /\ e # NoEntry /\ CanCreate(A(2)) /\ e.intact
          /\ tree' = Store(target, Written(Files(target), target, e.data))
          /\ Answer(TRUE) /\ Works
       \/ /\ Argc = 2 /\ e # NoEntry /\ CanCreate(A(2))
          /\ IF e.intact THEN Fails ELSE Works
          /\ tree' \in (IF e.intact THEN {tree} ELSE {})
                       \cup {Store(target, Written(Files(target), target, Torn))}
          /\ Answer(FALSE)
    /\ UNCHANGED <<process, out, walk, mounted, raw>>

-----------------------------------------------------------------------------
(* Partitions, patches and programs *)

\* write_raw_image(file, partition): restore_raw_partition(), see Flash.
WriteRawImageFn ==
    /\ Call("write_raw_image")
    /\ \/ Empty(2) /\ Abort(<<"argument can't be empty">>) /\ UNCHANGED <<raw, faults>>
       \/ ~Empty(2) /\ ~IsFile(A(1)) /\ Answer(FALSE) /\ UNCHANGED <<raw, faults>>
       \/ /\ ~Empty(2) /\ IsFile(A(1)) /\ Works
          /\ raw' = (A(2) :> Content(A(1))) @@ raw
          /\ Done(StringValue(A(2)))
       \/ /\ ~Empty(2) /\ IsFile(A(1)) /\ Fails
          /\ raw' = (A(2) :> <<Torn>>) @@ raw
          /\ Answer(FALSE)
    /\ UNCHANGED <<process, out, walk, tree, mounted>>

ApplyPatchSpaceFn ==
    /\ Call("apply_patch_space")
    /\ \/ ~StartsInt(A(1)) /\ Abort(<<"can't parse as byte count">>) /\ Works
       \/ StartsInt(A(1)) /\ Answer(TRUE) /\ Works
       \/ StartsInt(A(1)) /\ Answer(FALSE) /\ Fails
    /\ UNCHANGED <<process, out, walk, device>>

\* apply_patch(srcfile, tgtfile, tgtsha1, tgtsize, sha1_1, patch_1, ...):
\* applypatch() replaces the target or leaves it alone, see AtomicPatch.
ApplyPatchFn ==
    LET typed == \A i \in 5..Argc : Top.vals[i].type = (IF i % 2 = 1 THEN "string" ELSE "blob")
        has(path, sha) == IsFile(path) /\ Content(path) = sha
        patched == \E i \in 5..Argc : i % 2 = 1 /\ has(A(1), A(i)) /\ A(i + 1) # <<NoData>>
    IN
    /\ \/ Running /\ In({"apply_patch"}) /\ Argc \in Arity["apply_patch"] /\ BadSize
       \/ Call("apply_patch")
    /\ \/ ~StartsInt(A(4)) /\ Abort(<<"can't parse as byte count">>) /\ UNCHANGED <<tree, faults>>
       \/ StartsInt(A(4)) /\ ~typed /\ Abort(<<"argument has wrong type">>) /\ UNCHANGED <<tree, faults>>
       \/ StartsInt(A(4)) /\ typed /\ has(A(2), A(3)) /\ Answer(TRUE) /\ UNCHANGED <<tree, faults>>
       \/ /\ StartsInt(A(4)) /\ typed /\ ~has(A(2), A(3)) /\ patched /\ CanCreate(A(2))
          /\ tree' = Store(A(2), Written(Files(A(2)), A(2), A(3)[1]))
          /\ Answer(TRUE) /\ Works
       \/ /\ StartsInt(A(4)) /\ typed /\ ~has(A(2), A(3)) /\ UNCHANGED tree
          /\ IF patched /\ CanCreate(A(2)) THEN Fails ELSE Works
          /\ Answer(FALSE)
    /\ UNCHANGED <<process, out, walk, mounted, raw>>

\* apply_patch_check(file, [sha1_1, ...]), with no saved copy in the cache.
ApplyPatchCheckFn ==
    LET passes == IsFile(A(1)) /\ (Argc = 1 \/ \E i \in 2..Argc : A(i) = Content(A(1)))
    IN
    /\ Call("apply_patch_check")
    /\ \/ Answer(passes) /\ Works
       \/ passes /\ Answer(FALSE) /\ Fails
    /\ UNCHANGED <<process, out, walk, device>>

\* sha1_check(data, [sha1_hex, ...])
Sha1CheckFn ==
    LET same == {i \in 2..Argc : Top.vals[i].type = "string" /\ A(i) = A(1)}
    IN
    /\ Call("sha1_check")
    /\ \/ A(1) = <<NoData>> /\ Answer(FALSE)
       \/ A(1) # <<NoData>> /\ Argc = 1 /\ Done(StringValue(A(1)))
       \/ A(1) # <<NoData>> /\ Argc > 1 /\ Done(StringValue(IF same = {} THEN False ELSE A(1)))
    /\ UNCHANGED <<process, out, walk, device, faults>>

GetPropFn ==
    /\ Call("getprop")
    /\ Done(StringValue(IF A(1) \in DOMAIN Props THEN Props[A(1)] ELSE False))
    /\ UNCHANGED <<process, out, walk, device, faults>>

\* The result is waitpid()'s status in decimal: never false.
RunProgramFn ==
    /\ Call("run_program")
    /\ \/ Done(StringValue(<<"0">>)) /\ Works
       \/ Done(StringValue(<<"2", "5", "6">>)) /\ Fails
    /\ UNCHANGED <<process, out, walk, device>>

\* Whatever the arguments are, strtod() and printf() make numbers of them.
ShowProgressFn ==
    /\ Call("show_progress") /\ Done(Top.vals[1])
    /\ Emit(<<Line("progress", <<"frac", "secs">>)>>)
    /\ UNCHANGED <<process, walk, device, faults>>

SetProgressFn ==
    /\ Call("set_progress") /\ Done(Top.vals[1])
    /\ Emit(<<Line("set_progress", <<"frac">>)>>)
    /\ UNCHANGED <<process, walk, device, faults>>

\* strtok(s, "\n"): every token begins behind a newline, or with the string,
\* and ends before the next one, or with it; no token is empty.
Lines(s) ==
    LET begins == {i \in 1..Len(s) : s[i] # "\n" /\ (i = 1 \/ s[i - 1] = "\n")}
        first(k) == CHOOSE i \in begins : Cardinality({j \in begins : j <= i}) = k
        last(i) == Least({j \in i..Len(s) : j = Len(s) \/ s[j + 1] = "\n"})
    IN  [k \in 1..Cardinality(begins) |-> SubSeq(s, first(k), last(first(k)))]
\* What it leaves of s: the end of the first line is a NUL.
Cut(s) ==
    LET S == {i \in 2..Len(s) : s[i] = "\n" /\ s[i - 1] # "\n"}
    IN  IF S = {} THEN s ELSE SubSeq(s, 1, Least(S) - 1)
Printed(s) ==
    [i \in DOMAIN Lines(s) |-> Line("ui_print", Lines(s)[i])] \o <<Line("ui_print", <<>>)>>

UIPrintFn ==
    /\ Call("ui_print") /\ Done(StringValue(Cut(Joined)))
    /\ Emit(Printed(Joined))
    /\ UNCHANGED <<process, walk, device, faults>>

-----------------------------------------------------------------------------
(* main() *)

Exit(code) == cpc' = "exited" /\ status' = code /\ UNCHANGED <<package, pipe, entries>>

\* Exit codes 3, 4, 5 and 6: the package, which the parent could open, the
\* script in it, reading it and parsing it; then the script is evaluated.
Start ==
    LET za == Archives[package]
        script == mzFindZipEntry(za, ScriptName)
    IN
    /\ cpc = "main"
    /\ \/ Exit(3) /\ Fails /\ UNCHANGED edify
       \/ script = NoEntry /\ Exit(4) /\ Works /\ UNCHANGED edify
       \/ /\ script # NoEntry /\ Exit(5) /\ UNCHANGED edify
          /\ IF script.intact THEN Fails ELSE Works
       \/ /\ script.intact /\ package.script.fn = "syntax error"
          /\ Exit(6) /\ Works /\ UNCHANGED edify
       \/ /\ script.intact /\ package.script.fn # "syntax error" /\ Works
          /\ cpc' = "eval" /\ entries' = za /\ UNCHANGED <<package, pipe, status>>
          /\ stack' = <<Frame(package.script)>> /\ ret' = None /\ errmsg' = NoMessage
    /\ UNCHANGED <<out, walk, device, trace>>

\* Mutant: the message of an abort is dropped.
FinishSilent ==
    /\ Running /\ stack = <<>> /\ ret # None
    /\ \/ ret.type = "string" /\ Exit(0) /\ Quiet
       \/ /\ ret.type # "string"
          /\ cpc' = "report" /\ UNCHANGED <<package, pipe, entries, status>>
          /\ out' = <<Line("ui_print", <<"script aborted (no error message)">>)>>
    /\ UNCHANGED <<edify, walk, device, faults, trace>>

\* The script has a result: a string, whatever it is, is success.
Finish ==
    /\ Running /\ stack = <<>> /\ ret # None
    /\ \/ ret.type = "string" /\ Exit(0) /\ Quiet /\ UNCHANGED errmsg
       \/ /\ ret.type # "string"
          /\ cpc' = "report" /\ UNCHANGED <<package, pipe, entries, status>>
          /\ errmsg' = (IF ret = Null THEN errmsg ELSE Message(<<"expecting string">>))
          /\ out' = (IF errmsg'.set THEN Printed(errmsg'.text)
                     ELSE <<Line("ui_print", <<"script aborted (no error message)">>)>>)
    /\ UNCHANGED <<stack, ret, walk, device, faults, trace>>

\* A line goes to the pipe as soon as there is room.
Flush ==
    /\ cpc \in {"eval", "report"} /\ out # <<>> /\ Len(pipe) < PipeCap
    /\ pipe' = Append(pipe, Head(out)) /\ out' = Tail(out)
    /\ UNCHANGED <<edify, package, cpc, status, entries, walk, device, faults, trace>>

Reported ==
    /\ cpc = "report" /\ out = <<>> /\ Exit(7)
    /\ UNCHANGED <<edify, out, walk, device, faults, trace>>

\* The kernel kills the process.
Kill ==
    /\ cpc \in {"main", "eval", "report"} /\ Fails /\ Crash
    /\ UNCHANGED <<edify, out, walk, device, trace>>

Updater ==
    \/ Start \/ Finish \/ Flush \/ Reported
    \/ Interpret \/ WrongArgc \/ Arguments \/ NullArgument \/ Overrun \/ Mishandled
    \/ MountFn \/ IsMountedFn \/ UnmountFn \/ FormatFn
    \/ DeleteFn("delete") \/ DeleteFn("delete_recursive") \/ SymlinkFn
    \/ SetPermFn("set_perm") \/ SetPermFn("set_perm_recursive")
    \/ FileGetPropFn \/ ReadFileFn \/ GetPropFn
    \/ PackageExtractDirFn \/ SkipEntry \/ ExtractEntry \/ PackageExtractFileFn
    \/ WriteRawImageFn \/ ApplyPatchSpaceFn \/ ApplyPatchFn \/ ApplyPatchCheckFn
    \/ Sha1CheckFn \/ RunProgramFn \/ ShowProgressFn \/ SetProgressFn \/ UIPrintFn
=============================================================================
