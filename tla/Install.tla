------------------------------ MODULE Install -------------------------------
(***************************************************************************)
(* install.c and verifier.c: install_package() checks a package, extracts  *)
(* the update binary in it, runs it as a process of its own and obeys the  *)
(* commands it writes to a pipe, until it ends.  The binary is the updater *)
(* of this repository, module Updater, or another one, which may do        *)
(* whatever the protocol allows.                                           *)
(*                                                                         *)
(* Besides what Zip names, a package has a footer, the last six bytes, a   *)
(* signature, which names a key and the length of what was signed, and a   *)
(* script, the expression its updater-script parses to.                    *)
(***************************************************************************)
EXTENDS Updater

CONSTANTS
    KeyFiles,           \* what load_keys() may find, <<>> when it fails
    BinaryName,         \* META-INF/com/google/android/update-binary
    AmendName,          \* META-INF/com/google/android/update-script
    FOOTER_SIZE, RSANUMBYTES,
    LineMax,            \* characters of text in a line that fgets() takes whole
    OtherLines,         \* lines another binary may write, or parts of them
    MaxOther,           \* bound on how many it writes
    Tree0               \* what is on the device

VARIABLES
    ppc,        \* where install_package() is
    sigOn,      \* signature_check_enabled
    keys,
    zip,        \* the parent's archive: "none", "open" or "closed"
    binary,     \* what is in /tmp/update_binary
    firmware,   \* firmware_filename, <<>> when there is none
    screen,
    result

\* Two end signatures do not overlap: no byte of one begins another.
ASSUME InstallAssumption ==
    /\ ENDHDR \in Nat /\ ENDHDR >= 4 /\ LineMax \in Nat \ {0}
    /\ \A p \in Packages :
        /\ p.len \in Nat /\ p.footer.comment \in Nat /\ p.ends \subseteq Nat
        /\ \A a, b \in p.ends : a < b => a + 4 <= b
    /\ Tree0 = [v \in Volumes \cup {"ram"} |-> Tree0[v]]

settings == <<sigOn, keys>>
parent == <<ppc, settings, zip, binary, firmware, screen, result>>
vars == <<parent, child>>

ui == <<firmware, screen>>

Init ==
    /\ package \in Packages /\ sigOn \in BOOLEAN /\ keys \in KeyFiles
    /\ ppc = "mount" /\ zip = "none" /\ binary = "" /\ firmware = <<>>
    /\ screen = <<>> /\ result = "none"
    /\ cpc = "none" /\ status = 0 /\ out = <<>> /\ pipe = <<>> /\ entries = <<>>
    /\ stack = <<>> /\ ret = None /\ errmsg = NoMessage
    /\ xi = 0 /\ seen = FALSE /\ lost = FALSE
    /\ tree = Tree0 /\ mounted = {} /\ raw = <<>>
    /\ faults = 0 /\ trace = <<>>

updater == <<edify, out, walk, device, trace>>

-----------------------------------------------------------------------------
(* install_package() *)

INSTALL(r) == ppc' = "done" /\ result' = r
Next_(pc) == ppc' = pc /\ UNCHANGED result

EnsureMounted ==
    /\ ppc = "mount"
    /\ \/ Next_(IF sigOn THEN "keys" ELSE "open") /\ Works
       \/ INSTALL("CORRUPT") /\ Fails
    /\ UNCHANGED <<settings, zip, binary, ui, process, updater>>

LoadKeys ==
    /\ ppc = "keys"
    /\ \/ keys # <<>> /\ Next_("verify")
       \/ keys = <<>> /\ INSTALL("CORRUPT")
    /\ UNCHANGED <<settings, zip, binary, ui, process, updater, faults>>

\* verify_file(): the end record is where the comment's length says, no
\* other one begins behind it, and one of the keys has signed everything
\* up to the length of the comment.
SignedEnd(p) == p.len - p.footer.comment - ENDHDR
\* Mutant: the search for another end record is left out.
NoOtherEndUnchecked(p) == TRUE
NoOtherEnd(p) ==
    \A i \in 4..(p.footer.comment + ENDHDR - 4) : SignedEnd(p) + i \notin p.ends
verify_file(p, ks) ==
    /\ p.len >= FOOTER_SIZE /\ p.footer.magic
    /\ p.footer.sig - FOOTER_SIZE >= RSANUMBYTES
    /\ SignedEnd(p) >= 0 /\ SignedEnd(p) \in p.ends
    /\ NoOtherEnd(p)
    /\ \E i \in DOMAIN ks :
           p.signature = [key |-> ks[i], covers |-> SignedEnd(p) + ENDHDR - 2]

Verify ==
    /\ ppc = "verify"
    /\ \/ verify_file(package, keys) /\ Next_("open") /\ Works
       \/ /\ INSTALL("CORRUPT")
          /\ IF verify_file(package, keys) THEN Fails ELSE Works
    /\ UNCHANGED <<settings, zip, binary, ui, process, updater>>

Open ==
    /\ ppc = "open"
    /\ \/ Archives[package] # <<>> /\ zip' = "open" /\ Next_("find") /\ Works
       \/ /\ INSTALL("CORRUPT") /\ UNCHANGED zip
          /\ IF Archives[package] # <<>> THEN Fails ELSE Works
    /\ UNCHANGED <<settings, binary, ui, process, updater>>

-----------------------------------------------------------------------------
(* try_update_binary() *)

Entry(name) == mzFindZipEntry(Archives[package], name)

\* An update-script of the old kind leaves the archive open.
FindBinary ==
    /\ ppc = "find"
    /\ \/ Entry(BinaryName) # NoEntry /\ Next_("extract") /\ UNCHANGED zip
       \/ /\ Entry(BinaryName) = NoEntry /\ INSTALL("UPDATE_BINARY_MISSING")
          /\ zip' = (IF Entry(AmendName) = NoEntry THEN "closed" ELSE "open")
    /\ UNCHANGED <<settings, binary, ui, process, updater, faults>>

ExtractBinary ==
    /\ ppc = "extract"
    /\ \/ Entry(BinaryName).intact /\ Next_("fork") /\ Works /\ UNCHANGED zip
       \/ /\ INSTALL("ERROR") /\ zip' = "closed"
          /\ IF Entry(BinaryName).intact THEN Fails ELSE Works
    /\ binary' = (IF result' = "none" THEN Entry(BinaryName).data ELSE Torn)
    /\ UNCHANGED <<settings, ui, process, updater>>

\* Mutant: a child whose execv() failed goes on.
ForkGoesOn ==
    /\ ppc = "fork" /\ Next_("read")
    /\ cpc' = (IF binary = "updater" THEN "main" ELSE binary) /\ status' = 0
    /\ UNCHANGED <<package, pipe, entries, settings, zip, binary, ui, updater, faults>>

\* fork() and execv(): what cannot be executed exits with -1.  That fork()
\* failed is not looked at: with no child waitpid() leaves status as it is,
\* uninitialised.
Fork ==
    /\ ppc = "fork" /\ Next_("read")
    /\ \/ /\ Works
          /\ cpc' = (CASE binary = "updater" -> "main" [] binary = "other" -> "other"
                       [] OTHER -> "exited")
          /\ status' = (IF binary \in {"updater", "other"} THEN 0 ELSE 255)
       \/ Fails /\ cpc' = "unborn" /\ status' \in {0, 1, Signal}
    /\ UNCHANGED <<package, pipe, entries, settings, zip, binary, ui, updater>>

\* What strtof() and strtol() are given: NULL for a word that is missing.
Words == [progress |-> 2, set_progress |-> 1]
Malformed(l) == l.cmd \in DOMAIN Words /\ Len(l.arg) < Words[l.cmd]

\* Of the lines of the updater only text can be too long for the buffer: the
\* rest of it is read as a line of its own, with its first word as a command.
InBuffer(text) == Len(text) <= LineMax
TooLong(l) == l.cmd = "ui_print" /\ ~InBuffer(l.arg)
Shown(l) == IF TooLong(l) THEN SubSeq(l.arg, 1, LineMax) ELSE l.arg
Rest(l) ==
    LET text == From(l.arg, LineMax + 1)
        word == Head(text)
    IN  IF word \in DOMAIN Words \cup {"firmware", "ui_print"} THEN Line(word, Tail(text))
                                                              ELSE Line("unknown", text)

\* One line of the pipe: progress bars, text, firmware; the rest is logged.
Obey ==
    LET l == Head(pipe) IN
    /\ ppc = "read" /\ pipe # <<>> /\ ~Malformed(l)
    /\ pipe' = (IF TooLong(l) THEN [pipe EXCEPT ![1] = Rest(l)] ELSE Tail(pipe))
    /\ screen' = (IF l.cmd = "ui_print" THEN Append(screen, Shown(l)) ELSE screen)
    /\ firmware' = (IF l.cmd = "firmware" /\ firmware = <<>> THEN l.arg ELSE firmware)
    /\ UNCHANGED <<ppc, settings, zip, binary, result, package, cpc, status, entries,
                   updater, faults>>

\* A malformed line kills recovery itself, and init kills its children.
ObeyDies ==
    /\ ppc = "read" /\ pipe # <<>> /\ Malformed(Head(pipe))
    /\ INSTALL("DIED") /\ cpc' = "exited" /\ status' = Signal /\ pipe' = <<>>
    /\ UNCHANGED <<settings, zip, binary, ui, package, entries, updater, faults>>

Ended == cpc \in {"exited", "unborn"}

\* Mutant: the parent keeps its own writing end open.
EndOfFileNever == ppc = "read" /\ pipe = <<>> /\ Ended /\ FALSE

\* fgets() returns NULL when every copy of the writing end is closed.
EndOfFile ==
    /\ ppc = "read" /\ pipe = <<>> /\ Ended /\ Next_("wait")
    /\ UNCHANGED <<settings, zip, binary, ui, process, updater, faults>>

\* Mutant: WEXITSTATUS() without WIFEXITED().
WaitPidCodeOnly ==
    /\ ppc = "wait" /\ Ended
    /\ \/ status % Signal # 0 /\ INSTALL("ERROR") /\ zip' = "closed"
       \/ status % Signal = 0 /\ firmware # <<>> /\ Next_("firmware") /\ UNCHANGED zip
       \/ status % Signal = 0 /\ firmware = <<>> /\ INSTALL("SUCCESS") /\ UNCHANGED zip
    /\ UNCHANGED <<settings, binary, ui, process, updater, faults>>

WaitPid ==
    /\ ppc = "wait" /\ Ended
    /\ \/ status # 0 /\ INSTALL("ERROR") /\ zip' = "closed"
       \/ status = 0 /\ firmware # <<>> /\ Next_("firmware") /\ UNCHANGED zip
       \/ status = 0 /\ firmware = <<>> /\ INSTALL("SUCCESS") /\ UNCHANGED zip
    /\ UNCHANGED <<settings, binary, ui, process, updater, faults>>

\* handle_firmware_update() reads the file, or the entry of the package,
\* and does nothing with it.
HandleFirmware ==
    LET found == IF firmware[1] = "PACKAGE:" THEN Entry(Tail(firmware)).intact
                                             ELSE IsFile(firmware)
    IN
    /\ ppc = "firmware" /\ zip' = "closed"
    /\ \/ found /\ INSTALL("SUCCESS") /\ Works
       \/ INSTALL("ERROR") /\ (IF found THEN Fails ELSE Works)
    /\ UNCHANGED <<settings, binary, ui, process, updater>>

-----------------------------------------------------------------------------
(* Another update binary: it writes lines and exits, or is killed.         *)

OtherWrites ==
    /\ cpc = "other" /\ Len(pipe) < PipeCap /\ Len(trace) < MaxOther
    /\ \E l \in OtherLines : pipe' = Append(pipe, l)
    /\ trace' = Append(trace, None)
    /\ UNCHANGED <<parent, edify, package, cpc, status, entries, out, walk, device, faults>>

OtherExits ==
    /\ cpc = "other"
    /\ \E code \in {0, 1, Signal} : cpc' = "exited" /\ status' = code
    /\ UNCHANGED <<parent, package, pipe, entries, updater, faults>>

-----------------------------------------------------------------------------

Parent ==
    \/ EnsureMounted \/ LoadKeys \/ Verify \/ Open
    \/ FindBinary \/ ExtractBinary \/ Fork
    \/ Obey \/ ObeyDies \/ EndOfFile \/ WaitPid \/ HandleFirmware

Child == (Updater \/ Kill) /\ UNCHANGED parent

Next == Parent \/ Child \/ OtherWrites \/ OtherExits

Spec == Init /\ [][Next]_vars

\* Both processes are scheduled; the update binary ends.
FairSpec ==
    /\ Spec /\ WF_vars(Parent) /\ WF_vars(Updater /\ UNCHANGED parent)
    /\ WF_vars(OtherExits)

-----------------------------------------------------------------------------
(* Properties *)

IsValue(v) == v.type \in {"none", "null", "string", "blob"} /\ IsSeq(v.s)

\* The C stack: calls with the values of some arguments, the running one of
\* an expression of the script; package_extract_dir() runs only within one.
IsCall(f) ==
    /\ f = [e |-> f.e, vals |-> f.vals] /\ IsSeq(f.vals)
    /\ \A j \in 1..Len(f.vals) : IsValue(f.vals[j])
StackOK ==
    /\ IsSeq(stack) /\ \A k \in 1..Len(stack) : IsCall(stack[k])
    /\ stack # <<>> => Top.e \in Exprs
    /\ IsValue(ret) /\ IsSeq(errmsg.text)
    /\ xi \in Nat /\ (xi > 0 => stack # <<>>)

\* strtok() cuts every message into a sequence of lines.
Printable == errmsg.set => LET l == Lines(errmsg.text) IN l \in Seq(Range(l))

TypeOK ==
    /\ package \in Packages /\ keys \in KeyFiles /\ sigOn \in BOOLEAN
    /\ ppc \in {"mount", "keys", "verify", "open", "find", "extract", "fork", "read",
                "wait", "firmware", "done"}
    /\ result \in {"none", "SUCCESS", "ERROR", "CORRUPT", "UPDATE_BINARY_MISSING", "DIED"}
    /\ zip \in {"none", "open", "closed"}
    /\ cpc \in {"none", "main", "eval", "report", "other", "exited", "unborn"}
    /\ status \in Int /\ faults \in Nat
    /\ StackOK /\ Printable

\* INSTALL_SUCCESS is only returned when the update binary has ended by
\* itself with code 0, and everything it wrote has been read; the updater
\* does so only when the whole script was evaluated, to a string.  All this
\* unless fork() failed: then there is no update binary, and the code returns
\* whatever the uninitialised status says.
SuccessMeansDone ==
    (result = "SUCCESS" /\ cpc # "unborn") =>
        /\ cpc = "exited" /\ status = 0 /\ pipe = <<>>
        /\ binary = "updater" => stack = <<>> /\ ret.type = "string" /\ out = <<>> /\ xi = 0

\* With the signature check on, nothing of a package is run unless one of
\* the keys has signed it; and the directory that minzip reads, found by
\* searching from the end of the file, is the one the signature covers.
RunsSigned ==
    (sigOn /\ cpc # "none") =>
        /\ verify_file(package, keys)
        /\ EndOffset(package) = SignedEnd(package)

\* What main() of the updater reports of a script that aborted.
AbortText ==
    IF errmsg.set THEN Append(Lines(errmsg.text), <<>>)
                  ELSE <<<<"script aborted (no error message)">>>>

\* The message of a script that aborted is on the screen, complete and in
\* order, when the failed installation returns: neither process leaves a line
\* in a buffer or in the pipe.  The lines of the message have to fit into the
\* parent's buffer; those that the script printed before need not.
Fits == \A i \in DOMAIN AbortText : InBuffer(AbortText[i])
AbortShown ==
    (result = "ERROR" /\ cpc = "exited" /\ status = 7 /\ binary = "updater" /\ Fits) =>
        IsSuffix(AbortText, screen)

\* An entry that package_extract_dir() is asked for, and where it goes.
Wanted(e) == Matches(e, ZPath(A(1))) /\ ~IsDirectory(e)
Target(e) == targetEntryPath(A(2), ZPath(A(1)), e)

\* When package_extract_dir() answers "t", every file below the directory is
\* at its target with the contents of the last entry of that name, whatever
\* the order of the entries in the package.
Extracted ==
    \A i \in DOMAIN entries :
        LET e == entries[i]
            target == Target(e)
        IN  (Wanted(e) /\ \A j \in (i + 1)..Len(entries) : entries[j].name # e.name) =>
                /\ target \in DOMAIN tree'[Place(target)]
                /\ tree'[Place(target)][target].d = <<e.data>>
ExtractsAll == [][(xi > 0 /\ ret' = StringValue(True)) => Extracted]_vars

\* creat() would follow a symbolic link with the name of a file.
NoLinks ==
    \A i \in DOMAIN entries : Wanted(entries[i]) => Kind(Target(entries[i])) # "link"

\* The same, but for the failures that mzExtractRecursive() notes in a
\* variable that hides the one it returns, and for files that have the names
\* of symbolic links.
ExtractsAllOrLost ==
    [][(xi > 0 /\ ret' = StringValue(True) /\ ~lost' /\ NoLinks) => Extracted]_vars

\* install_package() returns: neither process waits for the other for ever,
\* however little the pipe holds.
Ends == <>(ppc = "done")
=============================================================================
