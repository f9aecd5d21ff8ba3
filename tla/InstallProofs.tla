--------------------------- MODULE InstallProofs ----------------------------
(***************************************************************************)
(* Proofs about the installation of packages, for every script, every      *)
(* package, every size of the pipe and any number of failing calls.        *)
(***************************************************************************)
EXTENDS Install, ZipProofs, FiniteSetTheorems

\* Before the update binary is started.
Before == {"mount", "keys", "verify", "open", "find", "extract", "fork"}

\* A script that has ended with code 0 is evaluated, and its output written.
Evaluated == stack = <<>> /\ ret.type = "string" /\ out = <<>> /\ xi = 0

\* Which parts of install_package() go with which parts of the child.
Handshake ==
    /\ ppc \in Before => cpc = "none" /\ result = "none"
    /\ ppc # "done" => result = "none"
    /\ ppc \in {"wait", "firmware"} => Ended /\ pipe = <<>>
    /\ ppc = "firmware" => status = 0
    /\ result = "SUCCESS" => Ended /\ status = 0 /\ pipe = <<>>
    /\ cpc = "other" => binary = "other"
    /\ (cpc = "exited" /\ status = 0 /\ binary = "updater") => Evaluated

\* No value is pending while nothing is evaluated or a directory extracted.
Pending ==
    /\ cpc \in {"none", "main", "other"} => ret = None
    /\ xi # 0 => ret = None

Signed ==
    sigOn =>
        /\ cpc # "none" => verify_file(package, keys)
        /\ ppc \in {"open", "find", "extract", "fork", "read", "wait", "firmware"} =>
               verify_file(package, keys)

InstallInv == package \in Packages /\ Handshake /\ Pending /\ Signed

\* What a step of a script may do to the process: nothing, or kill it.
InScript ==
    /\ cpc = "eval" /\ UNCHANGED parent
    /\ UNCHANGED process \/ Crash
    /\ xi' # 0 => ret' = None

LEMMA FunctionSteps1 ==
    ASSUME UNCHANGED parent, Pending,
           \/ Interpret \/ WrongArgc \/ Arguments \/ NullArgument \/ Overrun \/ Mishandled
           \/ MountFn \/ IsMountedFn \/ UnmountFn \/ FormatFn
    PROVE  InScript
<1>1. CASE Interpret
  BY <1>1 DEF Interpret, Running, InScript, walk
<1>2. CASE WrongArgc
  BY <1>2 DEF WrongArgc, Running, InScript, walk
<1>3. CASE Arguments
  BY <1>3 DEF Arguments, Running, InScript, walk
<1>10. CASE NullArgument
  BY <1>10 DEF NullArgument, Running, InScript, walk
<1>4. CASE Overrun
  BY <1>4 DEF Overrun, Running, InScript, walk
<1>5. CASE Mishandled
  BY <1>5 DEF Mishandled, Running, InScript, walk
<1>6. CASE MountFn
  BY <1>6 DEF MountFn, Call, Running, InScript, walk
<1>7. CASE IsMountedFn
  BY <1>7 DEF IsMountedFn, Call, Running, InScript, walk
<1>8. CASE UnmountFn
  BY <1>8 DEF UnmountFn, Call, Running, InScript, walk
<1>9. CASE FormatFn
  BY <1>9 DEF FormatFn, Call, Running, InScript, walk
<1> QED
  BY <1>1, <1>2, <1>3, <1>4, <1>5, <1>6, <1>7, <1>8, <1>9, <1>10

LEMMA FunctionSteps2 ==
    ASSUME UNCHANGED parent, Pending,
           \/ DeleteFn("delete") \/ DeleteFn("delete_recursive") \/ SymlinkFn
           \/ SetPermFn("set_perm") \/ SetPermFn("set_perm_recursive")
           \/ FileGetPropFn \/ ReadFileFn \/ GetPropFn \/ PackageExtractFileFn
    PROVE  InScript
<1>1. CASE DeleteFn("delete")
  BY <1>1 DEF DeleteFn, Call, Running, InScript, walk
<1>2. CASE DeleteFn("delete_recursive")
  BY <1>2 DEF DeleteFn, Call, Running, InScript, walk
<1>3. CASE SymlinkFn
  BY <1>3 DEF SymlinkFn, Call, Running, InScript, walk
<1>4. CASE SetPermFn("set_perm")
  BY <1>4 DEF SetPermFn, Call, Running, InScript, walk
<1>5. CASE SetPermFn("set_perm_recursive")
  BY <1>5 DEF SetPermFn, Call, Running, InScript, walk
<1>6. CASE FileGetPropFn
  BY <1>6 DEF FileGetPropFn, Call, Running, InScript, walk
<1>7. CASE ReadFileFn
  BY <1>7 DEF ReadFileFn, Call, Running, InScript, walk
<1>8. CASE GetPropFn
  BY <1>8 DEF GetPropFn, Call, Running, InScript, walk
<1>9. CASE PackageExtractFileFn
  BY <1>9 DEF PackageExtractFileFn, Call, Running, InScript, walk
<1> QED
  BY <1>1, <1>2, <1>3, <1>4, <1>5, <1>6, <1>7, <1>8, <1>9

LEMMA FunctionSteps3 ==
    ASSUME UNCHANGED parent, Pending,
           \/ WriteRawImageFn \/ ApplyPatchSpaceFn \/ ApplyPatchFn
           \/ ApplyPatchCheckFn \/ Sha1CheckFn \/ RunProgramFn \/ ShowProgressFn
           \/ SetProgressFn \/ UIPrintFn
    PROVE  InScript
<1>1. CASE WriteRawImageFn
  BY <1>1 DEF WriteRawImageFn, Call, Running, InScript, walk
<1>2. CASE ApplyPatchSpaceFn
  BY <1>2 DEF ApplyPatchSpaceFn, Call, Running, InScript, walk
<1>3. CASE ApplyPatchFn
  BY <1>3 DEF ApplyPatchFn, Call, Running, InScript, walk
<1>4. CASE ApplyPatchCheckFn
  BY <1>4 DEF ApplyPatchCheckFn, Call, Running, InScript, walk
<1>5. CASE Sha1CheckFn
  BY <1>5 DEF Sha1CheckFn, Call, Running, InScript, walk
<1>6. CASE RunProgramFn
  BY <1>6 DEF RunProgramFn, Call, Running, InScript, walk
<1>7. CASE ShowProgressFn
  BY <1>7 DEF ShowProgressFn, Call, Running, InScript, walk
<1>8. CASE SetProgressFn
  BY <1>8 DEF SetProgressFn, Call, Running, InScript, walk
<1>9. CASE UIPrintFn
  BY <1>9 DEF UIPrintFn, Call, Running, InScript, walk
<1> QED
  BY <1>1, <1>2, <1>3, <1>4, <1>5, <1>6, <1>7, <1>8, <1>9

\* package_extract_dir() returns its value only when the walk has ended.
LEMMA ExtractSteps ==
    ASSUME UNCHANGED parent, Pending,
           \/ PackageExtractDirFn \/ SkipEntry \/ ExtractEntry
    PROVE  InScript
<1>0. Extracting => cpc = "eval" /\ ret = None
  BY DEF Extracting, Pending
<1>1. CASE PackageExtractDirFn
  BY <1>1 DEF PackageExtractDirFn, Call, In, Running, InScript, walk, edify
<1>2. CASE SkipEntry
  <2>1. cpc = "eval" /\ ret = None
    BY <1>0, <1>2 DEF SkipEntry
  <2> QED
    BY <1>2, <2>1 DEF SkipEntry, Break, Continue, InScript, edify
<1>3. CASE ExtractEntry
  <2>1. cpc = "eval" /\ ret = None
    BY <1>0, <1>3 DEF ExtractEntry
  <2>2. UNCHANGED process /\ ((\E b \in BOOLEAN : Break(b)) \/ Continue)
    BY <1>3 DEF ExtractEntry
  <2> QED
    BY <2>1, <2>2 DEF Break, Continue, InScript, edify
<1> QED
  BY <1>1, <1>2, <1>3

LEMMA UpdaterSteps ==
    ASSUME UNCHANGED parent, Pending, Updater \/ Kill
    PROVE  InScript \/ Start \/ Finish \/ Flush \/ Reported \/ Kill
BY FunctionSteps1, FunctionSteps2, FunctionSteps3, ExtractSteps DEF Updater

-----------------------------------------------------------------------------
(* The invariant *)

LEMMA NoneIsNoValue == None # Null /\ None.type # "string"
BY DEF None, Null

LEMMA InitInstall == Init => InstallInv
BY DEF Init, InstallInv, Handshake, Ended, Pending, Signed, Before

\* A step of a script: its process may die, which is no success.
LEMMA ScriptInv ==
    ASSUME InstallInv, InScript
    PROVE  InstallInv'
<1>1. /\ cpc = "eval" /\ UNCHANGED parent /\ package' = package
      /\ UNCHANGED <<cpc, status, pipe>> \/ (cpc' = "exited" /\ status' = 256 /\ pipe' = pipe)
      /\ xi' # 0 => ret' = None
  BY DEF InScript, process, Crash, Signal
<1>2. UNCHANGED <<ppc, sigOn, keys, binary, result>>
  BY <1>1 DEF parent, settings
<1>3. Handshake'
  BY <1>1, <1>2 DEF InstallInv, Handshake, Ended, Before
<1>4. Pending' /\ Signed'
  BY <1>1, <1>2 DEF InstallInv, Pending, Signed
<1> QED
  BY <1>1, <1>3, <1>4 DEF InstallInv

\* The rest of the updater: success is the end of an evaluated script.
LEMMA ChildInv ==
    ASSUME InstallInv, Child
    PROVE  InstallInv'
<1>0. UNCHANGED parent /\ UNCHANGED <<ppc, sigOn, keys, binary, result>>
  BY DEF Child, parent, settings
<1>1. CASE InScript
  BY <1>1, ScriptInv
<1>2. CASE Start
  <2>1. /\ cpc = "main" /\ package' = package /\ pipe' = pipe /\ UNCHANGED xi
        /\ \/ cpc' = "exited" /\ status' # 0 /\ UNCHANGED ret
           \/ cpc' = "eval" /\ ret' = None
    <3>1. /\ cpc = "main" /\ UNCHANGED walk
          /\ \/ (Exit(3) \/ Exit(4) \/ Exit(5) \/ Exit(6)) /\ UNCHANGED edify
             \/ cpc' = "eval" /\ UNCHANGED <<package, pipe, status>> /\ ret' = None
      BY <1>2, Zenon DEF Start
    <3> QED
      BY <3>1 DEF Exit, edify, walk
  <2>2. Handshake'
    BY <1>0, <2>1 DEF InstallInv, Handshake, Ended, Before
  <2>3. Pending' /\ Signed'
    BY <1>0, <2>1 DEF InstallInv, Pending, Signed
  <2> QED
    BY <2>1, <2>2, <2>3 DEF InstallInv
<1>3. CASE Finish
  <2>1. /\ cpc = "eval" /\ package' = package /\ pipe' = pipe /\ UNCHANGED <<xi, ret, stack>>
        /\ stack = <<>> /\ out = <<>> /\ xi = 0
        /\ \/ cpc' = "exited" /\ ret.type = "string" /\ out' = out
           \/ cpc' = "report"
    BY <1>3 DEF Finish, Running, Exit, Quiet, walk
  <2>2. Handshake'
    BY <1>0, <2>1 DEF InstallInv, Handshake, Ended, Before, Evaluated
  <2>3. Pending' /\ Signed'
    BY <1>0, <2>1 DEF InstallInv, Pending, Signed
  <2> QED
    BY <2>1, <2>2, <2>3 DEF InstallInv
<1>4. CASE Flush
  <2>1. cpc \in {"eval", "report"} /\ UNCHANGED <<package, cpc, status, xi, ret, stack>>
    BY <1>4 DEF Flush, edify, walk
  <2>2. Handshake'
    BY <1>0, <2>1 DEF InstallInv, Handshake, Ended, Before
  <2>3. Pending' /\ Signed'
    BY <1>0, <2>1 DEF InstallInv, Pending, Signed
  <2> QED
    BY <2>1, <2>2, <2>3 DEF InstallInv
<1>5. CASE Reported \/ Kill
  <2>1. /\ cpc \in {"main", "eval", "report"} /\ cpc' = "exited" /\ status' \in {7, 256}
        /\ UNCHANGED <<package, pipe, xi, ret, stack>>
    BY <1>5 DEF Reported, Kill, Exit, Crash, Signal, edify, walk
  <2>2. Handshake'
    BY <1>0, <2>1 DEF InstallInv, Handshake, Ended, Before
  <2>3. Pending' /\ Signed'
    BY <1>0, <2>1 DEF InstallInv, Pending, Signed
  <2> QED
    BY <2>1, <2>2, <2>3 DEF InstallInv
<1> QED
  BY <1>0, <1>1, <1>2, <1>3, <1>4, <1>5, UpdaterSteps DEF Child, InstallInv

LEMMA OtherInv ==
    ASSUME InstallInv, OtherWrites \/ OtherExits
    PROVE  InstallInv'
<1>1. /\ cpc = "other" /\ UNCHANGED <<ppc, sigOn, keys, binary, result, package, xi, ret>>
      /\ cpc' \in {"other", "exited"}
  BY DEF OtherWrites, OtherExits, parent, settings, edify, walk, updater
<1>2. binary = "other"
  BY <1>1 DEF InstallInv, Handshake, Ended
<1>3. ppc \notin Before /\ ppc \notin {"wait", "firmware"} /\ result # "SUCCESS"
  BY <1>1 DEF InstallInv, Handshake, Ended
<1>4. Handshake'
  BY <1>1, <1>2, <1>3 DEF InstallInv, Handshake, Ended
<1>5. Pending' /\ Signed'
  BY <1>1 DEF InstallInv, Pending, Signed
<1> QED
  BY <1>1, <1>4, <1>5 DEF InstallInv

\* What the checks of install_package() leave alone.
Untouched == UNCHANGED <<package, cpc, status, pipe, sigOn, keys, stack, ret, out, xi>>

\* Up to the start of the binary, with the signature before anything else.
LEMMA CheckInv ==
    ASSUME InstallInv, EnsureMounted \/ LoadKeys \/ Verify \/ Open \/ FindBinary \/ ExtractBinary
    PROVE  InstallInv'
<1>1. Untouched
  BY DEF EnsureMounted, LoadKeys, Verify, Open, FindBinary, ExtractBinary, Untouched,
         process, updater, edify, walk, settings
<1>2. /\ ppc \in {"mount", "keys", "verify", "open", "find", "extract"}
      /\ \/ ppc' = "done" /\ result' # "SUCCESS"
         \/ ppc' \in Before /\ UNCHANGED result
  BY DEF EnsureMounted, LoadKeys, Verify, Open, FindBinary, ExtractBinary, INSTALL, Next_, Before
<1>3. ppc' \in {"open", "find", "extract", "fork"} =>
          \/ ppc \in {"open", "find", "extract"} \/ ~sigOn \/ verify_file(package, keys)
  BY DEF EnsureMounted, LoadKeys, Verify, Open, FindBinary, ExtractBinary, INSTALL, Next_
<1>4. cpc = "none" /\ result = "none"
  BY <1>2 DEF InstallInv, Handshake, Ended, Before
<1>5. Handshake'
  BY <1>1, <1>2, <1>4 DEF Untouched, Handshake, Ended, Before
<1>6. Pending'
  BY <1>1 DEF InstallInv, Untouched, Pending
<1>7. Signed'
  BY <1>1, <1>2, <1>3, <1>4 DEF InstallInv, Untouched, Signed, Before
<1> QED
  BY <1>1, <1>5, <1>6, <1>7 DEF InstallInv, Untouched

LEMMA ForkInv ==
    ASSUME InstallInv, Fork
    PROVE  InstallInv'
<1>1. /\ ppc = "fork" /\ ppc' = "read" /\ UNCHANGED <<result, package, pipe, sigOn, keys, binary, xi, ret>>
      /\ \/ cpc' = "main" /\ binary = "updater"
         \/ cpc' = "other" /\ binary = "other"
         \/ cpc' = "exited" /\ status' = 255
         \/ cpc' = "unborn"
  BY DEF Fork, Next_, settings, updater, edify, walk
<1>2. cpc = "none" /\ result = "none" /\ ret = None
  BY <1>1 DEF InstallInv, Handshake, Ended, Pending, Before
<1>3. Handshake'
  BY <1>1, <1>2 DEF Handshake, Ended, Before
<1>4. Pending' /\ Signed'
  BY <1>1, <1>2 DEF InstallInv, Pending, Signed
<1> QED
  BY <1>1, <1>3, <1>4 DEF InstallInv

LEMMA ObeyInv ==
    ASSUME InstallInv, Obey
    PROVE  InstallInv'
<1>1. /\ ppc = "read" /\ UNCHANGED <<ppc, result, package, cpc, status, sigOn, keys, binary>>
      /\ UNCHANGED <<stack, ret, out, xi>>
  BY DEF Obey, settings, updater, edify, walk
<1>2. Handshake'
  BY <1>1 DEF InstallInv, Handshake, Ended, Before, Evaluated
<1>3. Pending' /\ Signed'
  BY <1>1 DEF InstallInv, Pending, Signed
<1> QED
  BY <1>1, <1>2, <1>3 DEF InstallInv

LEMMA DiesInv ==
    ASSUME InstallInv, ObeyDies
    PROVE  InstallInv'
<1>1. /\ ppc = "read" /\ ppc' = "done" /\ result' = "DIED" /\ cpc' = "exited" /\ status' = 256
      /\ UNCHANGED <<package, sigOn, keys, binary, stack, ret, out, xi>>
  BY DEF ObeyDies, INSTALL, Signal, settings, updater, edify, walk
<1>2. Handshake'
  BY <1>1 DEF InstallInv, Handshake, Ended, Before
<1>3. Pending' /\ Signed'
  BY <1>1 DEF InstallInv, Pending, Signed
<1> QED
  BY <1>1, <1>2, <1>3 DEF InstallInv

\* The end of the child: what waitpid() says decides.
LEMMA EndInv ==
    ASSUME InstallInv, EndOfFile \/ WaitPid \/ HandleFirmware
    PROVE  InstallInv'
<1>1. Untouched /\ UNCHANGED binary
  BY DEF EndOfFile, WaitPid, HandleFirmware, Untouched, process, updater, edify, walk, settings
<1>2. Ended /\ pipe = <<>> /\ ppc \in {"read", "wait", "firmware"}
  BY DEF EndOfFile, WaitPid, HandleFirmware, InstallInv, Handshake, Ended
<1>3. \/ ppc' = "wait" /\ UNCHANGED result
      \/ ppc' = "firmware" /\ status = 0 /\ UNCHANGED result
      \/ ppc' = "done" /\ result' = "ERROR"
      \/ ppc' = "done" /\ status = 0 /\ result' = "SUCCESS"
  BY DEF EndOfFile, WaitPid, HandleFirmware, INSTALL, Next_, InstallInv, Handshake, Ended
<1>4. Handshake'
  BY <1>1, <1>2, <1>3 DEF InstallInv, Untouched, Handshake, Ended, Before, Evaluated
<1>5. Pending'
  BY <1>1 DEF InstallInv, Untouched, Pending
<1>6. Signed'
  BY <1>1, <1>2, <1>3 DEF InstallInv, Untouched, Signed
<1> QED
  BY <1>1, <1>4, <1>5, <1>6 DEF InstallInv, Untouched

LEMMA NextInstall == InstallInv /\ [Next]_vars => InstallInv'
<1> SUFFICES ASSUME InstallInv, [Next]_vars PROVE InstallInv'
  OBVIOUS
<1>1. CASE Next
  BY <1>1, ChildInv, OtherInv, CheckInv, ForkInv, ObeyInv, DiesInv, EndInv DEF Next, Parent
<1>2. CASE UNCHANGED vars
  <2>1. Untouched /\ UNCHANGED <<ppc, result, binary>>
    BY <1>2 DEF vars, parent, child, Untouched, process, edify, walk, settings
  <2>2. Handshake'
    BY <2>1 DEF InstallInv, Untouched, Handshake, Ended, Evaluated
  <2>3. Pending' /\ Signed'
    BY <2>1 DEF InstallInv, Untouched, Pending, Signed
  <2> QED
    BY <2>1, <2>2, <2>3 DEF InstallInv, Untouched
<1> QED
  BY <1>1, <1>2

LEMMA InstallInvariance == Spec => []InstallInv
<1>1. InstallInv /\ [Next]_vars => InstallInv'
  BY NextInstall
<1> QED
  BY <1>1, InitInstall, PTL DEF Spec

-----------------------------------------------------------------------------
(* Theorems *)

\* INSTALL_SUCCESS means that the update binary has ended with code 0, its
\* script evaluated and everything it wrote read, unless fork() has failed.
THEOREM Success == Spec => []SuccessMeansDone
<1>1. InstallInv => SuccessMeansDone
  BY DEF InstallInv, Handshake, Ended, Evaluated, SuccessMeansDone
<1> QED
  BY <1>1, InstallInvariance, PTL

\* The end record that verify_file() checks is the one the backward search of
\* parseZipArchive() finds: the last one in the file.
LEMMA SameEnd ==
    ASSUME NEW p \in Packages, NEW ks, verify_file(p, ks)
    PROVE  EndOffset(p) = SignedEnd(p)
<1> DEFINE e == SignedEnd(p)
           S == {o \in p.ends : o <= p.len - ENDHDR}
<1>1. /\ ENDHDR \in Nat /\ ENDHDR >= 4 /\ p.len \in Nat /\ p.footer.comment \in Nat
      /\ p.ends \subseteq Nat /\ \A a, b \in p.ends : a < b => a + 4 <= b
  BY InstallAssumption
<1>2. e \in p.ends /\ e = p.len - p.footer.comment - ENDHDR
  BY DEF verify_file, SignedEnd
<1>3. e \in S
  BY <1>1, <1>2
<1>4. ASSUME NEW o \in S PROVE o <= e
  <2> SUFFICES ASSUME e < o PROVE FALSE
    BY <1>1, <1>2
  <2>1. o \in p.ends /\ o \in Nat /\ e \in Nat /\ e + 4 <= o /\ o <= e + p.footer.comment
    BY <1>1, <1>2
  <2>2. o - e \in 4..(p.footer.comment + ENDHDR - 4)
    BY <1>1, <2>1
  <2>3. e + (o - e) \notin p.ends
    BY <2>2 DEF verify_file, NoOtherEnd
  <2> QED
    BY <2>1, <2>3
<1>5. \A x \in S : (\A q \in S : q <= x) => x = e
  BY <1>1, <1>3, <1>4
<1> HIDE DEF S, e
<1>6. (CHOOSE o \in S : \A q \in S : q <= o) = e
  BY <1>3, <1>4, <1>5
<1>7. EndOffset(p) = IF S = {} THEN -1 ELSE CHOOSE o \in S : \A q \in S : q <= o
  BY DEF EndOffset, S
<1> QED
  BY <1>3, <1>6, <1>7 DEF e

\* With the signature check on, nothing of a package that no key has signed
\* is run, and minzip reads the directory the signature covers.
THEOREM OnlySigned == Spec => []RunsSigned
<1>1. InstallInv => RunsSigned
  BY SameEnd DEF InstallInv, Signed, RunsSigned
<1> QED
  BY <1>1, InstallInvariance, PTL

-----------------------------------------------------------------------------
(* The message of an abort *)

\* main() of the updater has an abort to report, or has reported it.
Telling == cpc = "report" \/ (cpc = "exited" /\ status = 7 /\ binary = "updater")

\* Where the lines of the message are: m have been written to the pipe, and
\* the parent has put r of them on the screen.  Lines of the script itself
\* may be in front of them.
RelayedIn(o, p, s, t, m, r) ==
    /\ r <= m /\ m <= Len(t)
    /\ Len(o) = Len(t) - m
    /\ \A i \in 1..(Len(t) - m) : o[i] = Line("ui_print", t[m + i])
    /\ m - r <= Len(p) /\ (r > 0 => Len(p) = m - r)
    /\ \A i \in 1..(m - r) : p[Len(p) - (m - r) + i] = Line("ui_print", t[r + i])
    /\ r <= Len(s)
    /\ \A i \in 1..r : s[Len(s) - r + i] = t[i]

Relayed(m, r) == RelayedIn(out, pipe, screen, AbortText, m, r)

Relay ==
    /\ IsSeq(pipe) /\ IsSeq(screen)
    /\ Telling => IsSeq(AbortText) /\ IsSeq(out)
    /\ Telling /\ Fits => \E m, r \in 0..Len(AbortText) : Relayed(m, r)

\* An exit code is that of a process that has ended; code 7 is given when
\* everything is written, and the parent returns when everything is read.
Drained ==
    /\ ~Ended => status = 0
    /\ (cpc = "exited" /\ status = 7 /\ binary = "updater") => out = <<>>
    /\ ppc = "done" => cpc = "none" \/ (Ended /\ pipe = <<>>)

\* A step that leaves every buffer alone.
LEMMA RelaySame ==
    ASSUME Relay, UNCHANGED <<out, pipe, screen, errmsg>>, Telling' => Telling
    PROVE  Relay'
<1>1. UNCHANGED AbortText /\ UNCHANGED Fits
  BY DEF AbortText, Fits
<1>2. \A m, r : Relayed(m, r) => Relayed(m, r)'
  BY <1>1 DEF Relayed, RelayedIn
<1> QED
  BY <1>1, <1>2, Zenon DEF Relay

\* A step outside the report: only the pipe may have grown.
LEMMA RelayBefore ==
    ASSUME Relay, UNCHANGED screen, ~Telling', pipe' = pipe \/ \E l : pipe' = Append(pipe, l)
    PROVE  Relay'
<1>1. CASE pipe' = pipe
  BY <1>1 DEF Relay, IsSeq
<1>2. CASE \E l : pipe' = Append(pipe, l)
  <2>1. PICK l : pipe' = Append(pipe, l)
    BY <1>2
  <2>2. IsSeq(pipe)
    BY DEF Relay
  <2>3. IsSeq(Append(pipe, l))
    BY <2>2, SeqAppended
  <2>4. pipe' \in Seq(Range(pipe'))
    BY <2>1, <2>3, Zenon DEF IsSeq
  <2> QED
    BY <2>4 DEF Relay, IsSeq
<1> QED
  BY <1>1, <1>2

\* What Finish leaves in out: one line for each of the message.
Report ==
    IF errmsg.set THEN Printed(errmsg.text)
    ELSE <<Line("ui_print", <<"script aborted (no error message)">>)>>

Formed ==
    /\ IsSeq(AbortText) /\ IsSeq(Report) /\ Len(AbortText) \in Nat
    /\ Len(Report) = Len(AbortText)
    /\ \A i \in 1..Len(AbortText) : Report[i] = Line("ui_print", AbortText[i])

LEMMA ReportLines == Printable => Formed
<1> SUFFICES ASSUME Printable PROVE Formed
  OBVIOUS
<1>1. CASE errmsg.set
  <2> DEFINE L == Lines(errmsg.text)
             P == [i \in DOMAIN L |-> Line("ui_print", L[i])]
             E == Line("ui_print", <<>>)
  <2>1. IsSeq(L)
    BY <1>1 DEF Printable, IsSeq
  <2>2. AbortText = Append(L, <<>>)
    BY <1>1 DEF AbortText
  <2>3. /\ IsSeq(AbortText) /\ Len(L) \in Nat /\ Len(AbortText) = Len(L) + 1
        /\ \A i \in 1..Len(L) : AbortText[i] = L[i]
        /\ AbortText[Len(L) + 1] = <<>>
    BY <2>1, <2>2, SeqAppended
  <2>4. DOMAIN L = 1..Len(L)
    BY <2>1, LenProperties DEF IsSeq
  <2>5. Printed(errmsg.text) = P \o <<E>>
    BY DEF Printed
  <2> HIDE DEF L
  <2> DEFINE S == {Line("ui_print", L[i]) : i \in 1..Len(L)} \cup {E}
  <2>6. P \in [1..Len(L) -> S] /\ P = [i \in 1..Len(L) |-> P[i]]
    BY <2>4
  <2>7. P \in Seq(S)
    BY <2>3, <2>6, SeqDef
  <2>8. Len(P) = Len(L)
    BY <2>3, <2>6, <2>7, LenProperties
  <2>9. \A i \in 1..Len(L) : P[i] = Line("ui_print", L[i])
    BY <2>4
  <2>10. <<E>> \in Seq(S) /\ Len(<<E>>) = 1 /\ <<E>>[1] = E
    <3>1. E \in S
      OBVIOUS
    <3> HIDE DEF S, E
    <3> QED
      BY <3>1
  <2> HIDE DEF P, S, E
  <2>11. /\ P \o <<E>> \in Seq(S) /\ Len(P \o <<E>>) = Len(L) + 1
         /\ \A i \in 1..Len(L) + 1 : (P \o <<E>>)[i] = IF i <= Len(L) THEN P[i] ELSE <<E>>[i - Len(L)]
    BY <2>7, <2>8, <2>10, ConcatProperties
  <2>12. ASSUME NEW i \in 1..Len(AbortText)
         PROVE  (P \o <<E>>)[i] = Line("ui_print", AbortText[i])
    <3>1. CASE i \in 1..Len(L)
      BY <2>3, <2>9, <2>11, <3>1
    <3>2. CASE i = Len(L) + 1
      <4>1. (P \o <<E>>)[i] = <<E>>[1]
        BY <2>3, <2>11, <3>2
      <4> QED
        BY <2>3, <2>10, <3>2, <4>1 DEF E
    <3>3. i \in 1..Len(L) \/ i = Len(L) + 1
      BY <2>3
    <3> QED
      BY <3>1, <3>2, <3>3
  <2>13. IsSeq(P \o <<E>>)
    BY <2>11, SeqOver
  <2> QED
    BY <1>1, <2>3, <2>5, <2>11, <2>12, <2>13 DEF Report, Formed
<1>2. CASE ~errmsg.set
  <2> DEFINE w == <<"script aborted (no error message)">>
             l == Line("ui_print", w)
  <2>1. AbortText = <<w>>
    BY <1>2 DEF AbortText
  <2> HIDE DEF w
  <2>2. <<w>> \in Seq({w}) /\ <<l>> \in Seq({l}) /\ Len(<<w>>) = 1 /\ Len(<<l>>) = 1
    OBVIOUS
  <2>3. IsSeq(<<w>>) /\ IsSeq(<<l>>)
    BY <2>2, SeqOver
  <2>4. \A i \in 1..1 : <<l>>[i] = Line("ui_print", <<w>>[i])
    OBVIOUS
  <2> QED
    BY <1>2, <2>1, <2>2, <2>3, <2>4 DEF w, Report, Formed
<1> QED
  BY <1>1, <1>2

\* A line goes from the updater to the pipe.
LEMMA FlushRelayed ==
    ASSUME Relay, Flush, UNCHANGED parent, cpc = "report", Fits
    PROVE  \E m, r \in 0..Len(AbortText) : Relayed(m, r)'
<1>1. /\ out # <<>> /\ pipe' = Append(pipe, Head(out)) /\ out' = Tail(out)
      /\ UNCHANGED <<errmsg, screen>>
  BY DEF Flush, parent, edify
<1>2. UNCHANGED AbortText
  BY <1>1 DEF AbortText
<1>3. IsSeq(AbortText) /\ IsSeq(out) /\ IsSeq(pipe) /\ IsSeq(screen)
  BY DEF Relay, Telling
<1> DEFINE n == Len(AbortText)
           h == Head(out)
<1>4. n \in Nat
  BY <1>3, LenProperties DEF IsSeq
<1>5. PICK m, r \in 0..n : Relayed(m, r)
  BY DEF Relay, Telling
<1>6. /\ IsSeq(Tail(out)) /\ Len(out) \in Nat \ {0} /\ Len(Tail(out)) = Len(out) - 1
      /\ \A i \in 1..(Len(out) - 1) : Tail(out)[i] = out[i + 1]
      /\ h = out[1]
  BY <1>1, <1>3, SeqHeadTail
<1> HIDE DEF h
<1>7. /\ IsSeq(Append(pipe, h)) /\ Len(pipe) \in Nat /\ Len(Append(pipe, h)) = Len(pipe) + 1
      /\ \A i \in 1..Len(pipe) : Append(pipe, h)[i] = pipe[i]
      /\ Append(pipe, h)[Len(pipe) + 1] = h
  BY <1>3, SeqAppended
<1>8. pipe' = Append(pipe, h)
  BY <1>1 DEF h
<1> HIDE DEF n
<1>9. /\ r <= m /\ m <= n /\ Len(out) = n - m
      /\ \A i \in 1..(n - m) : out[i] = Line("ui_print", AbortText[m + i])
      /\ m - r <= Len(pipe) /\ (r > 0 => Len(pipe) = m - r)
      /\ \A i \in 1..(m - r) :
             pipe[Len(pipe) - (m - r) + i] = Line("ui_print", AbortText[r + i])
      /\ r <= Len(screen)
      /\ \A i \in 1..r : screen[Len(screen) - r + i] = AbortText[i]
  BY <1>5 DEF Relayed, RelayedIn, n
<1>10. m + 1 \in 0..n /\ h = Line("ui_print", AbortText[m + 1])
  BY <1>4, <1>6, <1>9
<1>11. Len(out') = n - (m + 1)
  BY <1>1, <1>4, <1>6, <1>9
<1>12. \A i \in 1..(n - (m + 1)) : out'[i] = Line("ui_print", AbortText[m + 1 + i])
  <2> SUFFICES ASSUME NEW i \in 1..(n - (m + 1)) PROVE out'[i] = Line("ui_print", AbortText[m + 1 + i])
    OBVIOUS
  <2>1. out'[i] = out[i + 1]
    BY <1>1, <1>4, <1>6, <1>9
  <2>2. out[i + 1] = Line("ui_print", AbortText[m + (i + 1)]) /\ m + (i + 1) = m + 1 + i
    BY <1>4, <1>9
  <2> QED
    BY <2>1, <2>2
<1>13. \A i \in 1..(m + 1 - r) :
           pipe'[Len(pipe') - (m + 1 - r) + i] = Line("ui_print", AbortText[r + i])
  <2> SUFFICES ASSUME NEW i \in 1..(m + 1 - r)
               PROVE  pipe'[Len(pipe') - (m + 1 - r) + i] = Line("ui_print", AbortText[r + i])
    OBVIOUS
  <2>1. Len(pipe') - (m + 1 - r) + i = Len(pipe) - (m - r) + i
    BY <1>4, <1>7, <1>8
  <2>2. CASE i \in 1..(m - r)
    <3>1. Len(pipe) - (m - r) + i \in 1..Len(pipe)
      <4>1. Len(pipe) \in Nat /\ m \in Nat /\ r \in Nat /\ m - r <= Len(pipe) /\ r <= m
        BY <1>4, <1>7, <1>9
      <4> QED
        BY ONLY <2>2, <4>1
    <3>2. pipe'[Len(pipe) - (m - r) + i] = pipe[Len(pipe) - (m - r) + i]
      BY <1>7, <1>8, <3>1
    <3> QED
      BY <1>9, <2>1, <2>2, <3>2
  <2>3. CASE i = m + 1 - r
    <3>1. Len(pipe) - (m - r) + i = Len(pipe) + 1 /\ r + i = m + 1
      BY <1>4, <1>7, <1>9, <2>3
    <3>2. pipe'[Len(pipe) + 1] = Line("ui_print", AbortText[m + 1])
      BY <1>7, <1>8, <1>10
    <3> QED
      BY <2>1, <3>1, <3>2
  <2>4. i \in 1..(m - r) \/ i = m + 1 - r
    BY <1>4, <1>9
  <2> QED
    BY <2>2, <2>3, <2>4
<1>14. Relayed(m + 1, r)'
  <2>1. r <= m + 1 /\ m + 1 <= n /\ m + 1 - r <= Len(pipe') /\ (r > 0 => Len(pipe') = m + 1 - r)
    BY <1>4, <1>7, <1>8, <1>9, <1>10
  <2> QED
    <3>1. r <= Len(screen') /\ \A i \in 1..r : screen'[Len(screen') - r + i] = AbortText[i]
      BY <1>1, <1>9
    <3>2. n = Len(AbortText')
      BY <1>2 DEF n
    <3>3. Len(out') = Len(AbortText') - (m + 1) /\ m + 1 <= Len(AbortText')
      BY <1>11, <2>1, <3>2
    <3>4. \A i \in 1..(Len(AbortText') - (m + 1)) : out'[i] = Line("ui_print", AbortText'[m + 1 + i])
      BY <1>2, <1>12, <3>2
    <3>5. \A i \in 1..(m + 1 - r) :
              pipe'[Len(pipe') - (m + 1 - r) + i] = Line("ui_print", AbortText'[r + i])
      BY <1>2, <1>13
    <3>6. r <= Len(screen') /\ \A i \in 1..r : screen'[Len(screen') - r + i] = AbortText'[i]
      BY <1>2, <3>1
    <3>7. r <= m + 1 /\ m + 1 <= Len(AbortText')
      BY <2>1, <3>2
    <3>8. RelayedIn(out', pipe', screen', AbortText', m + 1, r)
      <4>1. r <= m + 1
        BY <2>1
      <4>2. m + 1 <= Len(AbortText')
        BY <3>7
      <4>3. Len(out') = Len(AbortText') - (m + 1)
        BY <3>3
      <4>4. \A i \in 1..(Len(AbortText') - (m + 1)) : out'[i] = Line("ui_print", AbortText'[m + 1 + i])
        BY <3>4
      <4>5. m + 1 - r <= Len(pipe')
        BY <2>1
      <4>6. r > 0 => Len(pipe') = m + 1 - r
        BY <2>1
      <4>7. \A i \in 1..(m + 1 - r) : pipe'[Len(pipe') - (m + 1 - r) + i] = Line("ui_print", AbortText'[r + i])
        BY <3>5
      <4>8. r <= Len(screen')
        BY <3>6
      <4>9. \A i \in 1..r : screen'[Len(screen') - r + i] = AbortText'[i]
        BY <3>6
      <4> QED
        BY ONLY <4>1, <4>2, <4>3, <4>4, <4>5, <4>6, <4>7, <4>8, <4>9 DEF RelayedIn
    <3> QED
      BY <3>8 DEF Relayed
<1> QED
  <2>1. r \in 0..Len(AbortText) /\ m + 1 \in 0..Len(AbortText)
    BY <1>10 DEF n
  <2> QED
    BY <1>14, <2>1

\* So the message moves on, and everything stays a sequence.
LEMMA RelayFlush ==
    ASSUME Relay, Flush, UNCHANGED parent, cpc = "report"
    PROVE  Relay'
<1>1. /\ out # <<>> /\ pipe' = Append(pipe, Head(out)) /\ out' = Tail(out)
      /\ UNCHANGED <<errmsg, screen>>
  BY DEF Flush, parent, edify
<1>2. UNCHANGED AbortText /\ UNCHANGED Fits
  BY <1>1 DEF AbortText, Fits
<1>3. IsSeq(AbortText) /\ IsSeq(out) /\ IsSeq(pipe) /\ IsSeq(screen)
  BY DEF Relay, Telling
<1>4. IsSeq(Tail(out)) /\ IsSeq(Append(pipe, Head(out)))
  BY <1>1, <1>3, SeqHeadTail, SeqAppended
<1>5. /\ pipe' \in Seq(Range(pipe')) /\ out' \in Seq(Range(out'))
  BY <1>1, <1>4, Zenon DEF IsSeq
<1>6. Fits => \E m, r \in 0..Len(AbortText) : Relayed(m, r)'
  BY FlushRelayed
<1> QED
  BY <1>1, <1>2, <1>3, <1>5, <1>6 DEF Relay, IsSeq

\* What is left of a line stays at the front of the pipe.
LEMMA FirstReplaced ==
    ASSUME NEW q, IsSeq(q), Len(q) \in Nat \ {0}, NEW e
    PROVE  LET x == [q EXCEPT ![1] = e]
           IN  IsSeq(x) /\ Len(x) = Len(q) /\ \A i \in 2..Len(q) : x[i] = q[i]
<1> DEFINE x == [q EXCEPT ![1] = e]
           S == Range(q) \cup {e}
<1>1. q \in [1..Len(q) -> Range(q)]
  BY LenProperties DEF IsSeq
<1>2. x \in [1..Len(q) -> S]
  BY <1>1
<1>3. x \in Seq(S) /\ \A i \in 2..Len(q) : x[i] = q[i]
  BY <1>1, <1>2, SeqDef
<1>4. Len(x) = Len(q)
  BY <1>2, <1>3, LenProperties
<1> HIDE DEF x, S
<1>5. IsSeq(x)
  BY <1>3, SeqOver
<1> QED
  BY <1>3, <1>4, <1>5 DEF x

\* A line goes from the pipe to the screen, if it is text; of a line that is
\* too long the rest stays, and is none of the message.
LEMMA RelayObey ==
    ASSUME Relay, Obey
    PROVE  Relay'
<1> DEFINE l == Head(pipe)
<1>1. /\ pipe # <<>>
      /\ pipe' = (IF TooLong(l) THEN [pipe EXCEPT ![1] = Rest(l)] ELSE Tail(pipe))
      /\ screen' = (IF l.cmd = "ui_print" THEN Append(screen, Shown(l)) ELSE screen)
      /\ UNCHANGED <<errmsg, out, cpc, status, binary>>
  BY DEF Obey, updater, edify
<1>2. UNCHANGED AbortText /\ UNCHANGED Telling /\ UNCHANGED Fits
  BY <1>1 DEF AbortText, Telling, Fits
<1>3. IsSeq(pipe) /\ IsSeq(screen)
  BY DEF Relay
<1>4. /\ IsSeq(Tail(pipe)) /\ Len(pipe) \in Nat \ {0} /\ Len(Tail(pipe)) = Len(pipe) - 1
      /\ \A i \in 1..(Len(pipe) - 1) : Tail(pipe)[i] = pipe[i + 1]
      /\ l = pipe[1]
  BY <1>1, <1>3, SeqHeadTail
<1> HIDE DEF l
<1> DEFINE t == Append(screen, Shown(l))
           x == [pipe EXCEPT ![1] = Rest(l)]
<1>5. /\ IsSeq(t) /\ Len(screen) \in Nat /\ Len(t) = Len(screen) + 1
      /\ \A i \in 1..Len(screen) : t[i] = screen[i]
      /\ t[Len(screen) + 1] = Shown(l)
  BY <1>3, SeqAppended
<1>9. IsSeq(x) /\ Len(x) = Len(pipe) /\ \A i \in 2..Len(pipe) : x[i] = pipe[i]
  BY <1>3, <1>4, FirstReplaced
<1>6. IsSeq(pipe)' /\ IsSeq(screen)'
  <2>1. screen' = t \/ screen' = screen
    BY <1>1
  <2> HIDE DEF t
  <2>3. pipe' = x \/ pipe' = Tail(pipe)
    BY <1>1
  <2> HIDE DEF x
  <2>2. screen' \in Seq(Range(screen')) /\ pipe' \in Seq(Range(pipe'))
    BY <1>3, <1>4, <1>5, <1>9, <2>1, <2>3, Zenon DEF IsSeq
  <2> QED
    BY <2>2 DEF IsSeq
<1>7. ASSUME Telling, Fits
      PROVE  \E m, r \in 0..Len(AbortText) : Relayed(m, r)'
  <2> DEFINE n == Len(AbortText)
  <2>1. IsSeq(AbortText) /\ n \in Nat
    BY <1>7, LenProperties DEF Relay, IsSeq
  <2>2. PICK m, r \in 0..n : Relayed(m, r)
    BY <1>7 DEF Relay
  <2> HIDE DEF n
  <2>3. /\ r <= m /\ m <= n /\ Len(out) = n - m
        /\ \A i \in 1..(n - m) : out[i] = Line("ui_print", AbortText[m + i])
        /\ m - r <= Len(pipe) /\ (r > 0 => Len(pipe) = m - r)
        /\ \A i \in 1..(m - r) :
               pipe[Len(pipe) - (m - r) + i] = Line("ui_print", AbortText[r + i])
        /\ r <= Len(screen)
        /\ \A i \in 1..r : screen[Len(screen) - r + i] = AbortText[i]
    BY <2>2 DEF Relayed, RelayedIn, n
  <2>4. CASE Len(pipe) = m - r
    <3>1. r + 1 \in 1..n /\ l = Line("ui_print", AbortText[r + 1])
      <4>1. 1 \in 1..(m - r) /\ Len(pipe) - (m - r) + 1 = 1 /\ r + 1 \in 1..n
        BY <1>4, <2>1, <2>3, <2>4
      <4>2. pipe[Len(pipe) - (m - r) + 1] = Line("ui_print", AbortText[r + 1])
        BY <2>3, <4>1
      <4> QED
        BY <1>4, <4>1, <4>2
    <3>8. l.cmd = "ui_print" /\ l.arg = AbortText[r + 1]
      BY <3>1 DEF Line
    <3>9. ~TooLong(l)
      <4>1. r + 1 \in DOMAIN AbortText
        BY <2>1, <3>1, LenProperties DEF IsSeq, n
      <4>2. InBuffer(AbortText[r + 1])
        BY <1>7, <4>1 DEF Fits
      <4> QED
        BY <3>8, <4>2 DEF TooLong
    <3>2. screen' = t /\ Shown(l) = AbortText[r + 1] /\ pipe' = Tail(pipe)
      BY <1>1, <3>8, <3>9 DEF Shown
    <3> HIDE DEF t
    <3>3. Len(pipe') = m - (r + 1) /\ Len(screen') = Len(screen) + 1 /\ r + 1 <= m
      BY <1>4, <1>5, <2>1, <2>4, <3>2
    <3>4. \A i \in 1..(m - (r + 1)) :
              pipe'[Len(pipe') - (m - (r + 1)) + i] = Line("ui_print", AbortText[r + 1 + i])
      <4> SUFFICES ASSUME NEW i \in 1..(m - (r + 1))
                   PROVE  pipe'[Len(pipe') - (m - (r + 1)) + i] = Line("ui_print", AbortText[r + 1 + i])
        OBVIOUS
      <4>1. Len(pipe') - (m - (r + 1)) + i = i /\ i \in 1..(Len(pipe) - 1) /\ i + 1 \in 1..(m - r)
        <5>1. /\ m \in Nat /\ r \in Nat /\ r + 1 <= m /\ Len(pipe) = m - r
              /\ Len(pipe') = m - (r + 1) /\ i \in 1..(m - (r + 1))
          BY <1>4, <2>1, <2>4, <3>3
        <5> QED
          BY ONLY <5>1
      <4>2. pipe'[i] = pipe[i + 1]
        BY <1>4, <3>2, <4>1
      <4>3. pipe[Len(pipe) - (m - r) + (i + 1)] = Line("ui_print", AbortText[r + (i + 1)])
        BY <2>3, <4>1
      <4>4. Len(pipe) - (m - r) + (i + 1) = i + 1 /\ r + (i + 1) = r + 1 + i
        <5>1. i \in Int /\ m \in Int /\ r \in Int
          BY <2>1
        <5> QED
          BY <2>4, <5>1
      <4> QED
        BY <4>1, <4>2, <4>3, <4>4
    <3>5. \A i \in 1..(r + 1) : screen'[Len(screen') - (r + 1) + i] = AbortText[i]
      <4> SUFFICES ASSUME NEW i \in 1..(r + 1)
                   PROVE  screen'[Len(screen') - (r + 1) + i] = AbortText[i]
        OBVIOUS
      <4>1. Len(screen') - (r + 1) + i = Len(screen) - r + i
        BY <1>5, <2>1, <3>3
      <4>2. CASE i \in 1..r
        <5>1. Len(screen) - r + i \in 1..Len(screen)
          BY <1>5, <2>1, <2>3, <4>2
        <5>2. screen'[Len(screen) - r + i] = screen[Len(screen) - r + i]
          BY <1>5, <3>2, <5>1
        <5> QED
          BY <2>3, <4>1, <4>2, <5>2
      <4>3. CASE i = r + 1
        <5>1. Len(screen) - r + i = Len(screen) + 1
          BY <1>5, <2>1, <4>3
        <5> QED
          BY <1>5, <3>2, <4>1, <4>3, <5>1
      <4>4. i \in 1..r \/ i = r + 1
        BY <2>1
      <4> QED
        BY <4>2, <4>3, <4>4
    <3>6. r + 1 <= Len(screen')
      BY <1>5, <2>1, <2>3, <3>3
    <3>7. Relayed(m, r + 1)'
      <4>1. Len(out') = Len(AbortText') - m /\ m <= Len(AbortText')
        BY <1>1, <1>2, <2>3 DEF n
      <4>2. \A i \in 1..(Len(AbortText') - m) : out'[i] = Line("ui_print", AbortText'[m + i])
        BY <1>1, <1>2, <2>3 DEF n
      <4>3. m - (r + 1) <= Len(pipe')
        BY <2>1, <3>3
      <4> QED
        BY <1>2, <3>3, <3>4, <3>5, <3>6, <4>1, <4>2, <4>3 DEF Relayed, RelayedIn
    <3>10. r + 1 \in 0..n
      BY <3>1
    <3> QED
      BY <3>7, <3>10 DEF n
  <2>5. CASE Len(pipe) # m - r /\ ~TooLong(l)
    <3>1. r = 0 /\ m <= Len(pipe) - 1
      BY <1>4, <2>1, <2>3, <2>5
    <3>6. pipe' = Tail(pipe)
      BY <1>1, <2>5
    <3>2. Len(pipe') = Len(pipe) - 1
      BY <1>4, <3>6
    <3>3. \A i \in 1..(m - 0) : pipe'[Len(pipe') - (m - 0) + i] = Line("ui_print", AbortText[0 + i])
      <4> SUFFICES ASSUME NEW i \in 1..m
                   PROVE  pipe'[Len(pipe') - (m - 0) + i] = Line("ui_print", AbortText[0 + i])
        BY <2>1
      <4>1. /\ Len(pipe') - (m - 0) + i = Len(pipe) - 1 - m + i
            /\ Len(pipe) - 1 - m + i \in 1..(Len(pipe) - 1)
        BY <1>4, <2>1, <3>1, <3>2
      <4>2. pipe'[Len(pipe) - 1 - m + i] = pipe[Len(pipe) - 1 - m + i + 1]
        BY <1>4, <3>6, <4>1
      <4>3. pipe[Len(pipe) - (m - r) + i] = Line("ui_print", AbortText[r + i]) /\ r + i = 0 + i
        BY <2>1, <2>3, <3>1
      <4>4. Len(pipe) - 1 - m + i + 1 = Len(pipe) - (m - r) + i
        BY <1>4, <2>1, <3>1
      <4> QED
        BY <4>1, <4>2, <4>3, <4>4
    <3>4. 0 <= Len(screen') /\ m - 0 <= Len(pipe')
      <4>1. Len(screen') \in Nat
        BY <1>6, LenProperties DEF IsSeq
      <4> QED
        BY <1>4, <2>1, <3>1, <3>2, <4>1
    <3>5. Relayed(m, 0)'
      BY <1>1, <1>2, <2>1, <2>3, <3>1, <3>3, <3>4 DEF Relayed, RelayedIn, n
    <3> QED
      BY <3>1, <3>5 DEF n
  <2>6. CASE Len(pipe) # m - r /\ TooLong(l)
    <3>1. r = 0 /\ m <= Len(pipe) - 1
      BY <1>4, <2>1, <2>3, <2>6
    <3>2. pipe' = x
      BY <1>1, <2>6
    <3> HIDE DEF x
    <3>3. Len(pipe') = Len(pipe)
      BY <1>9, <3>2
    <3>4. \A i \in 1..(m - 0) : pipe'[Len(pipe') - (m - 0) + i] = Line("ui_print", AbortText[0 + i])
      <4> SUFFICES ASSUME NEW i \in 1..m
                   PROVE  pipe'[Len(pipe') - (m - 0) + i] = Line("ui_print", AbortText[0 + i])
        BY <2>1
      <4>1. Len(pipe') - (m - 0) + i = Len(pipe) - m + i /\ Len(pipe) - m + i \in 2..Len(pipe)
        BY <1>4, <2>1, <3>1, <3>3
      <4>2. pipe'[Len(pipe) - m + i] = pipe[Len(pipe) - m + i]
        BY <1>9, <3>2, <4>1
      <4>3. pipe[Len(pipe) - (m - r) + i] = Line("ui_print", AbortText[r + i]) /\ r + i = 0 + i
        BY <2>1, <2>3, <3>1
      <4>4. Len(pipe) - m + i = Len(pipe) - (m - r) + i
        BY <1>4, <2>1, <3>1
      <4> QED
        BY <4>1, <4>2, <4>3, <4>4
    <3>5. 0 <= Len(screen') /\ m - 0 <= Len(pipe')
      <4>1. Len(screen') \in Nat
        BY <1>6, LenProperties DEF IsSeq
      <4> QED
        BY <1>4, <2>1, <3>1, <3>3, <4>1
    <3>6. Relayed(m, 0)'
      BY <1>1, <1>2, <2>1, <2>3, <3>1, <3>4, <3>5 DEF Relayed, RelayedIn, n
    <3> QED
      BY <3>1, <3>6 DEF n
  <2> QED
    BY <2>4, <2>5, <2>6
<1>8. Telling' => (IsSeq(AbortText) /\ IsSeq(out))'
  BY <1>1, <1>2 DEF Relay, IsSeq
<1> QED
  BY <1>2, <1>6, <1>7, <1>8 DEF Relay

RelayInv == InstallInv /\ Relay /\ Drained

LEMMA InitRelay == Init => RelayInv
<1> SUFFICES ASSUME Init PROVE RelayInv
  OBVIOUS
<1>1. <<>> \in Seq({}) /\ Range(<<>>) = {}
  BY DEF Range
<1>2. IsSeq(<<>>)
  BY <1>1 DEF IsSeq
<1>3. Relay
  BY <1>2 DEF Init, Relay, Telling
<1> QED
  BY <1>3, InitInstall DEF Init, RelayInv, Drained, Ended

\* The updater: the message is formed, written, and then the process ends.
LEMMA ChildRelay ==
    ASSUME RelayInv, Child, Printable'
    PROVE  Relay' /\ Drained'
<1>0. UNCHANGED <<ppc, binary, result, screen>>
  BY DEF Child, parent
<1>1. CASE InScript
  <2>1. /\ cpc = "eval" /\ pipe' = pipe
        /\ UNCHANGED <<cpc, status>> \/ (cpc' = "exited" /\ status' = 256)
    BY <1>1 DEF InScript, process, Crash, Signal
  <2>2. ~Telling'
    BY <2>1 DEF Telling
  <2>3. Relay'
    BY <1>0, <2>1, <2>2, RelayBefore DEF RelayInv
  <2> QED
    BY <1>0, <2>1, <2>3 DEF RelayInv, Drained, Ended
<1>2. CASE Start
  <2>1. /\ cpc = "main" /\ pipe' = pipe
        /\ \/ cpc' = "exited" /\ status' \in {3, 4, 5, 6}
           \/ cpc' = "eval" /\ UNCHANGED status
    <3>1. /\ cpc = "main"
          /\ \/ Exit(3) \/ Exit(4) \/ Exit(5) \/ Exit(6)
             \/ cpc' = "eval" /\ UNCHANGED <<package, pipe, status>>
      BY <1>2, Zenon DEF Start
    <3> QED
      BY <3>1 DEF Exit
  <2>2. ~Telling'
    BY <2>1 DEF Telling, RelayInv, Drained, Ended
  <2>3. Relay'
    BY <1>0, <2>1, <2>2, RelayBefore DEF RelayInv
  <2> QED
    BY <1>0, <2>1, <2>3 DEF RelayInv, Drained, Ended, InstallInv, Handshake
<1>3. CASE Finish
  <2>1. /\ cpc = "eval" /\ pipe' = pipe
        /\ \/ cpc' = "exited" /\ status' = 0
           \/ /\ cpc' = "report" /\ UNCHANGED status
              /\ out' = (IF errmsg'.set THEN Printed(errmsg'.text)
                         ELSE <<Line("ui_print", <<"script aborted (no error message)">>)>>)
    BY <1>3 DEF Finish, Running, Exit
  <2>2. Drained'
    <3>1. cpc = "eval" /\ ((cpc' = "exited" /\ status' = 0) \/ (cpc' = "report" /\ status' = status))
      BY <2>1
    <3> QED
      BY <1>0, <3>1 DEF RelayInv, Drained, Ended
  <2>3. CASE cpc' = "exited"
    <3>1. ~Telling'
      BY <2>1, <2>3 DEF Telling
    <3> QED
      BY <1>0, <2>1, <2>2, <3>1, RelayBefore DEF RelayInv
  <2>4. CASE cpc' = "report"
    <3>1. /\ IsSeq(AbortText)' /\ IsSeq(out)' /\ Len(AbortText') \in Nat
          /\ Len(out') = Len(AbortText')
          /\ \A i \in 1..Len(AbortText') : out'[i] = Line("ui_print", AbortText'[i])
      <4>1. Formed'
        BY ReportLines, PTL
      <4>2. out' = Report'
        BY <2>1, <2>4 DEF Report
      <4> QED
        BY <4>1, <4>2 DEF Formed, IsSeq
    <3>2. Len(pipe) \in Nat /\ Len(screen) \in Nat /\ IsSeq(pipe)' /\ IsSeq(screen)'
      BY <1>0, <2>1, LenProperties DEF RelayInv, Relay, IsSeq
    <3>3. Relayed(0, 0)'
      <4>1. /\ Len(out') = Len(AbortText') - 0 /\ 0 <= Len(AbortText')
            /\ 0 - 0 <= Len(pipe') /\ 0 <= Len(screen')
        <5>1. pipe' = pipe /\ screen' = screen
          BY <1>0, <2>1
        <5> QED
          BY <3>1, <3>2, <5>1
      <4>2. \A i \in 1..(Len(AbortText') - 0) : out'[i] = Line("ui_print", AbortText'[0 + i])
        BY <3>1
      <4> QED
        BY <4>1, <4>2 DEF Relayed, RelayedIn
    <3> QED
      BY <2>2, <3>1, <3>2, <3>3 DEF Relay
  <2> QED
    BY <2>1, <2>3, <2>4
<1>4. CASE Flush
  <2>1. /\ cpc \in {"eval", "report"} /\ UNCHANGED <<cpc, status>>
        /\ pipe' = Append(pipe, Head(out))
    BY <1>4 DEF Flush
  <2>2. Drained'
    BY <1>0, <2>1 DEF RelayInv, Drained, Ended
  <2>3. CASE cpc = "report"
    BY <1>4, <2>2, <2>3, RelayFlush DEF RelayInv, Child
  <2>4. CASE cpc = "eval"
    <3>1. ~Telling'
      BY <2>1, <2>4 DEF Telling
    <3> QED
      BY <1>0, <2>1, <2>2, <3>1, RelayBefore DEF RelayInv
  <2> QED
    BY <2>1, <2>3, <2>4
<1>5. CASE Reported
  <2>1. /\ cpc = "report" /\ out = <<>> /\ UNCHANGED <<out, pipe, errmsg>>
        /\ cpc' = "exited" /\ status' = 7
    BY <1>5 DEF Reported, Exit, edify
  <2>2. Relay'
    BY <1>0, <2>1, RelaySame DEF RelayInv, Telling
  <2>3. ppc # "done"
    BY <2>1 DEF RelayInv, Drained, Ended, InstallInv, Handshake
  <2> QED
    BY <1>0, <2>1, <2>2, <2>3 DEF RelayInv, Drained, Ended
<1>6. CASE Kill
  <2>1. cpc \in {"main", "eval", "report"} /\ pipe' = pipe /\ cpc' = "exited" /\ status' = 256
    BY <1>6 DEF Kill, Crash, Signal
  <2>2. ~Telling'
    BY <2>1 DEF Telling
  <2>3. Relay'
    BY <1>0, <2>1, <2>2, RelayBefore DEF RelayInv
  <2> QED
    BY <1>0, <2>1, <2>3 DEF RelayInv, Drained, Ended
<1> QED
  BY <1>1, <1>2, <1>3, <1>4, <1>5, <1>6, UpdaterSteps DEF Child, RelayInv, InstallInv

LEMMA OtherRelay ==
    ASSUME RelayInv, OtherWrites \/ OtherExits
    PROVE  Relay' /\ Drained'
<1>1. /\ cpc = "other" /\ UNCHANGED <<ppc, binary, screen>>
      /\ pipe' = pipe \/ \E l : pipe' = Append(pipe, l)
      /\ (cpc' = "other" /\ UNCHANGED status) \/ (cpc' = "exited")
  BY DEF OtherWrites, OtherExits, parent
<1>2. binary = "other" /\ ppc # "done"
  BY <1>1 DEF RelayInv, InstallInv, Handshake, Ended, Drained
<1>3. ~Telling'
  BY <1>1, <1>2 DEF Telling
<1>4. Relay'
  BY <1>1, <1>3, RelayBefore DEF RelayInv
<1> QED
  BY <1>1, <1>2, <1>4 DEF RelayInv, Drained, Ended

\* The parent: it returns when the pipe is empty and the child has ended.
LEMMA ParentRelay ==
    ASSUME RelayInv, Parent
    PROVE  Relay' /\ Drained'
<1>1. CASE EnsureMounted \/ LoadKeys \/ Verify \/ Open \/ FindBinary \/ ExtractBinary
  <2>1. UNCHANGED <<cpc, status, out, pipe, errmsg, screen>>
    BY <1>1 DEF EnsureMounted, LoadKeys, Verify, Open, FindBinary, ExtractBinary, process,
                updater, edify, ui
  <2>2. cpc = "none"
    BY <1>1 DEF EnsureMounted, LoadKeys, Verify, Open, FindBinary, ExtractBinary,
                RelayInv, InstallInv, Handshake, Ended, Before
  <2>3. Relay'
    BY <2>1, <2>2, RelaySame DEF RelayInv, Telling
  <2> QED
    BY <2>1, <2>2, <2>3 DEF RelayInv, Drained, Ended
<1>2. CASE Fork
  <2>1. /\ ppc = "fork" /\ ppc' = "read" /\ UNCHANGED <<pipe, screen>>
        /\ \/ cpc' \in {"main", "other"} /\ status' = 0
           \/ cpc' = "exited" /\ status' = 255
           \/ cpc' = "unborn"
    BY <1>2 DEF Fork, Next_, ui
  <2>2. ~Telling'
    BY <2>1 DEF Telling
  <2>3. Relay'
    BY <2>1, <2>2, RelayBefore DEF RelayInv
  <2> QED
    BY <2>1, <2>3 DEF Drained, Ended
<1>3. CASE Obey
  <2>1. ppc = "read" /\ UNCHANGED <<ppc, binary, out, cpc, status>>
    BY <1>3 DEF Obey, updater
  <2>2. Relay'
    BY <1>3, RelayObey DEF RelayInv
  <2> QED
    BY <2>1, <2>2 DEF RelayInv, Drained, Ended
<1>5. CASE ObeyDies
  <2>1. /\ UNCHANGED screen /\ pipe' = <<>> /\ cpc' = "exited" /\ status' = 256
    BY <1>5 DEF ObeyDies, INSTALL, Signal, ui
  <2>2. ~Telling'
    BY <2>1 DEF Telling
  <2>3. <<>> \in Seq({})
    OBVIOUS
  <2>4. IsSeq(<<>>)
    BY <2>3, SeqOver
  <2>5. IsSeq(pipe') /\ IsSeq(screen')
    BY <2>1, <2>4 DEF RelayInv, Relay
  <2>6. Relay'
    BY <2>2, <2>5 DEF Relay, IsSeq
  <2> QED
    BY <2>1, <2>6 DEF Drained, Ended
<1>4. CASE EndOfFile \/ WaitPid \/ HandleFirmware
  <2>1. UNCHANGED <<cpc, status, out, pipe, errmsg, screen, binary>>
    BY <1>4 DEF EndOfFile, WaitPid, HandleFirmware, process, updater, edify, ui
  <2>2. Ended /\ pipe = <<>>
    BY <1>4 DEF EndOfFile, WaitPid, HandleFirmware, RelayInv, InstallInv, Handshake, Ended
  <2>3. Relay'
    BY <2>1, RelaySame DEF RelayInv, Telling
  <2> QED
    BY <2>1, <2>2, <2>3 DEF RelayInv, Drained, Ended
<1> QED
  BY <1>1, <1>2, <1>3, <1>4, <1>5 DEF Parent

LEMMA NextRelay == RelayInv /\ Printable' /\ [Next]_vars => RelayInv'
<1> SUFFICES ASSUME RelayInv, Printable', [Next]_vars PROVE RelayInv'
  OBVIOUS
<1>1. InstallInv'
  BY NextInstall DEF RelayInv
<1>2. CASE Next
  BY <1>1, <1>2, ChildRelay, OtherRelay, ParentRelay DEF Next, RelayInv
<1>3. CASE UNCHANGED vars
  <2>1. UNCHANGED <<ppc, binary, cpc, status, out, pipe, errmsg, screen>>
    BY <1>3 DEF vars, parent, child, process, edify
  <2>2. Relay'
    BY <2>1, RelaySame DEF RelayInv, Telling
  <2> QED
    BY <1>1, <2>1, <2>2 DEF RelayInv, Drained, Ended
<1> QED
  BY <1>2, <1>3

\* The lines that are at the end of the screen are a suffix of it.
LEMMA EndOfScreen ==
    ASSUME NEW a, NEW q, IsSeq(a), IsSeq(q), Len(a) <= Len(q),
           \A i \in 1..Len(a) : q[Len(q) - Len(a) + i] = a[i]
    PROVE  IsSuffix(a, q)
<1> DEFINE n == Len(a)
           k == Len(q)
<1>1. n \in Nat /\ k \in Nat
  BY LenProperties DEF IsSeq
<1>2. \A i \in 1..n : Reverse(a)[i] = a[n - i + 1]
  BY DEF Reverse
<1>3. \A i \in 1..k : Reverse(q)[i] = q[k - i + 1]
  BY DEF Reverse
<1>4. Len(Reverse(a)) = n /\ Len(Reverse(q)) = k
  BY <1>1 DEF Reverse
<1> HIDE DEF n, k
<1>5. ASSUME NEW i \in 1..n PROVE Reverse(a)[i] = Reverse(q)[i]
  <2>1. n - i + 1 \in 1..n /\ i \in 1..k /\ k - n + (n - i + 1) = k - i + 1
    BY <1>1 DEF n, k
  <2>2. q[k - n + (n - i + 1)] = a[n - i + 1]
    BY <2>1 DEF n, k
  <2> QED
    BY <1>2, <1>3, <2>1, <2>2
<1>6. SubSeq(Reverse(a), 1, n) = SubSeq(Reverse(q), 1, n)
  <2> DEFINE S == {Reverse(a)[i] : i \in 1..n}
             s1 == SubSeq(Reverse(a), 1, n)
             s2 == SubSeq(Reverse(q), 1, n)
  <2>1. \A i \in 1..n : Reverse(a)[i] \in S /\ Reverse(q)[i] \in S
    BY <1>5
  <2> HIDE DEF S
  <2>2. 1 \in Int /\ n \in Int /\ n - 1 + 1 = n
    BY <1>1
  <2>3. /\ s1 \in Seq(S) /\ Len(s1) = IF 1 <= n THEN n - 1 + 1 ELSE 0
        /\ \A i \in 1..n - 1 + 1 : s1[i] = Reverse(a)[1 + i - 1]
    BY <2>1, <2>2, SubSeqProperties
  <2>4. /\ s2 \in Seq(S) /\ Len(s2) = IF 1 <= n THEN n - 1 + 1 ELSE 0
        /\ \A i \in 1..n - 1 + 1 : s2[i] = Reverse(q)[1 + i - 1]
    BY <2>1, <2>2, SubSeqProperties
  <2> HIDE DEF s1, s2
  <2>5. Len(s1) = n /\ Len(s2) = n
    BY <1>1, <2>3, <2>4
  <2>6. \A i \in 1..n : s1[i] = s2[i]
    <3> SUFFICES ASSUME NEW i \in 1..n PROVE s1[i] = s2[i]
      OBVIOUS
    <3>1. 1 + i - 1 = i /\ i \in 1..n - 1 + 1
      BY <1>1
    <3> QED
      BY <1>5, <2>3, <2>4, <3>1
  <2>7. s1 = s2
    BY <2>3, <2>4, <2>5, <2>6, SeqEqual
  <2> QED
    BY <2>7 DEF s1, s2
<1> QED
  BY <1>4, <1>6 DEF IsSuffix, IsPrefix, n, k

-----------------------------------------------------------------------------
(* Types *)

\* The C stack: expressions of the script with the values of some arguments.
IsFrame(f) ==
    /\ f = [e |-> f.e, vals |-> f.vals] /\ f.e \in Exprs /\ IsSeq(f.vals)
    /\ \A j \in 1..Len(f.vals) : IsValue(f.vals[j])

Frames ==
    /\ IsSeq(stack) /\ \A k \in 1..Len(stack) : IsFrame(stack[k])
    /\ IsValue(ret) /\ IsSeq(errmsg.text)
    /\ xi \in Nat /\ (xi > 0 => stack # <<>>)

\* What a step does to the stack: an argument is begun or has its value, or
\* a function returns a value, and where it takes it from.
Says == UNCHANGED errmsg \/ \E m : IsSeq(m) /\ errmsg' = Message(m)
Pushes == stack # <<>> /\ \E i \in 1..Argc : Arg(i)
Returns ==
    /\ stack # <<>> /\ Says
    /\ \E v : /\ Return(v)
              /\ \/ v = Null \/ (\E s : IsSeq(s) /\ v = StringValue(s)) \/ (\E d : v = Blob(d))
                 \/ \E i \in 1..Got : v = Top.vals[i]
StackStep == Pushes \/ Returns \/ Deliver \/ UNCHANGED <<stack, ret, errmsg>>

LEMMA ShortSeqs == IsSeq(<<>>) /\ \A x : IsSeq(<<x>>)
<1>1. <<>> \in Seq({}) /\ \A x : <<x>> \in Seq({x})
  OBVIOUS
<1> QED
  BY <1>1, SeqOver

LEMMA Booleans == \A b : IsSeq(IF b THEN True ELSE False)
BY ShortSeqs DEF True, False

LEMMA Values ==
    /\ IsValue(None) /\ IsValue(Null)
    /\ (\A s : IsSeq(s) => IsValue(StringValue(s))) /\ \A d : IsValue(Blob(d))
BY ShortSeqs DEF IsValue, None, Null, StringValue, Blob

LEMMA Saying == ASSUME Frames, Says PROVE IsSeq(errmsg.text)'
<1>1. CASE UNCHANGED errmsg
  BY <1>1 DEF Frames, IsSeq
<1>2. ASSUME NEW m, IsSeq(m), errmsg' = Message(m) PROVE IsSeq(errmsg.text)'
  <2>1. errmsg'.text = m
    BY <1>2 DEF Message
  <2> QED
    BY <1>2, <2>1 DEF IsSeq
<1> QED
  BY <1>1, <1>2 DEF Says

\* What the function on top of the stack finds there.
LEMMA TopFrame ==
    ASSUME Frames, stack # <<>>
    PROVE  /\ Top.e \in Exprs /\ IsSeq(Top.e.text)
           /\ Argc \in Nat /\ \A i \in 1..Argc : Top.e.args[i] \in Exprs
           /\ Top.e.fn \in {"&&", "||"} => Argc = 2
           /\ Got \in Nat /\ \A i \in 1..Got : IsValue(Top.vals[i]) /\ IsSeq(A(i))
<1>1. Top = stack[1] /\ 1 \in 1..Len(stack)
  BY SeqHeadTail DEF Frames, Top
<1>2. IsFrame(Top)
  BY <1>1 DEF Frames
<1>3. /\ Top.e \in Exprs /\ IsSeq(Top.vals)
      /\ \A i \in 1..Got : IsValue(Top.vals[i])
  BY <1>2 DEF IsFrame, Got
<1>4. Got \in Nat
  BY <1>3, LenProperties DEF Got, IsSeq
<1>5. Top.e.args \in Seq(Exprs) /\ IsSeq(Top.e.text) /\ (Top.e.fn \in {"&&", "||"} => Argc = 2)
  BY <1>3, UpdaterAssumption DEF Argc
<1>6. Argc \in Nat /\ \A i \in 1..Argc : Top.e.args[i] \in Exprs
  BY <1>5, LenProperties, ElementOfSeq DEF Argc
<1> QED
  BY <1>3, <1>4, <1>5, <1>6 DEF IsValue, A

LEMMA StackSteps ==
    ASSUME Frames, StackStep
    PROVE  /\ IsSeq(stack)' /\ (\A k \in 1..Len(stack) : IsFrame(stack[k]))'
           /\ IsValue(ret)' /\ IsSeq(errmsg.text)'
<1>0. IsSeq(stack) /\ Len(stack) \in Nat
  BY LenProperties DEF Frames, IsSeq
<1>1. CASE Pushes
  <2>0. stack # <<>>
    BY <1>1 DEF Pushes
  <2>1. PICK i \in 1..Argc : /\ stack' = <<Frame(Top.e.args[i])>> \o stack
                             /\ UNCHANGED <<ret, errmsg>>
    BY <1>1 DEF Pushes, Arg
  <2>9. IsSeq(errmsg.text)'
    BY <2>1, Saying DEF Says
  <2> DEFINE f == Frame(Top.e.args[i])
             S == Range(stack) \cup {f}
  <2>2. stack \in Seq(S) /\ f \in S
    BY <1>0, SeqMonotonic DEF IsSeq
  <2>3. IsFrame(f)
    <3>1. f.vals = <<>> /\ f = [e |-> f.e, vals |-> f.vals] /\ f.e = Top.e.args[i]
      BY DEF Frame
    <3>2. <<>> \in Seq({}) /\ Len(<<>>) = 0
      OBVIOUS
    <3>3. IsSeq(<<>>) /\ f.e \in Exprs
      BY <2>0, <2>1, <3>1, ShortSeqs, TopFrame
    <3> QED
      BY <3>1, <3>2, <3>3 DEF IsFrame
  <2> HIDE DEF f, S
  <2>4. <<f>> \in Seq(S) /\ Len(<<f>>) = 1 /\ <<f>>[1] = f
    BY <2>2
  <2>5. /\ <<f>> \o stack \in Seq(S) /\ Len(<<f>> \o stack) = 1 + Len(stack)
        /\ \A k \in 1..(1 + Len(stack)) :
               (<<f>> \o stack)[k] = IF k <= 1 THEN <<f>>[k] ELSE stack[k - 1]
    BY <2>2, <2>4, ConcatProperties
  <2>6. ASSUME NEW k \in 1..(1 + Len(stack)) PROVE IsFrame((<<f>> \o stack)[k])
    <3>1. CASE k = 1
      BY <2>3, <2>4, <2>5, <3>1
    <3>2. CASE k # 1
      <4>1. k - 1 \in 1..Len(stack) /\ ~(k <= 1)
        BY <1>0, <3>2
      <4>2. IsFrame(stack[k - 1])
        BY <4>1 DEF Frames
      <4> QED
        BY <2>5, <4>1, <4>2
    <3> QED
      BY <3>1, <3>2
  <2>7. stack' = <<f>> \o stack
    BY <2>1 DEF f
  <2>8. IsSeq(<<f>> \o stack)
    BY <2>5, SeqOver
  <2> QED
    BY <2>1, <2>5, <2>6, <2>7, <2>8, <2>9 DEF Frames, IsSeq, IsFrame, IsValue
<1>2. CASE Returns
  <2>1. PICK v : /\ stack' = Tail(stack) /\ ret' = v
                 /\ \/ v = Null \/ (\E s : IsSeq(s) /\ v = StringValue(s)) \/ (\E d : v = Blob(d))
                    \/ \E i \in 1..Got : v = Top.vals[i]
    BY <1>2 DEF Returns, Return
  <2>9. IsSeq(errmsg.text)'
    BY <1>2, Saying DEF Returns
  <2>2. /\ IsSeq(Tail(stack)) /\ Len(stack) \in Nat \ {0} /\ Len(Tail(stack)) = Len(stack) - 1
        /\ \A i \in 1..(Len(stack) - 1) : Tail(stack)[i] = stack[i + 1]
        /\ Top = stack[1]
    BY <1>0, <1>2, SeqHeadTail DEF Returns, Top
  <2>3. IsFrame(Top)
    BY <2>2 DEF Frames
  <2>4. IsValue(v)
    <3>1. CASE \E i \in 1..Got : v = Top.vals[i]
      BY <2>3, <3>1 DEF IsFrame, Got
    <3> QED
      BY <2>1, <3>1, Values
  <2>5. ASSUME NEW k \in 1..(Len(stack) - 1) PROVE IsFrame(Tail(stack)[k])
    <3>1. k + 1 \in 1..Len(stack)
      BY <1>0
    <3> QED
      BY <2>2, <3>1 DEF Frames
  <2> QED
    BY <2>1, <2>2, <2>4, <2>5, <2>9 DEF IsSeq, IsFrame, IsValue
<1>3. CASE Deliver
  <2>0. IsSeq(errmsg.text)'
    <3>1. UNCHANGED errmsg \/ errmsg' = Message(<<"expecting string">>)
      BY <1>3, Zenon DEF Deliver
    <3> QED
      BY <3>1, ShortSeqs, Saying DEF Says
  <2>1. CASE stack' = stack
    <3>1. ret' = Null \/ ret' = None
      BY <1>3, Zenon DEF Deliver
    <3> QED
      BY <2>0, <2>1, <3>1, Values DEF Frames, IsSeq, IsFrame, IsValue
  <2>2. CASE stack' # stack
    <3>1. stack # <<>> /\ stack' = [stack EXCEPT ![1].vals = Append(@, ret)] /\ ret' = None
      BY <1>3, <2>2 DEF Deliver
    <3>2. 1 \in 1..Len(stack) /\ DOMAIN stack = 1..Len(stack)
      <4>1. Len(stack) \in Nat \ {0}
        BY <1>0, <3>1, SeqHeadTail
      <4>2. DOMAIN stack = 1..Len(stack)
        BY <1>0, LenProperties DEF IsSeq
      <4> QED
        BY <4>1, <4>2
    <3> DEFINE f == stack[1]
               g == [e |-> f.e, vals |-> Append(f.vals, ret)]
    <3>3. IsFrame(f)
      BY <3>2 DEF Frames
    <3>4. /\ IsSeq(Append(f.vals, ret)) /\ Len(f.vals) \in Nat
          /\ Len(Append(f.vals, ret)) = Len(f.vals) + 1
          /\ \A j \in 1..Len(f.vals) : Append(f.vals, ret)[j] = f.vals[j]
          /\ Append(f.vals, ret)[Len(f.vals) + 1] = ret
      <4>1. IsSeq(f.vals)
        BY <3>3 DEF IsFrame
      <4> HIDE DEF f
      <4> QED
        BY <4>1, SeqAppended
    <3>5. IsFrame(g)
      <4>1. \A j \in 1..(Len(f.vals) + 1) : IsValue(Append(f.vals, ret)[j])
        <5> SUFFICES ASSUME NEW j \in 1..(Len(f.vals) + 1) PROVE IsValue(Append(f.vals, ret)[j])
          OBVIOUS
        <5>1. CASE j \in 1..Len(f.vals)
          BY <3>3, <3>4, <5>1 DEF IsFrame
        <5>2. CASE j = Len(f.vals) + 1
          BY <3>4, <5>2 DEF Frames
        <5>3. j \in 1..Len(f.vals) \/ j = Len(f.vals) + 1
          BY <3>4
        <5> QED
          BY <5>1, <5>2, <5>3
      <4>4. f.e \in Exprs
        BY <3>3 DEF IsFrame
      <4> HIDE DEF f
      <4>2. g.e = f.e /\ g.vals = Append(f.vals, ret)
        OBVIOUS
      <4>3. g = [e |-> g.e, vals |-> g.vals]
        OBVIOUS
      <4> HIDE DEF g
      <4> QED
        BY <3>4, <4>1, <4>2, <4>3, <4>4 DEF IsFrame
    <3>6. [f EXCEPT !.vals = Append(f.vals, ret)] = g
      <4>1. f = [e |-> f.e, vals |-> f.vals]
        BY <3>3 DEF IsFrame
      <4> HIDE DEF f
      <4> QED
        BY <4>1
    <3>7. stack' = [stack EXCEPT ![1] = g]
      BY <3>1, <3>6
    <3> HIDE DEF f, g
    <3> DEFINE S == Range(stack) \cup {g}
    <3>8. stack \in Seq(S) /\ g \in S
      BY <1>0, SeqMonotonic DEF IsSeq
    <3> HIDE DEF S
    <3>9. /\ [stack EXCEPT ![1] = g] \in Seq(S) /\ Len([stack EXCEPT ![1] = g]) = Len(stack)
          /\ \A k \in 1..Len(stack) : [stack EXCEPT ![1] = g][k] = IF k = 1 THEN g ELSE stack[k]
      BY <3>2, <3>8, ExceptSeq
    <3>10. IsSeq([stack EXCEPT ![1] = g])
      BY <3>9, SeqOver
    <3>11. \A k \in 1..Len(stack) : IsFrame([stack EXCEPT ![1] = g][k])
      BY <3>5, <3>9 DEF Frames
    <3> QED
      BY <2>0, <3>1, <3>7, <3>9, <3>10, <3>11, Values DEF IsSeq, IsFrame, IsValue
  <2> QED
    BY <2>1, <2>2
<1>4. CASE UNCHANGED <<stack, ret, errmsg>>
  BY <1>4 DEF Frames, IsSeq, IsFrame, IsValue
<1> QED
  BY <1>1, <1>2, <1>3, <1>4 DEF StackStep

\* concat() and ui_print() join strings to a string; strtok() leaves one.
LEMMA JoinedSeq == ASSUME Frames, stack # <<>> PROVE IsSeq(Joined)
<1> DEFINE q == [i \in 1..Got |-> A(i)]
           S == UNION {Range(A(i)) : i \in 1..Got}
<1>1. Got \in Nat /\ \A i \in 1..Got : IsSeq(A(i))
  BY TopFrame
<1>2. ASSUME NEW i \in 1..Got PROVE A(i) \in Seq(S)
  <2>1. A(i) \in Seq(Range(A(i))) /\ Range(A(i)) \subseteq S
    BY <1>1 DEF IsSeq
  <2> HIDE DEF S
  <2> QED
    BY <2>1, SeqMonotonic
<1> HIDE DEF S
<1>3. q \in Seq(Seq(S))
  BY <1>1, <1>2, IsASeq
<1> HIDE DEF q
<1>4. FlattenSeq(q) \in Seq(S)
  BY <1>3, Flattened
<1> QED
  BY <1>4, SeqOver DEF Joined, q

LEMMA CutSeq == ASSUME NEW s, IsSeq(s) PROVE IsSeq(Cut(s))
<1> DEFINE S == {i \in 2..Len(s) : s[i] = "\n" /\ s[i - 1] # "\n"}
<1>1. s \in Seq(Range(s)) /\ Len(s) \in Nat /\ \A i \in 1..Len(s) : s[i] \in Range(s)
  BY LenProperties, ElementOfSeq DEF IsSeq
<1>2. Cut(s) = IF S = {} THEN s ELSE SubSeq(s, 1, Least(S) - 1)
  BY DEF Cut
<1>3. CASE S # {}
  <2>1. S \subseteq Nat
    BY <1>1
  <2>2. Least(S) \in S
    BY <1>3, <2>1, LeastOf
  <2>3. Least(S) - 1 \in 1..Len(s)
    BY <1>1, <2>2
  <2> HIDE DEF S
  <2>4. \A i \in 1..(Least(S) - 1) : s[i] \in Range(s)
    BY <1>1, <2>3
  <2>5. SubSeq(s, 1, Least(S) - 1) \in Seq(Range(s))
    BY <2>3, <2>4, SubSeqProperties
  <2> QED
    BY <1>2, <1>3, <2>5, SeqOver
<1> QED
  BY <1>2, <1>3

\* Every message is cut into lines.
LEMMA LinesSeq == ASSUME NEW s, IsSeq(s) PROVE IsSeq(Lines(s))
<1> DEFINE begins == {i \in 1..Len(s) : s[i] # "\n" /\ (i = 1 \/ s[i - 1] = "\n")}
           first(k) == CHOOSE i \in begins : Cardinality({j \in begins : j <= i}) = k
           last(i) == Least({j \in i..Len(s) : j = Len(s) \/ s[j + 1] = "\n"})
           line(k) == SubSeq(s, first(k), last(first(k)))
           n == Cardinality(begins)
<1>1. Len(s) \in Nat
  BY LenProperties DEF IsSeq
<1>2. n \in Nat
  <2>1. begins \subseteq 1..Len(s) /\ IsFiniteSet(1..Len(s))
    BY <1>1, FS_Interval
  <2> HIDE DEF begins
  <2> QED
    BY <2>1, FS_Subset, FS_CardinalityType
<1>3. Lines(s) = [k \in 1..n |-> line(k)]
  BY DEF Lines
<1> DEFINE S == {line(k) : k \in 1..n}
<1> HIDE DEF line, n
<1>4. \A k \in 1..n : line(k) \in S
  OBVIOUS
<1> HIDE DEF S
<1>5. [k \in 1..n |-> line(k)] \in Seq(S)
  BY <1>2, <1>4, IsASeq
<1> QED
  BY <1>3, <1>5, SeqOver

\* How the functions of the updater end.
Outcome ==
    /\ stack # <<>>
    /\ \/ \E m : IsSeq(m) /\ Abort(m)
       \/ \E b : Answer(b)
       \/ \E s : IsSeq(s) /\ Done(StringValue(s))
       \/ \E d : Done(Blob(d))
       \/ Done(Null)
       \/ \E i \in 1..Got : Done(Top.vals[i])

Counts == Works \/ Fails

LEMMA OutcomeSteps == Outcome => StackStep
<1> SUFFICES ASSUME Outcome PROVE Returns
  BY DEF StackStep
<1>1. stack # <<>>
  BY DEF Outcome
<1>2. \A m : IsSeq(m) /\ Abort(m) => Returns
  BY <1>1 DEF Abort, ErrorAbort, Returns, Says
<1>3. \A s : IsSeq(s) /\ Done(StringValue(s)) => Returns
  BY <1>1 DEF Done, Value, Returns, Says
<1>4. \A b : Answer(b) => Returns
  BY <1>3, Booleans DEF Answer
<1>5. (\E d : Done(Blob(d))) \/ Done(Null) => Returns
  BY <1>1 DEF Done, Value, Returns, Says
<1>6. \A i \in 1..Got : Done(Top.vals[i]) => Returns
  BY <1>1 DEF Done, Value, Returns, Says
<1> QED
  BY <1>2, <1>3, <1>4, <1>5, <1>6, Zenon DEF Outcome

LEMMA OutcomeForms ==
    ASSUME stack # <<>>
    PROVE  /\ \A x : Abort(<<x>>) => Outcome
           /\ \A b : Answer(b) => Outcome
           /\ \A s : IsSeq(s) /\ Done(StringValue(s)) => Outcome
           /\ \A d : Done(Blob(d)) => Outcome
           /\ Done(Null) => Outcome
           /\ \A i : i \in 1..Got /\ Done(Top.vals[i]) => Outcome
<1>1. \A x : Abort(<<x>>) => Outcome
  BY ShortSeqs, Zenon DEF Outcome
<1>2. /\ \A b : Answer(b) => Outcome
      /\ \A s : IsSeq(s) /\ Done(StringValue(s)) => Outcome
      /\ \A d : Done(Blob(d)) => Outcome
      /\ Done(Null) => Outcome
  BY Zenon DEF Outcome
<1>3. \A i : i \in 1..Got /\ Done(Top.vals[i]) => Outcome
  BY Zenon DEF Outcome
<1> QED
  BY <1>1, <1>2, <1>3

LEMMA BuiltinSteps == ASSUME Frames, Builtin PROVE StackStep
<1>1. \A fns : In(fns) => stack # <<>>
  BY DEF In
<1>2. \A s : (stack # <<>> /\ Value(StringValue(s)) /\ IsSeq(s)) => Returns
  BY DEF Value, Returns, Says
<1>3. \A i : (stack # <<>> /\ Value(Top.vals[i]) /\ i \in 1..Got) => Returns
  BY DEF Value, Returns, Says
<1>4. (Got = 1 => 1 \in 1..Got) /\ (Got = 2 => 1 \in 1..Got /\ 2 \in 1..Got)
  OBVIOUS
<1>5. \A m : (stack # <<>> /\ ErrorAbort(m) /\ IsSeq(m)) => Returns
  BY DEF ErrorAbort, Returns, Says
<1>6. \A i \in 1..Argc : (stack # <<>> /\ Arg(i)) => Pushes
  BY DEF Pushes
<1>7. \A fns : ReadArgs(fns) => Pushes
  <2> SUFFICES ASSUME NEW fns, ReadArgs(fns) PROVE Pushes
    OBVIOUS
  <2>1. stack # <<>> /\ Got < Argc /\ Arg(Got + 1)
    BY <1>1 DEF ReadArgs
  <2>2. Got + 1 \in 1..Argc
    BY <2>1, TopFrame
  <2> QED
    BY <1>6, <2>1, <2>2
<1>8. \A b : stack # <<>> /\ Bool(b) => Returns
  BY <1>2, Booleans DEF Bool
<1>9. CASE Deliver
  BY <1>9 DEF StackStep
<1>10. \A fns : GivesUp(fns) => Returns
  BY DEF GivesUp, Value, Returns, Says
<1>11. CASE Literal
  BY <1>1, <1>2, <1>11, TopFrame DEF Literal, StackStep
<1>12. CASE ConcatFn
  <2>1. CASE ReadArgs({"concat"})
    BY <1>7, <2>1 DEF StackStep
  <2>2. CASE stack # <<>> /\ Value(StringValue(Joined))
    BY <1>2, <2>2, JoinedSeq DEF StackStep
  <2>3. CASE GivesUp({"concat"})
    BY <1>10, <2>3 DEF StackStep
  <2> QED
    BY <1>1, <1>12, <2>1, <2>2, <2>3 DEF ConcatFn
<1>13. CASE StdoutFn
  BY <1>1, <1>2, <1>7, <1>10, <1>13, ShortSeqs, Zenon DEF StdoutFn, False, StackStep
<1>14. CASE IfElseFn
  <2>1. stack # <<>> /\ Argc \in Nat
    BY <1>1, <1>14, TopFrame DEF IfElseFn, GivesUp
  <2>2. (Argc \in {2, 3} => 1 \in 1..Argc /\ 2 \in 1..Argc) /\ (Argc = 3 => 3 \in 1..Argc)
    OBVIOUS
  <2> QED
    BY <1>3, <1>4, <1>5, <1>6, <1>10, <1>14, <2>1, <2>2, ShortSeqs, Zenon DEF IfElseFn, StackStep
<1>15. CASE AbortFn
  <2>1. \A m : stack # <<>> /\ ErrorAbort(<<m>>) => Returns
    BY <1>5, ShortSeqs
  <2>2. ASSUME In({"abort"}), Got = 0, Argc > 0, Arg(1) PROVE Pushes
    BY <1>1, <1>6, <2>2, TopFrame
  <2>3. ASSUME In({"abort"}), Got = 1, ErrorAbort(A(1)) PROVE Returns
    BY <1>1, <1>4, <1>5, <2>3, TopFrame
  <2> QED
    BY <1>1, <1>15, <2>1, <2>2, <2>3, Zenon DEF AbortFn, StackStep
<1>16. CASE AssertFn
  <2>1. \A m : stack # <<>> /\ ErrorAbort(<<m>>) => Returns
    BY <1>5, ShortSeqs
  <2>2. stack # <<>>
    BY <1>1, <1>16 DEF AssertFn, GivesUp
  <2>3. Got < Argc => Got + 1 \in 1..Argc
    BY <2>2, TopFrame
  <2> QED
    BY <1>2, <1>6, <1>10, <1>16, <2>1, <2>2, <2>3, ShortSeqs, Zenon DEF AssertFn, False, StackStep
<1>17. CASE SleepFn \/ SequenceFn
  BY <1>1, <1>3, <1>4, <1>7, <1>10, <1>17, Zenon DEF SleepFn, SequenceFn, StackStep
<1>18. CASE LogicalAndFn \/ LogicalOrFn
  <2>1. stack # <<>> /\ Top.e.fn \in {"&&", "||"}
    BY <1>18 DEF LogicalAndFn, LogicalOrFn, In, GivesUp
  <2>2. 1 \in 1..Argc /\ 2 \in 1..Argc
    BY <2>1, TopFrame
  <2> QED
    BY <1>3, <1>4, <1>6, <1>10, <1>18, <2>1, <2>2, Zenon DEF LogicalAndFn, LogicalOrFn, StackStep
<1>19. CASE LogicalNotFn \/ SubstringFn \/ EqualityFn \/ InequalityFn
  BY <1>1, <1>7, <1>8, <1>10, <1>19, Zenon
     DEF LogicalNotFn, SubstringFn, EqualityFn, InequalityFn, StackStep
<1>20. CASE LessThanIntFn
  BY <1>1, <1>5, <1>7, <1>8, <1>10, <1>20, ShortSeqs, Zenon DEF LessThanIntFn, StackStep
<1>21. CASE GreaterThanIntFn
  <2>1. stack # <<>>
    BY <1>1, <1>21 DEF GreaterThanIntFn, GivesUp
  <2>2. Argc = 2 /\ Got < 2 => 2 - Got \in 1..Argc
    BY <2>1, TopFrame
  <2> QED
    BY <1>5, <1>6, <1>8, <1>10, <1>21, <2>1, <2>2, ShortSeqs, Zenon DEF GreaterThanIntFn, StackStep
<1> QED
  BY <1>9, <1>11, <1>12, <1>13, <1>14, <1>15, <1>16, <1>17, <1>18, <1>19, <1>20, <1>21
     DEF Builtin

LEMMA CallOpen == \A fn : Call(fn) => stack # <<>> /\ xi = 0
BY DEF Call, In, Running

\* The arguments that the functions which return or look at them have.
LEMMA CallArgs ==
    ASSUME Frames
    PROVE  /\ Call("mount") => IsSeq(A(4))
           /\ Call("is_mounted") \/ Call("unmount") => IsSeq(A(1))
           /\ Call("format") => IsSeq(A(3))
           /\ Call("write_raw_image") => IsSeq(A(2))
           /\ Call("sha1_check") => IsSeq(A(1))
           /\ Call("package_extract_dir") => Got = 2
           /\ Call("show_progress") \/ Call("set_progress") => 1 \in 1..Got
<1>1. \A fn : Call(fn) => /\ stack # <<>> /\ Top.e.fn = fn /\ Argc \in Arity[fn]
                          /\ Got = IF fn \in DOMAIN Fixed THEN Fixed[fn] ELSE Argc
  BY DEF Call, In, Reads
<1>2. stack # <<>> => Argc \in Nat /\ \A i \in 1..Got : IsSeq(A(i))
  BY TopFrame
<1>3. /\ Arity["mount"] = {4} /\ Arity["is_mounted"] = {1} /\ Arity["unmount"] = {1}
      /\ Arity["format"] = {3} /\ Arity["package_extract_dir"] = {2}
  BY DEF Arity
<1>4. Arity["sha1_check"] = AtLeast(1) /\ Arity["show_progress"] = {2} /\ Arity["set_progress"] = {1}
  BY DEF Arity
<1>5. {"mount", "is_mounted", "unmount", "format", "package_extract_dir", "sha1_check",
       "show_progress", "set_progress"}
          \cap DOMAIN Fixed = {}
  BY DEF Fixed
<1>6. "write_raw_image" \in DOMAIN Fixed /\ Fixed["write_raw_image"] = 2
  BY DEF Fixed
<1>7. ASSUME Call("mount") PROVE IsSeq(A(4))
  <2>1. Got = 4
    BY <1>1, <1>3, <1>5, <1>7
  <2> QED
    BY <1>1, <1>2, <1>7, <2>1
<1>8. ASSUME Call("is_mounted") \/ Call("unmount") PROVE IsSeq(A(1))
  <2>1. Got = 1
    BY <1>1, <1>3, <1>5, <1>8
  <2> QED
    BY <1>1, <1>2, <1>8, <2>1
<1>9. ASSUME Call("format") PROVE IsSeq(A(3))
  <2>1. Got = 3
    BY <1>1, <1>3, <1>5, <1>9
  <2> QED
    BY <1>1, <1>2, <1>9, <2>1
<1>10. ASSUME Call("write_raw_image") PROVE IsSeq(A(2))
  <2>1. Got = 2
    BY <1>1, <1>6, <1>10
  <2> QED
    BY <1>1, <1>2, <1>10, <2>1
<1>11. ASSUME Call("sha1_check") PROVE IsSeq(A(1))
  <2>1. Got = Argc /\ Argc \in AtLeast(1)
    BY <1>1, <1>4, <1>5, <1>11
  <2>2. 1 \in 1..Got
    BY <2>1 DEF AtLeast, MaxArgc
  <2> QED
    BY <1>1, <1>2, <1>11, <2>2
<1>12. ASSUME Call("package_extract_dir") PROVE Got = 2
  BY <1>1, <1>3, <1>5, <1>12
<1>13. ASSUME Call("show_progress") \/ Call("set_progress") PROVE 1 \in 1..Got
  <2>1. Got \in {1, 2}
    BY <1>1, <1>4, <1>5, <1>13
  <2> QED
    BY <2>1
<1> QED
  BY <1>7, <1>8, <1>9, <1>10, <1>11, <1>12, <1>13

\* The functions that run in one step keep the walk as it is.
Plain == StackStep /\ Counts /\ UNCHANGED xi /\ xi = 0

\* What is common to them.
LEMMA PlainFacts ==
    /\ UNCHANGED faults => Counts
    /\ Works \/ Fails => Counts
    /\ UNCHANGED walk => UNCHANGED xi
    /\ \A fns : In(fns) => stack # <<>>
    /\ Running => xi = 0
    /\ Outcome /\ Counts /\ UNCHANGED walk /\ xi = 0 => Plain
BY OutcomeSteps DEF Counts, Works, walk, In, Running, Plain

LEMMA PlainSteps1 ==
    ASSUME Frames, \/ Interpret \/ WrongArgc \/ Arguments \/ NullArgument \/ Overrun \/ Mishandled
    PROVE  Plain
<1>1. CASE Interpret
  BY <1>1, BuiltinSteps, PlainFacts DEF Interpret, Plain
<1>2. CASE WrongArgc
  <2>1. stack # <<>> /\ xi = 0 /\ Counts /\ UNCHANGED walk
    BY <1>2, PlainFacts, Zenon DEF WrongArgc
  <2>2. Outcome
    BY <1>2, <2>1, OutcomeForms, Zenon DEF WrongArgc
  <2> QED
    BY <2>1, <2>2, PlainFacts
<1>3. CASE Arguments
  <2>1. xi = 0 /\ Counts /\ UNCHANGED xi /\ stack # <<>> /\ Got < Argc /\ Arg(Got + 1)
    BY <1>3, PlainFacts, Zenon DEF Arguments, ReadArgs
  <2>2. Got + 1 \in 1..Argc
    BY <2>1, TopFrame
  <2> QED
    BY <2>1, <2>2 DEF StackStep, Pushes, Plain
<1>4. CASE Overrun
  BY <1>4, PlainFacts DEF Overrun, StackStep, edify, Plain
<1>5. CASE Mishandled
  BY <1>5, PlainFacts DEF Mishandled, StackStep, edify, Plain
<1>6. CASE NullArgument
  <2>1. StackStep
    BY <1>6 DEF NullArgument, GivesUp, Value, StackStep, Returns, Says
  <2> QED
    BY <1>6, <2>1, PlainFacts DEF NullArgument, Plain
<1> QED
  BY <1>1, <1>2, <1>3, <1>4, <1>5, <1>6

LEMMA PlainSteps2 ==
    ASSUME Frames, \/ MountFn \/ IsMountedFn \/ UnmountFn \/ FormatFn
                   \/ ReadFileFn \/ GetPropFn \/ PackageExtractFileFn
    PROVE  Plain
<1>1. CASE MountFn
  <2>1. stack # <<>> /\ xi = 0 /\ Counts /\ UNCHANGED walk
    BY <1>1, CallOpen, PlainFacts, Zenon DEF MountFn
  <2>2. IsSeq(A(4))
    BY <1>1, CallArgs, Zenon DEF MountFn
  <2>3. Outcome
    BY <1>1, <2>1, <2>2, OutcomeForms, Zenon DEF MountFn
  <2> QED
    BY <2>1, <2>3, PlainFacts
<1>2. CASE IsMountedFn
  <2>1. stack # <<>> /\ xi = 0 /\ Counts /\ UNCHANGED walk
    BY <1>2, CallOpen, PlainFacts, Zenon DEF IsMountedFn
  <2>2. IsSeq(IF A(1)[1] \in mounted THEN A(1) ELSE False)
    BY <1>2, CallArgs, ShortSeqs DEF IsMountedFn, False
  <2>3. Outcome
    BY <1>2, <2>1, <2>2, OutcomeForms, Zenon DEF IsMountedFn
  <2> QED
    BY <2>1, <2>3, PlainFacts
<1>3. CASE UnmountFn
  <2>1. stack # <<>> /\ xi = 0 /\ Counts /\ UNCHANGED walk
    BY <1>3, CallOpen, PlainFacts, Zenon DEF UnmountFn
  <2>2. IsSeq(A(1))
    BY <1>3, CallArgs, Zenon DEF UnmountFn
  <2>3. Outcome
    BY <1>3, <2>1, <2>2, OutcomeForms, Zenon DEF UnmountFn
  <2> QED
    BY <2>1, <2>3, PlainFacts
<1>4. CASE FormatFn
  <2>1. stack # <<>> /\ xi = 0 /\ Counts /\ UNCHANGED walk
    BY <1>4, CallOpen, PlainFacts, Zenon DEF FormatFn
  <2>2. IsSeq(A(3))
    BY <1>4, CallArgs, Zenon DEF FormatFn
  <2>3. Outcome
    BY <1>4, <2>1, <2>2, OutcomeForms, Zenon DEF FormatFn
  <2> QED
    BY <2>1, <2>3, PlainFacts
<1>5. CASE ReadFileFn
  <2>1. stack # <<>> /\ xi = 0 /\ Counts /\ UNCHANGED walk
    BY <1>5, CallOpen, PlainFacts, Zenon DEF ReadFileFn
  <2>2. Outcome
    BY <1>5, <2>1, OutcomeForms, Zenon DEF ReadFileFn
  <2> QED
    BY <2>1, <2>2, PlainFacts
<1>6. CASE GetPropFn
  <2>1. stack # <<>> /\ xi = 0 /\ Counts /\ UNCHANGED walk
    BY <1>6, CallOpen, PlainFacts, Zenon DEF GetPropFn
  <2>2. IsSeq(IF A(1) \in DOMAIN Props THEN Props[A(1)] ELSE False)
    BY ShortSeqs, UpdaterAssumption DEF False
  <2>3. Outcome
    BY <1>6, <2>1, <2>2, OutcomeForms, Zenon DEF GetPropFn
  <2> QED
    BY <2>1, <2>3, PlainFacts
<1>7. CASE PackageExtractFileFn
  <2>1. stack # <<>> /\ xi = 0 /\ Counts /\ UNCHANGED walk
    BY <1>7, CallOpen, PlainFacts, Zenon DEF PackageExtractFileFn
  <2>2. Outcome
    BY <1>7, <2>1, OutcomeForms, Zenon DEF PackageExtractFileFn
  <2> QED
    BY <2>1, <2>2, PlainFacts
<1> QED
  BY <1>1, <1>2, <1>3, <1>4, <1>5, <1>6, <1>7

LEMMA PlainSteps3 ==
    ASSUME Frames, \/ DeleteFn("delete") \/ DeleteFn("delete_recursive") \/ SymlinkFn
                   \/ SetPermFn("set_perm") \/ SetPermFn("set_perm_recursive")
                   \/ FileGetPropFn
    PROVE  Plain
<1>1. CASE DeleteFn("delete")
  <2>1. stack # <<>> /\ xi = 0 /\ Counts /\ UNCHANGED walk
    BY <1>1, CallOpen, PlainFacts, Zenon DEF DeleteFn
  <2>2. \A x : IsSeq(<<x>>)
    BY ShortSeqs
  <2>3. Outcome
    BY <1>1, <2>1, <2>2, OutcomeForms, Zenon DEF DeleteFn
  <2> QED
    BY <2>1, <2>3, PlainFacts
<1>2. CASE DeleteFn("delete_recursive")
  <2>1. stack # <<>> /\ xi = 0 /\ Counts /\ UNCHANGED walk
    BY <1>2, CallOpen, PlainFacts, Zenon DEF DeleteFn
  <2>2. \A x : IsSeq(<<x>>)
    BY ShortSeqs
  <2>3. Outcome
    BY <1>2, <2>1, <2>2, OutcomeForms, Zenon DEF DeleteFn
  <2> QED
    BY <2>1, <2>3, PlainFacts
<1>3. CASE SymlinkFn
  <2>1. stack # <<>> /\ xi = 0 /\ Counts /\ UNCHANGED walk
    BY <1>3, CallOpen, PlainFacts, Zenon DEF SymlinkFn
  <2>2. Outcome
    BY <1>3, <2>1, OutcomeForms, Zenon DEF SymlinkFn
  <2> QED
    BY <2>1, <2>2, PlainFacts
<1>4. CASE SetPermFn("set_perm")
  <2>1. stack # <<>> /\ xi = 0 /\ Counts /\ UNCHANGED walk
    BY <1>4, CallOpen, PlainFacts, Zenon DEF SetPermFn
  <2>2. Outcome
    BY <1>4, <2>1, OutcomeForms, Zenon DEF SetPermFn
  <2> QED
    BY <2>1, <2>2, PlainFacts
<1>5. CASE SetPermFn("set_perm_recursive")
  <2>1. stack # <<>> /\ xi = 0 /\ Counts /\ UNCHANGED walk
    BY <1>5, CallOpen, PlainFacts, Zenon DEF SetPermFn
  <2>2. Outcome
    BY <1>5, <2>1, OutcomeForms, Zenon DEF SetPermFn
  <2> QED
    BY <2>1, <2>2, PlainFacts
<1>6. CASE FileGetPropFn
  <2>1. xi = 0 /\ Counts /\ UNCHANGED walk /\ stack # <<>>
    BY <1>6, CallOpen, PlainFacts, Zenon DEF FileGetPropFn
  <2>2. \A f \in DOMAIN PropFiles : IsSeq(IF A(2) \in DOMAIN PropFiles[f] THEN PropFiles[f][A(2)] ELSE False)
    BY ShortSeqs, UpdaterAssumption DEF False
  <2>3. Outcome \/ UNCHANGED edify
    BY <1>6, <2>1, <2>2, OutcomeForms, Zenon DEF FileGetPropFn
  <2> QED
    BY <2>1, <2>3, PlainFacts DEF Plain, StackStep, edify
<1> QED
  BY <1>1, <1>2, <1>3, <1>4, <1>5, <1>6

LEMMA PlainSteps4 ==
    ASSUME Frames, \/ WriteRawImageFn \/ ApplyPatchSpaceFn \/ ApplyPatchCheckFn \/ Sha1CheckFn
                   \/ RunProgramFn \/ UIPrintFn \/ ShowProgressFn \/ SetProgressFn \/ ApplyPatchFn
    PROVE  Plain
<1>1. CASE WriteRawImageFn
  <2>1. stack # <<>> /\ xi = 0 /\ Counts /\ UNCHANGED walk
    BY <1>1, CallOpen, PlainFacts, Zenon DEF WriteRawImageFn
  <2>2. IsSeq(A(2))
    BY <1>1, CallArgs, Zenon DEF WriteRawImageFn
  <2>3. Outcome
    BY <1>1, <2>1, <2>2, OutcomeForms, Zenon DEF WriteRawImageFn
  <2> QED
    BY <2>1, <2>3, PlainFacts
<1>2. CASE ApplyPatchSpaceFn
  <2>1. stack # <<>> /\ xi = 0 /\ Counts /\ UNCHANGED walk
    BY <1>2, CallOpen, PlainFacts, Zenon DEF ApplyPatchSpaceFn
  <2>2. Outcome
    BY <1>2, <2>1, OutcomeForms, Zenon DEF ApplyPatchSpaceFn
  <2> QED
    BY <2>1, <2>2, PlainFacts
<1>3. CASE ApplyPatchCheckFn
  <2>1. stack # <<>> /\ xi = 0 /\ Counts /\ UNCHANGED walk
    BY <1>3, CallOpen, PlainFacts, Zenon DEF ApplyPatchCheckFn
  <2>2. Outcome
    BY <1>3, <2>1, OutcomeForms, Zenon DEF ApplyPatchCheckFn
  <2> QED
    BY <2>1, <2>2, PlainFacts
<1>4. CASE Sha1CheckFn
  <2>1. stack # <<>> /\ xi = 0 /\ Counts /\ UNCHANGED walk
    BY <1>4, CallOpen, PlainFacts, Zenon DEF Sha1CheckFn
  <2>2. IsSeq(A(1)) /\ \A P : IsSeq(IF P THEN False ELSE A(1))
    BY <1>4, CallArgs, ShortSeqs DEF Sha1CheckFn, False
  <2>3. Outcome
    BY <1>4, <2>1, <2>2, OutcomeForms, Zenon DEF Sha1CheckFn
  <2> QED
    BY <2>1, <2>3, PlainFacts
<1>5. CASE RunProgramFn
  <2>1. stack # <<>> /\ xi = 0 /\ Counts /\ UNCHANGED walk
    BY <1>5, CallOpen, PlainFacts, Zenon DEF RunProgramFn
  <2>2. IsSeq(<<"0">>) /\ IsSeq(<<"2", "5", "6">>)
    <3>1. <<"2", "5", "6">> \in Seq({"2", "5", "6"})
      OBVIOUS
    <3> QED
      BY <3>1, ShortSeqs, SeqOver
  <2>3. Outcome
    BY <1>5, <2>1, <2>2, OutcomeForms, Zenon DEF RunProgramFn
  <2> QED
    BY <2>1, <2>3, PlainFacts
<1>6. CASE UIPrintFn
  <2>1. stack # <<>> /\ xi = 0 /\ Counts /\ UNCHANGED walk
    BY <1>6, CallOpen, PlainFacts, Zenon DEF UIPrintFn
  <2>2. IsSeq(Cut(Joined))
    BY <2>1, JoinedSeq, CutSeq
  <2>3. Outcome
    BY <1>6, <2>1, <2>2, OutcomeForms, Zenon DEF UIPrintFn
  <2> QED
    BY <2>1, <2>3, PlainFacts
<1>7. CASE ShowProgressFn
  <2>1. stack # <<>> /\ xi = 0 /\ Counts /\ UNCHANGED walk
    BY <1>7, CallOpen, PlainFacts, Zenon DEF ShowProgressFn
  <2>2. 1 \in 1..Got
    BY <1>7, CallArgs, Zenon DEF ShowProgressFn
  <2>3. Outcome
    BY <1>7, <2>1, <2>2, OutcomeForms, Zenon DEF ShowProgressFn
  <2> QED
    BY <2>1, <2>3, PlainFacts
<1>8. CASE SetProgressFn
  <2>1. stack # <<>> /\ xi = 0 /\ Counts /\ UNCHANGED walk
    BY <1>8, CallOpen, PlainFacts, Zenon DEF SetProgressFn
  <2>2. 1 \in 1..Got
    BY <1>8, CallArgs, Zenon DEF SetProgressFn
  <2>3. Outcome
    BY <1>8, <2>1, <2>2, OutcomeForms, Zenon DEF SetProgressFn
  <2> QED
    BY <2>1, <2>3, PlainFacts
<1>9. CASE ApplyPatchFn
  <2>1. stack # <<>> /\ xi = 0 /\ Counts /\ UNCHANGED walk
    BY <1>9, CallOpen, PlainFacts, Zenon DEF ApplyPatchFn
  <2>2. Outcome
    BY <1>9, <2>1, OutcomeForms, Zenon DEF ApplyPatchFn
  <2> QED
    BY <2>1, <2>2, PlainFacts
<1> QED
  BY <1>1, <1>2, <1>3, <1>4, <1>5, <1>6, <1>7, <1>8, <1>9

\* The walk of package_extract_dir() keeps the frame it returns from.
Walks == StackStep /\ Counts /\ (xi' = 0 \/ (UNCHANGED edify /\ stack # <<>> /\ xi' \in Nat))

LEMMA WalkSteps ==
    ASSUME Frames, PackageExtractDirFn \/ SkipEntry \/ ExtractEntry
    PROVE  Walks
<1>1. UNCHANGED faults => Counts
  BY DEF Counts, Works
<1>2. \A b : stack # <<>> /\ Break(b) => StackStep /\ xi' = 0
  <2> SUFFICES ASSUME NEW b, stack # <<>>, Break(b) PROVE Outcome /\ xi' = 0
    BY OutcomeSteps
  <2> QED
    BY Zenon DEF Break, Outcome
<1>3. stack # <<>> /\ Continue => StackStep /\ UNCHANGED edify /\ stack # <<>> /\ xi' \in Nat
  BY DEF Continue, StackStep, edify, Frames
<1>4. CASE PackageExtractDirFn
  <2>1. /\ Counts /\ stack # <<>> /\ xi = 0
        /\ \/ Outcome /\ UNCHANGED walk
           \/ UNCHANGED edify /\ xi' = 1
    BY <1>1, <1>4, CallOpen, Zenon DEF PackageExtractDirFn, Outcome
  <2> QED
    BY <2>1, OutcomeSteps DEF Walks, StackStep, edify, walk
<1>5. CASE SkipEntry
  <2>1. stack # <<>> /\ UNCHANGED faults /\ (Break(TRUE) \/ Continue)
    BY <1>5 DEF SkipEntry, Extracting, Frames
  <2> QED
    BY <1>1, <1>2, <1>3, <2>1, Zenon DEF Walks
<1>6. CASE ExtractEntry
  <2>1. stack # <<>>
    BY <1>6 DEF ExtractEntry, Extracting, Frames
  <2>2. Counts /\ (Break(TRUE) \/ Break(FALSE) \/ Continue)
    BY <1>6, Zenon DEF ExtractEntry, Counts
  <2> QED
    BY <1>2, <1>3, <2>1, <2>2, Zenon DEF Walks
<1> QED
  BY <1>4, <1>5, <1>6

Typed ==
    /\ keys \in KeyFiles /\ sigOn \in BOOLEAN
    /\ ppc \in {"mount", "keys", "verify", "open", "find", "extract", "fork", "read",
                "wait", "firmware", "done"}
    /\ result \in {"none", "SUCCESS", "ERROR", "CORRUPT", "UPDATE_BINARY_MISSING", "DIED"}
    /\ zip \in {"none", "open", "closed"}
    /\ cpc \in {"none", "main", "eval", "report", "other", "exited", "unborn"}
    /\ status \in Int /\ faults \in Nat

TypeInv == InstallInv /\ Typed /\ Frames

LEMMA InitTypes == Init => TypeInv
<1> SUFFICES ASSUME Init PROVE TypeInv
  OBVIOUS
<1>1. <<>> \in Seq({}) /\ Len(<<>>) = 0
  OBVIOUS
<1>2. IsSeq(<<>>)
  BY <1>1, SeqOver
<1>3. stack = <<>> /\ ret = None /\ xi = 0 /\ errmsg.text = <<>>
  BY DEF Init, NoMessage
<1>4. Frames
  BY <1>1, <1>2, <1>3, Values DEF Frames
<1>5. Typed
  <2>1. /\ keys \in KeyFiles /\ sigOn \in BOOLEAN /\ ppc = "mount" /\ result = "none"
        /\ zip = "none" /\ cpc = "none" /\ status = 0 /\ faults = 0
    BY Zenon DEF Init
  <2> QED
    BY <2>1 DEF Typed
<1> QED
  BY <1>4, <1>5, InitInstall DEF TypeInv

LEMMA CountsUp == ASSUME Typed, Counts PROVE faults' \in Nat
BY DEF Typed, Counts, Works, Fails

LEMMA ChildTypes ==
    ASSUME TypeInv, Child
    PROVE  Typed' /\ Frames'
<1>0. UNCHANGED <<ppc, sigOn, keys, zip, result>>
  BY DEF Child, parent, settings
<1>1. CASE InScript /\ (Plain \/ Walks)
  <2>1. /\ cpc = "eval" /\ StackStep /\ Counts
        /\ UNCHANGED <<cpc, status>> \/ (cpc' = "exited" /\ status' = 256)
    BY <1>1 DEF InScript, process, Crash, Signal, Plain, Walks
  <2>2. Typed'
    BY <1>0, <2>1, CountsUp DEF TypeInv, Typed
  <2>3. xi' \in Nat /\ (xi' > 0 => stack' # <<>>)
    BY <1>1 DEF Plain, Walks, edify
  <2> QED
    BY <2>1, <2>2, <2>3, StackSteps DEF TypeInv, Frames
<1>2. CASE Start
  <2>1. /\ UNCHANGED xi /\ Counts
        /\ \/ cpc' = "exited" /\ status' \in {3, 4, 5, 6} /\ UNCHANGED <<stack, ret, errmsg>>
           \/ /\ cpc' = "eval" /\ UNCHANGED status
              /\ stack' = <<Frame(package.script)>> /\ ret' = None /\ errmsg' = NoMessage
    <3>1. /\ UNCHANGED walk /\ Counts
          /\ \/ (Exit(3) \/ Exit(4) \/ Exit(5) \/ Exit(6)) /\ UNCHANGED edify
             \/ /\ cpc' = "eval" /\ UNCHANGED <<package, pipe, status>>
                /\ stack' = <<Frame(package.script)>> /\ ret' = None /\ errmsg' = NoMessage
      BY <1>2, Zenon DEF Start, Counts
    <3> QED
      BY <3>1 DEF Exit, edify, walk
  <2>2. Typed'
    BY <1>0, <2>1, CountsUp DEF TypeInv, Typed
  <2>3. CASE UNCHANGED <<stack, ret, errmsg>>
    BY <2>1, <2>2, <2>3 DEF TypeInv, Frames, IsSeq, IsFrame, IsValue
  <2>4. CASE stack' = <<Frame(package.script)>> /\ ret' = None /\ errmsg' = NoMessage
    <3> DEFINE f == Frame(package.script)
    <3>1. f.vals = <<>> /\ f = [e |-> f.e, vals |-> f.vals] /\ f.e = package.script
      BY DEF Frame
    <3>2. <<>> \in Seq({}) /\ Len(<<>>) = 0
      OBVIOUS
    <3>3. IsSeq(<<>>) /\ package.script \in Exprs
      BY ShortSeqs, UpdaterAssumption DEF TypeInv, InstallInv
    <3>4. IsFrame(f)
      BY <3>1, <3>2, <3>3 DEF IsFrame
    <3>5. stack' = <<f>> /\ ret' = None
      BY <2>4
    <3> HIDE DEF f
    <3>6. <<f>> \in Seq({f}) /\ Len(<<f>>) = 1 /\ <<f>>[1] = f /\ <<f>> # <<>>
      OBVIOUS
    <3>7. IsSeq(<<f>>)
      BY <3>6, SeqOver
    <3>8. \A k \in 1..1 : IsFrame(<<f>>[k])
      BY <3>4, <3>6
    <3>9. IsValue(None)
      BY Values
    <3>10. errmsg'.text = <<>>
      BY <2>4 DEF NoMessage
    <3> QED
      BY <2>1, <2>2, <3>3, <3>5, <3>6, <3>7, <3>8, <3>9, <3>10
         DEF TypeInv, Frames, IsSeq, IsFrame, IsValue
  <2> QED
    BY <2>1, <2>3, <2>4
<1>3. CASE Finish \/ Flush \/ Reported \/ Kill
  <2>1. UNCHANGED <<stack, ret, xi>>
    BY <1>3 DEF Finish, Flush, Reported, Kill, edify, walk
  <2>2. cpc' \in {"eval", "report", "exited"} /\ (UNCHANGED status \/ status' \in {0, 7, 256})
    BY <1>3 DEF Finish, Flush, Reported, Kill, Exit, Crash, Signal
  <2>3. Counts
    BY <1>3 DEF Finish, Flush, Reported, Kill, Counts, Works
  <2>4. Typed'
    BY <1>0, <2>2, <2>3, CountsUp DEF TypeInv, Typed
  <2>5. UNCHANGED errmsg \/ errmsg' = Message(<<"expecting string">>)
    BY <1>3 DEF Finish, Flush, Reported, Kill, edify
  <2>6. IsSeq(errmsg.text)'
    BY <2>5, ShortSeqs, Saying DEF Says, TypeInv
  <2> QED
    BY <2>1, <2>4, <2>6 DEF TypeInv, Frames, IsSeq, IsFrame, IsValue
<1>4. Pending /\ UNCHANGED parent /\ Frames
  BY DEF TypeInv, InstallInv, Child
<1> QED
  BY <1>1, <1>2, <1>3, <1>4, FunctionSteps1, FunctionSteps2, FunctionSteps3, ExtractSteps,
     PlainSteps1, PlainSteps2, PlainSteps3, PlainSteps4, WalkSteps, Zenon DEF Child, Updater

LEMMA OtherTypes ==
    ASSUME TypeInv, OtherWrites \/ OtherExits
    PROVE  Typed' /\ Frames'
<1>1. /\ UNCHANGED <<ppc, sigOn, keys, zip, result, stack, ret, errmsg, xi, faults>>
      /\ cpc' \in {"other", "exited"} /\ (UNCHANGED status \/ status' \in {0, 1, 256})
  BY DEF OtherWrites, OtherExits, parent, settings, updater, edify, walk, Signal
<1>2. Typed'
  BY <1>1 DEF TypeInv, Typed
<1> QED
  BY <1>1, <1>2 DEF TypeInv, Frames, IsSeq, IsFrame, IsValue

LEMMA ParentTypes ==
    ASSUME TypeInv, Parent
    PROVE  Typed' /\ Frames'
<1>1. UNCHANGED <<sigOn, keys, stack, ret, errmsg, xi>>
  <2>1. UNCHANGED settings /\ UNCHANGED updater
    BY Zenon DEF Parent, EnsureMounted, LoadKeys, Verify, Open, FindBinary, ExtractBinary,
       Fork, Obey, ObeyDies, EndOfFile, WaitPid, HandleFirmware
  <2> QED
    BY <2>1 DEF settings, updater, edify, walk
<1>2. Counts
  BY Zenon DEF Counts, Works, Parent, EnsureMounted, LoadKeys, Verify, Open, FindBinary, ExtractBinary,
     Fork, Obey, ObeyDies, EndOfFile, WaitPid, HandleFirmware
<1>3. \/ UNCHANGED <<cpc, status>>
      \/ cpc' \in {"main", "other", "exited", "unborn"} /\ status' \in {0, 1, 255, 256}
  <2>1. CASE Fork
    BY <2>1 DEF Fork, Signal
  <2>2. CASE Obey \/ ObeyDies
    BY <2>2 DEF Obey, ObeyDies, Signal
  <2>3. ASSUME ~Fork, ~Obey, ~ObeyDies PROVE UNCHANGED process
    BY <2>3, Zenon DEF Parent, EnsureMounted, LoadKeys, Verify, Open, FindBinary, ExtractBinary,
       EndOfFile, WaitPid, HandleFirmware
  <2> QED
    BY <2>1, <2>2, <2>3 DEF process
<1>4. /\ ppc' = ppc \/ ppc' \in {"keys", "verify", "open", "find", "extract", "fork", "read", "wait",
                               "firmware", "done"}
      /\ result' = result \/ result' \in {"SUCCESS", "ERROR", "CORRUPT", "UPDATE_BINARY_MISSING", "DIED"}
      /\ zip' = zip \/ zip' \in {"open", "closed"}
  <2>1. CASE EnsureMounted \/ LoadKeys \/ Verify \/ Open
    BY <2>1 DEF EnsureMounted, LoadKeys, Verify, Open, INSTALL, Next_
  <2>2. CASE FindBinary \/ ExtractBinary
    BY <2>2 DEF FindBinary, ExtractBinary, INSTALL, Next_
  <2>3. CASE Fork \/ Obey \/ ObeyDies \/ EndOfFile
    BY <2>3 DEF Fork, Obey, ObeyDies, EndOfFile, Next_, INSTALL
  <2>4. CASE WaitPid \/ HandleFirmware
    BY <2>4 DEF WaitPid, HandleFirmware, INSTALL, Next_
  <2> QED
    BY <2>1, <2>2, <2>3, <2>4 DEF Parent
<1>5. Typed'
  BY <1>1, <1>2, <1>3, <1>4, CountsUp DEF TypeInv, Typed
<1> QED
  BY <1>1, <1>5 DEF TypeInv, Frames, IsSeq, IsFrame, IsValue

LEMMA NextTypes == TypeInv /\ [Next]_vars => TypeInv'
<1> SUFFICES ASSUME TypeInv, [Next]_vars PROVE TypeInv'
  OBVIOUS
<1>1. InstallInv'
  BY NextInstall DEF TypeInv
<1>2. CASE Next
  BY <1>1, <1>2, ChildTypes, OtherTypes, ParentTypes DEF Next, TypeInv
<1>3. CASE UNCHANGED vars
  <2>1. UNCHANGED <<ppc, sigOn, keys, zip, result, stack, ret, errmsg, xi, faults, cpc, status>>
    BY <1>3 DEF vars, parent, settings, child, process, edify, walk
  <2>2. Typed'
    BY <2>1 DEF TypeInv, Typed
  <2> QED
    BY <1>1, <2>1, <2>2 DEF TypeInv, Frames, IsSeq, IsFrame, IsValue
<1> QED
  BY <1>2, <1>3

LEMMA PrintableLines == TypeInv => Printable
<1> SUFFICES ASSUME TypeInv PROVE Printable
  OBVIOUS
<1>1. IsSeq(Lines(errmsg.text))
  BY LinesSeq DEF TypeInv, Frames
<1> QED
  BY <1>1 DEF Printable, IsSeq

\* Type correctness of both processes: the stack is one of calls with values
\* of their arguments, every function returns a value, and a message that is
\* set can be cut into lines.
THEOREM TypeCorrect == Spec => []TypeOK
<1>1. TypeInv => TypeOK
  <2> SUFFICES ASSUME TypeInv PROVE TypeOK
    OBVIOUS
  <2>1. StackOK
    <3>1. \A k \in 1..Len(stack) : IsCall(stack[k])
      BY DEF TypeInv, Frames, IsFrame, IsCall
    <3>2. stack # <<>> => Top.e \in Exprs
      BY TopFrame DEF TypeInv
    <3> QED
      BY <3>1, <3>2 DEF TypeInv, Frames, StackOK
  <2> QED
    BY <2>1, PrintableLines DEF TypeInv, InstallInv, Typed, TypeOK
<1>2. TypeInv /\ [Next]_vars => TypeInv'
  BY NextTypes
<1> QED
  BY <1>1, <1>2, InitTypes, PTL DEF Spec

\* The message of an abort reaches the screen, whatever the size of the pipe,
\* the lines in it, the speed of the two processes and the failures: strtok()
\* cuts every message into a sequence of lines.
THEOREM AbortReachesScreen == Spec => []AbortShown
<1>1. RelayInv => AbortShown
  <2> SUFFICES ASSUME RelayInv, result = "ERROR", cpc = "exited", status = 7,
                      binary = "updater", Fits
               PROVE  IsSuffix(AbortText, screen)
    BY DEF AbortShown
  <2>1. cpc = "exited" /\ ppc = "done"
    BY DEF RelayInv, Drained, Ended, InstallInv, Handshake
  <2>2. pipe = <<>> /\ out = <<>>
    BY <2>1 DEF RelayInv, Drained, Ended
  <2>3. Len(pipe) = 0 /\ Len(out) = 0
    BY <2>2
  <2>4. IsSeq(AbortText) /\ IsSeq(screen) /\ Len(AbortText) \in Nat
    BY <2>1, LenProperties DEF RelayInv, Relay, Telling, IsSeq
  <2>5. PICK m, r \in 0..Len(AbortText) : Relayed(m, r)
    BY <2>1 DEF RelayInv, Relay, Telling
  <2>6. r = Len(AbortText)
    BY <2>3, <2>4, <2>5 DEF Relayed, RelayedIn
  <2>7. /\ Len(AbortText) <= Len(screen)
        /\ \A i \in 1..Len(AbortText) : screen[Len(screen) - Len(AbortText) + i] = AbortText[i]
    BY <2>5, <2>6 DEF Relayed, RelayedIn
  <2> QED
    BY <2>4, <2>7, EndOfScreen
<1>2. RelayInv /\ Printable' /\ [Next]_vars => RelayInv'
  BY NextRelay
<1>3. Init => RelayInv
  BY InitRelay
<1>4. TypeInv => Printable
  BY PrintableLines
<1>5. Init => TypeInv
  BY InitTypes
<1>6. TypeInv /\ [Next]_vars => TypeInv'
  BY NextTypes
<1> QED
  BY <1>1, <1>2, <1>3, <1>4, <1>5, <1>6, PTL DEF Spec

-----------------------------------------------------------------------------
(* Archives *)

\* What an archive that can be opened looks like.
Sound(s) == IsSeq(s) /\ IsEntries(Range(s)) /\ InOrder(s)

LEMMA EmptySound == Sound(<<>>)
<1>1. Range(<<>>) = {} /\ Len(<<>>) = 0
  BY DEF Range
<1> QED
  BY <1>1, ShortSeqs DEF Sound, IsEntries, InOrder

\* A set of offsets that are not too large has a last one.
LEMMA LastOf ==
    ASSUME NEW S, S \subseteq Nat, S # {}, NEW m \in Int, \A o \in S : o <= m
    PROVE  \E o \in S : \A q \in S : q <= o
<1> DEFINE T == {m - o : o \in S}
<1>1. T \subseteq Nat /\ T # {}
  <2>1. \A o \in S : m - o \in Nat
    OBVIOUS
  <2> QED
    BY <2>1
<1>2. PICK x \in T : \A y \in T : x <= y
  <2> HIDE DEF T
  <2> QED
    BY <1>1, LeastNat
<1>3. PICK o \in S : x = m - o
  OBVIOUS
<1>4. ASSUME NEW q \in S PROVE q <= o
  <2>1. m - q \in T
    OBVIOUS
  <2>2. x <= m - q
    BY <1>2, <2>1
  <2> QED
    BY <1>3, <2>2
<1> QED
  BY <1>4

LEMMA ArchiveSound == ASSUME NEW p \in Packages PROVE Sound(mzOpenZipArchive(p))
<1> DEFINE S == {o \in p.ends : o <= p.len - ENDHDR}
<1>1. CASE ~Parses(p)
  BY <1>1, EmptySound DEF mzOpenZipArchive
<1>2. CASE Parses(p)
  <2>1. /\ p.ends \subseteq Nat /\ p.len - ENDHDR \in Int
        /\ \A o \in p.ends : /\ IsSeq(p.dir[o])
                             /\ \A i \in DOMAIN p.dir[o] : p.dir[o][i].name \in Seq(DOMAIN Ord)
    BY InstallAssumption, UpdaterAssumption
  <2>2. EndOffset(p) # -1 /\ mzOpenZipArchive(p) = Sorted(p.dir[EndOffset(p)])
    BY <1>2 DEF Parses, mzOpenZipArchive
  <2>3. EndOffset(p) = IF S = {} THEN -1 ELSE CHOOSE o \in S : \A q \in S : q <= o
    BY DEF EndOffset
  <2>4. S # {} /\ S \subseteq Nat /\ \A o \in S : o <= p.len - ENDHDR
    BY <2>1, <2>2, <2>3
  <2>5. S \subseteq p.ends
    OBVIOUS
  <2> HIDE DEF S
  <2>6. \E o \in S : \A q \in S : q <= o
    BY <2>1, <2>4, LastOf
  <2>7. EndOffset(p) \in p.ends
    BY <2>3, <2>4, <2>5, <2>6
  <2> DEFINE dir == p.dir[EndOffset(p)]
  <2>8. IsSeq(dir) /\ \A i \in DOMAIN dir : dir[i].name \in Seq(DOMAIN Ord)
    BY <2>1, <2>7
  <2> HIDE DEF dir
  <2>9. IsEntries(Range(dir))
    BY <2>8 DEF IsEntries, Range, Names
  <2>10. /\ Sorted(dir) \in Seq(Range(dir)) /\ Range(Sorted(dir)) = Range(dir)
         /\ InOrder(Sorted(dir))
    BY <2>8, <2>9, ArraySorted
  <2> QED
    BY <2>2, <2>9, <2>10, SeqOver DEF Sound, dir
<1> QED
  BY <1>1, <1>2

-----------------------------------------------------------------------------
(* Targets *)

\* The directory entries are extracted to, with its slash.
Base(d) == IF Last(d) = Slash THEN d ELSE Append(d, Slash)

LEMMA BaseSeq ==
    ASSUME NEW d, IsSeq(d), d # <<>>
    PROVE  IsSeq(Base(d)) /\ Len(Base(d)) \in Nat \ {0} /\ Base(d)[1] = d[1]
<1>1. Len(d) \in Nat \ {0}
  BY SeqHeadTail
<1>2. /\ IsSeq(Append(d, Slash)) /\ Len(Append(d, Slash)) = Len(d) + 1
      /\ \A i \in 1..Len(d) : Append(d, Slash)[i] = d[i]
  BY SeqAppended
<1> QED
  BY <1>1, <1>2 DEF Base

LEMMA ZPathSeq == ASSUME NEW d, IsSeq(d) PROVE IsSeq(ZPath(d))
BY SeqAppended DEF ZPath

\* The characters of a target: those of the directory and, behind them, those
\* of the name behind the part of it that all wanted names have.
Goes(t, d, z, name) ==
    LET b == Len(Base(d))
        k == Len(name) - Len(z)
    IN  /\ IsSeq(t) /\ k \in Nat /\ Len(t) = b + k /\ b \in Nat \ {0} /\ t[1] = d[1]
        /\ \A i \in 1..k : t[b + i] = name[Len(z) + i]

LEMMA TargetSeq ==
    ASSUME NEW d, IsSeq(d), d # <<>>, NEW z, IsSeq(z), NEW e, IsSeq(e.name), IsPrefix(z, e.name)
    PROVE  Goes(targetEntryPath(d, z, e), d, z, e.name)
<1> DEFINE n == e.name
           b == Len(Base(d))
           k == Len(n) - Len(z)
           r == SubSeq(n, Len(z) + 1, Len(n))
           S == Range(n) \cup Range(Base(d))
<1>1. IsSeq(n) /\ IsSeq(Base(d)) /\ b \in Nat \ {0} /\ Base(d)[1] = d[1]
  BY BaseSeq
<1>2. n \in Seq(S) /\ Base(d) \in Seq(S)
  BY <1>1, SeqMonotonic DEF IsSeq
<1>3. Len(z) \in Nat /\ Len(n) \in Nat /\ Len(z) <= Len(n)
  BY <1>1, PrefixOf, LenProperties DEF IsSeq
<1>4. targetEntryPath(d, z, e) = Base(d) \o r
  BY DEF targetEntryPath, Base
<1> HIDE DEF S, n
<1>5. Len(z) + 1 \in Int /\ \A i \in (Len(z) + 1)..Len(n) : n[i] \in S
  BY <1>2, <1>3, ElementOfSeq
<1>6. /\ r \in Seq(S)
      /\ Len(r) = IF Len(z) + 1 <= Len(n) THEN Len(n) - (Len(z) + 1) + 1 ELSE 0
      /\ \A i \in 1..(Len(n) - (Len(z) + 1) + 1) : r[i] = n[Len(z) + 1 + i - 1]
  BY <1>3, <1>5, SubSeqProperties
<1>7. Len(r) = k /\ k \in Nat
  BY <1>3, <1>6
<1>8. ASSUME NEW i \in 1..k PROVE r[i] = n[Len(z) + i]
  <2>1. Len(z) + 1 + i - 1 = Len(z) + i /\ i \in 1..(Len(n) - (Len(z) + 1) + 1)
    BY <1>3
  <2> QED
    BY <1>6, <2>1
<1> HIDE DEF r
<1>9. /\ Base(d) \o r \in Seq(S) /\ Len(Base(d) \o r) = b + Len(r)
      /\ \A i \in 1..(b + Len(r)) : (Base(d) \o r)[i] = IF i <= b THEN Base(d)[i] ELSE r[i - b]
  BY <1>2, <1>6, ConcatProperties
<1>10. (Base(d) \o r)[1] = d[1]
  <2>1. 1 \in 1..(b + Len(r)) /\ 1 <= b
    BY <1>1, <1>7
  <2> QED
    BY <1>1, <1>9, <2>1
<1>11. ASSUME NEW i \in 1..k PROVE (Base(d) \o r)[b + i] = n[Len(z) + i]
  <2>1. b + i \in 1..(b + Len(r)) /\ ~(b + i <= b) /\ (b + i) - b = i
    BY <1>1, <1>7
  <2> QED
    BY <1>8, <1>9, <2>1
<1>12. IsSeq(Base(d) \o r)
  BY <1>9, SeqOver
<1> QED
  BY <1>1, <1>4, <1>7, <1>9, <1>10, <1>11, <1>12 DEF n, Goes

\* Two wanted entries with one target have one name.
LEMMA TargetsDiffer ==
    ASSUME NEW d, IsSeq(d), d # <<>>, NEW z, IsSeq(z),
           NEW e, IsSeq(e.name), IsPrefix(z, e.name),
           NEW f, IsSeq(f.name), IsPrefix(z, f.name),
           targetEntryPath(d, z, e) = targetEntryPath(d, z, f)
    PROVE  e.name = f.name
<1> DEFINE t == targetEntryPath(d, z, e)
           b == Len(Base(d))
           k == Len(e.name) - Len(z)
           l == Len(f.name) - Len(z)
           S == Range(e.name) \cup Range(f.name)
<1>1. /\ k \in Nat /\ Len(t) = b + k /\ b \in Nat
      /\ \A i \in 1..k : t[b + i] = e.name[Len(z) + i]
  <2>1. Goes(t, d, z, e.name)
    BY TargetSeq, Zenon
  <2> HIDE DEF t
  <2> QED
    BY <2>1 DEF Goes
<1>2. /\ l \in Nat /\ Len(t) = b + l
      /\ \A i \in 1..l : t[b + i] = f.name[Len(z) + i]
  <2>1. Goes(targetEntryPath(d, z, f), d, z, f.name)
    BY TargetSeq, Zenon
  <2>2. Goes(t, d, z, f.name)
    BY <2>1, Zenon
  <2> HIDE DEF t
  <2> QED
    BY <2>2 DEF Goes
<1>3. /\ Len(z) <= Len(e.name) /\ \A i \in 1..Len(z) : e.name[i] = z[i]
      /\ Len(z) <= Len(f.name) /\ \A i \in 1..Len(z) : f.name[i] = z[i]
  BY PrefixOf
<1>4. Len(z) \in Nat /\ Len(e.name) \in Nat /\ Len(f.name) \in Nat
  BY LenProperties DEF IsSeq
<1> HIDE DEF t, b
<1>5. Len(e.name) = Len(f.name) /\ k = l
  BY <1>1, <1>2, <1>4
<1>6. ASSUME NEW i \in 1..Len(e.name) PROVE e.name[i] = f.name[i]
  <2>1. CASE i <= Len(z)
    BY <1>3, <1>4, <2>1
  <2>2. CASE ~(i <= Len(z))
    <3>1. i - Len(z) \in 1..k /\ Len(z) + (i - Len(z)) = i
      BY <1>4, <2>2
    <3> QED
      BY <1>1, <1>2, <1>5, <3>1
  <2> QED
    BY <2>1, <2>2
<1>7. e.name \in Seq(S) /\ f.name \in Seq(S)
  BY SeqMonotonic DEF IsSeq
<1> HIDE DEF S
<1> QED
  BY <1>5, <1>6, <1>7, SeqEqual

-----------------------------------------------------------------------------
(* The device *)

\* Files are on mounted volumes and on the ramdisk.
IsTree(t) == t = [v \in Volumes \cup {"ram"} |-> t[v]]
Device == mounted \subseteq Volumes /\ IsTree(tree)

LEMMA PlaceIn == ASSUME Device, NEW path PROVE Place(path) \in Volumes \cup {"ram"}
BY DEF Device, Place

LEMMA Stores ==
    ASSUME Device
    PROVE  /\ \A v, f : IsTree([tree EXCEPT ![v] = f])
           /\ \A path, f : IsTree(Store(path, f))
           /\ \A path, f : Store(path, f)[Place(path)] = f
           /\ \A S : IsTree(Removed(S))
<1>1. tree = [v \in Volumes \cup {"ram"} |-> tree[v]]
  BY DEF Device, IsTree
<1>2. \A v, f : IsTree([tree EXCEPT ![v] = f])
  BY <1>1 DEF IsTree
<1>3. \A path, f : IsTree(Store(path, f))
  BY <1>2 DEF Store
<1>4. \A path, f : Store(path, f)[Place(path)] = f
  BY <1>1, PlaceIn DEF Store
<1>5. \A S : IsTree(Removed(S))
  BY <1>1 DEF IsTree, Removed
<1> QED
  BY <1>2, <1>3, <1>4, <1>5

LEMMA DeviceSame == ASSUME Device, UNCHANGED <<tree, mounted>> PROVE Device'
BY DEF Device, IsTree

LEMMA DeviceTree == ASSUME Device, UNCHANGED mounted, IsTree(tree') PROVE Device'
BY DEF Device, IsTree

\* The functions of a script that change the device.
LEMMA VolumeSteps ==
    ASSUME Device, MountFn \/ UnmountFn \/ FormatFn
    PROVE  Device'
<1>1. CASE MountFn
  <2>1. UNCHANGED tree /\ (UNCHANGED mounted \/ \E v \in Volumes : mounted' = mounted \cup {v})
    BY <1>1, Zenon DEF MountFn
  <2> QED
    BY <2>1 DEF Device, IsTree
<1>2. CASE UnmountFn
  <2>1. UNCHANGED tree /\ (UNCHANGED mounted \/ \E v : mounted' = mounted \ {v})
    BY <1>2, Zenon DEF UnmountFn
  <2> QED
    BY <2>1 DEF Device, IsTree
<1>3. CASE FormatFn
  <2>1. UNCHANGED mounted /\ (UNCHANGED tree \/ \E v, f : tree' = [tree EXCEPT ![v] = f])
    <3>1. UNCHANGED mounted
      BY <1>3, Zenon DEF FormatFn
    <3>2. \/ UNCHANGED tree
          \/ tree' = [tree EXCEPT ![A(3)[1]] = Without(@, DOMAIN @)]
      BY <1>3, Zenon DEF FormatFn
    <3> QED
      BY <3>1, <3>2
  <2>2. CASE UNCHANGED tree
    BY <2>1, <2>2, DeviceSame
  <2>3. ASSUME NEW v, NEW f, tree' = [tree EXCEPT ![v] = f] PROVE Device'
    <3>1. IsTree([tree EXCEPT ![v] = f])
      BY Stores
    <3> QED
      BY <2>1, <2>3, <3>1, DeviceTree
  <2> QED
    BY <2>1, <2>2, <2>3
<1> QED
  BY <1>1, <1>2, <1>3

LEMMA FileSteps ==
    ASSUME Device, \/ DeleteFn("delete") \/ DeleteFn("delete_recursive") \/ SymlinkFn
                   \/ SetPermFn("set_perm") \/ SetPermFn("set_perm_recursive")
                   \/ PackageExtractFileFn \/ ApplyPatchFn
    PROVE  Device'
<1>0. tree = [v \in Volumes \cup {"ram"} |-> tree[v]] /\ DOMAIN tree = Volumes \cup {"ram"}
  BY DEF Device, IsTree
<1>1. ASSUME NEW name, DeleteFn(name) PROVE Device'
  <2>1. UNCHANGED mounted /\ \E S : tree' = Removed(S)
    BY <1>1, Zenon DEF DeleteFn
  <2> QED
    BY <2>1, Stores, DeviceTree
<1>2. CASE SymlinkFn
  <2>1. UNCHANGED mounted
    BY <1>2, Zenon DEF SymlinkFn
  <2> DEFINE able == {i \in 2..Argc : Reachable(A(i)) /\ Kind(A(i)) # "dir"}
  <2>2. PICK bad \in SUBSET able : \E kept \in SUBSET bad :
            tree' = [p \in DOMAIN tree |->
               [q \in At({A(i) : i \in able \ bad}, p) |-> Node("link", A(1))]
                   @@ Removed({A(i) : i \in able \ kept})[p]]
    BY <1>2, Zenon DEF SymlinkFn
  <2> DEFINE new(kept, p) == [q \in At({A(i) : i \in able \ bad}, p) |-> Node("link", A(1))]
                                 @@ Removed({A(i) : i \in able \ kept})[p]
  <2>3. \E kept \in SUBSET bad : tree' = [p \in Volumes \cup {"ram"} |-> new(kept, p)]
    BY <1>0, <2>2, Zenon
  <2> HIDE DEF new
  <2>4. IsTree(tree')
    BY <2>3 DEF IsTree
  <2> QED
    BY <2>1, <2>4, DeviceTree
<1>3. ASSUME NEW name, SetPermFn(name) PROVE Device'
  <2>1. UNCHANGED mounted
    BY <1>3, Zenon DEF SetPermFn
  <2>2. CASE UNCHANGED tree
    BY <2>1, <2>2, DeviceSame
  <2> DEFINE mode(q) == IF name = "set_perm" \/ Kind(q) = "dir" THEN NumberOf(A(3)) ELSE NumberOf(A(4))
             new(S, p) == [q \in DOMAIN tree[p] |->
                              IF q \in S /\ p = Place(q)
                              THEN [tree[p][q] EXCEPT !.m = mode(q)] ELSE tree[p][q]]
  <2>3. ASSUME NEW S, tree' = [p \in DOMAIN tree |-> new(S, p)] PROVE Device'
    <3>1. tree' = [p \in Volumes \cup {"ram"} |-> new(S, p)]
      BY <1>0, <2>3, Zenon
    <3> HIDE DEF new
    <3>2. IsTree(tree')
      BY <3>1 DEF IsTree
    <3> QED
      BY <2>1, <3>2, DeviceTree
  <2> DEFINE numbers == IF name = "set_perm" THEN 3 ELSE 4
             touched(i) == IF name = "set_perm" THEN {Real(A(i))}
                           ELSE {p \in Below(A(i)) \cup {A(i)} : Kind(p) \in {"file", "dir"}}
             all(bad, part) == part \cup UNION {touched(i) : i \in ((numbers + 1)..Argc) \ bad}
  <2>4. \/ UNCHANGED tree
        \/ \E bad \in SUBSET ((numbers + 1)..Argc) :
           \E part \in SUBSET UNION {touched(i) : i \in bad} :
               tree' = [p \in DOMAIN tree |-> new(all(bad, part), p)]
    BY <1>3, Zenon DEF SetPermFn
  <2> HIDE DEF new, all, touched, numbers
  <2> QED
    BY <2>2, <2>3, <2>4
<1>4. CASE PackageExtractFileFn
  <2>1. UNCHANGED mounted /\ (UNCHANGED tree \/ \E path, f : tree' = Store(path, f))
    BY <1>4 DEF PackageExtractFileFn
  <2> QED
    BY <2>1, Stores, DeviceTree, DeviceSame
<1>5. CASE ApplyPatchFn
  <2>1. UNCHANGED mounted /\ (UNCHANGED tree \/ \E path, f : tree' = Store(path, f))
    BY <1>5, Zenon DEF ApplyPatchFn
  <2> QED
    BY <2>1, Stores, DeviceTree, DeviceSame
<1> QED
  BY <1>1, <1>2, <1>3, <1>4, <1>5

LEMMA ExtractDevice ==
    ASSUME Device, ExtractEntry
    PROVE  Device'
<1>1. UNCHANGED mounted /\ (UNCHANGED tree \/ \E path, f : tree' = Store(path, f))
  BY Zenon DEF ExtractEntry
<1> QED
  BY <1>1, Stores, DeviceTree, DeviceSame

-----------------------------------------------------------------------------
(* The walk *)

\* No target leads elsewhere.
Straight ==
    \A i \in DOMAIN entries : Wanted(entries[i]) => Real(Target(entries[i])) = Target(entries[i])

\* The entries before the n-th are extracted, the last one of every name.
InPlace(e) ==
    LET t == Target(e)
    IN  t \in DOMAIN tree[Place(t)] /\ tree[Place(t)][t].d = <<e.data>>
Placed(n) ==
    \A i \in 1..(n - 1) :
        (Wanted(entries[i]) /\ \A j \in (i + 1)..(n - 1) : entries[j].name # entries[i].name)
            => InPlace(entries[i])

\* package_extract_dir() is what runs, and how far it has come.
Walking ==
    xi > 0 =>
        /\ xi <= Len(entries) + 1
        /\ cpc \in {"eval", "exited"} /\ Got = 2 /\ A(2) # <<>>
        /\ seen => \E k \in 1..(xi - 1) : Matches(entries[k], ZPath(A(1)))
        /\ Straight => Placed(xi)

WalkInv == TypeInv /\ Sound(entries) /\ Device /\ Walking

LEMMA EntryNames ==
    ASSUME Sound(entries)
    PROVE  /\ Len(entries) \in Nat /\ DOMAIN entries = 1..Len(entries)
           /\ \A i \in DOMAIN entries : entries[i].name \in Names /\ IsSeq(entries[i].name)
<1>1. Len(entries) \in Nat /\ DOMAIN entries = 1..Len(entries)
  BY LenProperties DEF Sound, IsSeq
<1>2. \A i \in DOMAIN entries : entries[i].name \in Names
  BY DEF Sound, IsEntries, Range
<1> QED
  BY <1>1, <1>2, SeqOver DEF Names

\* All targets are below the second argument, on its volume.
LEMMA WantedTargets ==
    ASSUME Frames, Sound(entries), stack # <<>>, Got = 2, A(2) # <<>>,
           NEW i \in DOMAIN entries, Wanted(entries[i])
    PROVE  /\ Target(entries[i]) # <<>> /\ Place(Target(entries[i])) = Place(A(2))
           /\ \A j \in DOMAIN entries :
                  Wanted(entries[j]) /\ Target(entries[i]) = Target(entries[j]) =>
                      entries[i].name = entries[j].name
<1> DEFINE d == A(2)
           z == ZPath(A(1))
           e == entries[i]
           t == Target(e)
<1>1. IsSeq(d) /\ IsSeq(z) /\ d # <<>>
  BY TopFrame, ZPathSeq
<1>2. \A j \in DOMAIN entries : IsSeq(entries[j].name)
  BY EntryNames
<1>3. \A j \in DOMAIN entries : Wanted(entries[j]) => IsPrefix(z, entries[j].name)
  BY DEF Wanted, Matches
<1>4. \A f : Target(f) = targetEntryPath(d, z, f)
  BY DEF Target
<1> HIDE DEF d, z
<1>5. Goes(t, d, z, e.name)
  <2>1. Goes(targetEntryPath(d, z, e), d, z, e.name)
    BY <1>1, <1>2, <1>3, TargetSeq
  <2> QED
    BY <1>4, <2>1
<1> HIDE DEF t
<1>6. IsSeq(t) /\ Len(t) \in Nat \ {0} /\ t[1] = d[1]
  BY <1>5 DEF Goes
<1>7. t # <<>> /\ Head(t) = t[1]
  <2>1. t # <<>>
    BY <1>6
  <2> QED
    BY <1>6, <2>1, SeqHeadTail
<1>8. Head(d) = d[1]
  BY <1>1, SeqHeadTail
<1>9. Place(t) = Place(d)
  BY <1>6, <1>7, <1>8 DEF Place
<1>10. ASSUME NEW j \in DOMAIN entries, Wanted(entries[j]), Target(e) = Target(entries[j])
       PROVE  e.name = entries[j].name
  <2> DEFINE f == entries[j]
  <2>1. targetEntryPath(d, z, e) = targetEntryPath(d, z, f)
    BY <1>4, <1>10
  <2>2. IsSeq(e.name) /\ IsPrefix(z, e.name) /\ IsSeq(f.name) /\ IsPrefix(z, f.name)
    BY <1>2, <1>3, <1>10
  <2> HIDE DEF e, f
  <2>3. e.name = f.name
    BY <1>1, <2>1, <2>2, TargetsDiffer
  <2> QED
    BY <2>3 DEF f
<1> QED
  BY <1>7, <1>9, <1>10 DEF t, d

\* What a path of a volume with these nodes leads to.
RealIn(F, u) == IF u \in DOMAIN F /\ F[u].kind = "link" THEN F[u].d ELSE u

LEMMA RealIs == ASSUME NEW u, u # <<>> PROVE Real(u) = RealIn(tree[Place(u)], u)
BY DEF Real, Kind, Exists, Files, RealIn

\* A link is written through: it stays, and so does a path that is one.
LEMMA WritesThrough ==
    ASSUME NEW F, NEW G, NEW W, NEW t \in W,
           \A u \in W : u \in DOMAIN F /\ u # RealIn(F, t) => u \in DOMAIN G /\ G[u] = F[u],
           \A u \in W : RealIn(G, u) = u
    PROVE  \A u \in W : RealIn(F, u) = u
<1> SUFFICES ASSUME NEW w \in W, RealIn(F, w) # w PROVE FALSE
  OBVIOUS
<1>1. ASSUME NEW u \in W, u # RealIn(F, t) PROVE RealIn(F, u) = u
  BY <1>1 DEF RealIn
<1>2. w = RealIn(F, t)
  BY <1>1
<1>3. t # w
  BY <1>2
<1> QED
  BY <1>1, <1>2, <1>3

LEMMA ExtractPlaces ==
    ASSUME WalkInv, xi > 0, xi <= Len(entries), Wanted(entries[xi]),
           UNCHANGED <<stack, entries, mounted>>, xi' = xi + 1,
           LET e == entries[xi]
               t == Target(e)
           IN  tree' = Store(t, Written(WithDirs(t, Missing(t)), Real(t), e.data)),
           Straight'
    PROVE  Placed(xi)'
<1> DEFINE e == entries[xi]
           t == Target(e)
           P == Place(A(2))
           F == tree[P]
           r == Real(t)
           W == {Target(entries[i]) : i \in {j \in DOMAIN entries : Wanted(entries[j])}}
           H == WithDirs(t, Missing(t))
           G == Written(H, r, e.data)
<1>1. /\ Frames /\ Sound(entries) /\ Device /\ stack # <<>> /\ Got = 2 /\ A(2) # <<>>
      /\ Straight => Placed(xi)
  BY DEF WalkInv, TypeInv, Frames, Walking
<1>2. xi \in Nat /\ xi \in DOMAIN entries /\ Len(entries) \in Nat /\ DOMAIN entries = 1..Len(entries)
  BY <1>1, EntryNames DEF Frames
<1>3. \A u \in W : u # <<>> /\ Place(u) = P
  BY <1>1, WantedTargets
<1>4. t \in W
  BY <1>2
<1>5. tree'[P] = G
  <2>1. tree' = Store(t, G) /\ Place(t) = P
    BY <1>3, <1>4
  <2> HIDE DEF G, t, P
  <2> QED
    BY <1>1, <2>1, Stores
<1>6. \A u : Place(u)' = Place(u)
  BY DEF Place
<1>7. \A f : Target(f)' = Target(f) /\ (Wanted(f)' <=> Wanted(f))
  BY DEF Target, Wanted, A, Top
<1>8. r = RealIn(F, t)
  <2>1. t # <<>> /\ Place(t) = P
    BY <1>3, <1>4
  <2> HIDE DEF t, P
  <2> QED
    BY <2>1, RealIs
<1>9. DOMAIN G = DOMAIN H \cup {r} /\ G[r].d = <<e.data>> /\ \A u \in DOMAIN H : u # r => G[u] = H[u]
  <2> HIDE DEF H, r, e
  <2> QED
    BY DEF Written
<1>10. ASSUME NEW u \in W, u \in DOMAIN F PROVE u \in DOMAIN H /\ H[u] = F[u]
  <2>1. Exists(u)
    BY <1>3, <1>10 DEF Exists, Files
  <2>2. u \notin Missing(t)
    BY <2>1 DEF Missing
  <2>3. Files(t) = F
    BY <1>3, <1>4 DEF Files
  <2> HIDE DEF t, F, W
  <2> QED
    BY <1>10, <2>2, <2>3 DEF WithDirs
<1>11. \A u \in W : u \in DOMAIN F /\ u # r => u \in DOMAIN G /\ G[u] = F[u]
  <2> HIDE DEF G, H, F, W, r
  <2> QED
    BY <1>9, <1>10
<1>12. ASSUME NEW u \in W PROVE RealIn(G, u) = u
  <2>1. PICK i \in DOMAIN entries : Wanted(entries[i]) /\ u = Target(entries[i])
    OBVIOUS
  <2>2. Real(u)' = u
    BY <1>7, <2>1 DEF Straight
  <2>3. Real(u)' = RealIn(tree'[P], u)
    <3>1. u # <<>> /\ Place(u)' = P
      BY <1>3, <1>6
    <3> HIDE DEF P, W
    <3> QED
      BY <3>1 DEF Real, Kind, Exists, Files, RealIn
  <2> QED
    BY <1>5, <2>2, <2>3
<1>13. \A u \in W : RealIn(F, u) = u
  <2> HIDE DEF G, F, W, t, r
  <2> QED
    BY <1>4, <1>8, <1>11, <1>12, WritesThrough
<1>14. r = t
  BY <1>4, <1>8, <1>13
<1>15. Straight
  <2> SUFFICES ASSUME NEW i \in DOMAIN entries, Wanted(entries[i])
               PROVE  Real(Target(entries[i])) = Target(entries[i])
    BY DEF Straight
  <2> DEFINE u == Target(entries[i])
  <2>1. u \in W
    OBVIOUS
  <2> HIDE DEF u
  <2>2. Real(u) = RealIn(tree[Place(u)], u) /\ Place(u) = P
    BY <1>3, <2>1, RealIs
  <2> QED
    BY <1>13, <2>1, <2>2 DEF u
<1>16. Placed(xi)
  BY <1>1, <1>15
<1>17. ASSUME NEW i \in 1..((xi + 1) - 1), Wanted(entries[i]),
              \A j \in (i + 1)..((xi + 1) - 1) : entries[j].name # entries[i].name
       PROVE  Target(entries[i]) \in DOMAIN G /\ G[Target(entries[i])].d = <<entries[i].data>>
  <2>1. i \in DOMAIN entries /\ i \in Nat /\ (xi + 1) - 1 = xi
    BY <1>2
  <2>2. CASE i = xi
    BY <1>9, <1>14, <2>2
  <2>3. CASE i # xi
    <3> DEFINE u == Target(entries[i])
    <3>1. i \in 1..(xi - 1) /\ xi \in (i + 1)..((xi + 1) - 1)
      BY <1>2, <2>1, <2>3
    <3>2. u # t
      BY <1>1, <1>2, <1>17, <2>1, <3>1, WantedTargets
    <3>3. \A j \in (i + 1)..(xi - 1) : entries[j].name # entries[i].name
      BY <1>2, <1>17, <2>1
    <3>4. InPlace(entries[i])
      BY <1>16, <1>17, <3>1, <3>3 DEF Placed
    <3>5. u \in W
      BY <1>17, <2>1
    <3>6. Place(u) = P
      BY <1>3, <3>5
    <3>7. u \in DOMAIN F /\ F[u].d = <<entries[i].data>>
      BY <3>4, <3>6 DEF InPlace
    <3> HIDE DEF u, F, G, W, t, r
    <3> QED
      BY <1>11, <1>14, <3>2, <3>5, <3>7 DEF u
  <2> QED
    BY <2>2, <2>3
<1>18. ASSUME NEW i \in 1..((xi + 1) - 1), Wanted(entries[i])
       PROVE  Place(Target(entries[i])) = P
  <2>1. i \in DOMAIN entries
    BY <1>2
  <2> QED
    BY <1>3, <1>18, <2>1
<1> HIDE DEF G, P, W, F
<1> QED
  BY <1>5, <1>6, <1>7, <1>17, <1>18 DEF Placed, InPlace

-----------------------------------------------------------------------------
(* The invariant of the walk *)

LEMMA InitWalk == Init => WalkInv
<1> SUFFICES ASSUME Init PROVE WalkInv
  OBVIOUS
<1>1. entries = <<>> /\ xi = 0 /\ tree = Tree0 /\ mounted = {}
  BY Zenon DEF Init
<1>2. Device
  BY <1>1, InstallAssumption DEF Device, IsTree
<1>3. Walking
  BY <1>1 DEF Walking
<1> QED
  BY <1>1, <1>2, <1>3, InitTypes, EmptySound DEF WalkInv

LEMMA WalkSame ==
    ASSUME WalkInv, TypeInv', UNCHANGED <<stack, entries, tree, mounted, xi, seen>>,
           xi > 0 => cpc' \in {"eval", "exited"}
    PROVE  WalkInv'
<1>1. Sound(entries)' /\ Device'
  BY DeviceSame DEF WalkInv
<1>2. /\ \A f : Target(f)' = Target(f) /\ (Wanted(f)' <=> Wanted(f))
      /\ \A i : A(i)' = A(i) /\ Got' = Got
  BY DEF Target, Wanted, A, Top, Got
<1>3. \A u : Real(u)' = Real(u) /\ Place(u)' = Place(u)
  BY DEF Real, Kind, Exists, Files, Place
<1>4. Straight' <=> Straight
  BY <1>2, <1>3 DEF Straight
<1>5. \A f : InPlace(f)' <=> InPlace(f)
  BY <1>2, <1>3 DEF InPlace
<1>6. Placed(xi)' <=> Placed(xi)
  BY <1>2, <1>5 DEF Placed
<1>7. Walking'
  <2>1. Walking
    BY DEF WalkInv
  <2> QED
    BY <1>2, <1>4, <1>6, <2>1 DEF Walking
<1> QED
  BY <1>1, <1>7 DEF WalkInv

LEMMA NoWalk ==
    ASSUME WalkInv, TypeInv', xi' = 0, Sound(entries'), Device'
    PROVE  WalkInv'
BY DEF WalkInv, Walking

LEMMA QuietSteps ==
    ASSUME \/ Interpret \/ WrongArgc \/ Arguments \/ NullArgument \/ Overrun \/ Mishandled
           \/ IsMountedFn
           \/ FileGetPropFn \/ ReadFileFn \/ GetPropFn \/ WriteRawImageFn \/ ApplyPatchSpaceFn
           \/ ApplyPatchCheckFn \/ Sha1CheckFn \/ RunProgramFn \/ ShowProgressFn
           \/ SetProgressFn \/ UIPrintFn
    PROVE  UNCHANGED <<tree, mounted>>
<1>1. UNCHANGED device \/ UNCHANGED <<tree, mounted>>
  BY Zenon DEF Interpret, WrongArgc, Arguments, NullArgument, Overrun, Mishandled, IsMountedFn,
     FileGetPropFn, ReadFileFn, GetPropFn, WriteRawImageFn, ApplyPatchSpaceFn, ApplyPatchCheckFn, Sha1CheckFn,
     RunProgramFn, ShowProgressFn, SetProgressFn, UIPrintFn
<1> QED
  BY <1>1 DEF device

\* A function of the script that runs while nothing is extracted.
PlainFn ==
    \/ Interpret \/ WrongArgc \/ Arguments \/ NullArgument \/ Overrun \/ Mishandled
    \/ MountFn \/ IsMountedFn \/ UnmountFn \/ FormatFn
    \/ DeleteFn("delete") \/ DeleteFn("delete_recursive") \/ SymlinkFn
    \/ SetPermFn("set_perm") \/ SetPermFn("set_perm_recursive")
    \/ FileGetPropFn \/ ReadFileFn \/ GetPropFn \/ PackageExtractFileFn
    \/ WriteRawImageFn \/ ApplyPatchSpaceFn \/ ApplyPatchFn \/ ApplyPatchCheckFn
    \/ Sha1CheckFn \/ RunProgramFn \/ ShowProgressFn \/ SetProgressFn \/ UIPrintFn

LEMMA PlainWalk ==
    ASSUME Frames, Device, Pending, UNCHANGED parent, PlainFn
    PROVE  xi = 0 /\ xi' = 0 /\ UNCHANGED entries /\ Device'
<1>1. Plain
  BY PlainSteps1, PlainSteps2, PlainSteps3, PlainSteps4, Zenon DEF PlainFn
<1>2. InScript
  BY FunctionSteps1, FunctionSteps2, FunctionSteps3, Zenon DEF PlainFn
<1>3. UNCHANGED entries
  BY <1>2 DEF InScript, process, Crash
<1>4. Device'
  BY QuietSteps, DeviceSame, VolumeSteps, FileSteps, Zenon DEF PlainFn
<1> QED
  BY <1>1, <1>3, <1>4 DEF Plain

LEMMA SkipWalk ==
    ASSUME WalkInv, TypeInv', SkipEntry
    PROVE  WalkInv'
<1>1. /\ UNCHANGED <<cpc, entries, tree, mounted>> /\ xi > 0 /\ cpc = "eval"
  BY DEF SkipEntry, process, device, Extracting
<1>2. CASE \E b : Break(b)
  <2>1. xi' = 0 /\ Device' /\ Sound(entries')
    BY <1>1, <1>2, DeviceSame DEF Break, WalkInv
  <2> QED
    BY <2>1, NoWalk
<1>3. CASE Continue /\ xi <= Len(entries) /\ ~Wanted(entries[xi])
           /\ (seen' => seen \/ Matches(entries[xi], ZPath(A(1))))
  <2>1. UNCHANGED stack /\ xi' = xi + 1 /\ xi \in Nat /\ Walking
    BY <1>3 DEF Continue, edify, WalkInv, TypeInv, Frames
  <2>2. Sound(entries)' /\ Device'
    BY <1>1, DeviceSame DEF WalkInv
  <2>3. /\ \A f : Target(f)' = Target(f) /\ (Wanted(f)' <=> Wanted(f))
        /\ \A i : A(i)' = A(i) /\ Got' = Got
    BY <2>1 DEF Target, Wanted, A, Top, Got
  <2>4. \A u : Real(u)' = Real(u) /\ Place(u)' = Place(u)
    BY <1>1 DEF Real, Kind, Exists, Files, Place
  <2>5. Straight' <=> Straight
    BY <1>1, <2>3, <2>4 DEF Straight
  <2>6. \A f : InPlace(f)' <=> InPlace(f)
    BY <1>1, <2>3, <2>4 DEF InPlace
  <2>7. Placed(xi) => Placed(xi)'
    <3> SUFFICES ASSUME Placed(xi), NEW i \in 1..((xi + 1) - 1), Wanted(entries[i]),
                        \A j \in (i + 1)..((xi + 1) - 1) : entries[j].name # entries[i].name
                 PROVE  InPlace(entries[i])
      BY <1>1, <2>1, <2>3, <2>6 DEF Placed
    <3>1. i # xi
      BY <1>3
    <3>2. i \in 1..(xi - 1) /\ \A j \in (i + 1)..(xi - 1) : j \in (i + 1)..((xi + 1) - 1)
      BY <2>1, <3>1
    <3> QED
      BY <3>2 DEF Placed
  <2>8. seen' => \E k \in 1..((xi + 1) - 1) : Matches(entries[k], ZPath(A(1)))
    <3>1. CASE seen
      <4>1. PICK k \in 1..(xi - 1) : Matches(entries[k], ZPath(A(1)))
        BY <1>1, <2>1, <3>1 DEF Walking
      <4>2. k \in 1..((xi + 1) - 1)
        BY <2>1
      <4> QED
        BY <4>1, <4>2
    <3>2. CASE Matches(entries[xi], ZPath(A(1)))
      <4>1. xi \in 1..((xi + 1) - 1)
        BY <1>1, <2>1
      <4> QED
        BY <3>2, <4>1
    <3> QED
      BY <1>3, <3>1, <3>2
  <2>9. xi + 1 <= Len(entries) + 1 /\ Got = 2 /\ A(2) # <<>> /\ (Straight => Placed(xi))
    <3>1. Len(entries) \in Nat
      BY EntryNames DEF WalkInv
    <3> QED
      BY <1>1, <1>3, <2>1, <3>1 DEF Walking
  <2>10. Walking'
    BY <1>1, <2>1, <2>3, <2>5, <2>7, <2>8, <2>9 DEF Walking
  <2> QED
    BY <2>2, <2>10 DEF WalkInv
<1>4. \/ Break(TRUE)
      \/ /\ Continue /\ xi <= Len(entries) /\ ~Wanted(entries[xi])
         /\ (seen' => seen \/ Matches(entries[xi], ZPath(A(1))))
  BY Zenon DEF SkipEntry, Wanted
<1> QED
  BY <1>2, <1>3, <1>4

LEMMA ExtractWalk ==
    ASSUME WalkInv, TypeInv', ExtractEntry
    PROVE  WalkInv'
<1>1. UNCHANGED <<cpc, entries, mounted>> /\ xi > 0 /\ cpc = "eval" /\ xi <= Len(entries)
  BY DEF ExtractEntry, process, Extracting
<1>2. Device' /\ Sound(entries')
  BY <1>1, ExtractDevice DEF WalkInv
<1>3. CASE \E b : Break(b)
  <2>1. xi' = 0
    BY <1>3 DEF Break
  <2> QED
    BY <1>2, <2>1, NoWalk
<1> DEFINE e == entries[xi]
           t == Target(e)
<1>4. CASE Continue /\ tree' = Store(t, Written(WithDirs(t, Missing(t)), Real(t), e.data))
           /\ Wanted(entries[xi])
  <2>1. UNCHANGED stack /\ xi' = xi + 1 /\ xi \in Nat /\ Walking
    BY <1>4 DEF Continue, edify, WalkInv, TypeInv, Frames
  <2>2. \A i : A(i)' = A(i) /\ Got' = Got
    BY <2>1 DEF A, Top, Got
  <2>3. Straight' => Placed(xi)'
    BY <1>1, <1>4, <2>1, ExtractPlaces
  <2>4. \E k \in 1..((xi + 1) - 1) : Matches(entries[k], ZPath(A(1)))
    <3>1. xi \in 1..((xi + 1) - 1)
      BY <1>1, <2>1
    <3> QED
      BY <1>4, <3>1 DEF Wanted
  <2>5. xi + 1 <= Len(entries) + 1 /\ Got = 2 /\ A(2) # <<>>
    <3>1. Len(entries) \in Nat
      BY EntryNames DEF WalkInv
    <3> QED
      BY <1>1, <2>1, <3>1 DEF Walking
  <2>6. Walking'
    BY <1>1, <2>1, <2>2, <2>3, <2>4, <2>5 DEF Walking
  <2> QED
    BY <1>2, <2>6 DEF WalkInv
<1>5. \/ Break(TRUE) \/ Break(FALSE)
      \/ /\ Continue /\ tree' = Store(t, Written(WithDirs(t, Missing(t)), Real(t), e.data))
         /\ Wanted(entries[xi])
  BY Zenon DEF ExtractEntry, Wanted, Target
<1> QED
  BY <1>3, <1>4, <1>5

LEMMA BeginWalk ==
    ASSUME WalkInv, TypeInv', PackageExtractDirFn
    PROVE  WalkInv'
<1>1. UNCHANGED <<cpc, entries, tree, mounted>> /\ cpc = "eval" /\ xi = 0
  BY DEF PackageExtractDirFn, process, device, Call, Running
<1>2. CASE UNCHANGED walk
  <2>1. xi' = 0 /\ Device' /\ Sound(entries')
    BY <1>1, <1>2, DeviceSame DEF walk, WalkInv
  <2> QED
    BY <2>1, NoWalk
<1>3. CASE xi' = 1 /\ ~seen' /\ UNCHANGED edify /\ A(2) # <<>>
  <2>1. Got = 2
    BY CallArgs DEF PackageExtractDirFn, WalkInv, TypeInv
  <2>2. Got' = 2 /\ A(2)' # <<>>
    BY <1>3, <2>1 DEF edify, Got, A, Top
  <2>3. Device' /\ Sound(entries')
    BY <1>1, DeviceSame DEF WalkInv
  <2>4. Placed(xi)'
    BY <1>3 DEF Placed
  <2>5. xi' <= Len(entries') + 1
    BY <1>1, <1>3, EntryNames DEF WalkInv
  <2>6. Walking'
    BY <1>1, <1>3, <2>2, <2>4, <2>5 DEF Walking
  <2> QED
    BY <2>3, <2>6 DEF WalkInv
<1>4. UNCHANGED walk \/ (xi' = 1 /\ ~seen' /\ UNCHANGED edify /\ A(2) # <<>>)
  BY DEF PackageExtractDirFn, Absolute
<1> QED
  BY <1>2, <1>3, <1>4

LEMMA ChildWalk ==
    ASSUME WalkInv, TypeInv', Child
    PROVE  WalkInv'
<1>0. Frames /\ Device /\ Pending /\ UNCHANGED parent /\ Sound(entries) /\ Walking /\ xi \in Nat
  BY DEF WalkInv, TypeInv, InstallInv, Child, Frames
<1>1. CASE PlainFn
  BY <1>0, <1>1, PlainWalk, NoWalk
<1>2. CASE Start
  <2>1. xi' = xi /\ UNCHANGED <<tree, mounted>> /\ cpc = "main"
        /\ (UNCHANGED entries \/ entries' = Archives[package])
    <3>1. /\ UNCHANGED walk /\ UNCHANGED device /\ cpc = "main"
          /\ \/ Exit(3) \/ Exit(4) \/ Exit(5) \/ Exit(6)
             \/ entries' = Archives[package]
      BY <1>2, Zenon DEF Start
    <3> QED
      BY <3>1 DEF Exit, walk, device
  <2>2. xi = 0
    BY <1>0, <2>1 DEF Walking
  <2>3. Sound(Archives[package])
    <3>1. package \in Packages
      BY DEF WalkInv, TypeInv, InstallInv
    <3> QED
      BY <3>1, ArchiveSound DEF Archives
  <2>4. Sound(entries')
    BY <1>0, <2>1, <2>3
  <2> QED
    BY <1>0, <2>1, <2>2, <2>4, DeviceSame, NoWalk
<1>3. CASE Finish \/ Flush \/ Reported \/ Kill
  <2>1. UNCHANGED <<stack, entries, tree, mounted, xi, seen>>
    BY <1>3 DEF Finish, Flush, Reported, Kill, Exit, Crash, edify, walk, device
  <2>2. cpc' = cpc \/ cpc' = "exited" \/ xi = 0
    BY <1>3 DEF Finish, Flush, Reported, Kill, Exit, Crash, Running
  <2>3. xi > 0 => cpc' \in {"eval", "exited"}
    BY <1>0, <2>2 DEF Walking
  <2> QED
    BY <2>1, <2>3, WalkSame
<1>4. \/ PlainFn \/ Start \/ Finish \/ Flush \/ Reported \/ Kill
      \/ PackageExtractDirFn \/ SkipEntry \/ ExtractEntry
  BY Zenon DEF Child, Updater, PlainFn
<1> QED
  BY <1>1, <1>2, <1>3, <1>4, BeginWalk, SkipWalk, ExtractWalk

LEMMA OutsideWalk ==
    ASSUME WalkInv, TypeInv', Parent \/ OtherWrites \/ OtherExits \/ UNCHANGED vars
    PROVE  WalkInv'
<1>0. Walking /\ Handshake
  BY DEF WalkInv, TypeInv, InstallInv
<1>1. UNCHANGED <<stack, tree, mounted, xi, seen>>
  <2>1. CASE Parent
    <3>1. UNCHANGED updater
      BY <2>1, Zenon DEF Parent, EnsureMounted, LoadKeys, Verify, Open, FindBinary, ExtractBinary,
         Fork, Obey, ObeyDies, EndOfFile, WaitPid, HandleFirmware
    <3> QED
      BY <3>1 DEF updater, edify, walk, device
  <2>2. CASE OtherWrites \/ OtherExits
    BY <2>2 DEF OtherWrites, OtherExits, updater, edify, walk, device
  <2>3. CASE UNCHANGED vars
    BY <2>3 DEF vars, child, edify, walk, device
  <2> QED
    BY <2>1, <2>2, <2>3
<1>2. UNCHANGED entries /\ (UNCHANGED cpc \/ cpc \in {"none", "other"} \/ cpc' = "exited")
  <2>1. CASE Fork
    BY <1>0, <2>1 DEF Fork, Handshake, Ended, Before
  <2>2. CASE Obey \/ ObeyDies \/ OtherWrites \/ OtherExits
    BY <2>2 DEF Obey, ObeyDies, OtherWrites, OtherExits
  <2>3. CASE UNCHANGED vars
    BY <2>3 DEF vars, child, process
  <2>4. ASSUME Parent, ~Fork, ~Obey, ~ObeyDies PROVE UNCHANGED process
    BY <2>4, Zenon DEF Parent, EnsureMounted, LoadKeys, Verify, Open, FindBinary, ExtractBinary,
       EndOfFile, WaitPid, HandleFirmware
  <2> QED
    BY <2>1, <2>2, <2>3, <2>4 DEF process
<1>3. xi > 0 => cpc' \in {"eval", "exited"}
  BY <1>0, <1>2 DEF Walking
<1> QED
  BY <1>1, <1>2, <1>3, WalkSame

LEMMA NextWalk == WalkInv /\ [Next]_vars => WalkInv'
<1> SUFFICES ASSUME WalkInv, [Next]_vars PROVE WalkInv'
  OBVIOUS
<1>1. TypeInv'
  BY NextTypes DEF WalkInv
<1> QED
  BY <1>1, ChildWalk, OutsideWalk DEF Next

\* Nothing but the walk itself returns while it goes on.
LEMMA WalkReturns ==
    ASSUME WalkInv, Next, xi > 0, ret' = StringValue(True), ~lost'
    PROVE  SkipEntry /\ Break(TRUE)
<1>0. Frames /\ Device /\ Pending /\ Walking /\ xi # 0 /\ xi \in Nat
  BY DEF WalkInv, TypeInv, InstallInv, Frames
<1>1. ret = None /\ None # StringValue(True) /\ StringValue(False) # StringValue(True)
  BY <1>0 DEF Pending, None, StringValue, True, False
<1>2. ret' # ret
  BY <1>1
<1>3. ~Parent /\ ~OtherWrites /\ ~OtherExits
  <2>1. CASE Parent
    <3>1. UNCHANGED updater
      BY <2>1, Zenon DEF Parent, EnsureMounted, LoadKeys, Verify, Open, FindBinary, ExtractBinary,
         Fork, Obey, ObeyDies, EndOfFile, WaitPid, HandleFirmware
    <3> QED
      BY <1>2, <3>1 DEF updater, edify
  <2>2. CASE OtherWrites \/ OtherExits
    BY <1>2, <2>2 DEF OtherWrites, OtherExits, updater, edify
  <2> QED
    BY <2>1, <2>2
<1>4. Child
  BY <1>3 DEF Next
<1>5. ~PlainFn
  BY <1>0, <1>4, PlainWalk DEF Child
<1>6. ~Finish /\ ~Flush /\ ~Reported /\ ~Kill /\ ~PackageExtractDirFn
  BY <1>0, <1>2 DEF Finish, Flush, Reported, Kill, PackageExtractDirFn, Call, Running, edify
<1>7. ~Start
  BY <1>0 DEF Start, Walking
<1>8. ~Continue
  BY <1>2 DEF Continue, edify
<1>9. ~Break(FALSE)
  BY <1>1 DEF Break, Answer, Done, Value, Return
<1>10. ~ExtractEntry
  <2> SUFFICES ASSUME ExtractEntry PROVE lost' = TRUE
    OBVIOUS
  <2> QED
    BY <1>8, <1>9, Zenon DEF ExtractEntry
<1>11. SkipEntry
  BY <1>4, <1>5, <1>6, <1>7, <1>10, Zenon DEF Child, Updater, PlainFn
<1> QED
  BY <1>8, <1>11, Zenon DEF SkipEntry

\* The walk may end where it does: nothing behind its end is wanted.
LEMMA WalkComplete ==
    ASSUME WalkInv, xi > 0, SkipEntry, Break(TRUE), NoLinks
    PROVE  Extracted
<1>0. /\ Frames /\ Sound(entries) /\ Walking /\ xi \in Nat /\ stack # <<>>
      /\ UNCHANGED tree
  BY DEF WalkInv, TypeInv, Frames, SkipEntry, device
<1>1. Straight
  BY DEF Straight, NoLinks, Real
<1>2. /\ Placed(xi) /\ xi <= Len(entries) + 1 /\ Got = 2 /\ A(2) # <<>>
      /\ seen => \E k \in 1..(xi - 1) : Matches(entries[k], ZPath(A(1)))
  BY <1>0, <1>1 DEF Walking
<1>3. /\ Len(entries) \in Nat /\ DOMAIN entries = 1..Len(entries)
      /\ \A i \in DOMAIN entries : entries[i].name \in Names
  BY <1>0, EntryNames
<1>4. xi > Len(entries) \/ (xi <= Len(entries) /\ ~Matches(entries[xi], ZPath(A(1))) /\ seen)
  <2>1. ~Continue
    BY <1>0 DEF Continue, Break
  <2> QED
    BY <2>1, Zenon DEF SkipEntry
<1>5. ASSUME NEW i \in DOMAIN entries, Wanted(entries[i]) PROVE i < xi
  <2>1. CASE xi > Len(entries)
    BY <1>0, <1>3, <2>1
  <2>2. CASE xi <= Len(entries) /\ ~Matches(entries[xi], ZPath(A(1))) /\ seen
    <3> SUFFICES ASSUME ~(i < xi) PROVE FALSE
      OBVIOUS
    <3> DEFINE z == ZPath(A(1))
    <3>1. PICK k \in 1..(xi - 1) : Matches(entries[k], z)
      BY <1>2, <2>2
    <3>2. k \in 1..Len(entries) /\ xi \in 1..Len(entries) /\ i \in 1..Len(entries) /\ k <= xi /\ xi <= i
      BY <1>0, <1>3, <2>2
    <3>3. /\ Compare(entries[k].name, entries[xi].name) <= 0
          /\ Compare(entries[xi].name, entries[i].name) <= 0
      BY <1>0, <3>2 DEF Sound, InOrder
    <3>4. IsSeq(z)
      BY <1>0, <1>2, TopFrame, ZPathSeq
    <3>5. IsPrefix(z, entries[k].name) /\ IsPrefix(z, entries[i].name)
      BY <1>5, <3>1 DEF Wanted, Matches
    <3>6. IsPrefix(z, entries[xi].name)
      <4> HIDE DEF z
      <4> QED
        BY <1>3, <3>2, <3>3, <3>4, <3>5, BetweenPrefixes
    <3> QED
      BY <2>2, <3>6 DEF Matches
  <2> QED
    BY <1>4, <2>1, <2>2
<1>6. ASSUME NEW i \in DOMAIN entries, Wanted(entries[i]),
             \A j \in (i + 1)..Len(entries) : entries[j].name # entries[i].name
      PROVE  InPlace(entries[i])
  <2>1. i < xi
    BY <1>5, <1>6
  <2>2. i \in 1..(xi - 1) /\ \A j \in (i + 1)..(xi - 1) : j \in (i + 1)..Len(entries)
    BY <1>0, <1>2, <1>3, <2>1
  <2> QED
    BY <1>2, <1>6, <2>2 DEF Placed
<1> QED
  BY <1>0, <1>6 DEF Extracted, InPlace

\* When package_extract_dir() answers that it has extracted a directory, it has:
\* for every archive, in whatever order its central directory lists the
\* entries, and for every state of the device.  The binary search sorts the
\* array, so that the entries below a directory stand together and the walk
\* may end at the first one that is not below it.
THEOREM ExtractsEverything == Spec => ExtractsAllOrLost
<1>1. WalkInv /\ [Next]_vars => WalkInv'
  BY NextWalk
<1>2. Init => WalkInv
  BY InitWalk
<1>3. ASSUME WalkInv, [Next]_vars
      PROVE  [(xi > 0 /\ ret' = StringValue(True) /\ ~lost' /\ NoLinks) => Extracted]_vars
  BY <1>3, WalkReturns, WalkComplete
<1> QED
  BY <1>1, <1>2, <1>3, PTL DEF Spec, ExtractsAllOrLost
=============================================================================
