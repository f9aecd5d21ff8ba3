-------------------------------- MODULE Zip ---------------------------------
(***************************************************************************)
(* minzip/Zip.c: what is found in a package.  A string, of the archive or  *)
(* of an updater-script, is a sequence of characters, ordered by Ord.      *)
(*                                                                         *)
(* A package is a record:                                                  *)
(*    len     its length in bytes                                          *)
(*    first   the signature its first four bytes are: "LOC", "END" or ""   *)
(*    ends    the offsets at which the four bytes of ENDSIG stand          *)
(*    dir     for each of these, the central directory it points to, <<>>  *)
(*            when there are no entries or the offset is out of the file   *)
(* and what Install and Updater need of it.  An entry of a directory is    *)
(*    name, data                                                           *)
(*    header  its headers pass the checks of parseZipArchive()             *)
(*    intact  its data can be read, inflated and has the length it claims  *)
(***************************************************************************)
EXTENDS Integers, Sequences, SequencesExt

CONSTANTS
    Ord,        \* the order of characters
    ENDHDR      \* size of the end record without its comment, 22

ASSUME ZipAssumption ==
    /\ Ord \in [DOMAIN Ord -> Int]
    /\ \A c, d \in DOMAIN Ord : Ord[c] = Ord[d] => c = d

\* A sequence, whatever its elements are.
IsSeq(q) == q \in Seq(Range(q))

Slash == "/"
NoEntry == [name |-> <<>>, data |-> "", header |-> FALSE, intact |-> FALSE]

Least(S) == CHOOSE i \in S : \A j \in S : i <= j

\* Mutant: the lengths come first, as in hashcmpZipEntry().
CompareLengthFirst(a, b) ==
    LET d == {i \in DOMAIN a : a[i] # b[i]}
    IN  IF Len(a) # Len(b) THEN Len(a) - Len(b)
        ELSE IF d = {} THEN 0 ELSE Ord[a[Least(d)]] - Ord[b[Least(d)]]

\* strncmp() on what both names have, then their lengths.
Compare(a, b) ==
    LET n == IF Len(a) < Len(b) THEN Len(a) ELSE Len(b)
        d == {i \in 1..n : a[i] # b[i]}
    IN  IF d = {} THEN Len(a) - Len(b)
                  ELSE Ord[a[Least(d)]] - Ord[b[Least(d)]]

\* Where a name belongs among sorted entries: the binary search, between
\* low = r[1] and high = r[2].
Position(entries, name) ==
    LET n == Len(entries)
        Search[r \in (0..n) \X (-1..(n - 1))] ==
            LET mid == r[1] + ((r[2] - r[1]) \div 2)
                diff == Compare(entries[mid + 1].name, name)
            IN  IF r[1] > r[2] THEN r[2] + 1
                ELSE IF diff < 0 THEN Search[<<mid + 1, r[2]>>]
                ELSE IF diff > 0 THEN Search[<<r[1], mid - 1>>]
                ELSE mid + 1
    IN  Search[<<0, n - 1>>]

\* pArchive->pEntries: every entry is inserted where it belongs, when r[1] of
\* them have been read and r[2] is the array so far.
Insert(entries, e) == InsertAt(entries, Position(entries, e.name) + 1, e)
Sorted(dir) ==
    LET Read[r \in (0..Len(dir)) \X Seq(Range(dir))] ==
            IF r[1] = Len(dir) THEN r[2]
            ELSE Read[<<r[1] + 1, Insert(r[2], dir[r[1] + 1])>>]
    IN  Read[<<0, <<>>>>]

\* The end record: the last one that leaves room for its header.
EndOffset(p) ==
    LET S == {o \in p.ends : o <= p.len - ENDHDR}
    IN  IF S = {} THEN -1 ELSE CHOOSE o \in S : \A q \in S : q <= o

Parses(p) ==
    /\ p.len >= ENDHDR /\ p.first = "LOC"
    /\ EndOffset(p) # -1
    /\ p.dir[EndOffset(p)] # <<>>
    /\ \A i \in DOMAIN p.dir[EndOffset(p)] : p.dir[EndOffset(p)][i].header

mzOpenZipArchive(p) == IF Parses(p) THEN Sorted(p.dir[EndOffset(p)]) ELSE <<>>

\* addEntryToHashTable() keeps the first of two entries with one name.
mzFindZipEntry(entries, name) ==
    LET S == {i \in DOMAIN entries : entries[i].name = name}
    IN  IF S = {} THEN NoEntry ELSE entries[Least(S)]

\* zpath: zipDir with exactly one slash at its end, or nothing.
ZPath(zipDir) ==
    IF zipDir = <<>> \/ Last(zipDir) = Slash THEN zipDir ELSE Append(zipDir, Slash)

Matches(e, zpath) == IsPrefix(zpath, e.name)
IsDirectory(e) == Last(e.name) = Slash

\* targetDir, a slash unless it has one, and the entry's path below zpath.
targetEntryPath(targetDir, zpath, e) ==
    (IF Last(targetDir) = Slash THEN targetDir ELSE Append(targetDir, Slash))
        \o SubSeq(e.name, Len(zpath) + 1, Len(e.name))
=============================================================================
