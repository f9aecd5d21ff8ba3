---------------------------- MODULE MCApplyPatch ----------------------------
(* Small instances of ApplyPatch for TLC.                                  *)
EXTENDS ApplyPatch

CONSTANTS fA, fB, fC, pBoot,        \* locations
          oldA, oldB, oldP, newA, newB, newP,
          package, junk             \* files on /cache

MCLoc == {fA, fB, fC, pBoot}
MCContent == {oldA, oldB, oldP, newA, newB, newP, Torn}
MCCacheFile == {package, junk}
MCFileSize == [f \in MCCacheFile |-> 1]

\* Two units for the first source, one for everything else.
MCSize == [c \in MCContent |-> IF c = oldA THEN 2 ELSE 1]

\* A file patched in place, a partition patched in place, and a file patched
\* into a new one.
MCSrc == <<fA, pBoot, fB>>
MCTgt == <<fA, pBoot, fC>>
MCAccepts == <<{oldA}, {oldP}, {oldB}>>
MCTarget == <<newA, newP, newB>>
=============================================================================
