---------------------------- MODULE AtomicPatch -----------------------------
(***************************************************************************)
(* What applypatch() promises a package: its patches take effect one after *)
(* the other, each at a single instant, and neither a failure nor a        *)
(* restart ever leaves a location that is neither the old nor the new one. *)
(***************************************************************************)
EXTENDS Integers

CONSTANT Patches      \* the patches of the package, numbered in its order
VARIABLE version      \* "old" or "new", for each of them

\* A patch whose location already has the new content has nothing to do.
Init == version \in [Patches -> {"old", "new"}]

Patch(j) == /\ version[j] = "old"
            /\ \A k \in Patches : k < j => version[k] = "new"
            /\ version' = [version EXCEPT ![j] = "new"]

Next == \E j \in Patches : Patch(j)

Spec == Init /\ [][Next]_version
=============================================================================
