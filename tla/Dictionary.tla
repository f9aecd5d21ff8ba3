----------------------------- MODULE Dictionary ------------------------------
(***************************************************************************)
(* What the hash table of minzip promises: a set of items, at most one for *)
(* each key, on which every operation takes effect in one step between its *)
(* call and its return.                                                    *)
(***************************************************************************)
CONSTANTS Items, Key, Requests, NULL, NoRequest

VARIABLES
    items,
    pending,    \* the operation that was called, NoRequest when there is none
    result      \* of the last one

dictVars == <<items, pending, result>>

Init == items = {} /\ pending = NoRequest /\ result = NULL

Call ==
    /\ pending = NoRequest /\ pending' \in Requests
    /\ UNCHANGED <<items, result>>

Present == {x \in items : Key[x] = pending.key}

Find ==
    /\ pending.op = "find"
    /\ \/ result' \in Present
       \/ Present = {} /\ result' = NULL
    /\ UNCHANGED items

\* An item whose key is there already is not added.
Add ==
    /\ pending.op = "add"
    /\ \/ result' \in Present /\ UNCHANGED items
       \/ Present = {} /\ result' = pending.item /\ items' = items \cup {pending.item}

Delete ==
    /\ pending.op = "remove"
    /\ \/ pending.item \in items /\ result' = pending.item /\ items' = items \ {pending.item}
       \/ pending.item \notin items /\ result' = NULL /\ UNCHANGED items

Return ==
    /\ pending \in Requests /\ pending' = NoRequest
    /\ Find \/ Add \/ Delete

Clear == pending = NoRequest /\ items' = {} /\ UNCHANGED <<pending, result>>

Next == Call \/ Return \/ Clear

Spec == Init /\ [][Next]_dictVars
=============================================================================
