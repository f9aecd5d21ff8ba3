------------------------------- MODULE MCHash --------------------------------
(* Two items with one key, and two with the same hash.                      *)
EXTENDS Hash

MCItems == {"a", "a2", "b", "c"}
MCKeys == {"ka", "kb", "kc"}
MCKey == [x \in MCItems |-> CASE x \in {"a", "a2"} -> "ka" [] x = "b" -> "kb" [] OTHER -> "kc"]
MCHashOf == [k \in MCKeys |-> CASE k = "ka" -> 7 [] k = "kb" -> 7 [] OTHER -> 8]
=============================================================================
