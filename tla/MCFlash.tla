------------------------------ MODULE MCFlash -------------------------------
(* A small instance of Flash for TLC.                                      *)
EXTENDS Flash

\* A block and a half, half a block, and more than the partition holds.
MCImages == {<<1, 2, 3>>, <<4>>, <<1, 2, 3, 4, 5, 6, 7>>}

\* The partition's first block mapped twice; two blocks of it, and one of
\* another partition; two blocks mapped to the same one; a target behind the
\* table.
MCTables == {[at |-> 5, entries |-> <<<<0, 3>>, <<0, 4>>>>],
             [at |-> 5, entries |-> <<<<0, 3>>, <<2, 4>>>>],
             [at |-> 5, entries |-> <<<<0, 4>>, <<9, 3>>, <<1, 4>>>>],
             [at |-> 4, entries |-> <<<<1, 5>>>>]}
=============================================================================
