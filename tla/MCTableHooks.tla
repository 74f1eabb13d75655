---------------------------- MODULE MCTableHooks ----------------------------
(***************************************************************************)
(* A small instance of TableHooks: an import, an export that two hooks     *)
(* compete for, and an object with two methods.                            *)
(***************************************************************************)
EXTENDS TableHooks, TLC

CONSTANTS h1, h2, h3, i1, e1, m1, m2, o1

MCHooks == {h1, h2, h3}
MCWants == [h \in MCHooks |-> CASE h = h1 -> {e1}
                                 [] h = h2 -> {e1, i1, <<o1, m2>>}
                                 [] h = h3 -> {m1, <<o1, m1>>}]
MCSymmetry == Permutations(Threads)
=============================================================================
