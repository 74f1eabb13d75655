------------------------------ MODULE MCHandles ------------------------------
(* Two threads, two hooks, two names. *)
EXTENDS Handles, TLC

CONSTANTS t1, t2, h1, h2, n1, n2

MCThreads == {t1, t2}
MCHooks == {h1, h2}
MCNames == {n1, n2}

MCSymmetry == Permutations(MCThreads) \cup Permutations(MCHooks) \cup Permutations(MCNames)
=============================================================================
