---------------------------- MODULE MCInt3Hooks ----------------------------
(***************************************************************************)
(* Small instances of Int3Hooks: two functions with one hook each, and one *)
(* function with two competing hooks.                                      *)
(***************************************************************************)
EXTENDS Int3Hooks, TLC

CONSTANTS h1, h2, t1, t2

MCHooks == {h1, h2}
MCTargets == {t1, t2}
MCHookTarget == (h1 :> t1) @@ (h2 :> t2)
MCOneTarget == {t1}
MCSameTarget == (h1 :> t1) @@ (h2 :> t1)
MCSymmetry == Permutations(Threads)
=============================================================================
