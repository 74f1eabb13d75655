---------------------------- MODULE MCInlineHooks ----------------------------
(***************************************************************************)
(* Small instances of InlineHooks: three functions, the stolen bytes of   *)
(* the first reaching over the entry of the second.                        *)
(***************************************************************************)
EXTENDS InlineHooks, TLC

CONSTANTS f1, f2, f3

MCFuncs == {f1, f2, f3}
MCInt3Funcs == {f1, f2}
MCCovers == {<<f1, f2>>}
OneFunc == {f1}
DisjointFuncs == {f1, f3}
MCSymmetry == Permutations(Procs) \cup Permutations(Hooks)
=============================================================================
