----------------------------- MODULE MCVehHooks -----------------------------
(***************************************************************************)
(* A small instance of VehHooks: hooks for two functions that compete for  *)
(* the registers.                                                          *)
(***************************************************************************)
EXTENDS VehHooks, TLC

CONSTANTS h1, h2, a, b

MCHooks == {h1, h2}
MCHookTarget == [h \in MCHooks |-> IF h = h1 THEN a ELSE b]
MCSymmetry == Permutations(Threads)
=============================================================================
