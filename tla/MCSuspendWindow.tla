-------------------------- MODULE MCSuspendWindow ---------------------------
(***************************************************************************)
(* A small instance of SuspendWindow: one thread of the program, a         *)
(* function with a call and one that cannot always be redirected.          *)
(***************************************************************************)
EXTENDS SuspendWindow

CONSTANTS f1, f2

MCFuncs == {f1, f2}
MCRigid == {f2}
MCCalling == {f1}
=============================================================================
