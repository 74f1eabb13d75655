----------------------------- MODULE MCReclaim -----------------------------
(***************************************************************************)
(* Small instances of Reclaim: a system that may refuse everything but the *)
(* walk over the threads.                                                  *)
(***************************************************************************)
EXTENDS Reclaim

MCFaults == {"freeze_lock", "snapshot", "suspend", "read"}
=============================================================================
