---------------------------- MODULE MCPageWrites ----------------------------
(* Two writers, three pages, batches of two. *)
EXTENDS PageWrites

CONSTANTS t1, t2

MCWriters == {t1, t2}
=============================================================================
