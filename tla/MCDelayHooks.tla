---------------------------- MODULE MCDelayHooks ----------------------------
(***************************************************************************)
(* A small instance of DelayHooks: two modules that are mapped at the same *)
(* address in turn, and a request for each.                                *)
(***************************************************************************)
EXTENDS DelayHooks

CONSTANTS r1, r2, m1, m2

MCRequests == {r1, r2}
MCModule == [r \in MCRequests |-> IF r = r1 THEN m1 ELSE m2]
=============================================================================
