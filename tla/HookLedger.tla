----------------------------- MODULE HookLedger -----------------------------
(***************************************************************************)
(* What a client of the library is promised about its hooks, whatever      *)
(* holds them: a commit installs and detaches all its hooks in one step or *)
(* changes nothing, a live hook has one owner, only the owner removes it,  *)
(* and a removed hook never comes back.  Handles implements it.            *)
(***************************************************************************)
CONSTANT Hooks

(* A client's own value, a C handle, the registry, or a call that is       *)
(* dropping hooks and has not reached this one yet.                        *)
Owners == {"client", "handle", "registry", "teardown"}

VARIABLES
    mode,    \* "none" (not installed yet), "on", "off" or "gone"
    owner    \* who may toggle or remove the hook; "nobody" when there is none

ledger == <<mode, owner>>

Live(h) == mode[h] \in {"on", "off"}

(* The hooks somebody may still toggle, detach or hand on. *)
Owned == {h \in Hooks : Live(h) /\ owner[h] # "teardown"}

Init == /\ mode = [h \in Hooks |-> "none"]
        /\ owner = [h \in Hooks |-> "nobody"]

(* One commit: the hooks of I appear, those of D are gone, at once. *)
Commit(I, D, o) ==
    /\ \A h \in D : owner[h] # "registry"
    /\ mode' = [h \in Hooks |-> CASE h \in I -> "on"
                                  [] h \in D -> "gone"
                                  [] OTHER -> mode[h]]
    /\ owner' = [h \in Hooks |-> CASE h \in I -> o
                                   [] h \in D -> "nobody"
                                   [] OTHER -> owner[h]]

Toggle(h) == /\ mode' = [mode EXCEPT ![h] = IF @ = "on" THEN "off" ELSE "on"]
             /\ UNCHANGED owner

(* Ownership moves: into the registry, out of it (with the hook it         *)
(* replaces going the other way), or into a teardown, which is final.      *)
Move(S, o) == /\ owner' = [h \in Hooks |-> IF h \in S THEN o[h] ELSE owner[h]]
              /\ UNCHANGED mode

Remove(h) == /\ Live(h)
             /\ owner[h] = "teardown"
             /\ mode' = [mode EXCEPT ![h] = "gone"]
             /\ owner' = [owner EXCEPT ![h] = "nobody"]

Next == \/ \E h \in Owned : Toggle(h)
        \/ \E h \in Hooks : Remove(h)
        \/ \E S \in SUBSET Owned : \E o \in [S -> Owners] : Move(S, o)
        \/ \E I \in SUBSET {h \in Hooks : mode[h] = "none"}, D \in SUBSET Owned,
              o \in Owners : Commit(I, D, o)

Spec == Init /\ [][Next]_ledger
=============================================================================
