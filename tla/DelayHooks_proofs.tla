-------------------------- MODULE DelayHooks_proofs --------------------------
(***************************************************************************)
(* Proofs about delay hooks, for any number of threads, requests, modules  *)
(* and addresses, whatever the system refuses.                             *)
(*                                                                         *)
(* A hook outlives its image for a while: until the notification drops it, *)
(* or the next owner of the manager does.  The invariant says who will,    *)
(* and that no one writes to the image before.                             *)
(***************************************************************************)
EXTENDS DelayHooks, TLAPS

RegPcs == {"reg_notify", "reg_exchange", "reg_undo", "reg_flag", "reg_check", "reg_tx", "reg_mgr",
           "reg_ldr_hook", "reg_resolve", "reg_install"}
MgrPcs == {"reg_ldr_hook", "reg_resolve", "reg_install", "active", "rem_hook",
           "ready_check", "ready", "ready_install"}
UnregPcs == {"unreg_flag", "unreg_loader"}
Pcs == RegPcs \cup MgrPcs \cup UnregPcs \cup
       {"idle", "unreg_swap", "load_map", "load_mgr", "notify", "unmap"}

\* Every variable keeps its type, and a thread in a call the arguments of the call.
TypeOK ==
    /\ mapped \in [Bases -> Modules \cup {None}] /\ listed \subseteq Bases
    /\ byte \in [Bases -> Modules \cup {None, "cc"}] /\ loads \in 0 .. MaxLoads
    /\ slot \in [Bases -> Requests \cup {None}]
    /\ stage \in [Requests -> {"none", "registering", "registered", "gone"}]
    /\ hook \in [Requests -> BOOLEAN]
    /\ base \in [Requests -> Bases \cup {None}]
    /\ saved \in [Requests -> Modules \cup {None, "cc"}]
    /\ ldrHook \in BOOLEAN /\ cookie \in Requests \cup {None} /\ cookies \subseteq Requests
    /\ notified \in BOOLEAN /\ missed \in BOOLEAN
    /\ {txOwner, mgrOwner, ldrOwner} \subseteq Threads \cup {None}
    /\ context \in [Threads -> {"none", "tx", "loader"}] /\ pc \in [Threads -> Pcs]
    /\ arg \in [Threads -> Requests \cup Modules \cup {None}]
    /\ at \in [Threads -> Bases \cup {None}]
    /\ check \in [Threads -> BOOLEAN] /\ hooked \in [Threads -> BOOLEAN]
    /\ todo \in [Threads -> SUBSET Requests]
LocalOf(p) ==
    /\ pc[p] \in RegPcs \cup {"rem_hook", "ready_install"} => arg[p] \in Requests
    /\ pc[p] \in UnregPcs => arg[p] \in Requests \cup {None}
    /\ pc[p] = "load_map" => arg[p] \in Modules
    /\ pc[p] \in {"reg_install", "ready_install", "notify", "unmap"} => at[p] \in Bases
LocalsOK == \A p \in Threads : LocalOf(p)

-----------------------------------------------------------------------------
(***************************************************************************)
(* The invariant behind CodeIsIntact                                       *)
(***************************************************************************)

\* No unload frees an image under a writer, or goes unseen before the last registration.
Orderly == "unload" \notin Racing /\ "late" \notin Racing

\* Who is inside the manager has its lock, who unloads or runs in a DllMain the loader lock.
LockOf(p) ==
    /\ pc[p] \in MgrPcs => mgrOwner = p
    /\ pc[p] \in {"notify", "unmap"} => ldrOwner = p
    /\ context[p] = "loader" => ldrOwner = p
LocksOK == \A p \in Threads : LockOf(p)

\* The request of a call is at the stage the call left it at, no two calls register the same
\* one, and the image a call looked up is still there.
ArgOf(p) ==
    /\ pc[p] \in RegPcs => stage[arg[p]] = "registering"
    /\ pc[p] \in {"rem_hook", "ready_install"} => stage[arg[p]] = "registered"
    /\ pc[p] = "ready_install" => ~hook[arg[p]] /\ arg[p] \notin todo[p]
    /\ pc[p] \in {"ready", "ready_install"} =>
          \A r \in todo[p] : stage[r] = "registered" /\ ~hook[r]
    /\ pc[p] \in {"reg_install", "ready_install"} =>
          at[p] \in listed /\ mapped[at[p]] = Module[arg[p]]
    /\ pc[p] \in {"notify", "unmap"} => at[p] \notin listed /\ mapped[at[p]] # None
ArgsOK == \A p \in Threads : ArgOf(p)
RegUnique ==
    \A p, q \in Threads : pc[p] \in RegPcs /\ pc[q] \in RegPcs /\ arg[p] = arg[q] => p = q

\* The stored cookie is the loader's; a cookie is taken back only by the call that took it out.
CookieOK ==
    /\ cookie # None => cookie \in cookies /\ stage[cookie] # "none"
    /\ \A p \in Threads : pc[p] \in UnregPcs /\ arg[p] # None =>
          /\ arg[p] \in cookies /\ arg[p] # cookie /\ stage[arg[p]] # "none"
          /\ \A q \in Threads : pc[q] \in UnregPcs /\ arg[q] = arg[p] => q = p
    /\ \A p \in Threads : pc[p] \in {"reg_notify", "reg_exchange", "reg_undo"} =>
          /\ arg[p] # cookie
          /\ \A q \in Threads : pc[q] \in UnregPcs => arg[q] # arg[p]
    /\ \A p \in Threads : pc[p] = "reg_exchange" => arg[p] \in cookies

\* The flag is set while a cookie is stored, or someone is about to clear it or to look at it
\* once more.
NotifiedOK ==
    notified => \/ cookie # None
                \/ \E p \in Threads : pc[p] = "unreg_flag" /\ arg[p] # None
                \/ \E p \in Threads : pc[p] = "reg_check"

\* A hook belongs to a registered request and has the slot of its address; no slot is left over.
HookOf(r) ==
    /\ hook[r] => stage[r] = "registered" /\ base[r] \in Bases /\ slot[base[r]] = r
    /\ ~hook[r] => base[r] = None
SlotOf(b) == slot[b] # None => hook[slot[b]] /\ base[slot[b]] = b
HooksOK == (\A r \in Requests : HookOf(r)) /\ (\A b \in Bases : SlotOf(b))

\* CodeIsIntact; an image that is mapped but not listed is on its way out.
CodeOf(b) ==
    /\ b \in listed =>
          /\ mapped[b] # None
          /\ \/ byte[b] = mapped[b]
             \/ /\ byte[b] = "cc" /\ slot[b] \in Requests
                /\ Module[slot[b]] = mapped[b] /\ saved[slot[b]] = mapped[b]
    /\ mapped[b] # None /\ b \notin listed =>
          \E p \in Threads : pc[p] \in {"notify", "unmap"} /\ at[p] = b
CodeOK == \A b \in Bases : CodeOf(b)

\* A hook whose image is gone.  Someone is going to drop it before its saved byte is written
\* back: the notification on its way, the flag it leaves, the owner of the manager, or, when no
\* notification can come any more, whoever locks the manager next.
Stale(r) == hook[r] /\ ~(base[r] \in listed /\ byte[base[r]] = "cc")
Settled == \A r \in Requests : stage[r] \notin {"none", "registering"}
Rechecks(p, r) == pc[p] \in Validating /\ check[p] /\ r \in todo[p]
StaleOf(r) ==
    Stale(r) =>
        \/ missed
        \/ Settled /\ ~notified
        \/ \E p \in Threads : pc[p] = "notify" /\ at[p] = base[r] /\ mapped[at[p]] = Module[r]
        \/ \E p \in Threads : Rechecks(p, r)
StaleOK == \A r \in Requests : StaleOf(r)
RemoveOf(p) == pc[p] = "rem_hook" /\ Stale(arg[p]) => Rechecks(p, arg[p])
RemovesOK == \A p \in Threads : RemoveOf(p)

DInv ==
    /\ LocksOK /\ ArgsOK /\ RegUnique /\ CookieOK /\ NotifiedOK
    /\ HooksOK /\ CodeOK /\ StaleOK /\ RemovesOK

-----------------------------------------------------------------------------
(***************************************************************************)
(* The invariant behind LoadedIsHooked                                     *)
(***************************************************************************)

\* No load is under way outside the detour when the first request is registered, and no two
\* requests are for the same module.
Separate ==
    "load" \notin Racing /\ \A r, s \in Requests : Module[r] = Module[s] => r = s

\* A module is mapped once, and one load is under way at a time.
MapOK ==
    /\ \A b, c \in Bases : mapped[b] = mapped[c] /\ mapped[b] # None => b = c
    /\ \A p \in Threads : pc[p] = "load_map" =>
          /\ \A b \in Bases : mapped[b] # arg[p]
          /\ \A q \in Threads : pc[q] = "load_map" => q = p

\* While a request is registered every load passes through the detour.
SeenOK ==
    (\/ \E r \in Requests : stage[r] = "registered"
     \/ \E p \in Threads : pc[p] \in {"reg_resolve", "reg_install"})
    => ldrHook /\ ~LoadUnseen

\* A request that is not installed in an image of its module that is there is found by the
\* load of that image: what is in its way, its own old hook or another's, is stale and is
\* dropped first.
Due(r, b) ==
    /\ stage[r] = "registered" /\ b \in listed /\ mapped[b] = Module[r]
    /\ ~(hook[r] /\ base[r] = b /\ byte[b] = "cc")
Finds(p, r, b) ==
    \/ pc[p] = "load_mgr"
    \/ /\ pc[p] = "ready_check"
       /\ hook[r] => Rechecks(p, r)
       /\ slot[b] # None => Rechecks(p, slot[b])
    \/ /\ pc[p] = "ready" \/ (pc[p] = "ready_install" /\ arg[p] # r)
       /\ r \in todo[p] /\ ~hook[r] /\ slot[b] = None
    \/ pc[p] = "ready_install" /\ arg[p] = r /\ at[p] = b /\ ~hook[r] /\ slot[b] = None
DueOK ==
    \A r \in Requests, b \in Bases : Due(r, b) => \E p \in Threads : Finds(p, r, b)

LInv == MapOK /\ SeenOK /\ DueOK

-----------------------------------------------------------------------------
(***************************************************************************)
(* Types                                                                   *)
(***************************************************************************)


\* What Forget and install do, request by request and slot by slot.
LEMMA ForgetEffect ==
    ASSUME TypeOK, NEW R \in SUBSET Requests, Forget(R)
    PROVE  /\ hook' \in [Requests -> BOOLEAN] /\ base' \in [Requests -> Bases \cup {None}]
           /\ saved' \in [Requests -> Modules \cup {None, "cc"}]
           /\ slot' \in [Bases -> Requests \cup {None}]
           /\ \A r \in R : ~hook'[r] /\ base'[r] = None
           /\ \A r \in Requests \ R :
                 hook'[r] = hook[r] /\ base'[r] = base[r] /\ saved'[r] = saved[r]
           /\ \A b \in Bases :
                 slot'[b] = IF \E r \in R : hook[r] /\ base[r] = b THEN None ELSE slot[b]
<1>1. hook' \in [Requests -> BOOLEAN]
  BY DEF TypeOK, Forget
<1>2. /\ base' \in [Requests -> Bases \cup {None}]
      /\ saved' \in [Requests -> Modules \cup {None, "cc"}]
  BY DEF TypeOK, Forget
<1>3. slot' \in [Bases -> Requests \cup {None}]
  BY DEF TypeOK, Forget
<1>4. /\ \A r \in R : ~hook'[r] /\ base'[r] = None
      /\ \A r \in Requests \ R : hook'[r] = hook[r] /\ base'[r] = base[r] /\ saved'[r] = saved[r]
  BY DEF TypeOK, Forget
<1>5. \A b \in Bases :
          slot'[b] = IF \E r \in R : hook[r] /\ base[r] = b THEN None ELSE slot[b]
  BY DEF TypeOK, Forget
<1> QED BY <1>1, <1>2, <1>3, <1>4, <1>5

LEMMA InstallEffect ==
    ASSUME TypeOK, NEW r \in Requests, NEW b \in Bases, install(r, b)
    PROVE  /\ hook' \in [Requests -> BOOLEAN] /\ base' \in [Requests -> Bases \cup {None}]
           /\ saved' \in [Requests -> Modules \cup {None, "cc"}]
           /\ slot' \in [Bases -> Requests \cup {None}]
           /\ byte' \in [Bases -> Modules \cup {None, "cc"}]
           /\ hook'[r] /\ base'[r] = b /\ saved'[r] = byte[b] /\ slot'[b] = r /\ byte'[b] = "cc"
           /\ \A s \in Requests \ {r} :
                 hook'[s] = hook[s] /\ base'[s] = base[s] /\ saved'[s] = saved[s]
           /\ \A c \in Bases \ {b} : slot'[c] = slot[c] /\ byte'[c] = byte[c]
BY DEF TypeOK, install

\* What the end of a registration does.
LEMMA EndsEffect ==
    ASSUME TypeOK, NEW p \in Threads, arg[p] \in Requests,
           NEW s \in {"registered", "gone"}, RegisterEnds(p, s)
    PROVE  /\ stage' \in [Requests -> {"none", "registering", "registered", "gone"}]
           /\ {txOwner', mgrOwner'} \subseteq Threads \cup {None}
           /\ check' \in [Threads -> BOOLEAN] /\ pc' \in [Threads -> Pcs]
           /\ arg' \in [Threads -> Requests \cup Modules \cup {None}]
           /\ at' \in [Threads -> Bases \cup {None}]
           /\ stage'[arg[p]] = s /\ mgrOwner' = None /\ pc'[p] = "idle" /\ arg'[p] = None
           /\ \A r \in Requests \ {arg[p]} : stage'[r] = stage[r]
           /\ \A q \in Threads \ {p} : /\ pc'[q] = pc[q] /\ arg'[q] = arg[q] /\ at'[q] = at[q]
                                       /\ check'[q] = check[q]
BY DEF TypeOK, RegisterEnds, Unlock, Goto, Pcs

\* What locking the manager does.
LEMMA LockEffect ==
    ASSUME TypeOK, NEW p \in Threads, NEW from, lock_manager(p, from)
    PROVE  /\ check' \in [Threads -> BOOLEAN] /\ todo' \in [Threads -> SUBSET Requests]
           /\ mgrOwner' = p /\ mgrOwner = None /\ ~missed' /\ missed' \in BOOLEAN
           /\ check'[p] = (missed \/ ~notified)
           /\ todo'[p] = {r \in Requests : stage[r] = "registered" /\ hook[r]}
           /\ \A q \in Threads \ {p} : check'[q] = check[q] /\ todo'[q] = todo[q]
<1>1. {r \in Pending : hook[r]} = {r \in Requests : stage[r] = "registered" /\ hook[r]}
  BY DEF Pending
<1>2. (missed \/ ~notified) \in BOOLEAN
  BY DEF TypeOK
<1> QED BY <1>1, <1>2 DEF TypeOK, lock_manager, NeedsCheck

\* Types are kept by every step.
LEMMA TypesStep ==
    ASSUME TypeOK, LocalsOK,
           NEW p \in Threads, Step(p) \/ Call(p) \/ leave(p)
    PROVE  TypeOK'
<1> USE NoneAssumption, ModuleAssumption, BoundsAssumption DEF TypeOK, LocalsOK, LocalOf, RegPcs,
        MgrPcs, UnregPcs, Pcs
<1>1. ASSUME NEW r \in Requests, register(p, r) PROVE TypeOK'
  BY <1>1 DEF register, Goto, loaderVars, codeVars, noteVars, lockVars
<1>2. CASE register_unload_notification(p)
  BY <1>2 DEF register_unload_notification, Goto, loaderVars, codeVars, lockVars, localVars
<1>3. CASE reg_exchange(p)
  BY <1>3 DEF reg_exchange, Goto, loaderVars, codeVars, lockVars, localVars
<1>4. CASE reg_undo(p)
  BY <1>4 DEF reg_undo, Goto, loaderVars, codeVars, lockVars, localVars
<1>5. CASE reg_flag(p)
  BY <1>5 DEF reg_flag, Goto, loaderVars, codeVars, lockVars, localVars
<1>6. CASE reg_check(p)
  BY <1>6 DEF reg_check, Goto, FlagRecheck, loaderVars, codeVars, lockVars, localVars
<1>7. CASE with_transaction_lock(p)
  BY <1>7 DEF with_transaction_lock, Goto, loaderVars, codeVars, noteVars, localVars
<1>8. CASE reg_lock(p)
  <2>1. PICK from : lock_manager(p, from)
    BY <1>8 DEF reg_lock
  <2>2. /\ check' \in [Threads -> BOOLEAN] /\ todo' \in [Threads -> SUBSET Requests]
        /\ mgrOwner' = p /\ missed' \in BOOLEAN
    BY <2>1, LockEffect
  <2>3. pc' \in [Threads -> Pcs]
    BY <1>8 DEF reg_lock, Goto
  <2>4. UNCHANGED <<loaderVars, codeVars, stage, ldrHook, cookie, cookies, notified, txOwner,
                    ldrOwner, context, arg, at, hooked>>
    BY <1>8 DEF reg_lock
  <2> QED BY <2>2, <2>3, <2>4 DEF loaderVars, codeVars
<1>9. CASE ensure_ldr_hook(p)
  <2>1. arg[p] \in Requests
    BY <1>9 DEF ensure_ldr_hook
  <2>2. CASE RegisterEnds(p, "gone") /\ UNCHANGED ldrHook
    BY <1>9, <2>1, <2>2, EndsEffect DEF ensure_ldr_hook, loaderVars, codeVars, noteVars
  <2>3. CASE ldrHook' = TRUE /\ Goto(p, "reg_resolve")
             /\ UNCHANGED <<stage, mgrOwner, check, txOwner, arg, at>>
    BY <1>9, <2>3 DEF ensure_ldr_hook, Goto, loaderVars, codeVars, noteVars
  <2> QED BY <1>9, <2>2, <2>3 DEF ensure_ldr_hook
<1>10. CASE register_resolve(p)
  <2>1. arg[p] \in Requests
    BY <1>10 DEF register_resolve
  <2>2. CASE RegisterEnds(p, "registered")
    BY <1>10, <2>1, <2>2, EndsEffect DEF register_resolve, loaderVars, codeVars, noteVars
  <2>3. ASSUME NEW b \in Resolved(Module[arg[p]]), at' = [at EXCEPT ![p] = b],
               Goto(p, "reg_install"), UNCHANGED <<stage, mgrOwner, check, txOwner, arg>>
        PROVE  TypeOK'
    BY <1>10, <2>3 DEF register_resolve, Resolved, Goto, loaderVars, codeVars, noteVars
  <2> QED BY <1>10, <2>2, <2>3 DEF register_resolve
<1>11. CASE register_locked(p)
  <2>1. arg[p] \in Requests /\ at[p] \in Bases
    BY <1>11 DEF register_locked
  <2>2. PICK s \in {"registered", "gone"} : RegisterEnds(p, s)
    BY <1>11 DEF register_locked
  <2>3. /\ hook' \in [Requests -> BOOLEAN] /\ base' \in [Requests -> Bases \cup {None}]
        /\ saved' \in [Requests -> Modules \cup {None, "cc"}]
        /\ slot' \in [Bases -> Requests \cup {None}]
        /\ byte' \in [Bases -> Modules \cup {None, "cc"}] /\ ldrHook' \in BOOLEAN
    <3>1. CASE install(arg[p], at[p]) /\ UNCHANGED ldrHook
      BY <2>1, <3>1, InstallEffect
    <3>2. CASE UNCHANGED codeVars /\ ldrHook' = (ldrHook /\ Pending # {})
      BY <3>2 DEF codeVars
    <3> QED BY <1>11, <3>1, <3>2 DEF register_locked
  <2>4. UNCHANGED <<loaderVars, noteVars, ldrOwner, context, todo, hooked>>
    BY <1>11 DEF register_locked
  <2>5. /\ stage' \in [Requests -> {"none", "registering", "registered", "gone"}]
        /\ {txOwner', mgrOwner'} \subseteq Threads \cup {None}
        /\ check' \in [Threads -> BOOLEAN] /\ pc' \in [Threads -> Pcs]
        /\ arg' \in [Threads -> Requests \cup Modules \cup {None}]
        /\ at' \in [Threads -> Bases \cup {None}]
    BY <2>1, <2>2, EndsEffect
  <2> QED BY <2>3, <2>4, <2>5 DEF loaderVars, noteVars
<1>12. CASE is_active(p)
  <2>1. PICK from : lock_manager(p, from)
    BY <1>12 DEF is_active
  <2>2. /\ check' \in [Threads -> BOOLEAN] /\ todo' \in [Threads -> SUBSET Requests]
        /\ mgrOwner' = p /\ missed' \in BOOLEAN
    BY <2>1, LockEffect
  <2>3. pc' \in [Threads -> Pcs]
    BY <1>12 DEF is_active, Goto
  <2>4. UNCHANGED <<loaderVars, codeVars, stage, ldrHook, cookie, cookies, notified, txOwner,
                    ldrOwner, context, arg, at, hooked>>
    BY <1>12 DEF is_active
  <2> QED BY <2>2, <2>3, <2>4 DEF loaderVars, codeVars
<1>13. CASE active_end(p)
  BY <1>13 DEF active_end, Unlock, Goto, loaderVars, codeVars, noteVars
<1>14. ASSUME NEW r \in Requests, remove(p, r) PROVE TypeOK'
  <2>1. lock_manager(p, "idle")
    BY <1>14 DEF remove
  <2>2. /\ check' \in [Threads -> BOOLEAN] /\ todo' \in [Threads -> SUBSET Requests]
        /\ mgrOwner' = p /\ missed' \in BOOLEAN
    BY <2>1, LockEffect
  <2> QED BY <1>14, <2>2 DEF remove, Goto, loaderVars, codeVars
<1>15. CASE remove_locked(p)
  <2>1. arg[p] \in Requests
    BY <1>15 DEF remove_locked
  <2>2. /\ hook' \in [Requests -> BOOLEAN] /\ base' \in [Requests -> Bases \cup {None}]
        /\ saved' \in [Requests -> Modules \cup {None, "cc"}]
        /\ slot' \in [Bases -> Requests \cup {None}]
        /\ byte' \in [Bases -> Modules \cup {None, "cc"}]
    <3>1. CASE hook[arg[p]]
      <4>1. Forget({arg[p]}) /\ {arg[p]} \in SUBSET Requests
        BY <1>15, <2>1, <3>1 DEF remove_locked
      <4>2. byte' \in [Bases -> Modules \cup {None, "cc"}]
        BY <1>15, <2>1, <3>1 DEF remove_locked
      <4> QED BY <4>1, <4>2, ForgetEffect
    <3>2. CASE ~hook[arg[p]]
      BY <1>15, <3>2 DEF remove_locked, codeVars
    <3> QED BY <3>1, <3>2
  <2>3. /\ pc' \in [Threads -> Pcs] /\ check' \in [Threads -> BOOLEAN] /\ mgrOwner' = None
        /\ stage' \in [Requests -> {"none", "registering", "registered", "gone"}]
        /\ arg' \in [Threads -> Requests \cup Modules \cup {None}] /\ ldrHook' \in BOOLEAN
    BY <1>15, <2>1 DEF remove_locked, Unlock, Goto
  <2>4. UNCHANGED <<loaderVars, noteVars, txOwner, ldrOwner, context, at, todo, hooked>>
    BY <1>15 DEF remove_locked
  <2> QED BY <2>2, <2>3, <2>4 DEF loaderVars, noteVars
<1>16. CASE unregister_unload_notification(p)
  BY <1>16 DEF unregister_unload_notification, Goto, loaderVars, codeVars, lockVars
<1>17. CASE unreg_flag(p)
  BY <1>17 DEF unreg_flag, Goto, loaderVars, codeVars, lockVars, localVars
<1>18. CASE unregister_cookie(p)
  BY <1>18 DEF unregister_cookie, Goto, loaderVars, codeVars, lockVars
<1>19. ASSUME NEW m \in Modules, LdrLoadDll(p, m) PROVE TypeOK'
  BY <1>19 DEF LdrLoadDll, Goto, codeVars, noteVars, lockVars
<1>20. CASE load_map(p)
  BY <1>20 DEF load_map, Goto, noteVars, lockVars
<1>21. CASE hooked_ldr_load_dll(p)
  <2>1. PICK from : lock_manager(p, from)
    BY <1>21 DEF hooked_ldr_load_dll
  <2>2. /\ check' \in [Threads -> BOOLEAN] /\ todo' \in [Threads -> SUBSET Requests]
        /\ mgrOwner' = p /\ missed' \in BOOLEAN
    BY <2>1, LockEffect
  <2>3. pc' \in [Threads -> Pcs]
    BY <1>21 DEF hooked_ldr_load_dll, Goto
  <2>4. UNCHANGED <<loaderVars, codeVars, stage, ldrHook, cookie, cookies, notified, txOwner,
                    ldrOwner, context, arg, at, hooked>>
    BY <1>21 DEF hooked_ldr_load_dll
  <2> QED BY <2>2, <2>3, <2>4 DEF loaderVars, codeVars
<1>22. CASE install_ready_pending(p)
  BY <1>22 DEF install_ready_pending, Pending, Goto, loaderVars, codeVars, noteVars, lockVars
<1>23. CASE ready_resolve(p)
  BY <1>23 DEF ready_resolve, Resolved, Goto, loaderVars, codeVars, noteVars, lockVars
<1>24. CASE ready_install(p)
  <2>1. arg[p] \in Requests /\ at[p] \in Bases
    BY <1>24 DEF ready_install
  <2>2. /\ hook' \in [Requests -> BOOLEAN] /\ base' \in [Requests -> Bases \cup {None}]
        /\ saved' \in [Requests -> Modules \cup {None, "cc"}]
        /\ slot' \in [Bases -> Requests \cup {None}]
        /\ byte' \in [Bases -> Modules \cup {None, "cc"}]
    <3>1. CASE install(arg[p], at[p])
      BY <2>1, <3>1, InstallEffect
    <3>2. CASE UNCHANGED codeVars
      BY <3>2 DEF codeVars
    <3> QED BY <1>24, <3>1, <3>2 DEF ready_install
  <2> QED BY <1>24, <2>2 DEF ready_install, Goto, loaderVars, noteVars, lockVars
<1>25. CASE ready_end(p)
  BY <1>25 DEF ready_end, Unlock, Goto, loaderVars, codeVars, noteVars
<1>26. ASSUME NEW b \in Bases, FreeLibrary(p, b) PROVE TypeOK'
  BY <1>26 DEF FreeLibrary, Goto, codeVars, noteVars
<1>27. CASE on_dll_notification(p)
  <2>1. /\ hook' \in [Requests -> BOOLEAN] /\ base' \in [Requests -> Bases \cup {None}]
        /\ saved' \in [Requests -> Modules \cup {None, "cc"}]
        /\ slot' \in [Bases -> Requests \cup {None}] /\ missed' \in BOOLEAN
    <3>1. CASE mgrOwner = None
      <4> DEFINE R == {r \in Pending : hook[r] /\ base[r] = at[p]}
      <4>1. Forget(R) /\ UNCHANGED missed /\ R \in SUBSET Requests
        BY <1>27, <3>1 DEF on_dll_notification, Pending
      <4> HIDE DEF R
      <4> QED BY <4>1, ForgetEffect
    <3>2. CASE mgrOwner # None
      BY <1>27, <3>2 DEF on_dll_notification
    <3> QED BY <3>1, <3>2
  <2> QED BY <1>27, <2>1 DEF on_dll_notification, Goto, loaderVars, lockVars, localVars
<1>28. CASE unmap(p)
  BY <1>28 DEF unmap, Goto, noteVars
<1>29. ASSUME NEW c \in {"tx", "loader"}, enter(p, c) PROVE TypeOK'
  BY <1>29 DEF enter, loaderVars, codeVars, noteVars, localVars
<1>30. CASE leave(p)
  BY <1>30 DEF leave, loaderVars, codeVars, noteVars, localVars
<1>31. CASE pc[p] \in Validating /\ Revalidate(p)
  <2>1. PICK r \in todo[p] :
            /\ todo' = [todo EXCEPT ![p] = @ \ {r}]
            /\ Forget({r}) \/ UNCHANGED <<hook, slot, base, saved>>
    BY <1>31 DEF Revalidate
  <2>2. r \in Requests
    BY <2>1
  <2>3. /\ hook' \in [Requests -> BOOLEAN] /\ base' \in [Requests -> Bases \cup {None}]
        /\ saved' \in [Requests -> Modules \cup {None, "cc"}]
        /\ slot' \in [Bases -> Requests \cup {None}]
    <3>1. {r} \in SUBSET Requests
      BY <2>2
    <3>2. CASE Forget({r})
      BY <3>1, <3>2, ForgetEffect
    <3> QED BY <2>1, <3>2
  <2>4. todo' \in [Threads -> SUBSET Requests]
    BY <2>1
  <2> QED BY <1>31, <2>3, <2>4 DEF Revalidate, loaderVars, noteVars, lockVars
<1> QED BY <1>1, <1>2, <1>3, <1>4, <1>5, <1>6, <1>7, <1>8, <1>9, <1>10, <1>11, <1>12, <1>13, <1>14,
           <1>15, <1>16, <1>17, <1>18, <1>19, <1>20, <1>21, <1>22, <1>23, <1>24, <1>25, <1>26,
           <1>27, <1>28, <1>29, <1>30, <1>31
          DEF Step, Register, Remove, Load, Call

\* The arguments of the calls have their types.
LEMMA LocalsStep ==
    ASSUME TypeOK, LocalsOK,
           NEW p \in Threads, Step(p) \/ Call(p) \/ leave(p)
    PROVE  LocalsOK'
<1> USE NoneAssumption, ModuleAssumption DEF TypeOK, LocalsOK, LocalOf, RegPcs, MgrPcs, UnregPcs,
        Pcs
<1>1. ASSUME NEW r \in Requests, register(p, r) PROVE LocalsOK'
  BY <1>1 DEF register, Goto, loaderVars, codeVars, noteVars, lockVars
<1>2. CASE register_unload_notification(p)
  BY <1>2 DEF register_unload_notification, Goto, loaderVars, codeVars, lockVars, localVars
<1>3. CASE reg_exchange(p)
  BY <1>3 DEF reg_exchange, Goto, loaderVars, codeVars, lockVars, localVars
<1>4. CASE reg_undo(p)
  BY <1>4 DEF reg_undo, Goto, loaderVars, codeVars, lockVars, localVars
<1>5. CASE reg_flag(p)
  BY <1>5 DEF reg_flag, Goto, loaderVars, codeVars, lockVars, localVars
<1>6. CASE reg_check(p)
  BY <1>6 DEF reg_check, Goto, loaderVars, codeVars, lockVars, localVars
<1>7. CASE with_transaction_lock(p)
  BY <1>7 DEF with_transaction_lock, Goto, loaderVars, codeVars, noteVars, localVars
<1>8. CASE reg_lock(p)
  BY <1>8 DEF reg_lock, lock_manager, Goto, loaderVars, codeVars
<1>9. CASE ensure_ldr_hook(p)
  BY <1>9 DEF ensure_ldr_hook, RegisterEnds, Unlock, Goto, loaderVars, codeVars, noteVars
<1>10. CASE register_resolve(p)
  BY <1>10 DEF register_resolve, RegisterEnds, Unlock, Resolved, Goto, loaderVars, codeVars,
         noteVars
<1>11. CASE register_locked(p)
  BY <1>11 DEF register_locked, RegisterEnds, Unlock, install, Goto, loaderVars, codeVars, noteVars
<1>12. CASE is_active(p)
  BY <1>12 DEF is_active, lock_manager, Goto, loaderVars, codeVars
<1>13. CASE active_end(p)
  BY <1>13 DEF active_end, Unlock, Goto, loaderVars, codeVars, noteVars
<1>14. ASSUME NEW r \in Requests, remove(p, r) PROVE LocalsOK'
  BY <1>14 DEF remove, lock_manager, Goto, loaderVars, codeVars
<1>15. CASE remove_locked(p)
  BY <1>15 DEF remove_locked, Unlock, Forget, Goto, loaderVars, codeVars, noteVars
<1>16. CASE unregister_unload_notification(p)
  BY <1>16 DEF unregister_unload_notification, Goto, loaderVars, codeVars, lockVars
<1>17. CASE unreg_flag(p)
  BY <1>17 DEF unreg_flag, Goto, loaderVars, codeVars, lockVars, localVars
<1>18. CASE unregister_cookie(p)
  BY <1>18 DEF unregister_cookie, Goto, loaderVars, codeVars, lockVars
<1>19. ASSUME NEW m \in Modules, LdrLoadDll(p, m) PROVE LocalsOK'
  BY <1>19 DEF LdrLoadDll, Goto, codeVars, noteVars, lockVars
<1>20. CASE load_map(p)
  BY <1>20 DEF load_map, Goto, noteVars, lockVars
<1>21. CASE hooked_ldr_load_dll(p)
  BY <1>21 DEF hooked_ldr_load_dll, lock_manager, Goto, loaderVars, codeVars
<1>22. CASE install_ready_pending(p)
  BY <1>22 DEF install_ready_pending, Goto, loaderVars, codeVars, noteVars, lockVars
<1>23. CASE ready_resolve(p)
  BY <1>23 DEF ready_resolve, Resolved, Goto, loaderVars, codeVars, noteVars, lockVars
<1>24. CASE ready_install(p)
  BY <1>24 DEF ready_install, install, Goto, loaderVars, codeVars, noteVars, lockVars
<1>25. CASE ready_end(p)
  BY <1>25 DEF ready_end, Unlock, Goto, loaderVars, codeVars, noteVars
<1>26. ASSUME NEW b \in Bases, FreeLibrary(p, b) PROVE LocalsOK'
  BY <1>26 DEF FreeLibrary, Goto, codeVars, noteVars
<1>27. CASE on_dll_notification(p)
  BY <1>27 DEF on_dll_notification, Forget, Goto, loaderVars, lockVars, localVars
<1>28. CASE unmap(p)
  BY <1>28 DEF unmap, Goto, noteVars
<1>29. ASSUME NEW c \in {"tx", "loader"}, enter(p, c) PROVE LocalsOK'
  BY <1>29 DEF enter, loaderVars, codeVars, noteVars, localVars
<1>30. CASE leave(p)
  BY <1>30 DEF leave, loaderVars, codeVars, noteVars, localVars
<1>31. CASE pc[p] \in Validating /\ Revalidate(p)
  BY <1>31 DEF Validating, Revalidate, Forget, loaderVars, noteVars, lockVars
<1> QED BY <1>1, <1>2, <1>3, <1>4, <1>5, <1>6, <1>7, <1>8, <1>9, <1>10, <1>11, <1>12, <1>13, <1>14,
           <1>15, <1>16, <1>17, <1>18, <1>19, <1>20, <1>21, <1>22, <1>23, <1>24, <1>25, <1>26,
           <1>27, <1>28, <1>29, <1>30, <1>31
          DEF Step, Register, Remove, Load, Call

LEMMA InitTypes == Init => TypeOK /\ LocalsOK
<1> SUFFICES ASSUME Init PROVE TypeOK /\ LocalsOK
  OBVIOUS
<1>1. loads \in 0 .. MaxLoads
  BY BoundsAssumption DEF Init
<1>2. TypeOK
  BY <1>1 DEF Init, TypeOK, Pcs
<1>3. LocalsOK
  BY DEF Init, LocalsOK, LocalOf, RegPcs, UnregPcs
<1> QED BY <1>2, <1>3

LEMMA NextTypes == TypeOK /\ LocalsOK /\ [Next]_vars => TypeOK' /\ LocalsOK'
<1> SUFFICES ASSUME TypeOK, LocalsOK, [Next]_vars PROVE TypeOK' /\ LocalsOK'
  OBVIOUS
<1>1. CASE Next
  BY <1>1, TypesStep, LocalsStep DEF Next
<1>2. CASE UNCHANGED vars
  <2>1. TypeOK'
    BY <1>2 DEF TypeOK, vars, loaderVars, codeVars, noteVars, lockVars, localVars
  <2>2. LocalsOK'
    BY <1>2 DEF LocalsOK, LocalOf, vars, loaderVars, codeVars, noteVars, lockVars, localVars
  <2> QED BY <2>1, <2>2
<1> QED BY <1>1, <1>2

\* Every variable of the manager, the loader and the calls of delay.rs keeps its type,
\* whatever the program does under the library's feet.
THEOREM TypeInvariant == Spec => []TypeOK
BY InitTypes, NextTypes, PTL DEF Spec

-----------------------------------------------------------------------------
(***************************************************************************)
(* The steps, for CodeIsIntact                                             *)
(***************************************************************************)

\* The locks.
LEMMA LocksStep ==
    ASSUME TypeOK, LocalsOK, LocksOK,
           NEW p \in Threads, Step(p) \/ Call(p) \/ leave(p)
    PROVE  LocksOK'
<1> USE NoneAssumption, ModuleAssumption DEF TypeOK, LocalsOK, LocalOf, RegPcs, MgrPcs, UnregPcs,
        Pcs
<1>1. ASSUME NEW r \in Requests, register(p, r) PROVE LocksOK'
  BY <1>1 DEF LocksOK, LockOf, register, Goto, loaderVars, codeVars, noteVars, lockVars
<1>2. CASE register_unload_notification(p)
  BY <1>2 DEF LocksOK, LockOf, register_unload_notification, Goto, loaderVars, codeVars, lockVars,
         localVars
<1>3. CASE reg_exchange(p)
  BY <1>3 DEF LocksOK, LockOf, reg_exchange, Goto, loaderVars, codeVars, lockVars, localVars
<1>4. CASE reg_undo(p)
  BY <1>4 DEF LocksOK, LockOf, reg_undo, Goto, loaderVars, codeVars, lockVars, localVars
<1>5. CASE reg_flag(p)
  BY <1>5 DEF LocksOK, LockOf, reg_flag, Goto, loaderVars, codeVars, lockVars, localVars
<1>6. CASE reg_check(p)
  BY <1>6 DEF LocksOK, LockOf, reg_check, Goto, loaderVars, codeVars, lockVars, localVars
<1>7. CASE with_transaction_lock(p)
  BY <1>7 DEF LocksOK, LockOf, with_transaction_lock, Goto, loaderVars, codeVars, noteVars,
         localVars
<1>8. CASE reg_lock(p)
  BY <1>8 DEF LocksOK, LockOf, reg_lock, lock_manager, Goto, loaderVars, codeVars
<1>9. CASE ensure_ldr_hook(p)
  BY <1>9 DEF LocksOK, LockOf, ensure_ldr_hook, RegisterEnds, Unlock, Goto, loaderVars, codeVars,
         noteVars
<1>10. CASE register_resolve(p)
  BY <1>10 DEF LocksOK, LockOf, register_resolve, RegisterEnds, Unlock, Goto, loaderVars, codeVars,
         noteVars
<1>11. CASE register_locked(p)
  BY <1>11 DEF LocksOK, LockOf, register_locked, RegisterEnds, Unlock, install, Goto, loaderVars,
         codeVars, noteVars
<1>12. CASE is_active(p)
  BY <1>12 DEF LocksOK, LockOf, is_active, lock_manager, Goto, loaderVars, codeVars
<1>13. CASE active_end(p)
  BY <1>13 DEF LocksOK, LockOf, active_end, Unlock, Goto, loaderVars, codeVars, noteVars
<1>14. ASSUME NEW r \in Requests, remove(p, r) PROVE LocksOK'
  BY <1>14 DEF LocksOK, LockOf, remove, lock_manager, Goto, loaderVars, codeVars
<1>15. CASE remove_locked(p)
  BY <1>15 DEF LocksOK, LockOf, remove_locked, Unlock, Forget, Goto, loaderVars, codeVars, noteVars
<1>16. CASE unregister_unload_notification(p)
  BY <1>16 DEF LocksOK, LockOf, unregister_unload_notification, Goto, loaderVars, codeVars,
         lockVars
<1>17. CASE unreg_flag(p)
  BY <1>17 DEF LocksOK, LockOf, unreg_flag, Goto, loaderVars, codeVars, lockVars, localVars
<1>18. CASE unregister_cookie(p)
  BY <1>18 DEF LocksOK, LockOf, unregister_cookie, Goto, loaderVars, codeVars, lockVars
<1>19. ASSUME NEW m \in Modules, LdrLoadDll(p, m) PROVE LocksOK'
  BY <1>19 DEF LocksOK, LockOf, LdrLoadDll, Goto, codeVars, noteVars, lockVars
<1>20. CASE load_map(p)
  BY <1>20 DEF LocksOK, LockOf, load_map, Goto, noteVars, lockVars
<1>21. CASE hooked_ldr_load_dll(p)
  BY <1>21 DEF LocksOK, LockOf, hooked_ldr_load_dll, lock_manager, Goto, loaderVars, codeVars
<1>22. CASE install_ready_pending(p)
  BY <1>22 DEF LocksOK, LockOf, install_ready_pending, Goto, loaderVars, codeVars, noteVars,
         lockVars
<1>23. CASE ready_resolve(p)
  BY <1>23 DEF LocksOK, LockOf, ready_resolve, Goto, loaderVars, codeVars, noteVars, lockVars
<1>24. CASE ready_install(p)
  BY <1>24 DEF LocksOK, LockOf, ready_install, install, Goto, loaderVars, codeVars, noteVars,
         lockVars
<1>25. CASE ready_end(p)
  BY <1>25 DEF LocksOK, LockOf, ready_end, Unlock, Goto, loaderVars, codeVars, noteVars
<1>26. ASSUME NEW b \in Bases, FreeLibrary(p, b) PROVE LocksOK'
  BY <1>26 DEF LocksOK, LockOf, FreeLibrary, InUse, Unseen, UnderLoaderLock, Goto, codeVars,
         noteVars
<1>27. CASE on_dll_notification(p)
  BY <1>27 DEF LocksOK, LockOf, on_dll_notification, Forget, Goto, loaderVars, lockVars, localVars
<1>28. CASE unmap(p)
  BY <1>28 DEF LocksOK, LockOf, unmap, Goto, noteVars
<1>29. ASSUME NEW c \in {"tx", "loader"}, enter(p, c) PROVE LocksOK'
  BY <1>29 DEF LocksOK, LockOf, enter, loaderVars, codeVars, noteVars, localVars
<1>30. CASE leave(p)
  BY <1>30 DEF LocksOK, LockOf, leave, loaderVars, codeVars, noteVars, localVars
<1>31. CASE pc[p] \in Validating /\ Revalidate(p)
  BY <1>31 DEF LocksOK, LockOf, Validating, Revalidate, Forget, loaderVars, noteVars, lockVars
<1> QED BY <1>1, <1>2, <1>3, <1>4, <1>5, <1>6, <1>7, <1>8, <1>9, <1>10, <1>11, <1>12, <1>13, <1>14,
           <1>15, <1>16, <1>17, <1>18, <1>19, <1>20, <1>21, <1>22, <1>23, <1>24, <1>25, <1>26,
           <1>27, <1>28, <1>29, <1>30, <1>31
          DEF Step, Register, Remove, Load, Call

\* The arguments of the calls.
LEMMA ArgsStep ==
    ASSUME Orderly, TypeOK, LocalsOK, LocksOK, ArgsOK, RegUnique, HooksOK, CodeOK,
           NEW p \in Threads, Step(p) \/ Call(p) \/ leave(p)
    PROVE  ArgsOK'
<1> USE NoneAssumption, ModuleAssumption DEF TypeOK, LocalsOK, LocalOf, RegPcs, MgrPcs, UnregPcs,
        Pcs, LocksOK, LockOf, ArgsOK, ArgOf
<1>1. ASSUME NEW r \in Requests, register(p, r) PROVE ArgsOK'
  BY <1>1 DEF register, Goto, loaderVars, codeVars, noteVars, lockVars
<1>2. CASE register_unload_notification(p)
  BY <1>2 DEF register_unload_notification, Goto, loaderVars, codeVars, lockVars, localVars
<1>3. CASE reg_exchange(p)
  BY <1>3 DEF reg_exchange, Goto, loaderVars, codeVars, lockVars, localVars
<1>4. CASE reg_undo(p)
  BY <1>4 DEF reg_undo, Goto, loaderVars, codeVars, lockVars, localVars
<1>5. CASE reg_flag(p)
  BY <1>5 DEF reg_flag, Goto, loaderVars, codeVars, lockVars, localVars
<1>6. CASE reg_check(p)
  BY <1>6 DEF reg_check, Goto, loaderVars, codeVars, lockVars, localVars
<1>7. CASE with_transaction_lock(p)
  BY <1>7 DEF with_transaction_lock, Goto, loaderVars, codeVars, noteVars, localVars
<1>8. CASE reg_lock(p)
  BY <1>8 DEF reg_lock, lock_manager, Goto, loaderVars, codeVars
<1>9. CASE ensure_ldr_hook(p)
  BY <1>9 DEF RegUnique, HooksOK, HookOf, ensure_ldr_hook, RegisterEnds, Unlock, LoadUnseen, Goto,
         loaderVars, codeVars, noteVars
<1>10. CASE register_resolve(p)
  BY <1>10 DEF RegUnique, HooksOK, HookOf, register_resolve, RegisterEnds, Unlock, Resolved, Goto,
         loaderVars, codeVars, noteVars
<1>11. CASE register_locked(p)
  BY <1>11 DEF RegUnique, HooksOK, HookOf, register_locked, RegisterEnds, Unlock, install,
         Installable, Pending, Goto, loaderVars, codeVars, noteVars
<1>12. CASE is_active(p)
  BY <1>12 DEF is_active, lock_manager, Goto, loaderVars, codeVars
<1>13. CASE active_end(p)
  BY <1>13 DEF active_end, Unlock, Goto, loaderVars, codeVars, noteVars
<1>14. ASSUME NEW r \in Requests, remove(p, r) PROVE ArgsOK'
  BY <1>14 DEF remove, lock_manager, Goto, loaderVars, codeVars
<1>15. CASE remove_locked(p)
  BY <1>15 DEF remove_locked, Unlock, Forget, Goto, loaderVars, codeVars, noteVars
<1>16. CASE unregister_unload_notification(p)
  BY <1>16 DEF unregister_unload_notification, Goto, loaderVars, codeVars, lockVars
<1>17. CASE unreg_flag(p)
  BY <1>17 DEF unreg_flag, Goto, loaderVars, codeVars, lockVars, localVars
<1>18. CASE unregister_cookie(p)
  BY <1>18 DEF unregister_cookie, Goto, loaderVars, codeVars, lockVars
<1>19. ASSUME NEW m \in Modules, LdrLoadDll(p, m) PROVE ArgsOK'
  BY <1>19 DEF LdrLoadDll, Goto, codeVars, noteVars, lockVars
<1>20. CASE load_map(p)
  BY <1>20 DEF load_map, Goto, noteVars, lockVars
<1>21. CASE hooked_ldr_load_dll(p)
  BY <1>21 DEF hooked_ldr_load_dll, lock_manager, Goto, loaderVars, codeVars
<1>22. CASE install_ready_pending(p)
  BY <1>22 DEF install_ready_pending, Pending, Goto, loaderVars, codeVars, noteVars, lockVars
<1>23. CASE ready_resolve(p)
  BY <1>23 DEF ready_resolve, Resolved, Goto, loaderVars, codeVars, noteVars, lockVars
<1>24. CASE ready_install(p)
  BY <1>24 DEF ready_install, install, Goto, loaderVars, codeVars, noteVars, lockVars
<1>25. CASE ready_end(p)
  BY <1>25 DEF ready_end, Unlock, Goto, loaderVars, codeVars, noteVars
<1>26. ASSUME NEW b \in Bases, FreeLibrary(p, b) PROVE ArgsOK'
  <2>1. /\ pc[p] = "idle" /\ b \in listed /\ UnderLoaderLock(p) /\ ~InUse(b)
        /\ listed' = listed \ {b} /\ at'[p] = b /\ pc'[p] \in {"unmap", "notify"}
        /\ \A q \in Threads \ {p} : pc'[q] = pc[q] /\ at'[q] = at[q]
        /\ UNCHANGED <<mapped, hook, stage, todo, arg>>
    BY <1>26 DEF Orderly, FreeLibrary, Goto, codeVars
  <2>2. ArgOf(p)'
    <3>1. mapped[b] # None
      BY <2>1 DEF CodeOK, CodeOf
    <3> QED BY <2>1, <3>1
  <2>3. ASSUME NEW q \in Threads \ {p} PROVE ArgOf(q)'
    <3>1. pc[q] \in {"reg_install", "ready_install"} => at[q] # b
      BY <2>1 DEF InUse
    <3> QED BY <2>1, <2>3, <3>1
  <2> QED BY <2>2, <2>3
<1>27. CASE on_dll_notification(p)
  BY <1>27 DEF on_dll_notification, Forget, Goto, loaderVars, lockVars, localVars
<1>28. CASE unmap(p)
  BY <1>28 DEF unmap, Goto, noteVars
<1>29. ASSUME NEW c \in {"tx", "loader"}, enter(p, c) PROVE ArgsOK'
  BY <1>29 DEF enter, loaderVars, codeVars, noteVars, localVars
<1>30. CASE leave(p)
  BY <1>30 DEF leave, loaderVars, codeVars, noteVars, localVars
<1>31. CASE pc[p] \in Validating /\ Revalidate(p)
  BY <1>31 DEF Validating, Revalidate, Forget, loaderVars, noteVars, lockVars
<1> QED BY <1>1, <1>2, <1>3, <1>4, <1>5, <1>6, <1>7, <1>8, <1>9, <1>10, <1>11, <1>12, <1>13, <1>14,
           <1>15, <1>16, <1>17, <1>18, <1>19, <1>20, <1>21, <1>22, <1>23, <1>24, <1>25, <1>26,
           <1>27, <1>28, <1>29, <1>30, <1>31
          DEF Step, Register, Remove, Load, Call

\* The registrations.
LEMMA RegUniqueStep ==
    ASSUME TypeOK, LocalsOK, ArgsOK, RegUnique,
           NEW p \in Threads, Step(p) \/ Call(p) \/ leave(p)
    PROVE  RegUnique'
<1> USE NoneAssumption, ModuleAssumption DEF TypeOK, LocalsOK, LocalOf, RegPcs, MgrPcs, UnregPcs,
        Pcs, ArgsOK, ArgOf, RegUnique
<1>1. ASSUME NEW r \in Requests, register(p, r) PROVE RegUnique'
  BY <1>1 DEF register, Goto, loaderVars, codeVars, noteVars, lockVars
<1>2. CASE register_unload_notification(p)
  BY <1>2 DEF register_unload_notification, Goto, loaderVars, codeVars, lockVars, localVars
<1>3. CASE reg_exchange(p)
  BY <1>3 DEF reg_exchange, Goto, loaderVars, codeVars, lockVars, localVars
<1>4. CASE reg_undo(p)
  BY <1>4 DEF reg_undo, Goto, loaderVars, codeVars, lockVars, localVars
<1>5. CASE reg_flag(p)
  BY <1>5 DEF reg_flag, Goto, loaderVars, codeVars, lockVars, localVars
<1>6. CASE reg_check(p)
  BY <1>6 DEF reg_check, Goto, loaderVars, codeVars, lockVars, localVars
<1>7. CASE with_transaction_lock(p)
  BY <1>7 DEF with_transaction_lock, Goto, loaderVars, codeVars, noteVars, localVars
<1>8. CASE reg_lock(p)
  BY <1>8 DEF reg_lock, lock_manager, Goto, loaderVars, codeVars
<1>9. CASE ensure_ldr_hook(p)
  BY <1>9 DEF ensure_ldr_hook, RegisterEnds, Unlock, Goto, loaderVars, codeVars, noteVars
<1>10. CASE register_resolve(p)
  BY <1>10 DEF register_resolve, RegisterEnds, Unlock, Goto, loaderVars, codeVars, noteVars
<1>11. CASE register_locked(p)
  BY <1>11 DEF register_locked, RegisterEnds, Unlock, install, Goto, loaderVars, codeVars, noteVars
<1>12. CASE is_active(p)
  BY <1>12 DEF is_active, lock_manager, Goto, loaderVars, codeVars
<1>13. CASE active_end(p)
  BY <1>13 DEF active_end, Unlock, Goto, loaderVars, codeVars, noteVars
<1>14. ASSUME NEW r \in Requests, remove(p, r) PROVE RegUnique'
  BY <1>14 DEF remove, lock_manager, Goto, loaderVars, codeVars
<1>15. CASE remove_locked(p)
  BY <1>15 DEF remove_locked, Unlock, Forget, Goto, loaderVars, codeVars, noteVars
<1>16. CASE unregister_unload_notification(p)
  BY <1>16 DEF unregister_unload_notification, Goto, loaderVars, codeVars, lockVars
<1>17. CASE unreg_flag(p)
  BY <1>17 DEF unreg_flag, Goto, loaderVars, codeVars, lockVars, localVars
<1>18. CASE unregister_cookie(p)
  BY <1>18 DEF unregister_cookie, Goto, loaderVars, codeVars, lockVars
<1>19. ASSUME NEW m \in Modules, LdrLoadDll(p, m) PROVE RegUnique'
  BY <1>19 DEF LdrLoadDll, Goto, codeVars, noteVars, lockVars
<1>20. CASE load_map(p)
  BY <1>20 DEF load_map, Goto, noteVars, lockVars
<1>21. CASE hooked_ldr_load_dll(p)
  BY <1>21 DEF hooked_ldr_load_dll, lock_manager, Goto, loaderVars, codeVars
<1>22. CASE install_ready_pending(p)
  BY <1>22 DEF install_ready_pending, Goto, loaderVars, codeVars, noteVars, lockVars
<1>23. CASE ready_resolve(p)
  BY <1>23 DEF ready_resolve, Goto, loaderVars, codeVars, noteVars, lockVars
<1>24. CASE ready_install(p)
  BY <1>24 DEF ready_install, install, Goto, loaderVars, codeVars, noteVars, lockVars
<1>25. CASE ready_end(p)
  BY <1>25 DEF ready_end, Unlock, Goto, loaderVars, codeVars, noteVars
<1>26. ASSUME NEW b \in Bases, FreeLibrary(p, b) PROVE RegUnique'
  BY <1>26 DEF FreeLibrary, Goto, codeVars, noteVars
<1>27. CASE on_dll_notification(p)
  BY <1>27 DEF on_dll_notification, Forget, Goto, loaderVars, lockVars, localVars
<1>28. CASE unmap(p)
  BY <1>28 DEF unmap, Goto, noteVars
<1>29. ASSUME NEW c \in {"tx", "loader"}, enter(p, c) PROVE RegUnique'
  BY <1>29 DEF enter, loaderVars, codeVars, noteVars, localVars
<1>30. CASE leave(p)
  BY <1>30 DEF leave, loaderVars, codeVars, noteVars, localVars
<1>31. CASE pc[p] \in Validating /\ Revalidate(p)
  BY <1>31 DEF Validating, Revalidate, Forget, loaderVars, noteVars, lockVars
<1> QED BY <1>1, <1>2, <1>3, <1>4, <1>5, <1>6, <1>7, <1>8, <1>9, <1>10, <1>11, <1>12, <1>13, <1>14,
           <1>15, <1>16, <1>17, <1>18, <1>19, <1>20, <1>21, <1>22, <1>23, <1>24, <1>25, <1>26,
           <1>27, <1>28, <1>29, <1>30, <1>31
          DEF Step, Register, Remove, Load, Call

\* The cookies.
LEMMA CookieStep ==
    ASSUME TypeOK, LocalsOK, LocksOK, ArgsOK, RegUnique, CookieOK,
           NEW p \in Threads, Step(p) \/ Call(p) \/ leave(p)
    PROVE  CookieOK'
<1> USE NoneAssumption, ModuleAssumption DEF TypeOK, LocalsOK, LocalOf, RegPcs, MgrPcs, UnregPcs,
        Pcs
<1>1. ASSUME NEW r \in Requests, register(p, r) PROVE CookieOK'
  BY <1>1 DEF CookieOK, register, Goto, loaderVars, codeVars, noteVars, lockVars
<1>2. CASE register_unload_notification(p)
  BY <1>2 DEF CookieOK, register_unload_notification, Goto, loaderVars, codeVars, lockVars,
         localVars
<1>3. CASE reg_exchange(p)
  BY <1>3 DEF LocksOK, LockOf, ArgsOK, ArgOf, RegUnique, CookieOK, reg_exchange, Goto, loaderVars,
         codeVars, lockVars, localVars
<1>4. CASE reg_undo(p)
  BY <1>4 DEF LocksOK, LockOf, ArgsOK, ArgOf, RegUnique, CookieOK, reg_undo, Goto, UnderLoaderLock,
         loaderVars, codeVars, lockVars, localVars
<1>5. CASE reg_flag(p)
  BY <1>5 DEF CookieOK, reg_flag, Goto, loaderVars, codeVars, lockVars, localVars
<1>6. CASE reg_check(p)
  BY <1>6 DEF CookieOK, reg_check, Goto, loaderVars, codeVars, lockVars, localVars
<1>7. CASE with_transaction_lock(p)
  BY <1>7 DEF CookieOK, with_transaction_lock, Goto, loaderVars, codeVars, noteVars, localVars
<1>8. CASE reg_lock(p)
  BY <1>8 DEF CookieOK, reg_lock, lock_manager, Goto, loaderVars, codeVars
<1>9. CASE ensure_ldr_hook(p)
  BY <1>9 DEF CookieOK, ensure_ldr_hook, RegisterEnds, Unlock, Goto, loaderVars, codeVars, noteVars
<1>10. CASE register_resolve(p)
  BY <1>10 DEF CookieOK, register_resolve, RegisterEnds, Unlock, Goto, loaderVars, codeVars,
         noteVars
<1>11. CASE register_locked(p)
  <2>1. arg[p] \in Requests /\ stage[arg[p]] = "registering" /\ UNCHANGED <<cookie, cookies>>
    BY <1>11 DEF register_locked, ArgsOK, ArgOf, noteVars
  <2>2. PICK s \in {"registered", "gone"} : RegisterEnds(p, s)
    BY <1>11 DEF register_locked
  <2>3. /\ pc'[p] = "idle" /\ \A q \in Threads \ {p} : pc'[q] = pc[q] /\ arg'[q] = arg[q]
        /\ \A r \in Requests : stage[r] # "none" => stage'[r] # "none"
    BY <2>1, <2>2, EndsEffect
  <2> QED BY <2>1, <2>3 DEF CookieOK
<1>12. CASE is_active(p)
  BY <1>12 DEF CookieOK, is_active, lock_manager, Goto, loaderVars, codeVars
<1>13. CASE active_end(p)
  BY <1>13 DEF CookieOK, active_end, Unlock, Goto, loaderVars, codeVars, noteVars
<1>14. ASSUME NEW r \in Requests, remove(p, r) PROVE CookieOK'
  BY <1>14 DEF CookieOK, remove, lock_manager, Goto, loaderVars, codeVars
<1>15. CASE remove_locked(p)
  BY <1>15 DEF CookieOK, remove_locked, Unlock, Forget, Goto, loaderVars, codeVars, noteVars
<1>16. CASE unregister_unload_notification(p)
  BY <1>16 DEF CookieOK, unregister_unload_notification, Goto, loaderVars, codeVars, lockVars
<1>17. CASE unreg_flag(p)
  BY <1>17 DEF CookieOK, unreg_flag, Goto, loaderVars, codeVars, lockVars, localVars
<1>18. CASE unregister_cookie(p)
  BY <1>18 DEF CookieOK, unregister_cookie, Goto, loaderVars, codeVars, lockVars
<1>19. ASSUME NEW m \in Modules, LdrLoadDll(p, m) PROVE CookieOK'
  BY <1>19 DEF CookieOK, LdrLoadDll, Goto, codeVars, noteVars, lockVars
<1>20. CASE load_map(p)
  BY <1>20 DEF CookieOK, load_map, Goto, noteVars, lockVars
<1>21. CASE hooked_ldr_load_dll(p)
  BY <1>21 DEF CookieOK, hooked_ldr_load_dll, lock_manager, Goto, loaderVars, codeVars
<1>22. CASE install_ready_pending(p)
  BY <1>22 DEF CookieOK, install_ready_pending, Goto, loaderVars, codeVars, noteVars, lockVars
<1>23. CASE ready_resolve(p)
  BY <1>23 DEF CookieOK, ready_resolve, Goto, loaderVars, codeVars, noteVars, lockVars
<1>24. CASE ready_install(p)
  BY <1>24 DEF CookieOK, ready_install, install, Goto, loaderVars, codeVars, noteVars, lockVars
<1>25. CASE ready_end(p)
  BY <1>25 DEF CookieOK, ready_end, Unlock, Goto, loaderVars, codeVars, noteVars
<1>26. ASSUME NEW b \in Bases, FreeLibrary(p, b) PROVE CookieOK'
  BY <1>26 DEF CookieOK, FreeLibrary, Goto, codeVars, noteVars
<1>27. CASE on_dll_notification(p)
  BY <1>27 DEF CookieOK, on_dll_notification, Forget, Goto, loaderVars, lockVars, localVars
<1>28. CASE unmap(p)
  BY <1>28 DEF CookieOK, unmap, Goto, noteVars
<1>29. ASSUME NEW c \in {"tx", "loader"}, enter(p, c) PROVE CookieOK'
  BY <1>29 DEF CookieOK, enter, loaderVars, codeVars, noteVars, localVars
<1>30. CASE leave(p)
  BY <1>30 DEF CookieOK, leave, loaderVars, codeVars, noteVars, localVars
<1>31. CASE pc[p] \in Validating /\ Revalidate(p)
  BY <1>31 DEF CookieOK, Validating, Revalidate, Forget, loaderVars, noteVars, lockVars
<1> QED BY <1>1, <1>2, <1>3, <1>4, <1>5, <1>6, <1>7, <1>8, <1>9, <1>10, <1>11, <1>12, <1>13, <1>14,
           <1>15, <1>16, <1>17, <1>18, <1>19, <1>20, <1>21, <1>22, <1>23, <1>24, <1>25, <1>26,
           <1>27, <1>28, <1>29, <1>30, <1>31
          DEF Step, Register, Remove, Load, Call

\* The flag of the notification.
LEMMA NotifiedStep ==
    ASSUME TypeOK, LocalsOK, CookieOK, NotifiedOK,
           NEW p \in Threads, Step(p) \/ Call(p) \/ leave(p)
    PROVE  NotifiedOK'
<1> USE NoneAssumption, ModuleAssumption DEF TypeOK, LocalsOK, LocalOf, RegPcs, MgrPcs, UnregPcs,
        Pcs
<1>1. ASSUME NEW r \in Requests, register(p, r) PROVE NotifiedOK'
  BY <1>1 DEF NotifiedOK, register, Goto, loaderVars, codeVars, noteVars, lockVars
<1>2. CASE register_unload_notification(p)
  BY <1>2 DEF NotifiedOK, register_unload_notification, Goto, loaderVars, codeVars, lockVars,
         localVars
<1>3. CASE reg_exchange(p)
  BY <1>3 DEF NotifiedOK, reg_exchange, Goto, loaderVars, codeVars, lockVars, localVars
<1>4. CASE reg_undo(p)
  BY <1>4 DEF NotifiedOK, reg_undo, Goto, loaderVars, codeVars, lockVars, localVars
<1>5. CASE reg_flag(p)
  BY <1>5 DEF NotifiedOK, reg_flag, Goto, loaderVars, codeVars, lockVars, localVars
<1>6. CASE reg_check(p)
  <2>1. notified' => cookie' = arg[p]
    BY <1>6 DEF reg_check, FlagRecheck
  <2>2. arg[p] \in Requests
    BY <1>6 DEF reg_check
  <2> QED BY <2>1, <2>2 DEF NotifiedOK
<1>7. CASE with_transaction_lock(p)
  BY <1>7 DEF NotifiedOK, with_transaction_lock, Goto, loaderVars, codeVars, noteVars, localVars
<1>8. CASE reg_lock(p)
  BY <1>8 DEF NotifiedOK, reg_lock, lock_manager, Goto, loaderVars, codeVars
<1>9. CASE ensure_ldr_hook(p)
  BY <1>9 DEF NotifiedOK, ensure_ldr_hook, RegisterEnds, Unlock, Goto, loaderVars, codeVars,
         noteVars
<1>10. CASE register_resolve(p)
  BY <1>10 DEF NotifiedOK, register_resolve, RegisterEnds, Unlock, Goto, loaderVars, codeVars,
         noteVars
<1>11. CASE register_locked(p)
  BY <1>11 DEF NotifiedOK, register_locked, RegisterEnds, Unlock, install, Goto, loaderVars,
         codeVars, noteVars
<1>12. CASE is_active(p)
  BY <1>12 DEF NotifiedOK, is_active, lock_manager, Goto, loaderVars, codeVars
<1>13. CASE active_end(p)
  BY <1>13 DEF NotifiedOK, active_end, Unlock, Goto, loaderVars, codeVars, noteVars
<1>14. ASSUME NEW r \in Requests, remove(p, r) PROVE NotifiedOK'
  BY <1>14 DEF NotifiedOK, remove, lock_manager, Goto, loaderVars, codeVars
<1>15. CASE remove_locked(p)
  BY <1>15 DEF NotifiedOK, remove_locked, Unlock, Forget, Goto, loaderVars, codeVars, noteVars
<1>16. CASE unregister_unload_notification(p)
  BY <1>16 DEF NotifiedOK, unregister_unload_notification, Goto, loaderVars, codeVars, lockVars
<1>17. CASE unreg_flag(p)
  BY <1>17 DEF NotifiedOK, unreg_flag, Goto, loaderVars, codeVars, lockVars, localVars
<1>18. CASE unregister_cookie(p)
  BY <1>18 DEF NotifiedOK, unregister_cookie, Goto, loaderVars, codeVars, lockVars
<1>19. ASSUME NEW m \in Modules, LdrLoadDll(p, m) PROVE NotifiedOK'
  BY <1>19 DEF NotifiedOK, LdrLoadDll, Goto, codeVars, noteVars, lockVars
<1>20. CASE load_map(p)
  BY <1>20 DEF NotifiedOK, load_map, Goto, noteVars, lockVars
<1>21. CASE hooked_ldr_load_dll(p)
  BY <1>21 DEF NotifiedOK, hooked_ldr_load_dll, lock_manager, Goto, loaderVars, codeVars
<1>22. CASE install_ready_pending(p)
  BY <1>22 DEF NotifiedOK, install_ready_pending, Goto, loaderVars, codeVars, noteVars, lockVars
<1>23. CASE ready_resolve(p)
  BY <1>23 DEF NotifiedOK, ready_resolve, Goto, loaderVars, codeVars, noteVars, lockVars
<1>24. CASE ready_install(p)
  BY <1>24 DEF NotifiedOK, ready_install, install, Goto, loaderVars, codeVars, noteVars, lockVars
<1>25. CASE ready_end(p)
  BY <1>25 DEF NotifiedOK, ready_end, Unlock, Goto, loaderVars, codeVars, noteVars
<1>26. ASSUME NEW b \in Bases, FreeLibrary(p, b) PROVE NotifiedOK'
  BY <1>26 DEF NotifiedOK, FreeLibrary, Goto, codeVars, noteVars
<1>27. CASE on_dll_notification(p)
  BY <1>27 DEF NotifiedOK, on_dll_notification, Forget, Goto, loaderVars, lockVars, localVars
<1>28. CASE unmap(p)
  BY <1>28 DEF NotifiedOK, unmap, Goto, noteVars
<1>29. ASSUME NEW c \in {"tx", "loader"}, enter(p, c) PROVE NotifiedOK'
  BY <1>29 DEF NotifiedOK, enter, loaderVars, codeVars, noteVars, localVars
<1>30. CASE leave(p)
  BY <1>30 DEF NotifiedOK, leave, loaderVars, codeVars, noteVars, localVars
<1>31. CASE pc[p] \in Validating /\ Revalidate(p)
  BY <1>31 DEF NotifiedOK, Validating, Revalidate, Forget, loaderVars, noteVars, lockVars
<1> QED BY <1>1, <1>2, <1>3, <1>4, <1>5, <1>6, <1>7, <1>8, <1>9, <1>10, <1>11, <1>12, <1>13, <1>14,
           <1>15, <1>16, <1>17, <1>18, <1>19, <1>20, <1>21, <1>22, <1>23, <1>24, <1>25, <1>26,
           <1>27, <1>28, <1>29, <1>30, <1>31
          DEF Step, Register, Remove, Load, Call

\* Forgetting hooks leaves those of the others, whose slots are theirs alone.
LEMMA ForgetKeepsHooks ==
    ASSUME TypeOK, HooksOK, NEW R \in SUBSET Requests, Forget(R),
           \A r \in Requests \ R : stage'[r] = stage[r]
    PROVE  HooksOK'
<1>1. /\ \A r \in R : ~hook'[r] /\ base'[r] = None
      /\ \A r \in Requests \ R : hook'[r] = hook[r] /\ base'[r] = base[r] /\ saved'[r] = saved[r]
      /\ \A b \in Bases :
            slot'[b] = IF \E r \in R : hook[r] /\ base[r] = b THEN None ELSE slot[b]
  BY ForgetEffect
<1>2. ASSUME NEW r \in Requests PROVE HookOf(r)'
  <2>1. CASE r \in R
    BY <1>1, <2>1 DEF HookOf
  <2>2. CASE r \notin R /\ hook[r]
    <3>1. ~\E s \in R : hook[s] /\ base[s] = base[r]
      BY <2>2 DEF HooksOK, HookOf
    <3>2. hook'[r] /\ base'[r] = base[r] /\ base[r] \in Bases /\ stage'[r] = "registered"
      BY <1>1, <2>2 DEF HooksOK, HookOf
    <3> QED BY <1>1, <2>2, <3>1, <3>2 DEF HooksOK, HookOf
  <2>3. CASE r \notin R /\ ~hook[r]
    BY <1>1, <2>3 DEF HooksOK, HookOf
  <2> QED BY <2>1, <2>2, <2>3
<1>3. ASSUME NEW b \in Bases PROVE SlotOf(b)'
  <2> SUFFICES ASSUME slot'[b] # None PROVE hook'[slot'[b]] /\ base'[slot'[b]] = b
    BY DEF SlotOf
  <2>1. slot'[b] = slot[b] /\ slot[b] \in Requests /\ ~\E r \in R : hook[r] /\ base[r] = b
    BY <1>1 DEF TypeOK
  <2>2. hook[slot[b]] /\ base[slot[b]] = b
    BY <2>1 DEF HooksOK, SlotOf
  <2> QED BY <1>1, <2>1, <2>2
<1> QED BY <1>2, <1>3 DEF HooksOK

\* The hooks and their slots.
LEMMA HooksStep ==
    ASSUME TypeOK, LocalsOK, LocksOK, ArgsOK, HooksOK,
           NEW p \in Threads, Step(p) \/ Call(p) \/ leave(p)
    PROVE  HooksOK'
<1> USE NoneAssumption, ModuleAssumption DEF TypeOK, LocalsOK, LocalOf, RegPcs, MgrPcs, UnregPcs,
        Pcs, HooksOK, HookOf, SlotOf
<1>1. ASSUME NEW r \in Requests, register(p, r) PROVE HooksOK'
  BY <1>1 DEF register, Goto, loaderVars, codeVars, noteVars, lockVars
<1>2. CASE register_unload_notification(p)
  BY <1>2 DEF register_unload_notification, Goto, loaderVars, codeVars, lockVars, localVars
<1>3. CASE reg_exchange(p)
  BY <1>3 DEF reg_exchange, Goto, loaderVars, codeVars, lockVars, localVars
<1>4. CASE reg_undo(p)
  BY <1>4 DEF reg_undo, Goto, loaderVars, codeVars, lockVars, localVars
<1>5. CASE reg_flag(p)
  BY <1>5 DEF reg_flag, Goto, loaderVars, codeVars, lockVars, localVars
<1>6. CASE reg_check(p)
  BY <1>6 DEF reg_check, Goto, loaderVars, codeVars, lockVars, localVars
<1>7. CASE with_transaction_lock(p)
  BY <1>7 DEF with_transaction_lock, Goto, loaderVars, codeVars, noteVars, localVars
<1>8. CASE reg_lock(p)
  BY <1>8 DEF reg_lock, lock_manager, Goto, loaderVars, codeVars
<1>9. CASE ensure_ldr_hook(p)
  BY <1>9 DEF LocksOK, LockOf, ArgsOK, ArgOf, ensure_ldr_hook, RegisterEnds, Unlock, LoadUnseen,
         Goto, loaderVars, codeVars, noteVars
<1>10. CASE register_resolve(p)
  BY <1>10 DEF register_resolve, RegisterEnds, Unlock, Goto, loaderVars, codeVars, noteVars
<1>11. CASE register_locked(p)
  BY <1>11 DEF LocksOK, LockOf, ArgsOK, ArgOf, register_locked, RegisterEnds, Unlock, install,
         Installable, Pending, Goto, loaderVars, codeVars, noteVars
<1>12. CASE is_active(p)
  BY <1>12 DEF is_active, lock_manager, Goto, loaderVars, codeVars
<1>13. CASE active_end(p)
  BY <1>13 DEF active_end, Unlock, Goto, loaderVars, codeVars, noteVars
<1>14. ASSUME NEW r \in Requests, remove(p, r) PROVE HooksOK'
  BY <1>14 DEF remove, lock_manager, Goto, loaderVars, codeVars
<1>15. CASE remove_locked(p)
  <2>1. /\ arg[p] \in Requests /\ stage'[arg[p]] = "gone"
        /\ \A s \in Requests \ {arg[p]} : stage'[s] = stage[s]
    BY <1>15 DEF remove_locked
  <2>2. CASE hook[arg[p]]
    <3>1. Forget({arg[p]}) /\ {arg[p]} \in SUBSET Requests
      BY <1>15, <2>1, <2>2 DEF remove_locked
    <3> QED BY <2>1, <3>1, ForgetKeepsHooks
  <2>3. CASE ~hook[arg[p]]
    BY <1>15, <2>1, <2>3 DEF remove_locked, codeVars
  <2> QED BY <2>2, <2>3
<1>16. CASE unregister_unload_notification(p)
  BY <1>16 DEF unregister_unload_notification, Goto, loaderVars, codeVars, lockVars
<1>17. CASE unreg_flag(p)
  BY <1>17 DEF unreg_flag, Goto, loaderVars, codeVars, lockVars, localVars
<1>18. CASE unregister_cookie(p)
  BY <1>18 DEF unregister_cookie, Goto, loaderVars, codeVars, lockVars
<1>19. ASSUME NEW m \in Modules, LdrLoadDll(p, m) PROVE HooksOK'
  BY <1>19 DEF LdrLoadDll, Goto, codeVars, noteVars, lockVars
<1>20. CASE load_map(p)
  BY <1>20 DEF load_map, Goto, noteVars, lockVars
<1>21. CASE hooked_ldr_load_dll(p)
  BY <1>21 DEF hooked_ldr_load_dll, lock_manager, Goto, loaderVars, codeVars
<1>22. CASE install_ready_pending(p)
  BY <1>22 DEF install_ready_pending, Goto, loaderVars, codeVars, noteVars, lockVars
<1>23. CASE ready_resolve(p)
  BY <1>23 DEF ready_resolve, Goto, loaderVars, codeVars, noteVars, lockVars
<1>24. CASE ready_install(p)
  BY <1>24 DEF LocksOK, LockOf, ArgsOK, ArgOf, ready_install, install, Installable, Goto,
         loaderVars, codeVars, noteVars, lockVars
<1>25. CASE ready_end(p)
  BY <1>25 DEF ready_end, Unlock, Goto, loaderVars, codeVars, noteVars
<1>26. ASSUME NEW b \in Bases, FreeLibrary(p, b) PROVE HooksOK'
  BY <1>26 DEF FreeLibrary, Goto, codeVars, noteVars
<1>27. CASE on_dll_notification(p)
  <2>1. CASE mgrOwner = None
    <3> DEFINE R == {r \in Pending : hook[r] /\ base[r] = at[p]}
    <3>1. Forget(R) /\ R \in SUBSET Requests /\ stage' = stage
      BY <1>27, <2>1 DEF on_dll_notification, Pending
    <3> HIDE DEF R
    <3> QED BY <3>1, ForgetKeepsHooks
  <2>2. CASE mgrOwner # None
    BY <1>27, <2>2 DEF on_dll_notification
  <2> QED BY <2>1, <2>2
<1>28. CASE unmap(p)
  BY <1>28 DEF unmap, Goto, noteVars
<1>29. ASSUME NEW c \in {"tx", "loader"}, enter(p, c) PROVE HooksOK'
  BY <1>29 DEF enter, loaderVars, codeVars, noteVars, localVars
<1>30. CASE leave(p)
  BY <1>30 DEF leave, loaderVars, codeVars, noteVars, localVars
<1>31. CASE pc[p] \in Validating /\ Revalidate(p)
  <2>1. PICK r \in todo[p] : Forget({r}) \/ UNCHANGED <<hook, slot, base, saved>>
    BY <1>31 DEF Revalidate
  <2>2. {r} \in SUBSET Requests /\ stage' = stage
    BY <1>31, <2>1 DEF Revalidate
  <2>3. CASE Forget({r})
    BY <2>2, <2>3, ForgetKeepsHooks
  <2>4. CASE UNCHANGED <<hook, slot, base, saved>>
    BY <2>2, <2>4
  <2> QED BY <2>1, <2>3, <2>4
<1> QED BY <1>1, <1>2, <1>3, <1>4, <1>5, <1>6, <1>7, <1>8, <1>9, <1>10, <1>11, <1>12, <1>13, <1>14,
           <1>15, <1>16, <1>17, <1>18, <1>19, <1>20, <1>21, <1>22, <1>23, <1>24, <1>25, <1>26,
           <1>27, <1>28, <1>29, <1>30, <1>31
          DEF Step, Register, Remove, Load, Call

\* The code.
LEMMA CodeStep ==
    ASSUME Orderly, TypeOK, LocalsOK, DInv,
           NEW p \in Threads, Step(p) \/ Call(p) \/ leave(p)
    PROVE  CodeOK'
<1> USE NoneAssumption, ModuleAssumption DEF TypeOK, LocalsOK, LocalOf, RegPcs, MgrPcs, UnregPcs,
        Pcs, DInv, CodeOK, CodeOf
<1>1. ASSUME NEW r \in Requests, register(p, r) PROVE CodeOK'
  BY <1>1 DEF register, Goto, loaderVars, codeVars, noteVars, lockVars
<1>2. CASE register_unload_notification(p)
  BY <1>2 DEF register_unload_notification, Goto, loaderVars, codeVars, lockVars, localVars
<1>3. CASE reg_exchange(p)
  BY <1>3 DEF reg_exchange, Goto, loaderVars, codeVars, lockVars, localVars
<1>4. CASE reg_undo(p)
  BY <1>4 DEF reg_undo, Goto, loaderVars, codeVars, lockVars, localVars
<1>5. CASE reg_flag(p)
  BY <1>5 DEF reg_flag, Goto, loaderVars, codeVars, lockVars, localVars
<1>6. CASE reg_check(p)
  BY <1>6 DEF reg_check, Goto, loaderVars, codeVars, lockVars, localVars
<1>7. CASE with_transaction_lock(p)
  BY <1>7 DEF with_transaction_lock, Goto, loaderVars, codeVars, noteVars, localVars
<1>8. CASE reg_lock(p)
  BY <1>8 DEF reg_lock, lock_manager, Goto, loaderVars, codeVars
<1>9. CASE ensure_ldr_hook(p)
  BY <1>9 DEF ensure_ldr_hook, RegisterEnds, Unlock, Goto, loaderVars, codeVars, noteVars
<1>10. CASE register_resolve(p)
  BY <1>10 DEF register_resolve, RegisterEnds, Unlock, Goto, loaderVars, codeVars, noteVars
<1>11. CASE register_locked(p)
  BY <1>11 DEF LocksOK, LockOf, ArgsOK, ArgOf, RemovesOK, RemoveOf, HooksOK, HookOf, SlotOf, Stale,
         Rechecks, Orderly, register_locked, RegisterEnds, Unlock, install, Installable, Pending,
         Goto, loaderVars, codeVars, noteVars
<1>12. CASE is_active(p)
  BY <1>12 DEF is_active, lock_manager, Goto, loaderVars, codeVars
<1>13. CASE active_end(p)
  BY <1>13 DEF active_end, Unlock, Goto, loaderVars, codeVars, noteVars
<1>14. ASSUME NEW r \in Requests, remove(p, r) PROVE CodeOK'
  BY <1>14 DEF remove, lock_manager, Goto, loaderVars, codeVars
<1>15. CASE remove_locked(p)
  BY <1>15 DEF LocksOK, LockOf, ArgsOK, ArgOf, RemovesOK, RemoveOf, HooksOK, HookOf, SlotOf, Stale,
         Rechecks, Orderly, remove_locked, Unlock, Forget, Pending, Goto, loaderVars, codeVars,
         noteVars
<1>16. CASE unregister_unload_notification(p)
  BY <1>16 DEF unregister_unload_notification, Goto, loaderVars, codeVars, lockVars
<1>17. CASE unreg_flag(p)
  BY <1>17 DEF unreg_flag, Goto, loaderVars, codeVars, lockVars, localVars
<1>18. CASE unregister_cookie(p)
  BY <1>18 DEF unregister_cookie, Goto, loaderVars, codeVars, lockVars
<1>19. ASSUME NEW m \in Modules, LdrLoadDll(p, m) PROVE CodeOK'
  BY <1>19 DEF LdrLoadDll, Goto, codeVars, noteVars, lockVars
<1>20. CASE load_map(p)
  BY <1>20 DEF load_map, Goto, noteVars, lockVars
<1>21. CASE hooked_ldr_load_dll(p)
  BY <1>21 DEF hooked_ldr_load_dll, lock_manager, Goto, loaderVars, codeVars
<1>22. CASE install_ready_pending(p)
  BY <1>22 DEF install_ready_pending, Goto, loaderVars, codeVars, noteVars, lockVars
<1>23. CASE ready_resolve(p)
  BY <1>23 DEF ready_resolve, Goto, loaderVars, codeVars, noteVars, lockVars
<1>24. CASE ready_install(p)
  BY <1>24 DEF LocksOK, LockOf, ArgsOK, ArgOf, RemovesOK, RemoveOf, HooksOK, HookOf, SlotOf, Stale,
         Rechecks, Orderly, ready_install, install, Installable, Goto, loaderVars, codeVars,
         noteVars, lockVars
<1>25. CASE ready_end(p)
  BY <1>25 DEF ready_end, Unlock, Goto, loaderVars, codeVars, noteVars
<1>26. ASSUME NEW b \in Bases, FreeLibrary(p, b) PROVE CodeOK'
  BY <1>26 DEF FreeLibrary, Goto, codeVars, noteVars
<1>27. CASE on_dll_notification(p)
  BY <1>27 DEF LocksOK, LockOf, ArgsOK, ArgOf, RemovesOK, RemoveOf, HooksOK, HookOf, SlotOf, Stale,
         Rechecks, Orderly, on_dll_notification, Forget, Pending, Goto, loaderVars, lockVars,
         localVars
<1>28. CASE unmap(p)
  BY <1>28 DEF LocksOK, LockOf, ArgsOK, ArgOf, RemovesOK, RemoveOf, HooksOK, HookOf, SlotOf, Stale,
         Rechecks, Orderly, unmap, Goto, noteVars
<1>29. ASSUME NEW c \in {"tx", "loader"}, enter(p, c) PROVE CodeOK'
  BY <1>29 DEF enter, loaderVars, codeVars, noteVars, localVars
<1>30. CASE leave(p)
  BY <1>30 DEF leave, loaderVars, codeVars, noteVars, localVars
<1>31. CASE pc[p] \in Validating /\ Revalidate(p)
  BY <1>31 DEF LocksOK, LockOf, ArgsOK, ArgOf, RemovesOK, RemoveOf, HooksOK, HookOf, SlotOf, Stale,
         Rechecks, Orderly, Validating, Revalidate, still_installed, Forget, loaderVars, noteVars,
         lockVars
<1> QED BY <1>1, <1>2, <1>3, <1>4, <1>5, <1>6, <1>7, <1>8, <1>9, <1>10, <1>11, <1>12, <1>13, <1>14,
           <1>15, <1>16, <1>17, <1>18, <1>19, <1>20, <1>21, <1>22, <1>23, <1>24, <1>25, <1>26,
           <1>27, <1>28, <1>29, <1>30, <1>31
          DEF Step, Register, Remove, Load, Call

\* The stale hooks.
LEMMA StaleStep ==
    ASSUME Orderly, TypeOK, LocalsOK, DInv,
           NEW p \in Threads, Step(p) \/ Call(p) \/ leave(p)
    PROVE  StaleOK'
<1> USE NoneAssumption, ModuleAssumption DEF TypeOK, LocalsOK, LocalOf, RegPcs, MgrPcs, UnregPcs,
        Pcs, DInv, StaleOK, StaleOf, Stale, Rechecks, Settled
<1>1. ASSUME NEW r \in Requests, register(p, r) PROVE StaleOK'
  BY <1>1 DEF LocksOK, LockOf, ArgsOK, ArgOf, HooksOK, HookOf, SlotOf, CodeOK, CodeOf, CookieOK,
         NotifiedOK, Validating, Orderly, register, Goto, loaderVars, codeVars, noteVars, lockVars
<1>2. CASE register_unload_notification(p)
  BY <1>2 DEF LocksOK, LockOf, ArgsOK, ArgOf, HooksOK, HookOf, SlotOf, CodeOK, CodeOf, CookieOK,
         NotifiedOK, Validating, Orderly, register_unload_notification, Goto, UnderLoaderLock,
         loaderVars, codeVars, lockVars, localVars
<1>3. CASE reg_exchange(p)
  BY <1>3 DEF LocksOK, LockOf, ArgsOK, ArgOf, HooksOK, HookOf, SlotOf, CodeOK, CodeOf, CookieOK,
         NotifiedOK, Validating, Orderly, reg_exchange, Goto, loaderVars, codeVars, lockVars,
         localVars
<1>4. CASE reg_undo(p)
  BY <1>4 DEF LocksOK, LockOf, ArgsOK, ArgOf, HooksOK, HookOf, SlotOf, CodeOK, CodeOf, CookieOK,
         NotifiedOK, Validating, Orderly, reg_undo, Goto, UnderLoaderLock, loaderVars, codeVars,
         lockVars, localVars
<1>5. CASE reg_flag(p)
  BY <1>5 DEF LocksOK, LockOf, ArgsOK, ArgOf, HooksOK, HookOf, SlotOf, CodeOK, CodeOf, CookieOK,
         NotifiedOK, Validating, Orderly, reg_flag, Goto, loaderVars, codeVars, lockVars, localVars
<1>6. CASE reg_check(p)
  BY <1>6 DEF LocksOK, LockOf, ArgsOK, ArgOf, HooksOK, HookOf, SlotOf, CodeOK, CodeOf, CookieOK,
         NotifiedOK, Validating, Orderly, reg_check, Goto, FlagRecheck, loaderVars, codeVars,
         lockVars, localVars
<1>7. CASE with_transaction_lock(p)
  BY <1>7 DEF LocksOK, LockOf, ArgsOK, ArgOf, HooksOK, HookOf, SlotOf, CodeOK, CodeOf, CookieOK,
         NotifiedOK, Validating, Orderly, with_transaction_lock, Goto, loaderVars, codeVars,
         noteVars, localVars
<1>8. CASE reg_lock(p)
  BY <1>8 DEF LocksOK, LockOf, ArgsOK, ArgOf, HooksOK, HookOf, SlotOf, CodeOK, CodeOf, CookieOK,
         NotifiedOK, Validating, Orderly, reg_lock, lock_manager, NeedsCheck, Pending, Goto,
         loaderVars, codeVars
<1>9. CASE ensure_ldr_hook(p)
  BY <1>9 DEF ensure_ldr_hook, RegisterEnds, Unlock, Goto, loaderVars, codeVars, noteVars
<1>10. CASE register_resolve(p)
  BY <1>10 DEF LocksOK, LockOf, ArgsOK, ArgOf, HooksOK, HookOf, SlotOf, CodeOK, CodeOf, CookieOK,
         NotifiedOK, Validating, Orderly, register_resolve, RegisterEnds, Unlock, Resolved, Goto,
         loaderVars, codeVars, noteVars
<1>11. CASE register_locked(p)
  <2>1. /\ pc[p] = "reg_install" /\ arg[p] \in Requests /\ at[p] \in listed
        /\ stage[arg[p]] = "registering" /\ ~hook[arg[p]] /\ UNCHANGED <<mapped, listed, missed, notified, todo>>
    BY <1>11 DEF register_locked, ArgsOK, ArgOf, HooksOK, HookOf, loaderVars, noteVars
  <2>2. PICK s \in {"registered", "gone"} : RegisterEnds(p, s)
    BY <1>11 DEF register_locked
  <2>3. /\ \A q \in Threads \ {p} : pc'[q] = pc[q] /\ at'[q] = at[q] /\ check'[q] = check[q]
    BY <2>1, <2>2, EndsEffect
  <2> SUFFICES ASSUME NEW r \in Requests, Stale(r)'
               PROVE  \/ missed'
                      \/ Settled' /\ ~notified'
                      \/ \E q \in Threads : /\ pc'[q] = "notify" /\ at'[q] = base'[r]
                                            /\ mapped'[at'[q]] = Module[r]
                      \/ \E q \in Threads : Rechecks(q, r)'
    OBVIOUS
  <2>4. Stale(r) /\ base'[r] = base[r]
    <3>1. CASE install(arg[p], at[p])
      BY <2>1, <3>1, InstallEffect DEF HooksOK, HookOf
    <3>2. CASE UNCHANGED codeVars
      BY <2>1, <3>2 DEF codeVars
    <3> QED BY <1>11, <3>1, <3>2 DEF register_locked
  <2>5. ~Settled
    BY <2>1
  <2> QED BY <2>1, <2>3, <2>4, <2>5 DEF Validating
<1>12. CASE is_active(p)
  BY <1>12 DEF LocksOK, LockOf, ArgsOK, ArgOf, HooksOK, HookOf, SlotOf, CodeOK, CodeOf, CookieOK,
         NotifiedOK, Validating, Orderly, is_active, lock_manager, NeedsCheck, Pending, Goto,
         loaderVars, codeVars
<1>13. CASE active_end(p)
  BY <1>13 DEF active_end, Unlock, Goto, loaderVars, codeVars, noteVars
<1>14. ASSUME NEW r \in Requests, remove(p, r) PROVE StaleOK'
  BY <1>14 DEF LocksOK, LockOf, ArgsOK, ArgOf, HooksOK, HookOf, SlotOf, CodeOK, CodeOf, CookieOK,
         NotifiedOK, Validating, Orderly, remove, lock_manager, NeedsCheck, Pending, Goto,
         loaderVars, codeVars
<1>15. CASE remove_locked(p)
  BY <1>15 DEF LocksOK, LockOf, ArgsOK, ArgOf, HooksOK, HookOf, SlotOf, CodeOK, CodeOf, CookieOK,
         NotifiedOK, Validating, Orderly, remove_locked, Unlock, Forget, Pending, Goto, loaderVars,
         codeVars, noteVars
<1>16. CASE unregister_unload_notification(p)
  BY <1>16 DEF LocksOK, LockOf, ArgsOK, ArgOf, HooksOK, HookOf, SlotOf, CodeOK, CodeOf, CookieOK,
         NotifiedOK, Validating, Orderly, unregister_unload_notification, Goto, loaderVars,
         codeVars, lockVars
<1>17. CASE unreg_flag(p)
  BY <1>17 DEF LocksOK, LockOf, ArgsOK, ArgOf, HooksOK, HookOf, SlotOf, CodeOK, CodeOf, CookieOK,
         NotifiedOK, Validating, Orderly, unreg_flag, Goto, loaderVars, codeVars, lockVars,
         localVars
<1>18. CASE unregister_cookie(p)
  BY <1>18 DEF LocksOK, LockOf, ArgsOK, ArgOf, HooksOK, HookOf, SlotOf, CodeOK, CodeOf, CookieOK,
         NotifiedOK, Validating, Orderly, unregister_cookie, UnderLoaderLock, Goto, loaderVars,
         codeVars, lockVars
<1>19. ASSUME NEW m \in Modules, LdrLoadDll(p, m) PROVE StaleOK'
  BY <1>19 DEF LocksOK, LockOf, ArgsOK, ArgOf, HooksOK, HookOf, SlotOf, CodeOK, CodeOf, CookieOK,
         NotifiedOK, Validating, Orderly, LdrLoadDll, Goto, codeVars, noteVars, lockVars
<1>20. CASE load_map(p)
  BY <1>20 DEF LocksOK, LockOf, ArgsOK, ArgOf, HooksOK, HookOf, SlotOf, CodeOK, CodeOf, CookieOK,
         NotifiedOK, Validating, Orderly, load_map, UnderLoaderLock, Goto, noteVars, lockVars
<1>21. CASE hooked_ldr_load_dll(p)
  BY <1>21 DEF LocksOK, LockOf, ArgsOK, ArgOf, HooksOK, HookOf, SlotOf, CodeOK, CodeOf, CookieOK,
         NotifiedOK, Validating, Orderly, hooked_ldr_load_dll, lock_manager, NeedsCheck, Pending,
         Goto, loaderVars, codeVars
<1>22. CASE install_ready_pending(p)
  BY <1>22 DEF install_ready_pending, Goto, loaderVars, codeVars, noteVars, lockVars
<1>23. CASE ready_resolve(p)
  BY <1>23 DEF LocksOK, LockOf, ArgsOK, ArgOf, HooksOK, HookOf, SlotOf, CodeOK, CodeOf, CookieOK,
         NotifiedOK, Validating, Orderly, ready_resolve, Resolved, Goto, loaderVars, codeVars,
         noteVars, lockVars
<1>24. CASE ready_install(p)
  BY <1>24 DEF LocksOK, LockOf, ArgsOK, ArgOf, HooksOK, HookOf, SlotOf, CodeOK, CodeOf, CookieOK,
         NotifiedOK, Validating, Orderly, ready_install, install, Installable, Goto, loaderVars,
         codeVars, noteVars, lockVars
<1>25. CASE ready_end(p)
  BY <1>25 DEF ready_end, Unlock, Goto, loaderVars, codeVars, noteVars
<1>26. ASSUME NEW b \in Bases, FreeLibrary(p, b) PROVE StaleOK'
  BY <1>26 DEF LocksOK, LockOf, ArgsOK, ArgOf, HooksOK, HookOf, SlotOf, CodeOK, CodeOf, CookieOK,
         NotifiedOK, Validating, Orderly, FreeLibrary, InUse, Unseen, UnderLoaderLock, Goto,
         codeVars, noteVars
<1>27. CASE on_dll_notification(p)
  BY <1>27 DEF LocksOK, LockOf, ArgsOK, ArgOf, HooksOK, HookOf, SlotOf, CodeOK, CodeOf, CookieOK,
         NotifiedOK, Validating, Orderly, on_dll_notification, Forget, Pending, Goto, loaderVars,
         lockVars, localVars
<1>28. CASE unmap(p)
  BY <1>28 DEF LocksOK, LockOf, ArgsOK, ArgOf, HooksOK, HookOf, SlotOf, CodeOK, CodeOf, CookieOK,
         NotifiedOK, Validating, Orderly, unmap, Goto, noteVars
<1>29. ASSUME NEW c \in {"tx", "loader"}, enter(p, c) PROVE StaleOK'
  BY <1>29 DEF enter, loaderVars, codeVars, noteVars, localVars
<1>30. CASE leave(p)
  BY <1>30 DEF leave, loaderVars, codeVars, noteVars, localVars
<1>31. CASE pc[p] \in Validating /\ Revalidate(p)
  BY <1>31 DEF Validating, Revalidate, still_installed, Forget, loaderVars, noteVars, lockVars
<1> QED BY <1>1, <1>2, <1>3, <1>4, <1>5, <1>6, <1>7, <1>8, <1>9, <1>10, <1>11, <1>12, <1>13, <1>14,
           <1>15, <1>16, <1>17, <1>18, <1>19, <1>20, <1>21, <1>22, <1>23, <1>24, <1>25, <1>26,
           <1>27, <1>28, <1>29, <1>30, <1>31
          DEF Step, Register, Remove, Load, Call

\* The removals.
LEMMA RemovesStep ==
    ASSUME Orderly, TypeOK, LocalsOK, DInv,
           NEW p \in Threads, Step(p) \/ Call(p) \/ leave(p)
    PROVE  RemovesOK'
<1> USE NoneAssumption, ModuleAssumption DEF TypeOK, LocalsOK, LocalOf, RegPcs, MgrPcs, UnregPcs,
        Pcs, DInv, RemovesOK, RemoveOf, Stale, Rechecks
<1>1. ASSUME NEW r \in Requests, register(p, r) PROVE RemovesOK'
  BY <1>1 DEF register, Goto, loaderVars, codeVars, noteVars, lockVars
<1>2. CASE register_unload_notification(p)
  BY <1>2 DEF register_unload_notification, Goto, loaderVars, codeVars, lockVars, localVars
<1>3. CASE reg_exchange(p)
  BY <1>3 DEF reg_exchange, Goto, loaderVars, codeVars, lockVars, localVars
<1>4. CASE reg_undo(p)
  BY <1>4 DEF reg_undo, Goto, loaderVars, codeVars, lockVars, localVars
<1>5. CASE reg_flag(p)
  BY <1>5 DEF reg_flag, Goto, loaderVars, codeVars, lockVars, localVars
<1>6. CASE reg_check(p)
  BY <1>6 DEF reg_check, Goto, loaderVars, codeVars, lockVars, localVars
<1>7. CASE with_transaction_lock(p)
  BY <1>7 DEF with_transaction_lock, Goto, loaderVars, codeVars, noteVars, localVars
<1>8. CASE reg_lock(p)
  BY <1>8 DEF reg_lock, lock_manager, Goto, loaderVars, codeVars
<1>9. CASE ensure_ldr_hook(p)
  BY <1>9 DEF ensure_ldr_hook, RegisterEnds, Unlock, Goto, loaderVars, codeVars, noteVars
<1>10. CASE register_resolve(p)
  BY <1>10 DEF register_resolve, RegisterEnds, Unlock, Goto, loaderVars, codeVars, noteVars
<1>11. CASE register_locked(p)
  BY <1>11 DEF LocksOK, LockOf, ArgsOK, ArgOf, HooksOK, HookOf, SlotOf, CodeOK, CodeOf, StaleOK,
         StaleOf, Settled, CookieOK, NotifiedOK, Validating, Orderly, register_locked,
         RegisterEnds, Unlock, install, Installable, Pending, Goto, loaderVars, codeVars, noteVars
<1>12. CASE is_active(p)
  BY <1>12 DEF is_active, lock_manager, Goto, loaderVars, codeVars
<1>13. CASE active_end(p)
  BY <1>13 DEF active_end, Unlock, Goto, loaderVars, codeVars, noteVars
<1>14. ASSUME NEW r \in Requests, remove(p, r) PROVE RemovesOK'
  BY <1>14 DEF LocksOK, LockOf, ArgsOK, ArgOf, HooksOK, HookOf, SlotOf, CodeOK, CodeOf, StaleOK,
         StaleOf, Settled, CookieOK, NotifiedOK, Validating, Orderly, remove, lock_manager,
         NeedsCheck, Pending, Goto, loaderVars, codeVars
<1>15. CASE remove_locked(p)
  BY <1>15 DEF LocksOK, LockOf, ArgsOK, ArgOf, HooksOK, HookOf, SlotOf, CodeOK, CodeOf, StaleOK,
         StaleOf, Settled, CookieOK, NotifiedOK, Validating, Orderly, remove_locked, Unlock,
         Forget, Pending, Goto, loaderVars, codeVars, noteVars
<1>16. CASE unregister_unload_notification(p)
  BY <1>16 DEF unregister_unload_notification, Goto, loaderVars, codeVars, lockVars
<1>17. CASE unreg_flag(p)
  BY <1>17 DEF unreg_flag, Goto, loaderVars, codeVars, lockVars, localVars
<1>18. CASE unregister_cookie(p)
  BY <1>18 DEF unregister_cookie, Goto, loaderVars, codeVars, lockVars
<1>19. ASSUME NEW m \in Modules, LdrLoadDll(p, m) PROVE RemovesOK'
  BY <1>19 DEF LdrLoadDll, Goto, codeVars, noteVars, lockVars
<1>20. CASE load_map(p)
  BY <1>20 DEF LocksOK, LockOf, ArgsOK, ArgOf, HooksOK, HookOf, SlotOf, CodeOK, CodeOf, StaleOK,
         StaleOf, Settled, CookieOK, NotifiedOK, Validating, Orderly, load_map, UnderLoaderLock,
         Goto, noteVars, lockVars
<1>21. CASE hooked_ldr_load_dll(p)
  BY <1>21 DEF hooked_ldr_load_dll, lock_manager, Goto, loaderVars, codeVars
<1>22. CASE install_ready_pending(p)
  BY <1>22 DEF install_ready_pending, Goto, loaderVars, codeVars, noteVars, lockVars
<1>23. CASE ready_resolve(p)
  BY <1>23 DEF ready_resolve, Goto, loaderVars, codeVars, noteVars, lockVars
<1>24. CASE ready_install(p)
  BY <1>24 DEF LocksOK, LockOf, ArgsOK, ArgOf, HooksOK, HookOf, SlotOf, CodeOK, CodeOf, StaleOK,
         StaleOf, Settled, CookieOK, NotifiedOK, Validating, Orderly, ready_install, install,
         Installable, Goto, loaderVars, codeVars, noteVars, lockVars
<1>25. CASE ready_end(p)
  BY <1>25 DEF ready_end, Unlock, Goto, loaderVars, codeVars, noteVars
<1>26. ASSUME NEW b \in Bases, FreeLibrary(p, b) PROVE RemovesOK'
  BY <1>26 DEF LocksOK, LockOf, ArgsOK, ArgOf, HooksOK, HookOf, SlotOf, CodeOK, CodeOf, StaleOK,
         StaleOf, Settled, CookieOK, NotifiedOK, Validating, Orderly, FreeLibrary, InUse, Unseen,
         UnderLoaderLock, Goto, codeVars, noteVars
<1>27. CASE on_dll_notification(p)
  BY <1>27 DEF LocksOK, LockOf, ArgsOK, ArgOf, HooksOK, HookOf, SlotOf, CodeOK, CodeOf, StaleOK,
         StaleOf, Settled, CookieOK, NotifiedOK, Validating, Orderly, on_dll_notification, Forget,
         Pending, Goto, loaderVars, lockVars, localVars
<1>28. CASE unmap(p)
  BY <1>28 DEF LocksOK, LockOf, ArgsOK, ArgOf, HooksOK, HookOf, SlotOf, CodeOK, CodeOf, StaleOK,
         StaleOf, Settled, CookieOK, NotifiedOK, Validating, Orderly, unmap, Goto, noteVars
<1>29. ASSUME NEW c \in {"tx", "loader"}, enter(p, c) PROVE RemovesOK'
  BY <1>29 DEF enter, loaderVars, codeVars, noteVars, localVars
<1>30. CASE leave(p)
  BY <1>30 DEF leave, loaderVars, codeVars, noteVars, localVars
<1>31. CASE pc[p] \in Validating /\ Revalidate(p)
  <2>1. PICK r \in todo[p] :
            /\ todo' = [todo EXCEPT ![p] = @ \ {r}]
            /\ IF ~still_installed(r, check[p])
               THEN Forget({r}) ELSE UNCHANGED <<hook, slot, base, saved>>
    BY <1>31 DEF Revalidate
  <2>2. /\ r \in Requests /\ todo'[p] = todo[p] \ {r}
        /\ \A q \in Threads \ {p} : todo'[q] = todo[q]
        /\ UNCHANGED <<listed, byte, pc, arg, check>>
    BY <1>31, <2>1 DEF Revalidate, loaderVars
  <2> SUFFICES ASSUME NEW q \in Threads, pc[q] = "rem_hook", Stale(arg[q])'
               PROVE  Rechecks(q, arg[q])'
    BY <2>2
  <2>3. q = p
    BY <1>31 DEF LocksOK, LockOf, Validating
  <2>4. CASE still_installed(r, check[p])
    BY <2>1, <2>2, <2>3, <2>4 DEF still_installed
  <2>5. CASE ~still_installed(r, check[p])
    <3>1. {r} \in SUBSET Requests /\ Forget({r})
      BY <2>1, <2>2, <2>5
    <3>2. ~hook'[r] /\ \A s \in Requests \ {r} : hook'[s] = hook[s] /\ base'[s] = base[s]
      BY <3>1, ForgetEffect
    <3> QED BY <2>2, <2>3, <3>2
  <2> QED BY <2>4, <2>5
<1> QED BY <1>1, <1>2, <1>3, <1>4, <1>5, <1>6, <1>7, <1>8, <1>9, <1>10, <1>11, <1>12, <1>13, <1>14,
           <1>15, <1>16, <1>17, <1>18, <1>19, <1>20, <1>21, <1>22, <1>23, <1>24, <1>25, <1>26,
           <1>27, <1>28, <1>29, <1>30, <1>31
          DEF Step, Register, Remove, Load, Call

LEMMA InitCode == Init => DInv
<1> SUFFICES ASSUME Init PROVE DInv
  OBVIOUS
<1> USE NoneAssumption DEF Init, RegPcs, MgrPcs, UnregPcs
<1>1. LocksOK /\ ArgsOK /\ RegUnique /\ CookieOK /\ NotifiedOK
  BY DEF LocksOK, LockOf, ArgsOK, ArgOf, RegUnique, CookieOK, NotifiedOK
<1>2. HooksOK /\ CodeOK
  BY DEF HooksOK, HookOf, SlotOf, CodeOK, CodeOf
<1>3. StaleOK /\ RemovesOK
  BY DEF StaleOK, StaleOf, RemovesOK, RemoveOf, Stale
<1> QED BY <1>1, <1>2, <1>3 DEF DInv

LEMMA NextCode ==
    ASSUME Orderly, TypeOK, LocalsOK, DInv, [Next]_vars
    PROVE  DInv'
<1>1. CASE Next
  <2>1. PICK p \in Threads : Step(p) \/ Call(p) \/ leave(p)
    BY <1>1 DEF Next
  <2>2. LocksOK' /\ ArgsOK' /\ RegUnique' /\ CookieOK' /\ NotifiedOK'
    BY <2>1, LocksStep, ArgsStep, RegUniqueStep, CookieStep, NotifiedStep DEF DInv
  <2>3. HooksOK' /\ CodeOK' /\ StaleOK' /\ RemovesOK'
    BY <2>1, HooksStep, CodeStep, StaleStep, RemovesStep DEF DInv
  <2> QED BY <2>2, <2>3 DEF DInv
<1>2. CASE UNCHANGED vars
  <2> USE <1>2 DEF DInv, vars, loaderVars, codeVars, noteVars, lockVars, localVars
  <2>1. LocksOK' /\ ArgsOK' /\ RegUnique'
    BY DEF LocksOK, LockOf, ArgsOK, ArgOf, RegUnique
  <2>2. CookieOK' /\ NotifiedOK'
    BY DEF CookieOK, NotifiedOK
  <2>3. HooksOK' /\ CodeOK'
    BY DEF HooksOK, HookOf, SlotOf, CodeOK, CodeOf
  <2>4. StaleOK'
    BY DEF StaleOK, StaleOf, Stale, Settled, Rechecks
  <2>5. RemovesOK'
    BY DEF RemovesOK, RemoveOf, Stale, Rechecks
  <2> QED BY <2>1, <2>2, <2>3, <2>4, <2>5
<1> QED BY <1>1, <1>2

\* The code of an image is its own, or the breakpoint of a request for that very module whose
\* saved byte is the image's: no hook of delay.rs outlives its image into the one mapped at its
\* address next, however registrations, removals, loads, unloads and the notification
\* interleave and whichever notification the system refuses.  It assumes that no image is freed
\* under a call that writes to it, and no unload passes unseen before a registration that
\* brings the notification back.
THEOREM CodeIsAlwaysIntact ==
    ASSUME Orderly
    PROVE  Spec => []CodeIsIntact
<1>1. TypeOK /\ LocalsOK /\ DInv /\ [Next]_vars => DInv'
  BY NextCode
<1>2. TypeOK /\ DInv => CodeIsIntact
  BY DEF TypeOK, DInv, CodeOK, CodeOf, CodeIsIntact
<1> QED BY InitTypes, NextTypes, InitCode, <1>1, <1>2, PTL DEF Spec

-----------------------------------------------------------------------------
(***************************************************************************)
(* The steps, for LoadedIsHooked                                           *)
(***************************************************************************)

\* The images.
LEMMA MapStep ==
    ASSUME TypeOK, LocalsOK, ArgsOK, MapOK,
           NEW p \in Threads, Step(p) \/ Call(p) \/ leave(p)
    PROVE  MapOK'
<1> USE NoneAssumption, ModuleAssumption DEF TypeOK, LocalsOK, LocalOf, RegPcs, MgrPcs, UnregPcs,
        Pcs, MapOK
<1>1. ASSUME NEW r \in Requests, register(p, r) PROVE MapOK'
  BY <1>1 DEF register, Goto, loaderVars, codeVars, noteVars, lockVars
<1>2. CASE register_unload_notification(p)
  BY <1>2 DEF register_unload_notification, Goto, loaderVars, codeVars, lockVars, localVars
<1>3. CASE reg_exchange(p)
  BY <1>3 DEF reg_exchange, Goto, loaderVars, codeVars, lockVars, localVars
<1>4. CASE reg_undo(p)
  BY <1>4 DEF reg_undo, Goto, loaderVars, codeVars, lockVars, localVars
<1>5. CASE reg_flag(p)
  BY <1>5 DEF reg_flag, Goto, loaderVars, codeVars, lockVars, localVars
<1>6. CASE reg_check(p)
  BY <1>6 DEF reg_check, Goto, loaderVars, codeVars, lockVars, localVars
<1>7. CASE with_transaction_lock(p)
  BY <1>7 DEF with_transaction_lock, Goto, loaderVars, codeVars, noteVars, localVars
<1>8. CASE reg_lock(p)
  BY <1>8 DEF reg_lock, lock_manager, Goto, loaderVars, codeVars
<1>9. CASE ensure_ldr_hook(p)
  BY <1>9 DEF ensure_ldr_hook, RegisterEnds, Unlock, Goto, loaderVars, codeVars, noteVars
<1>10. CASE register_resolve(p)
  BY <1>10 DEF register_resolve, RegisterEnds, Unlock, Goto, loaderVars, codeVars, noteVars
<1>11. CASE register_locked(p)
  BY <1>11 DEF register_locked, RegisterEnds, Unlock, install, Goto, loaderVars, codeVars, noteVars
<1>12. CASE is_active(p)
  BY <1>12 DEF is_active, lock_manager, Goto, loaderVars, codeVars
<1>13. CASE active_end(p)
  BY <1>13 DEF active_end, Unlock, Goto, loaderVars, codeVars, noteVars
<1>14. ASSUME NEW r \in Requests, remove(p, r) PROVE MapOK'
  BY <1>14 DEF remove, lock_manager, Goto, loaderVars, codeVars
<1>15. CASE remove_locked(p)
  BY <1>15 DEF remove_locked, Unlock, Forget, Goto, loaderVars, codeVars, noteVars
<1>16. CASE unregister_unload_notification(p)
  BY <1>16 DEF unregister_unload_notification, Goto, loaderVars, codeVars, lockVars
<1>17. CASE unreg_flag(p)
  BY <1>17 DEF unreg_flag, Goto, loaderVars, codeVars, lockVars, localVars
<1>18. CASE unregister_cookie(p)
  BY <1>18 DEF unregister_cookie, Goto, loaderVars, codeVars, lockVars
<1>19. ASSUME NEW m \in Modules, LdrLoadDll(p, m) PROVE MapOK'
  BY <1>19 DEF LdrLoadDll, Goto, codeVars, noteVars, lockVars
<1>20. CASE load_map(p)
  BY <1>20 DEF load_map, Goto, noteVars, lockVars
<1>21. CASE hooked_ldr_load_dll(p)
  BY <1>21 DEF hooked_ldr_load_dll, lock_manager, Goto, loaderVars, codeVars
<1>22. CASE install_ready_pending(p)
  BY <1>22 DEF install_ready_pending, Goto, loaderVars, codeVars, noteVars, lockVars
<1>23. CASE ready_resolve(p)
  BY <1>23 DEF ready_resolve, Goto, loaderVars, codeVars, noteVars, lockVars
<1>24. CASE ready_install(p)
  BY <1>24 DEF ready_install, install, Goto, loaderVars, codeVars, noteVars, lockVars
<1>25. CASE ready_end(p)
  BY <1>25 DEF ready_end, Unlock, Goto, loaderVars, codeVars, noteVars
<1>26. ASSUME NEW b \in Bases, FreeLibrary(p, b) PROVE MapOK'
  BY <1>26 DEF FreeLibrary, Goto, codeVars, noteVars
<1>27. CASE on_dll_notification(p)
  BY <1>27 DEF on_dll_notification, Forget, Goto, loaderVars, lockVars, localVars
<1>28. CASE unmap(p)
  BY <1>28 DEF unmap, Goto, noteVars
<1>29. ASSUME NEW c \in {"tx", "loader"}, enter(p, c) PROVE MapOK'
  BY <1>29 DEF enter, loaderVars, codeVars, noteVars, localVars
<1>30. CASE leave(p)
  BY <1>30 DEF leave, loaderVars, codeVars, noteVars, localVars
<1>31. CASE pc[p] \in Validating /\ Revalidate(p)
  BY <1>31 DEF Validating, Revalidate, Forget, loaderVars, noteVars, lockVars
<1> QED BY <1>1, <1>2, <1>3, <1>4, <1>5, <1>6, <1>7, <1>8, <1>9, <1>10, <1>11, <1>12, <1>13, <1>14,
           <1>15, <1>16, <1>17, <1>18, <1>19, <1>20, <1>21, <1>22, <1>23, <1>24, <1>25, <1>26,
           <1>27, <1>28, <1>29, <1>30, <1>31
          DEF Step, Register, Remove, Load, Call

\* The detour of LdrLoadDll.
LEMMA SeenStep ==
    ASSUME Separate, TypeOK, LocalsOK, LocksOK, ArgsOK, MapOK, SeenOK,
           NEW p \in Threads, Step(p) \/ Call(p) \/ leave(p)
    PROVE  SeenOK'
<1> USE NoneAssumption, ModuleAssumption DEF TypeOK, LocalsOK, LocalOf, RegPcs, MgrPcs, UnregPcs,
        Pcs, SeenOK, LoadUnseen
<1>1. ASSUME NEW r \in Requests, register(p, r) PROVE SeenOK'
  BY <1>1 DEF register, Goto, loaderVars, codeVars, noteVars, lockVars
<1>2. CASE register_unload_notification(p)
  BY <1>2 DEF register_unload_notification, Goto, loaderVars, codeVars, lockVars, localVars
<1>3. CASE reg_exchange(p)
  BY <1>3 DEF reg_exchange, Goto, loaderVars, codeVars, lockVars, localVars
<1>4. CASE reg_undo(p)
  BY <1>4 DEF reg_undo, Goto, loaderVars, codeVars, lockVars, localVars
<1>5. CASE reg_flag(p)
  BY <1>5 DEF reg_flag, Goto, loaderVars, codeVars, lockVars, localVars
<1>6. CASE reg_check(p)
  BY <1>6 DEF reg_check, Goto, loaderVars, codeVars, lockVars, localVars
<1>7. CASE with_transaction_lock(p)
  BY <1>7 DEF with_transaction_lock, Goto, loaderVars, codeVars, noteVars, localVars
<1>8. CASE reg_lock(p)
  BY <1>8 DEF reg_lock, lock_manager, Goto, loaderVars, codeVars
<1>9. CASE ensure_ldr_hook(p)
  BY <1>9 DEF Separate, LocksOK, LockOf, ArgsOK, ArgOf, MapOK, ensure_ldr_hook, RegisterEnds,
         Unlock, LoadUnseen, Goto, loaderVars, codeVars, noteVars
<1>10. CASE register_resolve(p)
  BY <1>10 DEF register_resolve, RegisterEnds, Unlock, Goto, loaderVars, codeVars, noteVars
<1>11. CASE register_locked(p)
  BY <1>11 DEF Separate, LocksOK, LockOf, ArgsOK, ArgOf, MapOK, register_locked, RegisterEnds,
         Unlock, install, Installable, Pending, Goto, loaderVars, codeVars, noteVars
<1>12. CASE is_active(p)
  BY <1>12 DEF is_active, lock_manager, Goto, loaderVars, codeVars
<1>13. CASE active_end(p)
  BY <1>13 DEF active_end, Unlock, Goto, loaderVars, codeVars, noteVars
<1>14. ASSUME NEW r \in Requests, remove(p, r) PROVE SeenOK'
  BY <1>14 DEF remove, lock_manager, Goto, loaderVars, codeVars
<1>15. CASE remove_locked(p)
  BY <1>15 DEF Separate, LocksOK, LockOf, ArgsOK, ArgOf, MapOK, remove_locked, Unlock, Forget,
         Pending, Goto, loaderVars, codeVars, noteVars
<1>16. CASE unregister_unload_notification(p)
  BY <1>16 DEF unregister_unload_notification, Goto, loaderVars, codeVars, lockVars
<1>17. CASE unreg_flag(p)
  BY <1>17 DEF unreg_flag, Goto, loaderVars, codeVars, lockVars, localVars
<1>18. CASE unregister_cookie(p)
  BY <1>18 DEF unregister_cookie, Goto, loaderVars, codeVars, lockVars
<1>19. ASSUME NEW m \in Modules, LdrLoadDll(p, m) PROVE SeenOK'
  BY <1>19 DEF LdrLoadDll, Goto, codeVars, noteVars, lockVars
<1>20. CASE load_map(p)
  BY <1>20 DEF load_map, Goto, noteVars, lockVars
<1>21. CASE hooked_ldr_load_dll(p)
  BY <1>21 DEF hooked_ldr_load_dll, lock_manager, Goto, loaderVars, codeVars
<1>22. CASE install_ready_pending(p)
  BY <1>22 DEF install_ready_pending, Goto, loaderVars, codeVars, noteVars, lockVars
<1>23. CASE ready_resolve(p)
  BY <1>23 DEF ready_resolve, Goto, loaderVars, codeVars, noteVars, lockVars
<1>24. CASE ready_install(p)
  BY <1>24 DEF ready_install, install, Goto, loaderVars, codeVars, noteVars, lockVars
<1>25. CASE ready_end(p)
  BY <1>25 DEF ready_end, Unlock, Goto, loaderVars, codeVars, noteVars
<1>26. ASSUME NEW b \in Bases, FreeLibrary(p, b) PROVE SeenOK'
  BY <1>26 DEF FreeLibrary, Goto, codeVars, noteVars
<1>27. CASE on_dll_notification(p)
  BY <1>27 DEF on_dll_notification, Forget, Goto, loaderVars, lockVars, localVars
<1>28. CASE unmap(p)
  BY <1>28 DEF unmap, Goto, noteVars
<1>29. ASSUME NEW c \in {"tx", "loader"}, enter(p, c) PROVE SeenOK'
  BY <1>29 DEF enter, loaderVars, codeVars, noteVars, localVars
<1>30. CASE leave(p)
  BY <1>30 DEF leave, loaderVars, codeVars, noteVars, localVars
<1>31. CASE pc[p] \in Validating /\ Revalidate(p)
  BY <1>31 DEF Validating, Revalidate, Forget, loaderVars, noteVars, lockVars
<1> QED BY <1>1, <1>2, <1>3, <1>4, <1>5, <1>6, <1>7, <1>8, <1>9, <1>10, <1>11, <1>12, <1>13, <1>14,
           <1>15, <1>16, <1>17, <1>18, <1>19, <1>20, <1>21, <1>22, <1>23, <1>24, <1>25, <1>26,
           <1>27, <1>28, <1>29, <1>30, <1>31
          DEF Step, Register, Remove, Load, Call

\* What is in the way of a request that is due is stale.
LEMMA InTheWay ==
    ASSUME Separate, TypeOK, HooksOK, CodeOK, MapOK,
           NEW r \in Requests, NEW b \in Bases, Due(r, b)
    PROVE  /\ hook[r] => Stale(r)
           /\ slot[b] # None => Stale(slot[b]) /\ slot[b] \in Requests /\ base[slot[b]] = b
<1>1. ASSUME hook[r], base[r] \in listed, byte[base[r]] = "cc" PROVE FALSE
  <2>1. slot[base[r]] = r /\ base[r] \in Bases
    BY <1>1 DEF HooksOK, HookOf
  <2>2. mapped[base[r]] = Module[r] /\ mapped[base[r]] # None
    BY <1>1, <2>1, ModuleAssumption DEF TypeOK, CodeOK, CodeOf
  <2>3. base[r] = b
    BY <2>1, <2>2 DEF Due, MapOK
  <2> QED BY <1>1, <2>3 DEF Due
<1>2. ASSUME slot[b] # None
      PROVE  Stale(slot[b]) /\ slot[b] \in Requests /\ base[slot[b]] = b
  <2>1. slot[b] \in Requests /\ hook[slot[b]] /\ base[slot[b]] = b
    BY <1>2 DEF TypeOK, HooksOK, SlotOf
  <2>2. ASSUME byte[b] = "cc" PROVE FALSE
    <3>1. Module[slot[b]] = Module[r]
      BY <2>2, ModuleAssumption DEF TypeOK, CodeOK, CodeOf, Due
    <3>2. slot[b] = r
      BY <2>1, <3>1 DEF Separate
    <3> QED BY <2>1, <2>2, <3>2 DEF Due
  <2> QED BY <2>1, <2>2 DEF Stale
<1> QED BY <1>1, <1>2 DEF Stale

\* The requests that are due.
LEMMA DueStep ==
    ASSUME Orderly, Separate, TypeOK, LocalsOK, DInv, LInv,
           NEW p \in Threads, Step(p) \/ Call(p) \/ leave(p)
    PROVE  DueOK'
<1> USE NoneAssumption, ModuleAssumption DEF TypeOK, LocalsOK, LocalOf, RegPcs, MgrPcs, UnregPcs,
        Pcs, DInv, LInv, DueOK, Due, Finds
<1>1. ASSUME NEW r \in Requests, register(p, r) PROVE DueOK'
  BY <1>1 DEF Orderly, Separate, MapOK, SeenOK, LoadUnseen, LocksOK, LockOf, ArgsOK, ArgOf,
         HooksOK, HookOf, SlotOf, CodeOK, CodeOf, StaleOK, StaleOf, Stale, Settled, Rechecks,
         Validating, register, Goto, loaderVars, codeVars, noteVars, lockVars
<1>2. CASE register_unload_notification(p)
  BY <1>2 DEF Orderly, Separate, MapOK, SeenOK, LoadUnseen, LocksOK, LockOf, ArgsOK, ArgOf,
         HooksOK, HookOf, SlotOf, CodeOK, CodeOf, StaleOK, StaleOf, Stale, Settled, Rechecks,
         Validating, register_unload_notification, Goto, UnderLoaderLock, loaderVars, codeVars,
         lockVars, localVars
<1>3. CASE reg_exchange(p)
  BY <1>3 DEF Orderly, Separate, MapOK, SeenOK, LoadUnseen, LocksOK, LockOf, ArgsOK, ArgOf,
         HooksOK, HookOf, SlotOf, CodeOK, CodeOf, StaleOK, StaleOf, Stale, Settled, Rechecks,
         Validating, reg_exchange, Goto, loaderVars, codeVars, lockVars, localVars
<1>4. CASE reg_undo(p)
  BY <1>4 DEF Orderly, Separate, MapOK, SeenOK, LoadUnseen, LocksOK, LockOf, ArgsOK, ArgOf,
         HooksOK, HookOf, SlotOf, CodeOK, CodeOf, StaleOK, StaleOf, Stale, Settled, Rechecks,
         Validating, reg_undo, Goto, UnderLoaderLock, loaderVars, codeVars, lockVars, localVars
<1>5. CASE reg_flag(p)
  BY <1>5 DEF Orderly, Separate, MapOK, SeenOK, LoadUnseen, LocksOK, LockOf, ArgsOK, ArgOf,
         HooksOK, HookOf, SlotOf, CodeOK, CodeOf, StaleOK, StaleOf, Stale, Settled, Rechecks,
         Validating, reg_flag, Goto, loaderVars, codeVars, lockVars, localVars
<1>6. CASE reg_check(p)
  BY <1>6 DEF Orderly, Separate, MapOK, SeenOK, LoadUnseen, LocksOK, LockOf, ArgsOK, ArgOf,
         HooksOK, HookOf, SlotOf, CodeOK, CodeOf, StaleOK, StaleOf, Stale, Settled, Rechecks,
         Validating, reg_check, Goto, FlagRecheck, loaderVars, codeVars, lockVars, localVars
<1>7. CASE with_transaction_lock(p)
  BY <1>7 DEF Orderly, Separate, MapOK, SeenOK, LoadUnseen, LocksOK, LockOf, ArgsOK, ArgOf,
         HooksOK, HookOf, SlotOf, CodeOK, CodeOf, StaleOK, StaleOf, Stale, Settled, Rechecks,
         Validating, with_transaction_lock, Goto, loaderVars, codeVars, noteVars, localVars
<1>8. CASE reg_lock(p)
  BY <1>8 DEF Orderly, Separate, MapOK, SeenOK, LoadUnseen, LocksOK, LockOf, ArgsOK, ArgOf,
         HooksOK, HookOf, SlotOf, CodeOK, CodeOf, StaleOK, StaleOf, Stale, Settled, Rechecks,
         Validating, reg_lock, lock_manager, NeedsCheck, Pending, Goto, loaderVars, codeVars
<1>9. CASE ensure_ldr_hook(p)
  BY <1>9 DEF Orderly, Separate, MapOK, SeenOK, LoadUnseen, LocksOK, LockOf, ArgsOK, ArgOf,
         HooksOK, HookOf, SlotOf, CodeOK, CodeOf, StaleOK, StaleOf, Stale, Settled, Rechecks,
         Validating, ensure_ldr_hook, RegisterEnds, Unlock, Goto, loaderVars, codeVars, noteVars
<1>10. CASE register_resolve(p)
  BY <1>10 DEF Orderly, Separate, MapOK, SeenOK, LoadUnseen, LocksOK, LockOf, ArgsOK, ArgOf,
         HooksOK, HookOf, SlotOf, CodeOK, CodeOf, StaleOK, StaleOf, Stale, Settled, Rechecks,
         Validating, register_resolve, RegisterEnds, Unlock, Resolved, Goto, loaderVars, codeVars,
         noteVars
<1>11. CASE register_locked(p)
  <2>1. /\ pc[p] = "reg_install" /\ arg[p] \in Requests /\ at[p] \in listed
        /\ stage[arg[p]] = "registering" /\ ~hook[arg[p]] /\ mapped[at[p]] = Module[arg[p]]
        /\ UNCHANGED <<mapped, listed, todo>> /\ mgrOwner = p
    BY <1>11 DEF register_locked, ArgsOK, ArgOf, HooksOK, HookOf, LocksOK, LockOf, loaderVars
  <2>2. PICK s \in {"registered", "gone"} : RegisterEnds(p, s)
    BY <1>11 DEF register_locked
  <2>3. /\ \A q \in Threads \ {p} : pc'[q] = pc[q] /\ arg'[q] = arg[q]
        /\ stage'[arg[p]] = s /\ \A r \in Requests \ {arg[p]} : stage'[r] = stage[r]
    BY <2>1, <2>2, EndsEffect
  <2> SUFFICES ASSUME NEW r \in Requests, NEW b \in Bases, Due(r, b)'
               PROVE  \E q \in Threads : Finds(q, r, b)'
    OBVIOUS
  <2>4. CASE r = arg[p]
    <3>1. s = "registered" /\ install(arg[p], at[p])
      BY <1>11, <2>2, <2>3, <2>4 DEF register_locked, RegisterEnds
    <3>2. hook'[r] /\ base'[r] = at[p] /\ byte'[at[p]] = "cc"
      BY <2>1, <2>4, <3>1, InstallEffect
    <3>3. b = at[p]
      BY <2>1, <2>4 DEF MapOK
    <3> QED BY <3>2, <3>3
  <2>5. CASE r # arg[p]
    <3>1. Due(r, b)
      <4>1. CASE install(arg[p], at[p])
        BY <2>1, <2>3, <2>5, <4>1, InstallEffect
      <4>2. CASE UNCHANGED codeVars
        BY <2>1, <2>3, <2>5, <4>2 DEF codeVars
      <4> QED BY <1>11, <4>1, <4>2 DEF register_locked
    <3>2. PICK q \in Threads : pc[q] = "load_mgr"
      BY <2>1, <3>1 DEF LocksOK, LockOf
    <3> QED BY <2>1, <2>3, <3>2
  <2> QED BY <2>4, <2>5
<1>12. CASE is_active(p)
  BY <1>12 DEF Orderly, Separate, MapOK, SeenOK, LoadUnseen, LocksOK, LockOf, ArgsOK, ArgOf,
         HooksOK, HookOf, SlotOf, CodeOK, CodeOf, StaleOK, StaleOf, Stale, Settled, Rechecks,
         Validating, is_active, lock_manager, NeedsCheck, Pending, Goto, loaderVars, codeVars
<1>13. CASE active_end(p)
  BY <1>13 DEF Orderly, Separate, MapOK, SeenOK, LoadUnseen, LocksOK, LockOf, ArgsOK, ArgOf,
         HooksOK, HookOf, SlotOf, CodeOK, CodeOf, StaleOK, StaleOf, Stale, Settled, Rechecks,
         Validating, active_end, Unlock, Goto, loaderVars, codeVars, noteVars
<1>14. ASSUME NEW r \in Requests, remove(p, r) PROVE DueOK'
  BY <1>14 DEF Orderly, Separate, MapOK, SeenOK, LoadUnseen, LocksOK, LockOf, ArgsOK, ArgOf,
         HooksOK, HookOf, SlotOf, CodeOK, CodeOf, StaleOK, StaleOf, Stale, Settled, Rechecks,
         Validating, remove, lock_manager, NeedsCheck, Pending, Goto, loaderVars, codeVars
<1>15. CASE remove_locked(p)
  BY <1>15 DEF Orderly, Separate, MapOK, SeenOK, LoadUnseen, LocksOK, LockOf, ArgsOK, ArgOf,
         HooksOK, HookOf, SlotOf, CodeOK, CodeOf, StaleOK, StaleOf, Stale, Settled, Rechecks,
         Validating, remove_locked, Unlock, Forget, Pending, Goto, loaderVars, codeVars, noteVars
<1>16. CASE unregister_unload_notification(p)
  BY <1>16 DEF Orderly, Separate, MapOK, SeenOK, LoadUnseen, LocksOK, LockOf, ArgsOK, ArgOf,
         HooksOK, HookOf, SlotOf, CodeOK, CodeOf, StaleOK, StaleOf, Stale, Settled, Rechecks,
         Validating, unregister_unload_notification, Goto, loaderVars, codeVars, lockVars
<1>17. CASE unreg_flag(p)
  BY <1>17 DEF Orderly, Separate, MapOK, SeenOK, LoadUnseen, LocksOK, LockOf, ArgsOK, ArgOf,
         HooksOK, HookOf, SlotOf, CodeOK, CodeOf, StaleOK, StaleOf, Stale, Settled, Rechecks,
         Validating, unreg_flag, Goto, loaderVars, codeVars, lockVars, localVars
<1>18. CASE unregister_cookie(p)
  BY <1>18 DEF Orderly, Separate, MapOK, SeenOK, LoadUnseen, LocksOK, LockOf, ArgsOK, ArgOf,
         HooksOK, HookOf, SlotOf, CodeOK, CodeOf, StaleOK, StaleOf, Stale, Settled, Rechecks,
         Validating, unregister_cookie, UnderLoaderLock, Goto, loaderVars, codeVars, lockVars
<1>19. ASSUME NEW m \in Modules, LdrLoadDll(p, m) PROVE DueOK'
  BY <1>19 DEF Orderly, Separate, MapOK, SeenOK, LoadUnseen, LocksOK, LockOf, ArgsOK, ArgOf,
         HooksOK, HookOf, SlotOf, CodeOK, CodeOf, StaleOK, StaleOf, Stale, Settled, Rechecks,
         Validating, LdrLoadDll, Goto, codeVars, noteVars, lockVars
<1>20. CASE load_map(p)
  BY <1>20 DEF Orderly, Separate, MapOK, SeenOK, LoadUnseen, LocksOK, LockOf, ArgsOK, ArgOf,
         HooksOK, HookOf, SlotOf, CodeOK, CodeOf, StaleOK, StaleOf, Stale, Settled, Rechecks,
         Validating, load_map, UnderLoaderLock, Goto, noteVars, lockVars
<1>21. CASE hooked_ldr_load_dll(p)
  <2>1. /\ pc[p] = "load_mgr" /\ lock_manager(p, "load_mgr") /\ pc'[p] = "ready_check"
        /\ \A q \in Threads \ {p} : pc'[q] = pc[q]
        /\ UNCHANGED <<mapped, listed, byte, slot, hook, base, stage, arg, at, notified>>
    BY <1>21 DEF hooked_ldr_load_dll, lock_manager, Goto, loaderVars, codeVars
  <2>2. /\ mgrOwner = None /\ check'[p] = (missed \/ ~notified)
        /\ todo'[p] = {r \in Requests : stage[r] = "registered" /\ hook[r]}
        /\ \A q \in Threads \ {p} : check'[q] = check[q] /\ todo'[q] = todo[q]
    BY <2>1, LockEffect
  <2> SUFFICES ASSUME NEW r \in Requests, NEW b \in Bases, Due(r, b)'
               PROVE  \E q \in Threads : Finds(q, r, b)'
    OBVIOUS
  <2>3. /\ stage[r] = "registered" /\ b \in listed /\ mapped[b] = Module[r]
        /\ ~(hook[r] /\ base[r] = b /\ byte[b] = "cc")
    BY <2>1
  <2>4. ASSUME NEW s \in Requests, Stale(s), base[s] = b \/ s = r PROVE Rechecks(p, s)'
    <3>1. hook[s] /\ stage[s] = "registered"
      BY <2>4 DEF Stale, HooksOK, HookOf
    <3>2. \A q \in Threads : ~Rechecks(q, s)
      BY <2>2 DEF Rechecks, Validating, LocksOK, LockOf
    <3>3. ASSUME NEW q \in Threads, pc[q] = "notify", at[q] = base[s], mapped[at[q]] = Module[s]
          PROVE  FALSE
      <4>1. at[q] \in Bases /\ at[q] \notin listed
        BY <3>3 DEF ArgsOK, ArgOf
      <4>2. s = r
        BY <2>3, <2>4, <3>3, <4>1
      <4>3. mapped[at[q]] = mapped[b] /\ mapped[b] # None
        BY <2>3, <3>3, <4>2 DEF CodeOK, CodeOf
      <4> QED BY <2>3, <4>1, <4>3 DEF MapOK
    <3>4. missed \/ ~notified
      BY <2>4, <3>2, <3>3 DEF StaleOK, StaleOf
    <3> QED BY <2>1, <2>2, <3>1, <3>4 DEF Rechecks, Validating
  <2>5. /\ hook[r] => Stale(r)
        /\ slot[b] # None => Stale(slot[b]) /\ slot[b] \in Requests /\ base[slot[b]] = b
    BY <2>3, InTheWay DEF MapOK
  <2>7. Finds(p, r, b)'
    BY <2>1, <2>4, <2>5
  <2> QED BY <2>7
<1>22. CASE install_ready_pending(p)
  BY <1>22 DEF Orderly, Separate, MapOK, SeenOK, LoadUnseen, LocksOK, LockOf, ArgsOK, ArgOf,
         HooksOK, HookOf, SlotOf, CodeOK, CodeOf, StaleOK, StaleOf, Stale, Settled, Rechecks,
         Validating, install_ready_pending, Pending, Goto, loaderVars, codeVars, noteVars, lockVars
<1>23. CASE ready_resolve(p)
  BY <1>23 DEF Orderly, Separate, MapOK, SeenOK, LoadUnseen, LocksOK, LockOf, ArgsOK, ArgOf,
         HooksOK, HookOf, SlotOf, CodeOK, CodeOf, StaleOK, StaleOf, Stale, Settled, Rechecks,
         Validating, ready_resolve, Resolved, Goto, loaderVars, codeVars, noteVars, lockVars
<1>24. CASE ready_install(p)
  <2>1. /\ pc[p] = "ready_install" /\ pc'[p] = "ready" /\ \A q \in Threads \ {p} : pc'[q] = pc[q]
        /\ \A q \in Threads \ {p} : arg'[q] = arg[q] /\ at'[q] = at[q]
        /\ UNCHANGED <<mapped, listed, stage, todo>>
    BY <1>24 DEF ready_install, Goto, loaderVars
  <2>2. /\ arg[p] \in Requests /\ at[p] \in Bases /\ mapped[at[p]] = Module[arg[p]]
        /\ ~hook[arg[p]] /\ mapped[at[p]] # None /\ at[p] \in listed /\ stage[arg[p]] = "registered"
    BY <2>1, ModuleAssumption DEF ArgsOK, ArgOf
  <2>3. \A q \in Threads : pc[q] \in MgrPcs => q = p
    BY <2>1 DEF LocksOK, LockOf
  <2> SUFFICES ASSUME NEW r \in Requests, NEW b \in Bases, Due(r, b)'
               PROVE  \E q \in Threads : Finds(q, r, b)'
    OBVIOUS
  <2>4. CASE r = arg[p]
    <3>1. b = at[p]
      BY <2>1, <2>2, <2>4 DEF MapOK
    <3>2. ~install(arg[p], at[p])
      BY <2>2, <2>4, <3>1, InstallEffect
    <3>3. slot[b] # None /\ Due(r, b)
      BY <1>24, <2>1, <2>2, <2>4, <3>1, <3>2 DEF ready_install, Installable
    <3>4. PICK q \in Threads : pc[q] = "load_mgr"
      BY <2>1, <2>3, <3>3
    <3> QED BY <2>1, <3>4
  <2>5. CASE r # arg[p]
    <3>1. b # at[p]
      BY <2>1, <2>2, <2>5 DEF Separate
    <3>2. hook'[r] = hook[r] /\ base'[r] = base[r] /\ byte'[b] = byte[b] /\ slot'[b] = slot[b]
      <4>1. CASE install(arg[p], at[p])
        BY <2>2, <2>5, <3>1, <4>1, InstallEffect
      <4>2. CASE UNCHANGED codeVars
        BY <4>2 DEF codeVars
      <4> QED BY <1>24, <4>1, <4>2 DEF ready_install
    <3>3. PICK q \in Threads : Finds(q, r, b)
      BY <2>1, <3>2
    <3>4. CASE pc[q] = "load_mgr"
      BY <2>1, <3>4
    <3>5. CASE pc[q] # "load_mgr"
      <4>1. q = p /\ r \in todo[p] /\ ~hook[r] /\ slot[b] = None
        BY <2>1, <2>3, <2>5, <3>3, <3>5
      <4>2. Finds(p, r, b)'
        BY <2>1, <3>2, <4>1
      <4> QED BY <4>2
    <3> QED BY <3>4, <3>5
  <2> QED BY <2>4, <2>5
<1>25. CASE ready_end(p)
  BY <1>25 DEF Orderly, Separate, MapOK, SeenOK, LoadUnseen, LocksOK, LockOf, ArgsOK, ArgOf,
         HooksOK, HookOf, SlotOf, CodeOK, CodeOf, StaleOK, StaleOf, Stale, Settled, Rechecks,
         Validating, ready_end, Unlock, Goto, loaderVars, codeVars, noteVars
<1>26. ASSUME NEW b \in Bases, FreeLibrary(p, b) PROVE DueOK'
  BY <1>26 DEF Orderly, Separate, MapOK, SeenOK, LoadUnseen, LocksOK, LockOf, ArgsOK, ArgOf,
         HooksOK, HookOf, SlotOf, CodeOK, CodeOf, StaleOK, StaleOf, Stale, Settled, Rechecks,
         Validating, FreeLibrary, InUse, Unseen, UnderLoaderLock, Goto, codeVars, noteVars
<1>27. CASE on_dll_notification(p)
  BY <1>27 DEF Orderly, Separate, MapOK, SeenOK, LoadUnseen, LocksOK, LockOf, ArgsOK, ArgOf,
         HooksOK, HookOf, SlotOf, CodeOK, CodeOf, StaleOK, StaleOf, Stale, Settled, Rechecks,
         Validating, on_dll_notification, Forget, Pending, Goto, loaderVars, lockVars, localVars
<1>28. CASE unmap(p)
  BY <1>28 DEF Orderly, Separate, MapOK, SeenOK, LoadUnseen, LocksOK, LockOf, ArgsOK, ArgOf,
         HooksOK, HookOf, SlotOf, CodeOK, CodeOf, StaleOK, StaleOf, Stale, Settled, Rechecks,
         Validating, unmap, Goto, noteVars
<1>29. ASSUME NEW c \in {"tx", "loader"}, enter(p, c) PROVE DueOK'
  BY <1>29 DEF Orderly, Separate, MapOK, SeenOK, LoadUnseen, LocksOK, LockOf, ArgsOK, ArgOf,
         HooksOK, HookOf, SlotOf, CodeOK, CodeOf, StaleOK, StaleOf, Stale, Settled, Rechecks,
         Validating, enter, loaderVars, codeVars, noteVars, localVars
<1>30. CASE leave(p)
  BY <1>30 DEF Orderly, Separate, MapOK, SeenOK, LoadUnseen, LocksOK, LockOf, ArgsOK, ArgOf,
         HooksOK, HookOf, SlotOf, CodeOK, CodeOf, StaleOK, StaleOf, Stale, Settled, Rechecks,
         Validating, leave, loaderVars, codeVars, noteVars, localVars
<1>31. CASE pc[p] \in Validating /\ Revalidate(p)
  <2>1. PICK d \in todo[p] :
            /\ todo' = [todo EXCEPT ![p] = @ \ {d}]
            /\ IF ~still_installed(d, check[p])
               THEN Forget({d}) ELSE UNCHANGED <<hook, slot, base, saved>>
    BY <1>31 DEF Revalidate
  <2>2. /\ d \in Requests /\ todo'[p] = todo[p] \ {d}
        /\ UNCHANGED <<mapped, listed, byte, stage, pc, arg, at, check>>
    BY <1>31, <2>1 DEF Revalidate, loaderVars
  <2>3. \A q \in Threads : pc[q] \in MgrPcs => q = p
    BY <1>31 DEF Validating, LocksOK, LockOf
  <2>4. ~still_installed(d, check[p]) =>
            /\ ~hook'[d] /\ base'[d] = None
            /\ \A c \in Bases : slot'[c] = IF hook[d] /\ base[d] = c THEN None ELSE slot[c]
    <3>1. {d} \in SUBSET Requests
      BY <2>2
    <3> QED BY <2>1, <3>1, ForgetEffect
  <2>5. \A r \in Requests \ {d} : hook'[r] = hook[r] /\ base'[r] = base[r]
    <3>1. {d} \in SUBSET Requests
      BY <2>2
    <3> QED BY <2>1, <3>1, ForgetEffect
  <2>6. still_installed(d, check[p]) => UNCHANGED <<hook, slot, base>>
    BY <2>1
  <2> SUFFICES ASSUME NEW r \in Requests, NEW b \in Bases, Due(r, b)'
               PROVE  \E q \in Threads : Finds(q, r, b)'
    OBVIOUS
  <2>7. Due(r, b)
    BY <2>2, <2>4, <2>5, <2>6 DEF still_installed
  <2>8. PICK q \in Threads : Finds(q, r, b)
    BY <2>7
  <2>9. CASE pc[q] = "load_mgr"
    BY <2>2, <2>9
  <2>10. CASE pc[q] # "load_mgr"
    <3>1. /\ q = p /\ pc[p] = "ready_check"
          /\ hook[r] => Rechecks(p, r)
          /\ slot[b] # None => Rechecks(p, slot[b])
      BY <1>31, <2>3, <2>8, <2>10 DEF Validating
    <3>2. /\ hook[r] => Stale(r)
          /\ slot[b] # None => Stale(slot[b]) /\ slot[b] \in Requests /\ base[slot[b]] = b
      BY <2>7, InTheWay DEF MapOK
    <3>3. hook'[r] => hook[r] /\ r # d
      BY <2>4, <2>5, <2>6, <3>1, <3>2 DEF Rechecks, Stale, still_installed
    <3>4. slot'[b] # None => slot'[b] = slot[b] /\ slot[b] # d
      BY <2>4, <2>6, <3>1, <3>2 DEF Rechecks, Stale, still_installed
    <3>5. Finds(p, r, b)'
      BY <2>2, <3>1, <3>3, <3>4 DEF Rechecks
    <3> QED BY <3>5
  <2> QED BY <2>9, <2>10
<1> QED BY <1>1, <1>2, <1>3, <1>4, <1>5, <1>6, <1>7, <1>8, <1>9, <1>10, <1>11, <1>12, <1>13, <1>14,
           <1>15, <1>16, <1>17, <1>18, <1>19, <1>20, <1>21, <1>22, <1>23, <1>24, <1>25, <1>26,
           <1>27, <1>28, <1>29, <1>30, <1>31
          DEF Step, Register, Remove, Load, Call

LEMMA InitLoads == Init => LInv
<1> SUFFICES ASSUME Init PROVE LInv
  OBVIOUS
<1>1. MapOK /\ SeenOK
  BY DEF Init, MapOK, SeenOK
<1>2. DueOK
  BY DEF Init, DueOK, Due
<1> QED BY <1>1, <1>2 DEF LInv

LEMMA NextLoads ==
    ASSUME Orderly, Separate, TypeOK, LocalsOK, DInv, LInv, [Next]_vars
    PROVE  LInv'
<1>1. CASE Next
  <2>1. PICK p \in Threads : Step(p) \/ Call(p) \/ leave(p)
    BY <1>1 DEF Next
  <2>2. MapOK' /\ SeenOK'
    BY <2>1, MapStep, SeenStep DEF DInv, LInv
  <2>3. DueOK'
    BY <2>1, DueStep
  <2> QED BY <2>2, <2>3 DEF LInv
<1>2. CASE UNCHANGED vars
  <2> USE <1>2 DEF LInv, vars, loaderVars, codeVars, noteVars, lockVars, localVars
  <2>1. MapOK' /\ SeenOK'
    BY DEF MapOK, SeenOK, LoadUnseen
  <2>2. DueOK'
    BY DEF DueOK, Due, Finds, Rechecks
  <2> QED BY <2>1, <2>2
<1> QED BY <1>1, <1>2

\* Once no call is in progress every registered request is installed in the image of its
\* module if there is one, also where the image took the place of an unloaded one whose hook
\* was still there.  It assumes in addition that no load entered LdrLoadDll before the first
\* registration hooked it and is mapped after, and one request per module.
THEOREM LoadedIsAlwaysHooked ==
    ASSUME Orderly, Separate
    PROVE  Spec => []LoadedIsHooked
<1>1. TypeOK /\ LocalsOK /\ DInv /\ [Next]_vars => DInv'
  BY NextCode
<1>2. TypeOK /\ LocalsOK /\ DInv /\ LInv /\ [Next]_vars => LInv'
  BY NextLoads
<1>3. TypeOK /\ DInv /\ LInv => LoadedIsHooked
  <2> SUFFICES ASSUME TypeOK, DInv, LInv, \A p \in Threads : pc[p] = "idle",
                      NEW r \in Pending, NEW b \in Resolved(Module[r])
               PROVE  byte[b] = "cc" /\ slot[b] = r /\ hook[r]
    BY DEF LoadedIsHooked
  <2>1. r \in Requests /\ b \in Bases /\ stage[r] = "registered" /\ b \in listed
        /\ mapped[b] = Module[r]
    BY DEF Pending, Resolved, TypeOK
  <2>2. \A p \in Threads : ~Finds(p, r, b)
    BY DEF Finds
  <2>3. hook[r] /\ base[r] = b /\ byte[b] = "cc"
    BY <2>1, <2>2 DEF LInv, DueOK, Due
  <2> QED BY <2>1, <2>3 DEF DInv, HooksOK, HookOf
<1> QED BY InitTypes, NextTypes, InitCode, InitLoads, <1>1, <1>2, <1>3, PTL DEF Spec
=============================================================================
