----------------------------- MODULE DelayHooks -----------------------------
(***************************************************************************)
(* Delay hooks (src/src/delay.rs): requests that become INT3 hooks when    *)
(* their module is loaded, and requests again when it is unloaded.         *)
(*                                                                         *)
(* Threads register and remove requests, load and unload modules, hold a   *)
(* transaction open or run under the loader lock, so the transaction lock, *)
(* the manager, the loader lock and the lock-free state of the unload      *)
(* notification all meet.  An INT3 hook is its slot and its byte.          *)
(***************************************************************************)
EXTENDS Naturals, FiniteSets

CONSTANTS
    Threads, None,
    Modules,
    Bases,      \* addresses a module may be mapped at, its function with it
    Requests,   \* delay hooks, each registered once
    Module,     \* the module a request is for
    MaxLoads,   \* bound on the loads
    Racing,     \* what the program does under the library's feet: "unload", "load", "late"
    Faults      \* what the system may refuse: a notification, the LdrLoadDll hook

ASSUME NoneAssumption == None \notin Threads \cup Modules \cup Requests
ASSUME ModuleAssumption == Module \in [Requests -> Modules] /\ "cc" \notin Modules
ASSUME BoundsAssumption == MaxLoads \in Nat /\ Racing \subseteq {"unload", "load", "late"}
ASSUME FaultsAssumption == Faults \subseteq {"notify", "ldr_hook"}

VARIABLES
    mapped, listed, byte, loads,        \* the loader: images, which are resolvable, their code
    slot,                               \* INT3 slots, by address
    stage, hook, base, saved,           \* a request, its Int3Hook and module_base
    ldrHook, cookie, cookies, notified, missed,
    txOwner, mgrOwner, ldrOwner,        \* the transaction lock, MANAGER, the loader lock
    context,                            \* what a thread is in when it calls
    pc, arg, at, check, todo, hooked

loaderVars == <<mapped, listed, loads>>
codeVars == <<byte, slot, hook, base, saved>>
noteVars == <<cookie, cookies, notified, missed>>
lockVars == <<txOwner, mgrOwner, ldrOwner>>
localVars == <<arg, at, check, todo, hooked>>
vars == <<loaderVars, codeVars, stage, ldrHook, noteVars, lockVars, context, pc, localVars>>

Init ==
    /\ mapped = [b \in Bases |-> None] /\ listed = {} /\ loads = 0
    /\ byte = [b \in Bases |-> None] /\ slot = [b \in Bases |-> None]
    /\ stage = [r \in Requests |-> "none"] /\ hook = [r \in Requests |-> FALSE]
    /\ base = [r \in Requests |-> None] /\ saved = [r \in Requests |-> None]
    /\ ldrHook = FALSE
    /\ cookie = None /\ cookies = {} /\ notified = FALSE /\ missed = FALSE
    /\ txOwner = None /\ mgrOwner = None /\ ldrOwner = None
    /\ context = [p \in Threads |-> "none"] /\ pc = [p \in Threads |-> "idle"]
    /\ arg = [p \in Threads |-> None] /\ at = [p \in Threads |-> None]
    /\ check = [p \in Threads |-> FALSE] /\ todo = [p \in Threads |-> {}]
    /\ hooked = [p \in Threads |-> FALSE]

Goto(p, l) == pc' = [pc EXCEPT ![p] = l]
Pending == {r \in Requests : stage[r] = "registered"}
UnderLoaderLock(p) == ldrOwner \in {None, p}

-----------------------------------------------------------------------------
(***************************************************************************)
(* The manager and the INT3 hooks under it                                 *)
(***************************************************************************)

\* resolve_loaded, module_base_of: where an image of the module can be found.
Resolved(m) == {b \in listed : mapped[b] = m}

Forget(R) ==
    /\ hook' = [r \in Requests |-> hook[r] /\ r \notin R]
    /\ base' = [r \in Requests |-> IF r \in R THEN None ELSE base[r]]
    /\ saved' = [r \in Requests |-> IF r \in R THEN None ELSE saved[r]]
    /\ slot' = [b \in Bases |-> IF \E r \in R : hook[r] /\ base[r] = b THEN None ELSE slot[b]]

\* lock_manager: the flag of a missed unload is taken with the lock, then every hook is
\* checked.  Without a notification every lock counts as one after a missed unload.
NeedsCheck_Flag == missed
NeedsCheck == missed \/ ~notified
lock_manager(p, from) ==
    /\ pc[p] = from /\ mgrOwner = None
    /\ mgrOwner' = p
    /\ check' = [check EXCEPT ![p] = NeedsCheck]
    /\ missed' = FALSE
    /\ todo' = [todo EXCEPT ![p] = {r \in Pending : hook[r]}]
still_installed_Base(r, checkByte) == base[r] \in listed
still_installed(r, checkByte) ==
    base[r] \in listed /\ (checkByte => byte[base[r]] = "cc")
Validating == {"reg_ldr_hook", "active", "rem_hook", "ready_check"}
Revalidate(p) ==
    \E r \in todo[p] :
        /\ todo' = [todo EXCEPT ![p] = @ \ {r}]
        /\ IF ~still_installed(r, check[p])
           THEN Forget({r}) ELSE UNCHANGED <<hook, slot, base, saved>>
        /\ UNCHANGED <<loaderVars, byte, stage, ldrHook, noteVars, lockVars,
                       context, pc, arg, at, check, hooked>>

\* Int3Hook::install: refused at a hooked address and where nothing is mapped.
install(r, b) ==
    /\ hook' = [hook EXCEPT ![r] = TRUE] /\ base' = [base EXCEPT ![r] = b]
    /\ saved' = [saved EXCEPT ![r] = byte[b]]
    /\ byte' = [byte EXCEPT ![b] = "cc"] /\ slot' = [slot EXCEPT ![b] = r]
Installable(b) == slot[b] = None /\ mapped[b] # None

Unlock(p) == mgrOwner' = None /\ check' = [check EXCEPT ![p] = FALSE]

-----------------------------------------------------------------------------
(***************************************************************************)
(* register                                                                *)
(***************************************************************************)

register(p, r) ==
    /\ pc[p] = "idle" /\ context[p] # "loader" /\ stage[r] = "none"
    /\ stage' = [stage EXCEPT ![r] = "registering"]
    /\ arg' = [arg EXCEPT ![p] = r]
    /\ Goto(p, IF cookie # None THEN "reg_tx" ELSE "reg_notify")
    /\ UNCHANGED <<loaderVars, codeVars, ldrHook, noteVars, lockVars, context, at, check, todo,
                   hooked>>

\* The notification is registered, or a second one that is taken back; the flag is set last
\* and looked at once more.  A cookie is named after the request it was made for.
register_unload_notification(p) ==
    /\ pc[p] = "reg_notify" /\ UnderLoaderLock(p)
    /\ \/ cookies' = cookies \cup {arg[p]} /\ Goto(p, "reg_exchange")
       \/ "notify" \in Faults /\ Goto(p, "reg_tx") /\ UNCHANGED cookies
    /\ UNCHANGED <<loaderVars, codeVars, stage, ldrHook, cookie, notified, missed, lockVars,
                   context, localVars>>
reg_exchange(p) ==
    /\ pc[p] = "reg_exchange"
    /\ IF cookie = None
       THEN cookie' = arg[p] /\ Goto(p, "reg_flag")
       ELSE Goto(p, "reg_undo") /\ UNCHANGED cookie
    /\ UNCHANGED <<loaderVars, codeVars, stage, ldrHook, cookies, notified, missed, lockVars,
                   context, localVars>>
reg_undo(p) ==
    /\ pc[p] = "reg_undo" /\ UnderLoaderLock(p)
    /\ cookies' = cookies \ {arg[p]} /\ Goto(p, "reg_tx")
    /\ UNCHANGED <<loaderVars, codeVars, stage, ldrHook, cookie, notified, missed, lockVars,
                   context, localVars>>
reg_flag(p) ==
    /\ pc[p] = "reg_flag"
    /\ notified' = TRUE /\ Goto(p, "reg_check")
    /\ UNCHANGED <<loaderVars, codeVars, stage, ldrHook, cookie, cookies, missed, lockVars,
                   context, localVars>>
FlagRecheck(p) == notified /\ cookie = arg[p]
reg_check(p) ==
    /\ pc[p] = "reg_check"
    /\ notified' = FlagRecheck(p) /\ Goto(p, "reg_tx")
    /\ UNCHANGED <<loaderVars, codeVars, stage, ldrHook, cookie, cookies, missed, lockVars,
                   context, localVars>>

\* The transaction lock before the manager.
with_transaction_lock_Second(p) ==
    \/ /\ lock_manager(p, "reg_tx") /\ Goto(p, "reg_tx2")
       /\ UNCHANGED <<loaderVars, codeVars, stage, ldrHook, cookie, cookies, notified, txOwner,
                      ldrOwner, context, arg, at, hooked>>
    \/ /\ pc[p] = "reg_tx2" /\ txOwner \in {None, p}
       /\ txOwner' = p /\ Goto(p, "reg_ldr_hook")
       /\ UNCHANGED <<loaderVars, codeVars, stage, ldrHook, noteVars, mgrOwner, ldrOwner, context,
                      localVars>>
with_transaction_lock(p) ==
    /\ pc[p] = "reg_tx" /\ txOwner \in {None, p}
    /\ txOwner' = p /\ Goto(p, "reg_mgr")
    /\ UNCHANGED <<loaderVars, codeVars, stage, ldrHook, noteVars, mgrOwner, ldrOwner, context,
                   localVars>>
reg_lock(p) ==
    /\ lock_manager(p, "reg_mgr") /\ Goto(p, "reg_ldr_hook")
    /\ UNCHANGED <<loaderVars, codeVars, stage, ldrHook, cookie, cookies, notified, txOwner,
                   ldrOwner, context, arg, at, hooked>>

RegisterEnds(p, s) ==
    /\ stage' = [stage EXCEPT ![arg[p]] = s]
    /\ Unlock(p)
    /\ txOwner' = IF context[p] = "tx" THEN p ELSE None
    /\ arg' = [arg EXCEPT ![p] = None] /\ at' = [at EXCEPT ![p] = None]
    /\ Goto(p, "idle")
\* A load that entered LdrLoadDll before does not pass through the detour.
LoadUnseen == \E q \in Threads : pc[q] = "load_map" /\ ~hooked[q]
ensure_ldr_hook(p) ==
    /\ pc[p] = "reg_ldr_hook" /\ todo[p] = {}
    /\ "load" \in Racing \/ ~LoadUnseen
    /\ \/ ldrHook' = TRUE /\ Goto(p, "reg_resolve") /\ UNCHANGED <<stage, mgrOwner, check, txOwner, arg, at>>
       \/ "ldr_hook" \in Faults /\ ~ldrHook /\ RegisterEnds(p, "gone") /\ UNCHANGED ldrHook
    /\ UNCHANGED <<loaderVars, codeVars, noteVars, ldrOwner, context, todo, hooked>>
\* register_locked: an image that is there already is hooked now, or nothing is registered.
register_resolve(p) ==
    /\ pc[p] = "reg_resolve"
    /\ \/ \E b \in Resolved(Module[arg[p]]) :
             /\ at' = [at EXCEPT ![p] = b] /\ Goto(p, "reg_install")
             /\ UNCHANGED <<stage, mgrOwner, check, txOwner, arg>>
       \/ Resolved(Module[arg[p]]) = {} /\ RegisterEnds(p, "registered")
    /\ UNCHANGED <<loaderVars, codeVars, ldrHook, noteVars, ldrOwner, context, todo, hooked>>
register_locked(p) ==
    /\ pc[p] = "reg_install"
    /\ \/ /\ Installable(at[p]) /\ install(arg[p], at[p])
          /\ RegisterEnds(p, "registered")
          /\ UNCHANGED ldrHook
       \/ /\ ~Installable(at[p]) /\ RegisterEnds(p, "gone")
          /\ ldrHook' = (ldrHook /\ Pending # {})
          /\ UNCHANGED codeVars
    /\ UNCHANGED <<loaderVars, noteVars, ldrOwner, context, todo, hooked>>

-----------------------------------------------------------------------------
(***************************************************************************)
(* is_active, unhook and drop                                              *)
(***************************************************************************)

is_active(p) ==
    /\ lock_manager(p, "idle") /\ Goto(p, "active")
    /\ UNCHANGED <<loaderVars, codeVars, stage, ldrHook, cookie, cookies, notified, txOwner,
                   ldrOwner, context, arg, at, hooked>>
active_end(p) ==
    /\ pc[p] = "active" /\ todo[p] = {}
    /\ Unlock(p) /\ Goto(p, "idle")
    /\ UNCHANGED <<loaderVars, codeVars, stage, ldrHook, noteVars, txOwner, ldrOwner, context,
                   arg, at, todo, hooked>>

\* Only the manager and the code lock: a removal never waits for a transaction.
remove(p, r) ==
    /\ stage[r] = "registered"
    /\ "unload" \in Racing \/ \A q \in Threads : pc[q] \in {"notify", "unmap"} => at[q] # base[r]
    /\ lock_manager(p, "idle") /\ Goto(p, "rem_hook")
    /\ arg' = [arg EXCEPT ![p] = r]
    /\ UNCHANGED <<loaderVars, codeVars, stage, ldrHook, cookie, cookies, notified, txOwner,
                   ldrOwner, context, at, hooked>>
\* Int3Hook::unhook writes the saved byte; a refused write goes unnoticed.
remove_locked(p) ==
    LET r == arg[p] b == base[r] IN
    /\ pc[p] = "rem_hook" /\ todo[p] = {}
    /\ stage' = [stage EXCEPT ![r] = "gone"]
    /\ IF hook[r]
       THEN /\ byte' = IF mapped[b] = None THEN byte ELSE [byte EXCEPT ![b] = saved[r]]
            /\ Forget({r})
       ELSE UNCHANGED codeVars
    /\ LET last == Pending \ {r} = {} IN
       /\ ldrHook' = (ldrHook /\ ~last)
       /\ Goto(p, IF last THEN "unreg_swap" ELSE "idle")
    /\ Unlock(p)
    /\ arg' = [arg EXCEPT ![p] = None]
    /\ UNCHANGED <<loaderVars, noteVars, txOwner, ldrOwner, context, at, todo, hooked>>
\* The last one unregisters the notification, outside every lock: cookie, flag, loader.
unregister_unload_notification(p) ==
    /\ pc[p] = "unreg_swap"
    /\ arg' = [arg EXCEPT ![p] = cookie] /\ cookie' = None
    /\ Goto(p, "unreg_flag")
    /\ UNCHANGED <<loaderVars, codeVars, stage, ldrHook, cookies, notified, missed, lockVars,
                   context, at, check, todo, hooked>>
unreg_flag(p) ==
    /\ pc[p] = "unreg_flag"
    /\ notified' = FALSE
    /\ Goto(p, IF arg[p] = None THEN "idle" ELSE "unreg_loader")
    /\ UNCHANGED <<loaderVars, codeVars, stage, ldrHook, cookie, cookies, missed, lockVars,
                   context, localVars>>
unregister_cookie(p) ==
    /\ pc[p] = "unreg_loader" /\ UnderLoaderLock(p)
    /\ cookies' = cookies \ {arg[p]}
    /\ arg' = [arg EXCEPT ![p] = None] /\ Goto(p, "idle")
    /\ UNCHANGED <<loaderVars, codeVars, stage, ldrHook, cookie, notified, missed, lockVars,
                   context, at, check, todo, hooked>>

-----------------------------------------------------------------------------
(***************************************************************************)
(* Loads and unloads                                                       *)
(***************************************************************************)

\* External: LdrLoadDll, through the detour if it is hooked.
LdrLoadDll(p, m) ==
    /\ pc[p] = "idle" /\ loads < MaxLoads
    /\ \A b \in Bases : mapped[b] # m
    /\ \E b \in Bases : mapped[b] = None
    /\ \A q \in Threads : pc[q] # "load_map"
    /\ loads' = loads + 1
    /\ arg' = [arg EXCEPT ![p] = m] /\ hooked' = [hooked EXCEPT ![p] = ldrHook]
    /\ Goto(p, "load_map")
    /\ UNCHANGED <<mapped, listed, codeVars, stage, ldrHook, noteVars, lockVars, context, at,
                   check, todo>>
\* External: the image is mapped and resolvable.
load_map(p) ==
    /\ pc[p] = "load_map" /\ UnderLoaderLock(p)
    /\ \E b \in Bases :
          /\ mapped[b] = None
          /\ mapped' = [mapped EXCEPT ![b] = arg[p]] /\ listed' = listed \cup {b}
          /\ byte' = [byte EXCEPT ![b] = arg[p]]
    /\ arg' = [arg EXCEPT ![p] = None] /\ Goto(p, IF hooked[p] THEN "load_mgr" ELSE "idle")
    /\ hooked' = [hooked EXCEPT ![p] = FALSE]
    /\ UNCHANGED <<loads, slot, hook, base, saved, stage, ldrHook, noteVars, lockVars, context, at,
                   check, todo>>
hooked_ldr_load_dll(p) ==
    /\ lock_manager(p, "load_mgr") /\ Goto(p, "ready_check")
    /\ UNCHANGED <<loaderVars, codeVars, stage, ldrHook, cookie, cookies, notified, txOwner,
                   ldrOwner, context, arg, at, hooked>>
\* install_ready_pending: one request after the other.
install_ready_pending(p) ==
    /\ pc[p] = "ready_check" /\ todo[p] = {}
    /\ todo' = [todo EXCEPT ![p] = {r \in Pending : ~hook[r]}]
    /\ Goto(p, "ready")
    /\ UNCHANGED <<loaderVars, codeVars, stage, ldrHook, noteVars, lockVars, context, arg, at,
                   check, hooked>>
ready_resolve(p) ==
    /\ pc[p] = "ready"
    /\ \E r \in todo[p] :
          /\ todo' = [todo EXCEPT ![p] = @ \ {r}]
          /\ IF Resolved(Module[r]) = {} THEN UNCHANGED <<arg, at, pc>>
             ELSE \E b \in Resolved(Module[r]) :
                     /\ arg' = [arg EXCEPT ![p] = r] /\ at' = [at EXCEPT ![p] = b]
                     /\ Goto(p, "ready_install")
    /\ UNCHANGED <<loaderVars, codeVars, stage, ldrHook, noteVars, lockVars, context, check, hooked>>
\* A failed install stays pending.
ready_install(p) ==
    /\ pc[p] = "ready_install"
    /\ IF Installable(at[p]) THEN install(arg[p], at[p]) ELSE UNCHANGED codeVars
    /\ arg' = [arg EXCEPT ![p] = None] /\ at' = [at EXCEPT ![p] = None]
    /\ Goto(p, "ready")
    /\ UNCHANGED <<loaderVars, stage, ldrHook, noteVars, lockVars, context, check, todo, hooked>>
ready_end(p) ==
    /\ pc[p] = "ready" /\ todo[p] = {}
    /\ Unlock(p) /\ Goto(p, "idle")
    /\ UNCHANGED <<loaderVars, codeVars, stage, ldrHook, noteVars, txOwner, ldrOwner, context,
                   arg, at, todo, hooked>>

\* A thread has looked an image up, or removes the hook in it, and will write to it.
InUse(b) ==
    \E q \in Threads :
        \/ pc[q] \in {"reg_install", "ready_install"} /\ at[q] = b
        \/ pc[q] = "rem_hook" /\ hook[arg[q]] /\ base[arg[q]] = b
\* External: FreeLibrary of the last reference, under the loader lock.  Unless "late" is racing,
\* no registration restores the notification after an unload it did not see.
Unseen(b) ==
    /\ cookies = {} /\ \E r \in Requests : hook[r] /\ base[r] = b
    /\ \E r \in Requests : stage[r] \in {"none", "registering"}
FreeLibrary(p, b) ==
    /\ pc[p] = "idle" /\ b \in listed /\ UnderLoaderLock(p)
    /\ "unload" \in Racing \/ ~InUse(b)
    /\ "late" \in Racing \/ ~Unseen(b)
    /\ ldrOwner' = p
    /\ listed' = listed \ {b}
    /\ at' = [at EXCEPT ![p] = b]
    /\ Goto(p, IF cookies = {} THEN "unmap" ELSE "notify")
    /\ UNCHANGED <<mapped, loads, codeVars, stage, ldrHook, noteVars, txOwner, mgrOwner, context,
                   arg, check, todo, hooked>>
\* The callback never waits: a busy manager is told with the flag.
on_dll_notification(p) ==
    /\ pc[p] = "notify"
    /\ IF mgrOwner = None
       THEN Forget({r \in Pending : hook[r] /\ base[r] = at[p]}) /\ UNCHANGED missed
       ELSE missed' = TRUE /\ UNCHANGED <<hook, slot, base, saved>>
    /\ Goto(p, "unmap")
    /\ UNCHANGED <<loaderVars, byte, stage, ldrHook, cookie, cookies, notified,
                   lockVars, context, localVars>>
\* External: the image is gone.
unmap(p) ==
    /\ pc[p] = "unmap"
    /\ mapped' = [mapped EXCEPT ![at[p]] = None] /\ byte' = [byte EXCEPT ![at[p]] = None]
    /\ ldrOwner' = IF context[p] = "loader" THEN p ELSE None
    /\ at' = [at EXCEPT ![p] = None] /\ Goto(p, "idle")
    /\ UNCHANGED <<listed, loads, slot, hook, base, saved, stage, ldrHook, noteVars, txOwner,
                   mgrOwner, context, arg, check, todo, hooked>>

\* External: a client holds a transaction open, or runs in a DllMain, around its calls.
enter(p, c) ==
    /\ pc[p] = "idle" /\ context[p] = "none"
    /\ IF c = "tx" THEN txOwner = None /\ txOwner' = p /\ UNCHANGED ldrOwner
                   ELSE ldrOwner = None /\ ldrOwner' = p /\ UNCHANGED txOwner
    /\ context' = [context EXCEPT ![p] = c]
    /\ UNCHANGED <<loaderVars, codeVars, stage, ldrHook, noteVars, mgrOwner, pc, localVars>>
leave(p) ==
    /\ pc[p] = "idle" /\ context[p] # "none"
    /\ IF context[p] = "tx" THEN txOwner' = None /\ UNCHANGED ldrOwner
                            ELSE ldrOwner' = None /\ UNCHANGED txOwner
    /\ context' = [context EXCEPT ![p] = "none"]
    /\ UNCHANGED <<loaderVars, codeVars, stage, ldrHook, noteVars, mgrOwner, pc, localVars>>

-----------------------------------------------------------------------------
Register(p) ==
    \/ register_unload_notification(p) \/ reg_exchange(p) \/ reg_undo(p) \/ reg_flag(p)
    \/ reg_check(p) \/ with_transaction_lock(p) \/ reg_lock(p) \/ ensure_ldr_hook(p)
    \/ register_resolve(p) \/ register_locked(p)
Remove(p) ==
    \/ active_end(p) \/ remove_locked(p) \/ unregister_unload_notification(p) \/ unreg_flag(p)
    \/ unregister_cookie(p)
Load(p) ==
    \/ load_map(p) \/ hooked_ldr_load_dll(p) \/ install_ready_pending(p) \/ ready_resolve(p)
    \/ ready_install(p) \/ ready_end(p) \/ on_dll_notification(p) \/ unmap(p)
Step(p) ==
    \/ Register(p) \/ Remove(p) \/ Load(p)
    \/ pc[p] \in Validating /\ Revalidate(p)
Call(p) ==
    \/ is_active(p)
    \/ \E r \in Requests : register(p, r) \/ remove(p, r)
    \/ \E m \in Modules : LdrLoadDll(p, m)
    \/ \E b \in Bases : FreeLibrary(p, b)
    \/ \E c \in {"tx", "loader"} : enter(p, c)

Next == \E p \in Threads : Step(p) \/ Call(p) \/ leave(p)

Spec == Init /\ [][Next]_vars

\* Running threads keep running, a thread that waits for a lock gets it if it is free again
\* and again, and clients commit their transactions and return from DllMain.
FairSpec == Spec /\ \A p \in Threads : SF_vars(Step(p)) /\ SF_vars(leave(p))

-----------------------------------------------------------------------------
(***************************************************************************)
(* Properties                                                              *)
(***************************************************************************)

(***************************************************************************)
(* The code of an image is its own, or a breakpoint whose slot leads to a  *)
(* request for that very module: no hook outlives its image into the one   *)
(* that is mapped at its address next, whether the unload was notified,    *)
(* missed, or not observed at all.                                         *)
(***************************************************************************)
CodeIsIntact ==
    \A b \in listed :
        \/ byte[b] = mapped[b]
        \/ /\ byte[b] = "cc" /\ slot[b] \in Requests
           /\ Module[slot[b]] = mapped[b] /\ saved[slot[b]] = mapped[b]

(***************************************************************************)
(* The hook becomes active automatically when its module is loaded, or     *)
(* immediately: once no call is in progress, every request for a loaded    *)
(* module is installed in it.                                              *)
(***************************************************************************)
LoadedIsHooked ==
    (\A p \in Threads : pc[p] = "idle") =>
        \A r \in Pending : \A b \in Resolved(Module[r]) :
            byte[b] = "cc" /\ slot[b] = r /\ hook[r]

(***************************************************************************)
(* No call waits for ever: whatever holds the transaction lock, the        *)
(* manager and the loader lock, registrations, removals, loads and unloads *)
(* come to an end.                                                         *)
(***************************************************************************)
CallsReturn == \A p \in Threads : pc[p] # "idle" ~> pc[p] = "idle"
=============================================================================
