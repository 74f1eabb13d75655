------------------------------ MODULE VehHooks ------------------------------
(***************************************************************************)
(* VEH hooks (src/src/veh.rs): hardware breakpoints in the debug registers *)
(* of every thread, a slot table that the vectored handler reads without a *)
(* lock, and the in-flight check of src/src/inflight.rs before the handler *)
(* is removed.                                                             *)
(*                                                                         *)
(* The registers of a thread are written from outside while it is          *)
(* suspended, but a thread that is dispatching an exception gets those of  *)
(* its saved context back when it resumes.                                 *)
(***************************************************************************)
EXTENDS Naturals

CONSTANTS
    Threads,
    Hooks,       \* VehHook objects; each stands for its detour as well
    Targets,
    HookTarget,  \* the function a hook is for
    NumSlots,    \* SLOT_COUNT
    RetiredLen,  \* RETIRED_COUNT
    MaxRemovals, \* bound on the removals
    None,        \* the zero of the tables, the owner of a free lock
    Quiet,       \* hooks are installed while no exception is dispatched, and no dispatch
                 \* ends between the disarming of its thread and the in-flight check
    Faults       \* what the system may refuse: a handler, an update of a thread

ASSUME NoneAssumption == None \notin Threads \cup Hooks \cup Targets
ASSUME HookTargetAssumption == HookTarget \in [Hooks -> Targets]
ASSUME SlotsAssumption == NumSlots \in Nat /\ NumSlots > 0
ASSUME RingAssumption == RetiredLen \in Nat /\ RetiredLen > 0 /\ MaxRemovals \in Nat
ASSUME FaultsAssumption == Quiet \in BOOLEAN /\ Faults \subseteq {"handler", "update"}

Slots == 1 .. NumSlots
Ring == 0 .. RetiredLen - 1
Registers == [Slots -> Targets \cup {None}]
NoBreakpoint == [s \in Slots |-> None]

VARIABLES
    slotTarget, slotDetour, slotArmed,      \* SLOT_TARGET, SLOT_DETOUR, SLOT_ARMED
    retired, retiredNext,                   \* RETIRED, RETIRED_NEXT
    handler, keepHandler, owner,            \* MANAGER and its holder
    stage, slot, missed,                    \* a hook, its slot, threads it did not arm
    dr,                                     \* debug registers of every thread
    context,                                \* those saved by the exception being dispatched
    fault, hits,                            \* ExceptionAddress, Dr6 & 0xF
    pc, arg, todo, at, handled

tableVars == <<slotTarget, slotDetour, slotArmed, retired, retiredNext>>
managerVars == <<handler, keepHandler, owner>>
hookVars == <<stage, slot, missed>>
excVars == <<context, fault, hits, handled>>
callVars == <<pc, arg, todo, at>>
vars == <<tableVars, managerVars, hookVars, dr, excVars, callVars>>

\* The kernel has an exception of the thread, and keeps its registers from "trapped" on.
SavedPcs == {"trapped", "foreign", "scan", "load_detour", "resync", "resync_live", "ring",
             "ring_resync", "resume"}
DispatchPcs == {"raised"} \cup SavedPcs
RemovalPcs == {"disarm", "rem_retire", "rem_target", "rem_detour", "release"}

\* Every variable keeps its type; the ring index counts on and wraps where it is used.
TypeOK ==
    /\ slotTarget \in Registers /\ slotArmed \in Registers
    /\ slotDetour \in [Slots -> Hooks \cup {None}]
    /\ retired \in [Ring -> Targets \cup {None}] /\ retiredNext \in 0 .. MaxRemovals
    /\ handler \in BOOLEAN /\ keepHandler \in BOOLEAN /\ owner \in Threads \cup {None}
    /\ stage \in [Hooks -> {"none", "arming", "live", "removing"}]
    /\ slot \in [Hooks -> Slots] /\ missed \in [Hooks -> SUBSET Threads]
    /\ dr \in [Threads -> Registers] /\ context \in [Threads -> Registers]
    /\ fault \in [Threads -> Targets \cup {None}] /\ hits \in [Threads -> SUBSET Slots]
    /\ handled \in [Threads -> BOOLEAN]
    /\ pc \in [Threads -> {"run", "detour", "unhandled", "pub_detour", "pub_armed", "pub_target",
                           "arm"} \cup DispatchPcs \cup RemovalPcs]
    /\ arg \in [Threads -> Hooks \cup {None}] /\ todo \in [Threads -> SUBSET Threads]
    /\ at \in [Threads -> 0 .. NumSlots + RetiredLen]

Init ==
    /\ slotTarget = NoBreakpoint /\ slotArmed = NoBreakpoint
    /\ slotDetour = [s \in Slots |-> None]
    /\ retired = [k \in Ring |-> None] /\ retiredNext = 0
    /\ handler = FALSE /\ keepHandler = FALSE /\ owner = None
    /\ stage = [h \in Hooks |-> "none"] /\ slot = [h \in Hooks |-> 1]
    /\ missed = [h \in Hooks |-> {}]
    /\ dr = [p \in Threads |-> NoBreakpoint] /\ context = [p \in Threads |-> NoBreakpoint]
    /\ fault = [p \in Threads |-> None] /\ hits = [p \in Threads |-> {}]
    /\ handled = [p \in Threads |-> FALSE]
    /\ pc = [p \in Threads |-> "run"] /\ arg = [p \in Threads |-> None]
    /\ todo = [p \in Threads |-> {}] /\ at = [p \in Threads |-> 0]

Goto(p, l) == pc' = [pc EXCEPT ![p] = l]

-----------------------------------------------------------------------------
(***************************************************************************)
(* install                                                                 *)
(***************************************************************************)

FirstFree_Unchecked(i) == i = 1
FirstFree(i) == slotTarget[i] = None /\ \A j \in Slots : j < i => slotTarget[j] # None

\* A target that is hooked already, a full table and a refused handler are errors that
\* leave everything as it was.
install(p, h) ==
    /\ pc[p] = "run" /\ stage[h] = "none" /\ owner = None
    /\ Quiet => \A q \in Threads : pc[q] \notin DispatchPcs
    /\ \A i \in Slots : slotTarget[i] # HookTarget[h]
    /\ \E i \in Slots : FirstFree(i) /\ slot' = [slot EXCEPT ![h] = i]
    /\ \E refused \in {FALSE, "handler" \in Faults /\ ~handler} :
          IF refused
          THEN UNCHANGED <<handler, owner, stage, missed, arg, pc>>
          ELSE /\ handler' = TRUE /\ owner' = p
               /\ stage' = [stage EXCEPT ![h] = "arming"]
               /\ missed' = [missed EXCEPT ![h] = {}]
               /\ arg' = [arg EXCEPT ![p] = h]
               /\ Goto(p, "pub_detour")
    /\ UNCHANGED <<tableVars, keepHandler, dr, excVars, todo, at>>

\* The detour is published first, the target last.
Publish(p, from, to) ==
    /\ pc[p] = from /\ Goto(p, to)
    /\ UNCHANGED <<retired, retiredNext, managerVars, hookVars, dr, excVars, arg, at>>
pub_detour(p) ==
    /\ Publish(p, "pub_detour", "pub_armed")
    /\ slotDetour' = [slotDetour EXCEPT ![slot[arg[p]]] = arg[p]]
    /\ UNCHANGED <<slotTarget, slotArmed, todo>>
Armed(h) == [slotArmed EXCEPT ![slot[h]] = HookTarget[h]]
pub_armed(p) ==
    /\ Publish(p, "pub_armed", "pub_target")
    /\ slotArmed' = Armed(arg[p])
    /\ UNCHANGED <<slotTarget, slotDetour, todo>>
pub_target(p) ==
    /\ Publish(p, "pub_target", "arm")
    /\ slotTarget' = [slotTarget EXCEPT ![slot[arg[p]]] = HookTarget[arg[p]]]
    /\ todo' = [todo EXCEPT ![p] = Threads]
    /\ UNCHANGED <<slotDetour, slotArmed>>

\* set_breakpoint_on_all_threads: one thread after the other, itself first, each suspended
\* for the update only.  A thread that cannot be opened, suspended or updated is left alone,
\* and one that is dispatching an exception loses the update when it resumes.
set_debug_register(p, value, q) ==
    /\ q \in todo[p] /\ (q = p \/ p \notin todo[p])
    /\ todo' = [todo EXCEPT ![p] = @ \ {q}]
    /\ \E refused \in {FALSE, "update" \in Faults} :
          /\ dr' = IF refused THEN dr ELSE [dr EXCEPT ![q][slot[arg[p]]] = value]
          /\ keepHandler' = (keepHandler \/ (refused /\ value = None))
          /\ missed' = [missed EXCEPT ![arg[p]] =
                            IF value # None /\ (refused \/ pc[q] \in SavedPcs) THEN @ \cup {q}
                            ELSE @]
    /\ UNCHANGED <<tableVars, handler, owner, stage, slot, excVars, pc, arg, at>>
arm(p) ==
    /\ pc[p] = "arm"
    /\ \E q \in Threads : set_debug_register(p, HookTarget[arg[p]], q)
installed(p) ==
    /\ pc[p] = "arm" /\ todo[p] = {}
    /\ stage' = [stage EXCEPT ![arg[p]] = "live"]
    /\ arg' = [arg EXCEPT ![p] = None]
    /\ owner' = None /\ Goto(p, "run")
    /\ UNCHANGED <<tableVars, handler, keepHandler, slot, missed, dr, excVars, todo, at>>

-----------------------------------------------------------------------------
(***************************************************************************)
(* unhook, drop                                                            *)
(***************************************************************************)

remove(p, h) ==
    /\ pc[p] = "run" /\ stage[h] = "live" /\ owner = None /\ retiredNext < MaxRemovals
    /\ owner' = p
    /\ stage' = [stage EXCEPT ![h] = "removing"]
    /\ arg' = [arg EXCEPT ![p] = h]
    /\ todo' = [todo EXCEPT ![p] = Threads]
    /\ Goto(p, "disarm")
    /\ UNCHANGED <<tableVars, handler, keepHandler, slot, missed, dr, excVars, at>>
disarm(p) ==
    /\ pc[p] = "disarm"
    /\ \E q \in Threads : set_debug_register(p, None, q)

Removal(p, from, to) ==
    /\ pc[p] = from /\ Goto(p, to)
    /\ UNCHANGED <<slotArmed, managerVars, slot, missed, dr, excVars, todo, at>>
\* The target is remembered before its slot is cleared.
rem_retire(p) ==
    /\ todo[p] = {} /\ Removal(p, "disarm", "rem_target")
    /\ retired' = [retired EXCEPT ![retiredNext % RetiredLen] = HookTarget[arg[p]]]
    /\ retiredNext' = retiredNext + 1
    /\ UNCHANGED <<slotTarget, slotDetour, stage, arg>>
rem_target(p) ==
    /\ Removal(p, "rem_target", "rem_detour")
    /\ slotTarget' = [slotTarget EXCEPT ![slot[arg[p]]] = None]
    /\ UNCHANGED <<slotDetour, retired, retiredNext, stage, arg>>
rem_detour(p) ==
    /\ Removal(p, "rem_detour", "release")
    /\ slotDetour' = [slotDetour EXCEPT ![slot[arg[p]]] = None]
    /\ stage' = [stage EXCEPT ![arg[p]] = "none"]
    /\ arg' = [arg EXCEPT ![p] = None]
    /\ UNCHANGED <<slotTarget, retired, retiredNext>>

IsOurs(a) ==
    /\ a # None
    /\ (\E k \in Ring : retired[k] = a) \/ (\E s \in Slots : slotArmed[s] = a)

\* Another thread is at one of our traps, or has saved registers that hold one.
exceptions_in_flight_Records(p) ==
    \E q \in Threads \ {p} : pc[q] \in DispatchPcs /\ IsOurs(fault[q])
exceptions_in_flight(p) ==
    \E q \in Threads \ {p} :
        \/ pc[q] \in DispatchPcs /\ IsOurs(fault[q])
        \/ pc[q] \in SavedPcs /\ \E s \in Slots : IsOurs(context[q][s])

MayRelease == handler /\ ~keepHandler /\ \A s \in Slots : slotTarget[s] = None

\* The handler goes with the last hook.  It is kept as well when a thread could not be
\* inspected; the next removal tries again.
release_idle_handler(p) ==
    /\ pc[p] = "release"
    /\ \/ MayRelease /\ ~exceptions_in_flight(p) /\ handler' = FALSE
       \/ UNCHANGED handler
    /\ owner' = None /\ Goto(p, "run")
    /\ UNCHANGED <<tableVars, keepHandler, hookVars, dr, excVars, arg, todo, at>>

-----------------------------------------------------------------------------
(***************************************************************************)
(* A thread runs into a breakpoint                                         *)
(***************************************************************************)

\* External: a breakpoint fires, in every register that holds the address.
trap(p, t) ==
    /\ pc[p] = "run" /\ \E s \in Slots : dr[p][s] = t
    /\ fault' = [fault EXCEPT ![p] = t]
    /\ hits' = [hits EXCEPT ![p] = {s \in Slots : dr[p][s] = t}]
    /\ Goto(p, "raised")
    /\ UNCHANGED <<tableVars, managerVars, hookVars, dr, context, handled, arg, todo, at>>
\* External: the kernel saves the registers.  An update of them since the trap may have
\* reset DR6.
capture(p) ==
    /\ pc[p] = "raised"
    /\ context' = [context EXCEPT ![p] = dr[p]]
    /\ \/ UNCHANGED hits
       \/ (\E s \in hits[p] : dr[p][s] # fault[p]) /\ hits' = [hits EXCEPT ![p] = {}]
    /\ Goto(p, "trapped")
    /\ UNCHANGED <<tableVars, managerVars, hookVars, dr, fault, handled, arg, todo, at>>
\* External: the vectored handlers are called.
dispatch(p) ==
    /\ pc[p] = "trapped"
    /\ Goto(p, IF handler THEN "scan" ELSE "unhandled")
    /\ at' = [at EXCEPT ![p] = 1]
    /\ handled' = [handled EXCEPT ![p] = FALSE]
    /\ UNCHANGED <<tableVars, managerVars, hookVars, dr, context, fault, hits, arg, todo>>
\* External: the thread is busy with an exception that is none of ours.
raise(p) ==
    /\ pc[p] = "run"
    /\ context' = [context EXCEPT ![p] = dr[p]]
    /\ Goto(p, "foreign")
    /\ UNCHANGED <<tableVars, managerVars, hookVars, dr, fault, hits, handled, arg, todo, at>>

\* NtContinue restores the saved registers.
MayEnd(p) ==
    Quiet => \A q \in Threads : pc[q] \in RemovalPcs => q # p /\ p \in todo[q]
Continue(p, l) ==
    /\ MayEnd(p)
    /\ dr' = [dr EXCEPT ![p] = context[p]]
    /\ context' = [context EXCEPT ![p] = NoBreakpoint]
    /\ hits' = [hits EXCEPT ![p] = {}]
    /\ at' = [at EXCEPT ![p] = 0]
    /\ Goto(p, l)
    /\ UNCHANGED <<tableVars, managerVars, hookVars, handled, todo>>
foreign_end(p) == pc[p] = "foreign" /\ Continue(p, "run") /\ UNCHANGED <<fault, arg>>

Look(p) == UNCHANGED <<tableVars, managerVars, hookVars, dr, fault, hits, todo>>
To(p, l, i) == Goto(p, l) /\ at' = [at EXCEPT ![p] = i]

\* A slot with the address, and then its detour unless that was cleared meanwhile.
veh_handler(p) ==
    /\ pc[p] = "scan" /\ Look(p)
    /\ \/ at[p] \in Slots /\ slotTarget[at[p]] = fault[p] /\ To(p, "load_detour", at[p])
       \/ at[p] \in Slots /\ slotTarget[at[p]] # fault[p] /\ To(p, "scan", at[p] + 1)
       \/ at[p] \notin Slots /\ To(p, "resync", 1)
    /\ UNCHANGED <<context, handled, arg>>
load_detour(p) ==
    /\ pc[p] = "load_detour"
    /\ LET d == slotDetour[at[p]] IN
       \/ /\ d # None /\ Continue(p, "detour")
          /\ arg' = [arg EXCEPT ![p] = d]
          /\ UNCHANGED fault
       \/ d = None /\ Look(p) /\ To(p, "scan", at[p] + 1) /\ UNCHANGED <<context, handled, arg>>

\* No live hook: a fired register that we armed with this very address is set to what its
\* slot is for now, or cleared.
Fired(p, s) == s \in hits[p] /\ context[p][s] = fault[p]
resync(p) ==
    /\ pc[p] = "resync" /\ Look(p)
    /\ \/ /\ at[p] \in Slots
          /\ IF Fired(p, at[p]) /\ slotArmed[at[p]] = fault[p]
             THEN To(p, "resync_live", at[p]) ELSE To(p, "resync", at[p] + 1)
       \/ at[p] \notin Slots /\ To(p, IF handled[p] THEN "resume" ELSE "ring", 0)
    /\ UNCHANGED <<context, handled, arg>>
program_slot(p, s) == context' = [context EXCEPT ![p][s] = slotTarget[s]]
resync_live(p) ==
    /\ pc[p] = "resync_live" /\ Look(p)
    /\ program_slot(p, at[p])
    /\ handled' = [handled EXCEPT ![p] = TRUE]
    /\ To(p, "resync", at[p] + 1)
    /\ UNCHANGED arg

\* Or the address of a hook removed lately, whose registers were rewritten after the trap.
ring_scan(p) ==
    /\ pc[p] = "ring" /\ Look(p)
    /\ \/ at[p] \in Ring /\ retired[at[p]] = fault[p] /\ To(p, "ring_resync", 1)
       \/ at[p] \in Ring /\ retired[at[p]] # fault[p] /\ To(p, "ring", at[p] + 1)
       \/ at[p] \notin Ring /\ To(p, "unhandled", 0)
    /\ UNCHANGED <<context, handled, arg>>
ring_resync(p) ==
    /\ pc[p] = "ring_resync" /\ Look(p)
    /\ \/ /\ at[p] \in Slots /\ To(p, "ring_resync", at[p] + 1)
          /\ IF Fired(p, at[p]) THEN program_slot(p, at[p]) ELSE UNCHANGED context
       \/ at[p] \notin Slots /\ To(p, "resume", 0) /\ UNCHANGED context
    /\ UNCHANGED <<handled, arg>>

\* The instruction is run without its breakpoint.
resume(p) ==
    /\ pc[p] = "resume" /\ Continue(p, "run")
    /\ fault' = [fault EXCEPT ![p] = None]
    /\ UNCHANGED arg
\* The detour returns to the caller of the function.
return(p) ==
    /\ pc[p] = "detour" /\ Goto(p, "run")
    /\ arg' = [arg EXCEPT ![p] = None]
    /\ fault' = [fault EXCEPT ![p] = None]
    /\ UNCHANGED <<tableVars, managerVars, hookVars, dr, context, hits, handled, todo, at>>

-----------------------------------------------------------------------------
Locked(p) ==
    \/ pub_detour(p) \/ pub_armed(p) \/ pub_target(p) \/ arm(p) \/ installed(p)
    \/ disarm(p) \/ rem_retire(p) \/ rem_target(p) \/ rem_detour(p) \/ release_idle_handler(p)
Handle(p) ==
    \/ capture(p) \/ dispatch(p) \/ veh_handler(p) \/ load_detour(p) \/ resync(p)
    \/ resync_live(p) \/ ring_scan(p) \/ ring_resync(p) \/ resume(p) \/ foreign_end(p)

Next == \E p \in Threads :
    \/ Locked(p) \/ Handle(p) \/ raise(p) \/ return(p)
    \/ \E h \in Hooks : install(p, h) \/ remove(p, h)
    \/ \E t \in Targets : trap(p, t)

Spec == Init /\ [][Next]_vars

-----------------------------------------------------------------------------
(***************************************************************************)
(* Properties                                                              *)
(***************************************************************************)

(***************************************************************************)
(* No trap of a breakpoint, live or stale, ends as an unhandled exception: *)
(* the handler is there as long as some thread may still trap, and it      *)
(* knows the address although its slot was cleared or given to another     *)
(* function meanwhile.                                                     *)
(***************************************************************************)
TrapsAreHandled == \A p \in Threads : pc[p] # "unhandled"

(***************************************************************************)
(* The handler resumes a thread in a detour of the function it trapped in, *)
(* although it loads the target and the detour of a slot separately.       *)
(***************************************************************************)
OwnDetour == \A p \in Threads : pc[p] = "detour" => HookTarget[arg[p]] = fault[p]

(***************************************************************************)
(* An installed hook stays armed in every thread that could be updated and *)
(* was not in the middle of an exception: no handler call for another,     *)
(* removed hook and no saved context takes the register away again.        *)
(***************************************************************************)
LiveHookIsArmed ==
    \A h \in Hooks : stage[h] = "live" =>
        \A p \in Threads \ missed[h] :
            (IF pc[p] \in SavedPcs THEN context[p] ELSE dr[p])[slot[h]] = HookTarget[h]
=============================================================================
