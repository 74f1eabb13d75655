------------------------------ MODULE Int3Hooks ------------------------------
(***************************************************************************)
(* INT3 hooks: the slot table, the ring of removed targets and the         *)
(* vectored exception handler of src/src/int3.rs, with the in-flight check *)
(* of src/src/inflight.rs.                                                 *)
(*                                                                         *)
(* Installs and removals hold the code lock and the manager lock together. *)
(* The handler takes no lock: each of its atomic loads, and each store it  *)
(* may observe, is a step of its own.                                      *)
(***************************************************************************)
EXTENDS Naturals

CONSTANTS
    Threads,      \* threads that call hooked functions and the library
    Hooks,        \* Int3Hook objects; each stands for its detour as well
    Targets,      \* functions
    HookTarget,   \* the function a hook is for
    NumSlots,     \* MAX_HOOKS
    RetiredLen,   \* RETIRED_LEN
    None,         \* the zero of the tables, the owner of a free lock
    ArmWhenQuiet, \* clients arm hooks only while no trap is being dispatched
    Faults        \* what the system may refuse: a handler, a byte write

ASSUME NoneAssumption == None \notin Threads \cup Hooks \cup Targets
ASSUME HookTargetAssumption == HookTarget \in [Hooks -> Targets]
ASSUME SlotsAssumption == NumSlots \in Nat /\ NumSlots > 0
ASSUME RingAssumption == RetiredLen \in Nat /\ RetiredLen >= NumSlots
ASSUME QuietAssumption == ArmWhenQuiet \in BOOLEAN
ASSUME FaultsAssumption == Faults \subseteq {"handler", "arm", "restore"}

Slots == 1 .. NumSlots
Ring == 0 .. RetiredLen - 1
Byte == {"orig", "cc"}

VARIABLES
    byte,         \* first byte of every function
    slotTarget,   \* SLOT_TARGET
    slotDetour,   \* SLOT_DETOUR
    retired,      \* RETIRED
    retiredNext,
    handler,      \* the vectored handler is registered
    owner,        \* holder of the code lock and the manager
    \* fields of Int3Hook
    stage, slot, saved, gateway,
    \* what each thread is doing: its hook, its trap, its place in a scan
    pc, arg, addr, at, rescan

tableVars == <<slotTarget, slotDetour, retired, retiredNext, handler>>
hookVars == <<stage, slot, saved, gateway>>
threadVars == <<pc, arg, addr, at, rescan>>
vars == <<byte, tableVars, owner, hookVars, threadVars>>

\* A thread is dispatching a trap.
DispatchPcs == {"trapped", "scan", "load_detour", "ring", "read_byte"}
\* A thread holds the locks.
LockedPcs == {"arm_detour", "arm_target", "arm_write", "arm_undo",
              "rem_write", "rem_target", "rem_detour", "release"}
Pcs == {"run", "detour", "unhandled", "arm"} \cup DispatchPcs \cup LockedPcs

\* Every variable keeps its type.
TypeOK ==
    /\ byte \in [Targets -> Byte]
    /\ slotTarget \in [Slots -> Targets \cup {None}]
    /\ slotDetour \in [Slots -> Hooks \cup {None}]
    /\ retired \in [Ring -> Targets \cup {None}]
    /\ retiredNext \in Ring
    /\ handler \in BOOLEAN
    /\ owner \in Threads \cup {None}
    /\ stage \in [Hooks -> {"none", "arming", "live", "removing"}]
    /\ slot \in [Hooks -> Slots]
    /\ saved \in [Hooks -> Byte]
    /\ gateway \in [Hooks -> Byte \cup {"none"}]
    /\ pc \in [Threads -> Pcs]
    /\ arg \in [Threads -> Hooks \cup {None}]
    /\ addr \in [Threads -> Targets \cup {None}]
    /\ at \in [Threads -> Nat]
    /\ rescan \in [Threads -> BOOLEAN]

Init ==
    /\ byte = [t \in Targets |-> "orig"]
    /\ slotTarget = [i \in Slots |-> None]
    /\ slotDetour = [i \in Slots |-> None]
    /\ retired = [k \in Ring |-> None]
    /\ retiredNext = 0
    /\ handler = FALSE
    /\ owner = None
    /\ stage = [h \in Hooks |-> "none"]
    /\ slot = [h \in Hooks |-> 1]
    /\ saved = [h \in Hooks |-> "orig"]
    /\ gateway = [h \in Hooks |-> "none"]
    /\ pc = [p \in Threads |-> "run"]
    /\ arg = [p \in Threads |-> None]
    /\ addr = [p \in Threads |-> None]
    /\ at = [p \in Threads |-> 0]
    /\ rescan = [p \in Threads |-> FALSE]

-----------------------------------------------------------------------------
Goto(p, l) == pc' = [pc EXCEPT ![p] = l]

Dispatching(t) == \E p \in Threads : pc[p] \in DispatchPcs /\ addr[p] = t

\* Discipline of the clients (see ArmWhenQuiet).
Quiet == ArmWhenQuiet => \A t \in Targets : ~Dispatching(t)

FirstFree(i) == slotTarget[i] = None /\ \A j \in Slots : j < i => slotTarget[j] # None

-----------------------------------------------------------------------------
(***************************************************************************)
(* install, install_with_original                                          *)
(***************************************************************************)

\* The gateway is built from the bytes of the target, before any lock is taken.
install(p, h, wantGateway) ==
    /\ pc[p] = "run" /\ stage[h] = "none"
    /\ stage' = [stage EXCEPT ![h] = "arming"]
    /\ gateway' = [gateway EXCEPT ![h] = IF wantGateway THEN byte[HookTarget[h]]
                                         ELSE "none"]
    /\ arg' = [arg EXCEPT ![p] = h]
    /\ Goto(p, "arm")
    /\ UNCHANGED <<byte, tableVars, owner, slot, saved, addr, at, rescan>>

\* A target that is hooked already, or a full table.
Refused(h) ==
    \/ \E i \in Slots : slotTarget[i] = HookTarget[h]
    \/ \A i \in Slots : slotTarget[i] # None

\* The system may refuse the handler, once a slot was found.
NoHandler == "handler" \in Faults /\ ~handler

\* The locks are taken, a slot is chosen and the handler registered.
arm(p) ==
    LET h == arg[p] IN
    /\ pc[p] = "arm" /\ owner = None /\ Quiet
    /\ \/ /\ Refused(h) \/ NoHandler
          /\ stage' = [stage EXCEPT ![h] = "none"]
          /\ gateway' = [gateway EXCEPT ![h] = "none"]
          /\ arg' = [arg EXCEPT ![p] = None]
          /\ Goto(p, "run")
          /\ UNCHANGED <<handler, owner, slot>>
       \/ /\ ~Refused(h)
          /\ owner' = p
          /\ \E i \in Slots : FirstFree(i) /\ slot' = [slot EXCEPT ![h] = i]
          /\ handler' = TRUE
          /\ Goto(p, "arm_detour")
          /\ UNCHANGED <<stage, gateway, arg>>
    /\ UNCHANGED <<byte, slotTarget, slotDetour, retired, retiredNext, saved,
                   addr, at, rescan>>

\* The detour is published before the target.
PublishedDetour_Stale(h) ==
    IF slotDetour[slot[h]] = None THEN [slotDetour EXCEPT ![slot[h]] = h] ELSE slotDetour
PublishedDetour(h) == [slotDetour EXCEPT ![slot[h]] = h]

arm_detour(p) ==
    /\ pc[p] = "arm_detour"
    /\ slotDetour' = PublishedDetour(arg[p])
    /\ Goto(p, "arm_target")
    /\ UNCHANGED <<byte, slotTarget, retired, retiredNext, handler, owner,
                   hookVars, arg, addr, at, rescan>>

arm_target(p) ==
    /\ pc[p] = "arm_target"
    /\ slotTarget' = [slotTarget EXCEPT ![slot[arg[p]]] = HookTarget[arg[p]]]
    /\ Goto(p, "arm_write")
    /\ UNCHANGED <<byte, slotDetour, retired, retiredNext, handler, owner,
                   hookVars, arg, addr, at, rescan>>

\* The slot of an install whose write was refused.
RolledBack_Kept(h) == slotTarget
RolledBack(h) == [slotTarget EXCEPT ![slot[h]] = None]

\* The byte is patched last; when that fails the slot is withdrawn.
arm_write(p) ==
    LET h == arg[p] IN
    /\ pc[p] = "arm_write"
    /\ \/ /\ saved' = [saved EXCEPT ![h] = byte[HookTarget[h]]]
          /\ byte' = [byte EXCEPT ![HookTarget[h]] = "cc"]
          /\ stage' = [stage EXCEPT ![h] = "live"]
          /\ arg' = [arg EXCEPT ![p] = None]
          /\ owner' = None
          /\ Goto(p, "run")
          /\ UNCHANGED <<slotTarget, gateway>>
       \/ /\ "arm" \in Faults
          /\ slotTarget' = RolledBack(h)
          /\ Goto(p, "arm_undo")
          /\ UNCHANGED <<byte, stage, gateway, saved, owner, arg>>
    /\ UNCHANGED <<slotDetour, retired, retiredNext, handler, slot, addr, at,
                   rescan>>

arm_undo(p) ==
    LET h == arg[p] IN
    /\ pc[p] = "arm_undo"
    /\ slotDetour' = [slotDetour EXCEPT ![slot[h]] = None]
    /\ stage' = [stage EXCEPT ![h] = "none"]
    /\ gateway' = [gateway EXCEPT ![h] = "none"]
    /\ arg' = [arg EXCEPT ![p] = None]
    /\ Goto(p, "release")
    /\ UNCHANGED <<byte, slotTarget, retired, retiredNext, handler, owner, slot,
                   saved, addr, at, rescan>>

-----------------------------------------------------------------------------
(***************************************************************************)
(* unhook, drop, forget and the end of the handler                         *)
(***************************************************************************)

\* The target is remembered before anything else.
Remembered(t) == [retired EXCEPT ![retiredNext] = t]

NextRetired_Unwrapped == retiredNext + 1
NextRetired == (retiredNext + 1) % RetiredLen

remove(p, h) ==
    /\ pc[p] = "run" /\ stage[h] = "live" /\ owner = None
    /\ owner' = p
    /\ stage' = [stage EXCEPT ![h] = "removing"]
    /\ retired' = Remembered(HookTarget[h])
    /\ retiredNext' = NextRetired
    /\ arg' = [arg EXCEPT ![p] = h]
    /\ Goto(p, "rem_write")
    /\ UNCHANGED <<byte, slotTarget, slotDetour, handler, slot, saved, gateway,
                   addr, at, rescan>>

\* The original byte comes back; a refused write goes unnoticed.
rem_write(p) ==
    LET h == arg[p] IN
    /\ pc[p] = "rem_write"
    /\ \/ byte' = [byte EXCEPT ![HookTarget[h]] = saved[h]]
       \/ "restore" \in Faults /\ UNCHANGED byte
    /\ Goto(p, "rem_target")
    /\ UNCHANGED <<tableVars, owner, hookVars, arg, addr, at, rescan>>

rem_target(p) ==
    /\ pc[p] = "rem_target"
    /\ slotTarget' = [slotTarget EXCEPT ![slot[arg[p]]] = None]
    /\ Goto(p, "rem_detour")
    /\ UNCHANGED <<byte, slotDetour, retired, retiredNext, handler, owner,
                   hookVars, arg, addr, at, rescan>>

rem_detour(p) ==
    LET h == arg[p] IN
    /\ pc[p] = "rem_detour"
    /\ slotDetour' = [slotDetour EXCEPT ![slot[h]] = None]
    /\ stage' = [stage EXCEPT ![h] = "none"]
    /\ gateway' = [gateway EXCEPT ![h] = "none"]
    /\ arg' = [arg EXCEPT ![p] = None]
    /\ Goto(p, "release")
    /\ UNCHANGED <<byte, slotTarget, retired, retiredNext, handler, owner, slot,
                   saved, addr, at, rescan>>

\* The module of the target was unloaded, with no thread left in it: only the
\* slot's target is cleared, under no lock.
forget(p, h) ==
    /\ pc[p] = "run" /\ stage[h] = "live" /\ ~Dispatching(HookTarget[h])
    /\ byte' = [byte EXCEPT ![HookTarget[h]] = "orig"]
    /\ slotTarget' = [slotTarget EXCEPT ![slot[h]] = None]
    /\ stage' = [stage EXCEPT ![h] = "none"]
    /\ gateway' = [gateway EXCEPT ![h] = "none"]
    /\ UNCHANGED <<slotDetour, retired, retiredNext, handler, owner, slot, saved,
                   threadVars>>

\* release_unused_handler
release_unused_handler(p) ==
    /\ pc[p] = "run" /\ owner = None
    /\ owner' = p
    /\ Goto(p, "release")
    /\ UNCHANGED <<byte, tableVars, hookVars, arg, addr, at, rescan>>

SlotsIdle_Unchecked == TRUE
SlotsIdle == \A i \in Slots : slotTarget[i] = None

\* Some thread is dispatching a trap at a removed target.
exceptions_in_flight_Ignored == FALSE
exceptions_in_flight == \E k \in Ring : retired[k] # None /\ Dispatching(retired[k])

\* The handler goes with the last hook.  It is kept as well when a thread could
\* not be inspected.
release_idle_handler(p) ==
    /\ pc[p] = "release"
    /\ \/ UNCHANGED <<handler, retired, retiredNext>>
       \/ /\ handler /\ SlotsIdle /\ ~exceptions_in_flight
          /\ handler' = FALSE
          /\ retired' = [k \in Ring |-> None]
          /\ retiredNext' = 0
    /\ owner' = None
    /\ Goto(p, "run")
    /\ UNCHANGED <<byte, slotTarget, slotDetour, hookVars, arg, addr, at, rescan>>

-----------------------------------------------------------------------------
(***************************************************************************)
(* A thread runs into a hooked function                                    *)
(***************************************************************************)

\* External: the CPU traps on the 0xCC byte.
trap(p, t) ==
    /\ pc[p] = "run" /\ byte[t] = "cc"
    /\ addr' = [addr EXCEPT ![p] = t]
    /\ Goto(p, "trapped")
    /\ UNCHANGED <<byte, tableVars, owner, hookVars, arg, at, rescan>>

\* External: the system walks the vectored handlers.
dispatch(p) ==
    /\ pc[p] = "trapped"
    /\ \/ handler /\ Goto(p, "scan")
       \/ ~handler /\ Goto(p, "unhandled")
    /\ at' = [at EXCEPT ![p] = 1]
    /\ rescan' = [rescan EXCEPT ![p] = FALSE]
    /\ UNCHANGED <<byte, tableVars, owner, hookVars, arg, addr>>

\* What the handler does when no slot has the address: the ring is consulted
\* after the first scan only.
AfterScan_Retry(p) == "scan"
AfterScan(p) == IF rescan[p] THEN "unhandled" ELSE "ring"

\* find_detour: the target of one slot is loaded.
find_detour(p) ==
    /\ pc[p] = "scan"
    /\ \/ /\ at[p] \in Slots /\ slotTarget[at[p]] = addr[p]
          /\ Goto(p, "load_detour")
          /\ UNCHANGED at
       \/ /\ at[p] \in Slots /\ slotTarget[at[p]] # addr[p]
          /\ at' = [at EXCEPT ![p] = @ + 1]
          /\ UNCHANGED pc
       \/ /\ at[p] \notin Slots
          /\ Goto(p, AfterScan(p))
          /\ at' = [at EXCEPT ![p] = 0]
    /\ UNCHANGED <<byte, tableVars, owner, hookVars, arg, addr, rescan>>

\* Then its detour, which is taken unless it was cleared meanwhile.
load_detour(p) ==
    /\ pc[p] = "load_detour"
    /\ \/ /\ slotDetour[at[p]] # None
          /\ arg' = [arg EXCEPT ![p] = slotDetour[at[p]]]
          /\ Goto(p, "detour")
          /\ UNCHANGED at
       \/ /\ slotDetour[at[p]] = None
          /\ at' = [at EXCEPT ![p] = @ + 1]
          /\ Goto(p, "scan")
          /\ UNCHANGED arg
    /\ UNCHANGED <<byte, tableVars, owner, hookVars, addr, rescan>>

\* One entry of the ring of removed targets.
scan_retired(p) ==
    /\ pc[p] = "ring"
    /\ \/ /\ at[p] \in Ring /\ retired[at[p]] = addr[p]
          /\ Goto(p, "read_byte")
          /\ UNCHANGED at
       \/ /\ at[p] \in Ring /\ retired[at[p]] # addr[p]
          /\ at' = [at EXCEPT ![p] = @ + 1]
          /\ UNCHANGED pc
       \/ /\ at[p] \notin Ring
          /\ Goto(p, "unhandled")
          /\ UNCHANGED at
    /\ UNCHANGED <<byte, tableVars, owner, hookVars, arg, addr, rescan>>

\* The byte decides: back to the function, or one more look at the slots.
read_byte(p) ==
    /\ pc[p] = "read_byte"
    /\ \/ /\ byte[addr[p]] # "cc"
          /\ addr' = [addr EXCEPT ![p] = None]
          /\ at' = [at EXCEPT ![p] = 0]
          /\ Goto(p, "run")
          /\ UNCHANGED rescan
       \/ /\ byte[addr[p]] = "cc"
          /\ at' = [at EXCEPT ![p] = 1]
          /\ rescan' = [rescan EXCEPT ![p] = TRUE]
          /\ Goto(p, "scan")
          /\ UNCHANGED addr
    /\ UNCHANGED <<byte, tableVars, owner, hookVars, arg>>

\* The detour returns to the caller of the function.
return(p) ==
    /\ pc[p] = "detour"
    /\ arg' = [arg EXCEPT ![p] = None]
    /\ addr' = [addr EXCEPT ![p] = None]
    /\ at' = [at EXCEPT ![p] = 0]
    /\ rescan' = [rescan EXCEPT ![p] = FALSE]
    /\ Goto(p, "run")
    /\ UNCHANGED <<byte, tableVars, owner, hookVars>>

-----------------------------------------------------------------------------
Locked(p) ==
    \/ arm_detour(p) \/ arm_target(p) \/ arm_write(p) \/ arm_undo(p)
    \/ rem_write(p) \/ rem_target(p) \/ rem_detour(p) \/ release_idle_handler(p)

Handle(p) ==
    \/ dispatch(p) \/ find_detour(p) \/ load_detour(p) \/ scan_retired(p)
    \/ read_byte(p)

Call(p) ==
    \/ \E h \in Hooks :
          \/ \E wantGateway \in BOOLEAN : install(p, h, wantGateway)
          \/ remove(p, h) \/ forget(p, h)
    \/ arm(p) \/ release_unused_handler(p)

Next == \E p \in Threads :
    \/ Call(p) \/ Locked(p) \/ Handle(p) \/ return(p)
    \/ \E t \in Targets : trap(p, t)

Spec == Init /\ [][Next]_vars

\* Running threads keep running, in the handler and under the locks.
FairSpec == Spec /\ \A p \in Threads : WF_vars(Handle(p)) /\ WF_vars(Locked(p))

-----------------------------------------------------------------------------
(***************************************************************************)
(* Properties                                                              *)
(***************************************************************************)

(***************************************************************************)
(* A 0xCC byte can always be served: the handler is registered and a slot  *)
(* leads from the function to one of its own detours.  Installs publish    *)
(* the slot before they write the byte, removals restore the byte before   *)
(* they clear the slot, and the handler goes only with the last slot.      *)
(***************************************************************************)
TrapIsServed ==
    \A t \in Targets : byte[t] = "cc" =>
        /\ handler
        /\ \E i \in Slots : /\ slotTarget[i] = t
                            /\ slotDetour[i] \in Hooks
                            /\ HookTarget[slotDetour[i]] = t

(***************************************************************************)
(* "A thread that trapped just before the removal is still resumed safely" *)
(* : no trap of a hook, live or removed, ends as an unhandled breakpoint.  *)
(***************************************************************************)
SafelyResumed == \A p \in Threads : pc[p] # "unhandled"

(***************************************************************************)
(* The handler resumes a thread in a detour of the function it trapped in. *)
(***************************************************************************)
OwnDetour == \A p \in Threads : pc[p] = "detour" => HookTarget[arg[p]] = addr[p]

(***************************************************************************)
(* A slot is taken only by a hook that is being armed, live or being       *)
(* removed: no sequence of refused writes, removals and unloads uses up    *)
(* the table.                                                              *)
(***************************************************************************)
NoSlotLost ==
    \A i \in Slots : slotTarget[i] # None =>
        \E h \in Hooks : stage[h] # "none" /\ slot[h] = i /\ HookTarget[h] = slotTarget[i]

(***************************************************************************)
(* The gateway of an installed hook runs the original function, not a      *)
(* breakpoint that was in place when it was built.                         *)
(***************************************************************************)
GatewayRunsOriginal == \A h \in Hooks : stage[h] = "live" => gateway[h] # "cc"

(***************************************************************************)
(* A trap is answered: the handler never loops between the slots, the ring *)
(* and the byte, however often its target is hooked and unhooked meanwhile.*)
(***************************************************************************)
TrapIsAnswered ==
    \A p \in Threads : pc[p] = "trapped" ~> pc[p] \notin DispatchPcs
=============================================================================
