--------------------------- MODULE VehHooks_proofs --------------------------
(***************************************************************************)
(* VEH hooks, for any number of threads, hooks, functions and debug        *)
(* registers and any updates that are refused: a live hook stays armed in  *)
(* every thread that took the update, and, where hooks are installed while *)
(* no exception is dispatched, the handler resumes a thread in a detour of *)
(* its own function and no trap goes unhandled.                            *)
(***************************************************************************)
EXTENDS VehHooks, TLAPS

InstallPcs == {"pub_detour", "pub_armed", "pub_target", "arm"}
RemovePcs == {"disarm", "rem_target", "rem_detour"}
LockPcs == InstallPcs \cup RemovePcs \cup {"release"}
HandlerPcs == {"run", "detour", "unhandled"} \cup DispatchPcs

(* The manager's lock: who is in install or remove, and with which hook.   *)
LockOK ==
    /\ \A p \in Threads : pc[p] \in HandlerPcs \cup LockPcs
    /\ \A p \in Threads : pc[p] \in LockPcs <=> owner = p
    /\ \A p \in Threads : pc[p] \in InstallPcs => arg[p] \in Hooks /\ stage[arg[p]] = "arming"
    /\ \A p \in Threads : pc[p] \in RemovePcs => arg[p] \in Hooks /\ stage[arg[p]] = "removing"
    /\ \A p \in Threads : pc[p] = "disarm" => retiredNext < MaxRemovals
    /\ \A h \in Hooks : stage[h] \in {"arming", "removing"} =>
          \E p \in Threads : arg[p] = h /\ pc[p] \in InstallPcs \cup RemovePcs
SlotOK ==
    \A g, h \in Hooks : stage[g] # "none" /\ stage[h] # "none" /\ slot[g] = slot[h] => g = h

(* What the slot table says of a hook; a target is published with its      *)
(* detour.                                                                 *)
TableOK ==
    /\ \A h \in Hooks : stage[h] = "live" => slotTarget[slot[h]] = HookTarget[h]
    /\ \A p \in Threads : pc[p] \in {"arm", "disarm", "rem_target"} =>
          slotTarget[slot[arg[p]]] = HookTarget[arg[p]]
    /\ \A p \in Threads : pc[p] \in {"pub_detour", "pub_armed", "pub_target", "rem_detour"} =>
          slotTarget[slot[arg[p]]] = None
    /\ \A p \in Threads : pc[p] \in {"pub_armed", "pub_target"} =>
          slotDetour[slot[arg[p]]] = arg[p]
    /\ \A s \in Slots : slotTarget[s] # None =>
          slotDetour[s] \in Hooks /\ HookTarget[slotDetour[s]] = slotTarget[s]
FaultOK ==
    \A p \in Threads : /\ pc[p] \in DispatchPcs \ {"foreign"} => fault[p] \in Targets
                       /\ pc[p] \in {"load_detour", "resync_live"} => at[p] \in Slots

(* The registers of a thread, and those it gets back from its exception.   *)
ArmedIn(h, q) ==
    /\ dr[q][slot[h]] = HookTarget[h]
    /\ pc[q] \in SavedPcs => context[q][slot[h]] = HookTarget[h]
ArmOK ==
    /\ \A h \in Hooks : stage[h] = "live" => \A q \in Threads \ missed[h] : ArmedIn(h, q)
    /\ \A p \in Threads : pc[p] = "arm" =>
          \A q \in Threads \ (missed[arg[p]] \cup todo[p]) : ArmedIn(arg[p], q)
Inv == TypeOK /\ LockOK /\ SlotOK /\ TableOK /\ FaultOK /\ ArmOK

(* Between the handler's two loads a slot may be cleared, but, where no    *)
(* hook is installed meanwhile, not filled again.                          *)
LoadOK ==
    \A p \in Threads : pc[p] = "load_detour" =>
        /\ slotDetour[at[p]] # None => HookTarget[slotDetour[at[p]]] = fault[p]
        /\ \A q \in Threads : pc[q] = "pub_detour" => slot[arg[q]] # at[p]
QInv == LoadOK /\ OwnDetour

-----------------------------------------------------------------------------

AllPcs == {"run", "detour", "unhandled", "pub_detour", "pub_armed", "pub_target", "arm"}
             \cup DispatchPcs \cup RemovalPcs
TableType ==
    /\ slotTarget \in Registers /\ slotArmed \in Registers
    /\ slotDetour \in [Slots -> Hooks \cup {None}]
    /\ retired \in [Ring -> Targets \cup {None}] /\ retiredNext \in 0 .. MaxRemovals
    /\ handler \in BOOLEAN /\ keepHandler \in BOOLEAN /\ owner \in Threads \cup {None}
HookType ==
    /\ stage \in [Hooks -> {"none", "arming", "live", "removing"}]
    /\ slot \in [Hooks -> Slots] /\ missed \in [Hooks -> SUBSET Threads]
TrapType ==
    /\ dr \in [Threads -> Registers] /\ context \in [Threads -> Registers]
    /\ fault \in [Threads -> Targets \cup {None}] /\ hits \in [Threads -> SUBSET Slots]
    /\ handled \in [Threads -> BOOLEAN] /\ at \in [Threads -> 0 .. NumSlots + RetiredLen]
CallType ==
    /\ pc \in [Threads -> AllPcs]
    /\ arg \in [Threads -> Hooks \cup {None}] /\ todo \in [Threads -> SUBSET Threads]

LEMMA TypeParts == TypeOK <=> TableType /\ HookType /\ TrapType /\ CallType
  BY DEF TypeOK, TableType, HookType, TrapType, CallType, AllPcs
LEMMA TypePartsNext == TypeOK' <=> TableType' /\ HookType' /\ TrapType' /\ CallType'
  BY DEF TypeOK, TableType, HookType, TrapType, CallType, AllPcs

LEMMA Pcs ==
  /\ HandlerPcs \subseteq AllPcs /\ LockPcs \subseteq AllPcs /\ HandlerPcs \cap LockPcs = {}
  /\ SavedPcs \subseteq DispatchPcs /\ DispatchPcs \subseteq HandlerPcs
  BY DEF HandlerPcs, AllPcs, LockPcs, InstallPcs, RemovePcs, DispatchPcs, SavedPcs, RemovalPcs

LEMMA NoHook == None \notin Hooks /\ None \notin Targets /\ None \notin Threads
  BY NoneAssumption

LEMMA InitInv == Init => Inv /\ QInv
<1>1. SUFFICES ASSUME Init PROVE Inv /\ QInv
  OBVIOUS
<1>2. NoBreakpoint \in Registers /\ 1 \in Slots
  BY SlotsAssumption DEF NoBreakpoint, Registers, Slots
<1>3. TableType
  <2>1. /\ slotDetour \in [Slots -> Hooks \cup {None}]
        /\ retired \in [Ring -> Targets \cup {None}]
    BY <1>1 DEF Init
  <2>2. 0 \in 0 .. MaxRemovals
    BY RingAssumption
  <2>3. QED
    BY <1>1, <1>2, <2>1, <2>2 DEF Init, TableType
<1>4. HookType
  BY <1>1, <1>2 DEF Init, HookType
<1>5. TrapType
  BY <1>1, <1>2, SlotsAssumption, RingAssumption DEF Init, TrapType
<1>6. CallType
  BY <1>1 DEF Init, CallType, AllPcs
<1>7. LockOK
  BY <1>1, NoHook DEF Init, LockOK, HandlerPcs, LockPcs, InstallPcs, RemovePcs
<1>8. SlotOK /\ TableOK
  BY <1>1, NoHook DEF Init, SlotOK, TableOK, NoBreakpoint
<1>9. FaultOK /\ ArmOK /\ LoadOK /\ OwnDetour
  BY <1>1 DEF Init, FaultOK, ArmOK, LoadOK, OwnDetour, DispatchPcs, SavedPcs
<1>10. QED
  BY <1>3, <1>4, <1>5, <1>6, <1>7, <1>8, <1>9, TypeParts DEF Inv, QInv

LEMMA MyHook ==
  ASSUME Inv, NEW p \in Threads, pc[p] \in InstallPcs \cup RemovePcs
  PROVE  /\ arg[p] \in Hooks /\ slot[arg[p]] \in Slots /\ HookTarget[arg[p]] \in Targets
         /\ stage[arg[p]] \in {"arming", "removing"} /\ owner = p
         /\ \A q \in Threads : pc[q] \in LockPcs => q = p
         /\ \A h \in Hooks : stage[h] \in {"arming", "removing"} => h = arg[p]
<1>1. arg[p] \in Hooks /\ stage[arg[p]] \in {"arming", "removing"}
  BY DEF Inv, LockOK
<1>2. owner = p /\ \A q \in Threads : pc[q] \in LockPcs => q = p
  BY DEF Inv, LockOK, LockPcs
<1>3. \A h \in Hooks : stage[h] \in {"arming", "removing"} => h = arg[p]
  BY <1>2 DEF Inv, LockOK, LockPcs
<1>4. slot[arg[p]] \in Slots /\ HookTarget[arg[p]] \in Targets
  BY <1>1, HookTargetAssumption, TypeParts DEF Inv, HookType
<1>5. QED
  BY <1>1, <1>2, <1>3, <1>4

-----------------------------------------------------------------------------
(***************************************************************************)
(* Traps and the handler                                                   *)
(***************************************************************************)

(* A step of a thread outside install and remove.                          *)
LEMMA OwnStep ==
  ASSUME Inv, NEW p \in Threads, pc[p] \in HandlerPcs, NEW l \in HandlerPcs,
         pc' = [pc EXCEPT ![p] = l], UNCHANGED <<tableVars, managerVars, hookVars, todo>>,
         TrapType', arg' \in [Threads -> Hooks \cup {None}],
         \A q \in Threads \ {p} : /\ dr'[q] = dr[q] /\ context'[q] = context[q]
                                  /\ fault'[q] = fault[q] /\ at'[q] = at[q] /\ arg'[q] = arg[q],
         l \in DispatchPcs \ {"foreign"} => fault'[p] \in Targets,
         l \in {"load_detour", "resync_live"} => at'[p] \in Slots,
         \A h \in Hooks : slotTarget[slot[h]] = HookTarget[h] /\ ArmedIn(h, p) => ArmedIn(h, p)'
  PROVE  /\ Inv'
         /\ /\ QInv
            /\ l = "load_detour" => slotTarget[at'[p]] = fault'[p]
            /\ l = "detour" => HookTarget[arg'[p]] = fault'[p]
            => QInv'
<1>1. /\ UNCHANGED <<slotTarget, slotDetour, slotArmed, retired, retiredNext, handler, keepHandler,
                     owner, stage, slot, missed>>
  BY DEF tableVars, managerVars, hookVars
<1>2. TableType /\ HookType /\ TrapType /\ CallType
  BY TypeParts DEF Inv
<1>3. /\ pc'[p] = l /\ \A q \in Threads \ {p} : pc'[q] = pc[q]
      /\ pc' \in [Threads -> AllPcs]
  BY <1>2, Pcs DEF CallType
<1>4. pc[p] \notin LockPcs /\ l \notin LockPcs
  BY Pcs
<1>5. \A q \in Threads : pc'[q] \in LockPcs => pc'[q] = pc[q] /\ arg'[q] = arg[q] /\ q # p
  BY <1>3, <1>4
<1>6. \A q \in Threads : pc[q] \in LockPcs => pc'[q] = pc[q] /\ arg'[q] = arg[q] /\ q # p
  BY <1>3, <1>4
<1>7. TypeOK'
  <2>1. TableType' /\ HookType'
    BY <1>1, <1>2 DEF TableType, HookType
  <2>2. CallType'
    BY <1>2, <1>3 DEF CallType
  <2>3. QED
    BY <2>1, <2>2, TypePartsNext
<1>8. LockOK'
  <2>1. \A q \in Threads : pc'[q] \in HandlerPcs \cup LockPcs
    BY <1>3 DEF Inv, LockOK
  <2>2. \A q \in Threads : pc'[q] \in LockPcs <=> owner' = q
    BY <1>1, <1>5, <1>6 DEF Inv, LockOK
  <2>3. /\ \A q \in Threads : pc'[q] \in InstallPcs => arg'[q] \in Hooks /\ stage'[arg'[q]] = "arming"
        /\ \A q \in Threads : pc'[q] \in RemovePcs => arg'[q] \in Hooks /\ stage'[arg'[q]] = "removing"
        /\ \A q \in Threads : pc'[q] = "disarm" => retiredNext' < MaxRemovals
    BY <1>1, <1>5 DEF Inv, LockOK, LockPcs, RemovePcs
  <2>4. \A h \in Hooks : stage'[h] \in {"arming", "removing"} =>
           \E q \in Threads : arg'[q] = h /\ pc'[q] \in InstallPcs \cup RemovePcs
    BY <1>1, <1>6 DEF Inv, LockOK, LockPcs
  <2>5. QED
    BY <2>1, <2>2, <2>3, <2>4 DEF LockOK
<1>9. SlotOK'
  BY <1>1 DEF Inv, SlotOK
<1>10. TableOK'
  BY <1>1, <1>5 DEF Inv, TableOK, LockPcs, InstallPcs, RemovePcs
<1>11. FaultOK'
  BY <1>3 DEF Inv, FaultOK
<1>12. ArmOK'
  <2>1. \A h \in Hooks, q \in Threads :
           slotTarget[slot[h]] = HookTarget[h] /\ ArmedIn(h, q) => ArmedIn(h, q)'
    <3>1. SUFFICES ASSUME NEW h \in Hooks, NEW q \in Threads \ {p}, ArmedIn(h, q)
                   PROVE  ArmedIn(h, q)'
      OBVIOUS
    <3>2. QED
      BY <1>1, <1>3, <3>1 DEF ArmedIn
  <2>2. \A h \in Hooks : stage'[h] = "live" => \A q \in Threads \ missed'[h] : ArmedIn(h, q)'
    BY <1>1, <2>1 DEF Inv, ArmOK, TableOK
  <2>3. ASSUME NEW q \in Threads, pc'[q] = "arm", NEW r \in Threads \ (missed'[arg'[q]] \cup todo'[q])
        PROVE  ArmedIn(arg[q], r)'
    <3>1. pc[q] = "arm" /\ arg'[q] = arg[q] /\ arg[q] \in Hooks
      BY <1>5, <2>3 DEF Inv, LockOK, LockPcs, InstallPcs
    <3>2. slotTarget[slot[arg[q]]] = HookTarget[arg[q]] /\ ArmedIn(arg[q], r)
      BY <1>1, <2>3, <3>1 DEF Inv, ArmOK, TableOK
    <3>3. PICK h \in Hooks : h = arg[q]
      BY <3>1
    <3>4. ArmedIn(h, r)'
      BY <2>1, <3>2, <3>3
    <3>5. QED
      BY <3>1, <3>3, <3>4 DEF ArmedIn
  <2>4. QED
    BY <2>2, <2>3 DEF ArmOK
<1>13. ASSUME QInv, l = "load_detour" => slotTarget[at'[p]] = fault'[p],
              l = "detour" => HookTarget[arg'[p]] = fault'[p]
       PROVE  QInv'
  <2>1. OwnDetour'
    BY <1>3, <1>13 DEF QInv, OwnDetour
  <2>2. ASSUME NEW r \in Threads, pc'[r] = "load_detour"
        PROVE  /\ slotDetour'[at'[r]] # None => HookTarget[slotDetour'[at'[r]]] = fault'[r]
               /\ \A q \in Threads : pc'[q] = "pub_detour" => slot'[arg'[q]] # at'[r]
    <3>1. CASE r # p
      <4>1. pc[r] = "load_detour" /\ at'[r] = at[r] /\ fault'[r] = fault[r]
        BY <1>3, <2>2, <3>1
      <4>2. \A q \in Threads : pc'[q] = "pub_detour" => pc[q] = "pub_detour" /\ arg'[q] = arg[q]
        BY <1>5 DEF LockPcs, InstallPcs
      <4>3. QED
        BY <1>1, <1>13, <4>1, <4>2 DEF QInv, LoadOK
    <3>2. CASE r = p
      <4>1. l = "load_detour" /\ at'[p] \in Slots /\ fault'[p] \in Targets
        BY <1>3, <2>2, <3>2 DEF DispatchPcs, SavedPcs
      <4>2. slotTarget[at'[p]] # None /\ slotTarget[at'[p]] = fault'[p]
        BY <1>13, <4>1, NoHook
      <4>3. HookTarget[slotDetour[at'[p]]] = fault'[p]
        BY <4>1, <4>2 DEF Inv, TableOK
      <4>4. \A q \in Threads : pc'[q] = "pub_detour" => slotTarget[slot'[arg'[q]]] = None
        BY <1>1, <1>5 DEF Inv, TableOK, LockPcs, InstallPcs
      <4>5. QED
        BY <1>1, <3>2, <4>2, <4>3, <4>4
    <3>3. QED
      BY <3>1, <3>2
  <2>3. LoadOK'
    BY <2>2 DEF LoadOK
  <2>4. QED
    BY <2>1, <2>3 DEF QInv
<1>14. QED
  BY <1>7, <1>8, <1>9, <1>10, <1>11, <1>12, <1>13 DEF Inv

LEMMA trapKeeps ==
  ASSUME Inv, NEW p \in Threads, NEW t \in Targets, trap(p, t)
  PROVE  Inv' /\ (QInv => QInv')
<1>1. /\ pc[p] = "run" /\ fault' = [fault EXCEPT ![p] = t] /\ pc' = [pc EXCEPT ![p] = "raised"]
      /\ hits' = [hits EXCEPT ![p] = {s \in Slots : dr[p][s] = t}]
      /\ UNCHANGED <<tableVars, managerVars, hookVars, dr, context, handled, arg, todo, at>>
  BY DEF trap, Goto
<1>2. TableType /\ HookType /\ TrapType /\ CallType
  BY TypeParts DEF Inv
<1>3. fault' \in [Threads -> Targets \cup {None}] /\ hits' \in [Threads -> SUBSET Slots]
  BY <1>1, <1>2 DEF TrapType
<1>4. TrapType'
  BY <1>1, <1>2, <1>3 DEF TrapType
<1>5. /\ arg' \in [Threads -> Hooks \cup {None}] /\ fault'[p] \in Targets
      /\ \A q \in Threads \ {p} : fault'[q] = fault[q]
  BY <1>1, <1>2 DEF CallType, TrapType
<1>6. "run" \in HandlerPcs /\ "raised" \in HandlerPcs /\ "raised" \notin SavedPcs
  BY DEF HandlerPcs, DispatchPcs, SavedPcs
<1>7. \A h \in Hooks : ArmedIn(h, p) => ArmedIn(h, p)'
  BY <1>1, <1>2, <1>6 DEF ArmedIn, hookVars, CallType
<1>8. QED
  BY <1>1, <1>4, <1>5, <1>6, <1>7, OwnStep

LEMMA captureKeeps ==
  ASSUME Inv, NEW p \in Threads, capture(p)
  PROVE  Inv' /\ (QInv => QInv')
<1>1. /\ pc[p] = "raised" /\ context' = [context EXCEPT ![p] = dr[p]]
      /\ pc' = [pc EXCEPT ![p] = "trapped"]
      /\ hits' = hits \/ hits' = [hits EXCEPT ![p] = {}]
      /\ UNCHANGED <<tableVars, managerVars, hookVars, dr, fault, handled, arg, todo, at>>
  BY DEF capture, Goto
<1>2. TableType /\ HookType /\ TrapType /\ CallType
  BY TypeParts DEF Inv
<1>3. context' \in [Threads -> Registers] /\ hits' \in [Threads -> SUBSET Slots]
  BY <1>1, <1>2 DEF TrapType
<1>4. TrapType'
  BY <1>1, <1>2, <1>3 DEF TrapType
<1>5. "raised" \in DispatchPcs \ {"foreign"} /\ "raised" \in HandlerPcs /\ "trapped" \in HandlerPcs
  BY DEF HandlerPcs, DispatchPcs, SavedPcs
<1>6. /\ arg' \in [Threads -> Hooks \cup {None}] /\ fault'[p] \in Targets /\ context'[p] = dr[p]
      /\ \A q \in Threads \ {p} : context'[q] = context[q]
  BY <1>1, <1>2, <1>5 DEF CallType, TrapType, Inv, FaultOK
<1>7. \A h \in Hooks : ArmedIn(h, p) => ArmedIn(h, p)'
  BY <1>1, <1>6 DEF ArmedIn, hookVars
<1>8. QED
  BY <1>1, <1>4, <1>5, <1>6, <1>7, OwnStep

LEMMA raiseKeeps ==
  ASSUME Inv, NEW p \in Threads, raise(p)
  PROVE  Inv' /\ (QInv => QInv')
<1>1. /\ pc[p] = "run" /\ context' = [context EXCEPT ![p] = dr[p]]
      /\ pc' = [pc EXCEPT ![p] = "foreign"]
      /\ UNCHANGED <<tableVars, managerVars, hookVars, dr, fault, hits, handled, arg, todo, at>>
  BY DEF raise, Goto
<1>2. TableType /\ HookType /\ TrapType /\ CallType
  BY TypeParts DEF Inv
<1>3. context' \in [Threads -> Registers] /\ arg' \in [Threads -> Hooks \cup {None}]
  BY <1>1, <1>2 DEF TrapType, CallType
<1>4. TrapType'
  BY <1>1, <1>2, <1>3 DEF TrapType
<1>5. "run" \in HandlerPcs /\ "foreign" \in HandlerPcs
  BY DEF HandlerPcs, DispatchPcs, SavedPcs
<1>6. context'[p] = dr[p] /\ \A q \in Threads \ {p} : context'[q] = context[q]
  BY <1>1, <1>2 DEF TrapType
<1>7. \A h \in Hooks : ArmedIn(h, p) => ArmedIn(h, p)'
  BY <1>1, <1>6 DEF ArmedIn, hookVars
<1>8. QED
  BY <1>1, <1>3, <1>4, <1>5, <1>6, <1>7, OwnStep

(* Where the handler has got to changes, the registers do not.             *)
LEMMA ScanStep ==
  ASSUME Inv, NEW p \in Threads, pc[p] \in SavedPcs \ {"foreign"},
         NEW l \in (SavedPcs \ {"foreign"}) \cup {"unhandled"}, NEW i \in 0 .. NumSlots + RetiredLen,
         pc' = [pc EXCEPT ![p] = l], at' = [at EXCEPT ![p] = i],
         handled' \in [Threads -> BOOLEAN],
         UNCHANGED <<tableVars, managerVars, hookVars, todo, dr, context, fault, hits, arg>>,
         l \in {"load_detour", "resync_live"} => i \in Slots
  PROVE  Inv' /\ (QInv /\ (l = "load_detour" => slotTarget[i] = fault[p]) => QInv')
<1>1. TableType /\ HookType /\ TrapType /\ CallType
  BY TypeParts DEF Inv
<1>2. at' \in [Threads -> 0 .. NumSlots + RetiredLen] /\ at'[p] = i
  BY <1>1 DEF TrapType
<1>3. TrapType'
  BY <1>1, <1>2 DEF TrapType
<1>4. pc[p] \in HandlerPcs /\ l \in HandlerPcs /\ l # "detour"
  BY DEF HandlerPcs, DispatchPcs, SavedPcs
<1>5. /\ arg' \in [Threads -> Hooks \cup {None}] /\ fault'[p] \in Targets
      /\ \A q \in Threads \ {p} : at'[q] = at[q]
  BY <1>1 DEF CallType, TrapType, Inv, FaultOK, DispatchPcs
<1>6. \A h \in Hooks : ArmedIn(h, p) => ArmedIn(h, p)'
  BY DEF ArmedIn, hookVars
<1>7. QED
  BY <1>2, <1>3, <1>4, <1>5, <1>6, OwnStep

LEMMA dispatchKeeps ==
  ASSUME Inv, NEW p \in Threads, dispatch(p)
  PROVE  Inv' /\ (QInv => QInv')
<1>1. PICK l \in {"scan", "unhandled"} :
         /\ pc[p] = "trapped" /\ pc' = [pc EXCEPT ![p] = l] /\ at' = [at EXCEPT ![p] = 1]
         /\ handled' = [handled EXCEPT ![p] = FALSE]
         /\ UNCHANGED <<tableVars, managerVars, hookVars, dr, context, fault, hits, arg, todo>>
  BY DEF dispatch, Goto
<1>2. handled' \in [Threads -> BOOLEAN]
  BY <1>1, TypeParts DEF Inv, TrapType
<1>3. pc[p] \in SavedPcs \ {"foreign"} /\ l \in (SavedPcs \ {"foreign"}) \cup {"unhandled"}
  BY <1>1 DEF SavedPcs
<1>4. 1 \in 0 .. NumSlots + RetiredLen
  BY SlotsAssumption, RingAssumption
<1>5. QED
  BY <1>1, <1>2, <1>3, <1>4, ScanStep

LEMMA AtIs ==
  ASSUME Inv, NEW p \in Threads
  PROVE  /\ at[p] \in 0 .. NumSlots + RetiredLen /\ 0 \in 0 .. NumSlots + RetiredLen
         /\ 1 \in 0 .. NumSlots + RetiredLen
         /\ at[p] \in Slots => at[p] + 1 \in 0 .. NumSlots + RetiredLen
         /\ at[p] \in Ring => at[p] + 1 \in 0 .. NumSlots + RetiredLen
<1>1. at[p] \in 0 .. NumSlots + RetiredLen
  BY TypeParts DEF Inv, TrapType
<1>2. QED
  BY <1>1, SlotsAssumption, RingAssumption DEF Slots, Ring

LEMMA veh_handlerKeeps ==
  ASSUME Inv, NEW p \in Threads, veh_handler(p)
  PROVE  Inv' /\ (QInv => QInv')
<1>1. /\ pc[p] = "scan"
      /\ UNCHANGED <<tableVars, managerVars, hookVars, todo, dr, context, fault, hits, arg, handled>>
  BY DEF veh_handler, Look
<1>2. pc[p] \in SavedPcs \ {"foreign"} /\ {"scan", "load_detour", "resync"} \subseteq SavedPcs \ {"foreign"}
  BY <1>1 DEF SavedPcs
<1>3. handled' \in [Threads -> BOOLEAN]
  BY <1>1, TypeParts DEF Inv, TrapType
<1>4. PICK l \in {"scan", "load_detour", "resync"}, i \in 0 .. NumSlots + RetiredLen :
         /\ pc' = [pc EXCEPT ![p] = l] /\ at' = [at EXCEPT ![p] = i]
         /\ l = "load_detour" => i \in Slots /\ slotTarget[i] = fault[p]
  <2>1. CASE at[p] \in Slots /\ slotTarget[at[p]] = fault[p] /\ To(p, "load_detour", at[p])
    BY <2>1, AtIs DEF To, Goto
  <2>2. CASE at[p] \in Slots /\ slotTarget[at[p]] # fault[p] /\ To(p, "scan", at[p] + 1)
    BY <2>2, AtIs DEF To, Goto
  <2>3. CASE at[p] \notin Slots /\ To(p, "resync", 1)
    BY <2>3, AtIs DEF To, Goto
  <2>4. QED
    BY <2>1, <2>2, <2>3 DEF veh_handler
<1>5. l # "resync_live"
  OBVIOUS
<1>6. QED
  BY <1>1, <1>2, <1>3, <1>4, <1>5, ScanStep

LEMMA resyncKeeps ==
  ASSUME Inv, NEW p \in Threads, resync(p)
  PROVE  Inv' /\ (QInv => QInv')
<1>1. /\ pc[p] = "resync"
      /\ UNCHANGED <<tableVars, managerVars, hookVars, todo, dr, context, fault, hits, arg, handled>>
  BY DEF resync, Look
<1>2. /\ pc[p] \in SavedPcs \ {"foreign"}
      /\ {"resync_live", "resync", "resume", "ring"} \subseteq SavedPcs \ {"foreign"}
  BY <1>1 DEF SavedPcs
<1>3. handled' \in [Threads -> BOOLEAN]
  BY <1>1, TypeParts DEF Inv, TrapType
<1>4. PICK l \in {"resync_live", "resync", "resume", "ring"}, i \in 0 .. NumSlots + RetiredLen :
         /\ pc' = [pc EXCEPT ![p] = l] /\ at' = [at EXCEPT ![p] = i]
         /\ l = "resync_live" => i \in Slots
  <2>1. CASE at[p] \in Slots
    BY <2>1, AtIs DEF resync, To, Goto
  <2>2. CASE at[p] \notin Slots
    BY <2>2, AtIs DEF resync, To, Goto
  <2>3. QED
    BY <2>1, <2>2
<1>5. l # "load_detour"
  OBVIOUS
<1>6. QED
  BY <1>1, <1>2, <1>3, <1>4, <1>5, ScanStep

LEMMA ring_scanKeeps ==
  ASSUME Inv, NEW p \in Threads, ring_scan(p)
  PROVE  Inv' /\ (QInv => QInv')
<1>1. /\ pc[p] = "ring"
      /\ UNCHANGED <<tableVars, managerVars, hookVars, todo, dr, context, fault, hits, arg, handled>>
  BY DEF ring_scan, Look
<1>2. /\ pc[p] \in SavedPcs \ {"foreign"}
      /\ {"ring_resync", "ring", "unhandled"} \subseteq (SavedPcs \ {"foreign"}) \cup {"unhandled"}
  BY <1>1 DEF SavedPcs
<1>3. handled' \in [Threads -> BOOLEAN]
  BY <1>1, TypeParts DEF Inv, TrapType
<1>4. PICK l \in {"ring_resync", "ring", "unhandled"}, i \in 0 .. NumSlots + RetiredLen :
         pc' = [pc EXCEPT ![p] = l] /\ at' = [at EXCEPT ![p] = i]
  BY AtIs DEF ring_scan, To, Goto
<1>5. l # "load_detour" /\ l # "resync_live"
  OBVIOUS
<1>6. QED
  BY <1>1, <1>2, <1>3, <1>4, <1>5, ScanStep

(* A register of the saved context is set to what its slot is for now.     *)
LEMMA ProgramStep ==
  ASSUME Inv, NEW p \in Threads, pc[p] \in {"resync_live", "ring_resync"},
         NEW s \in Slots, program_slot(p, s), NEW l \in {"resync", "ring_resync"},
         NEW i \in 0 .. NumSlots + RetiredLen,
         pc' = [pc EXCEPT ![p] = l], at' = [at EXCEPT ![p] = i], handled' \in [Threads -> BOOLEAN],
         UNCHANGED <<tableVars, managerVars, hookVars, todo, dr, fault, hits, arg>>
  PROVE  Inv' /\ (QInv => QInv')
<1>1. TableType /\ HookType /\ TrapType /\ CallType
  BY TypeParts DEF Inv
<1>2. /\ at' \in [Threads -> 0 .. NumSlots + RetiredLen]
      /\ \A q \in Threads \ {p} : at'[q] = at[q]
  BY <1>1 DEF TrapType
<1>3. context[p] \in Registers /\ slotTarget \in Registers
  BY <1>1 DEF TrapType, TableType
<1>4. /\ context' = [context EXCEPT ![p] = [context[p] EXCEPT ![s] = slotTarget[s]]]
      /\ [context[p] EXCEPT ![s] = slotTarget[s]] \in Registers
  BY <1>3 DEF program_slot, Registers
<1>5. /\ context' \in [Threads -> Registers] /\ \A q \in Threads \ {p} : context'[q] = context[q]
      /\ context'[p] = [context[p] EXCEPT ![s] = slotTarget[s]]
  BY <1>1, <1>4 DEF TrapType
<1>6. \A u \in Slots : context'[p][u] = IF u = s THEN slotTarget[s] ELSE context[p][u]
  BY <1>3, <1>5 DEF Registers
<1>7. TrapType'
  BY <1>1, <1>2, <1>5 DEF TrapType
<1>8. /\ pc[p] \in HandlerPcs /\ pc[p] \in SavedPcs /\ l \in HandlerPcs
      /\ pc[p] \in DispatchPcs \ {"foreign"}
  BY DEF HandlerPcs, DispatchPcs, SavedPcs
<1>9. arg' \in [Threads -> Hooks \cup {None}] /\ fault'[p] \in Targets
  BY <1>1, <1>8 DEF CallType, Inv, FaultOK
<1>10. \A h \in Hooks : slotTarget[slot[h]] = HookTarget[h] /\ ArmedIn(h, p) => ArmedIn(h, p)'
  <2>1. SUFFICES ASSUME NEW h \in Hooks, slotTarget[slot[h]] = HookTarget[h], ArmedIn(h, p)
                 PROVE  ArmedIn(h, p)'
    OBVIOUS
  <2>2. slot[h] \in Slots /\ slot' = slot
    BY <1>1 DEF HookType, hookVars
  <2>3. context'[p][slot[h]] = HookTarget[h]
    BY <1>6, <1>8, <2>1, <2>2 DEF ArmedIn
  <2>4. QED
    BY <2>1, <2>2, <2>3 DEF ArmedIn
<1>11. QED
  BY <1>2, <1>5, <1>7, <1>8, <1>9, <1>10, OwnStep

LEMMA resync_liveKeeps ==
  ASSUME Inv, NEW p \in Threads, resync_live(p)
  PROVE  Inv' /\ (QInv => QInv')
<1>1. /\ pc[p] = "resync_live" /\ program_slot(p, at[p])
      /\ handled' = [handled EXCEPT ![p] = TRUE]
      /\ pc' = [pc EXCEPT ![p] = "resync"] /\ at' = [at EXCEPT ![p] = at[p] + 1]
      /\ UNCHANGED <<tableVars, managerVars, hookVars, todo, dr, fault, hits, arg>>
  BY DEF resync_live, Look, To, Goto
<1>2. at[p] \in Slots /\ handled' \in [Threads -> BOOLEAN]
  BY <1>1, TypeParts DEF Inv, FaultOK, TrapType
<1>3. QED
  BY <1>1, <1>2, AtIs, ProgramStep

LEMMA ring_resyncKeeps ==
  ASSUME Inv, NEW p \in Threads, ring_resync(p)
  PROVE  Inv' /\ (QInv => QInv')
<1>1. /\ pc[p] = "ring_resync"
      /\ UNCHANGED <<tableVars, managerVars, hookVars, todo, dr, fault, hits, arg, handled>>
  BY DEF ring_resync, Look
<1>2. pc[p] \in SavedPcs \ {"foreign"} /\ {"ring_resync", "resume"} \subseteq SavedPcs \ {"foreign"}
  BY <1>1 DEF SavedPcs
<1>3. handled' \in [Threads -> BOOLEAN]
  BY <1>1, TypeParts DEF Inv, TrapType
<1>4. CASE context' = context
  <2>1. PICK l \in {"ring_resync", "resume"}, i \in 0 .. NumSlots + RetiredLen :
           pc' = [pc EXCEPT ![p] = l] /\ at' = [at EXCEPT ![p] = i]
    BY AtIs DEF ring_resync, To, Goto
  <2>2. l # "load_detour" /\ l # "resync_live"
    OBVIOUS
  <2>3. QED
    BY <1>1, <1>2, <1>3, <1>4, <2>1, <2>2, ScanStep
<1>5. CASE context' # context
  <2>1. /\ at[p] \in Slots /\ program_slot(p, at[p])
        /\ pc' = [pc EXCEPT ![p] = "ring_resync"] /\ at' = [at EXCEPT ![p] = at[p] + 1]
    BY <1>5 DEF ring_resync, To, Goto
  <2>2. QED
    BY <1>1, <1>3, <2>1, AtIs, ProgramStep
<1>6. QED
  BY <1>4, <1>5

(* The saved registers come back.                                          *)
LEMMA ContinueStep ==
  ASSUME Inv, NEW p \in Threads, pc[p] \in SavedPcs, NEW l \in {"run", "detour"}, Continue(p, l),
         fault' \in [Threads -> Targets \cup {None}], arg' \in [Threads -> Hooks \cup {None}],
         \A q \in Threads \ {p} : fault'[q] = fault[q] /\ arg'[q] = arg[q]
  PROVE  Inv' /\ (QInv /\ (l = "detour" => HookTarget[arg'[p]] = fault'[p]) => QInv')
<1>1. /\ dr' = [dr EXCEPT ![p] = context[p]] /\ context' = [context EXCEPT ![p] = NoBreakpoint]
      /\ hits' = [hits EXCEPT ![p] = {}] /\ at' = [at EXCEPT ![p] = 0]
      /\ pc' = [pc EXCEPT ![p] = l] /\ UNCHANGED <<tableVars, managerVars, hookVars, handled, todo>>
  BY DEF Continue, Goto
<1>2. TableType /\ HookType /\ TrapType /\ CallType
  BY TypeParts DEF Inv
<1>3. NoBreakpoint \in Registers /\ 0 \in 0 .. NumSlots + RetiredLen
  BY SlotsAssumption, RingAssumption DEF NoBreakpoint, Registers
<1>4. /\ dr' \in [Threads -> Registers] /\ context' \in [Threads -> Registers]
      /\ hits' \in [Threads -> SUBSET Slots] /\ at' \in [Threads -> 0 .. NumSlots + RetiredLen]
      /\ dr'[p] = context[p]
      /\ \A q \in Threads \ {p} : dr'[q] = dr[q] /\ context'[q] = context[q] /\ at'[q] = at[q]
  BY <1>1, <1>2, <1>3 DEF TrapType
<1>5. TrapType'
  BY <1>1, <1>2, <1>4 DEF TrapType
<1>6. pc[p] \in HandlerPcs /\ l \in HandlerPcs /\ l \notin DispatchPcs /\ l \notin SavedPcs
  BY DEF HandlerPcs, DispatchPcs, SavedPcs
<1>7. \A h \in Hooks : ArmedIn(h, p) => ArmedIn(h, p)'
  BY <1>1, <1>2, <1>4, <1>6 DEF ArmedIn, hookVars, CallType
<1>8. QED
  BY <1>1, <1>4, <1>5, <1>6, <1>7, OwnStep

LEMMA HandleKeeps ==
  ASSUME Inv, NEW p \in Threads, Handle(p) \/ return(p)
  PROVE  Inv' /\ (QInv => QInv')
<1>1. TableType /\ HookType /\ TrapType /\ CallType
  BY TypeParts DEF Inv
<1>2. CASE load_detour(p)
  <2>1. pc[p] = "load_detour"
    BY <1>2 DEF load_detour
  <2>2. at[p] \in Slots
    BY <2>1 DEF Inv, FaultOK
  <2>3. PICK d \in Hooks \cup {None} : d = slotDetour[at[p]]
    BY <1>1, <2>2 DEF TableType
  <2>4. CASE d # None
    <3>1. Continue(p, "detour") /\ arg' = [arg EXCEPT ![p] = d] /\ fault' = fault
      BY <1>2, <2>3, <2>4 DEF load_detour
    <3>2. /\ arg' \in [Threads -> Hooks \cup {None}] /\ fault' \in [Threads -> Targets \cup {None}]
          /\ arg'[p] = d /\ \A q \in Threads \ {p} : arg'[q] = arg[q]
      BY <1>1, <3>1 DEF CallType, TrapType
    <3>3. QInv => HookTarget[arg'[p]] = fault'[p]
      BY <2>1, <2>3, <2>4, <3>1, <3>2 DEF QInv, LoadOK
    <3>4. pc[p] \in SavedPcs
      BY <2>1 DEF SavedPcs
    <3>5. QED
      BY <3>1, <3>2, <3>3, <3>4, ContinueStep
  <2>5. CASE d = None
    <3>1. /\ pc' = [pc EXCEPT ![p] = "scan"] /\ at' = [at EXCEPT ![p] = at[p] + 1]
          /\ UNCHANGED <<tableVars, managerVars, hookVars, todo, dr, context, fault, hits, arg, handled>>
      BY <1>2, <2>3, <2>5 DEF load_detour, Look, To, Goto
    <3>2. handled' \in [Threads -> BOOLEAN]
      BY <1>1, <3>1 DEF TrapType
    <3>3. pc[p] \in SavedPcs \ {"foreign"} /\ "scan" \in SavedPcs \ {"foreign"}
      BY <2>1 DEF SavedPcs
    <3>4. at[p] + 1 \in 0 .. NumSlots + RetiredLen
      BY <2>2, AtIs
    <3>5. PICK l \in (SavedPcs \ {"foreign"}) \cup {"unhandled"} : l = "scan"
      BY <3>3
    <3>6. PICK i \in 0 .. NumSlots + RetiredLen : i = at[p] + 1
      BY <3>4
    <3>7. pc' = [pc EXCEPT ![p] = l] /\ at' = [at EXCEPT ![p] = i]
      BY <3>1, <3>5, <3>6
    <3>8. l # "load_detour" /\ l # "resync_live"
      BY <3>5
    <3>9. QED
      BY <3>1, <3>2, <3>3, <3>7, <3>8, ScanStep
  <2>6. QED
    BY <2>4, <2>5
<1>3. CASE foreign_end(p)
  <2>1. Continue(p, "run") /\ fault' = fault /\ arg' = arg /\ pc[p] \in SavedPcs
    BY <1>3 DEF foreign_end, SavedPcs
  <2>2. arg' \in [Threads -> Hooks \cup {None}] /\ fault' \in [Threads -> Targets \cup {None}]
    BY <1>1, <2>1 DEF CallType, TrapType
  <2>3. QED
    BY <2>1, <2>2, ContinueStep
<1>4. CASE resume(p)
  <2>1. /\ Continue(p, "run") /\ fault' = [fault EXCEPT ![p] = None] /\ arg' = arg
        /\ pc[p] \in SavedPcs
    BY <1>4 DEF resume, SavedPcs
  <2>2. /\ arg' \in [Threads -> Hooks \cup {None}] /\ fault' \in [Threads -> Targets \cup {None}]
        /\ \A q \in Threads \ {p} : fault'[q] = fault[q]
    BY <1>1, <2>1 DEF CallType, TrapType
  <2>3. QED
    BY <2>1, <2>2, ContinueStep
<1>5. CASE return(p)
  <2>1. /\ pc[p] = "detour" /\ pc' = [pc EXCEPT ![p] = "run"]
        /\ arg' = [arg EXCEPT ![p] = None] /\ fault' = [fault EXCEPT ![p] = None]
        /\ UNCHANGED <<tableVars, managerVars, hookVars, dr, context, hits, handled, todo, at>>
    BY <1>5 DEF return, Goto
  <2>2. /\ arg' \in [Threads -> Hooks \cup {None}] /\ fault' \in [Threads -> Targets \cup {None}]
        /\ \A q \in Threads \ {p} : arg'[q] = arg[q] /\ fault'[q] = fault[q]
    BY <1>1, <2>1 DEF CallType, TrapType
  <2>3. TrapType'
    BY <1>1, <2>1, <2>2 DEF TrapType
  <2>4. /\ "detour" \in HandlerPcs /\ "run" \in HandlerPcs /\ "run" \notin DispatchPcs
        /\ "run" \notin SavedPcs
    BY DEF HandlerPcs, DispatchPcs, SavedPcs
  <2>5. \A h \in Hooks : ArmedIn(h, p) => ArmedIn(h, p)'
    BY <1>1, <2>1, <2>4 DEF ArmedIn, hookVars, CallType
  <2>6. PICK l \in HandlerPcs : l = "run"
    BY <2>4
  <2>7. /\ pc' = [pc EXCEPT ![p] = l] /\ l \notin DispatchPcs
        /\ l \notin {"load_detour", "resync_live", "detour"}
    BY <2>1, <2>4, <2>6
  <2>8. pc[p] \in HandlerPcs /\ UNCHANGED <<dr, context, at>>
    BY <2>1, <2>4
  <2>9. QED
    BY <2>1, <2>2, <2>3, <2>5, <2>7, <2>8, OwnStep
<1>6. QED
  BY <1>2, <1>3, <1>4, <1>5, captureKeeps, dispatchKeeps, veh_handlerKeeps, resyncKeeps,
     resync_liveKeeps, ring_scanKeeps, ring_resyncKeeps DEF Handle

-----------------------------------------------------------------------------
(***************************************************************************)
(* install and remove                                                      *)
(***************************************************************************)

(* The holder of the lock writes to the slot of its hook, and goes on.     *)
TableMove(p, h, s, l) ==
    /\ h = arg[p] /\ s = slot[h] /\ l \in (InstallPcs \cup RemovePcs) \ {"pub_detour", "disarm"}
    /\ pc[p] \in InstallPcs \cup RemovePcs /\ (pc[p] \in InstallPcs <=> l \in InstallPcs)
    /\ pc' = [pc EXCEPT ![p] = l] /\ TableType' /\ todo' \in [Threads -> SUBSET Threads]
    /\ UNCHANGED <<managerVars, hookVars, dr, excVars, arg, at>>
    /\ \A u \in Slots \ {s} : slotTarget'[u] = slotTarget[u] /\ slotDetour'[u] = slotDetour[u]
    /\ l \in {"arm", "rem_target"} => slotTarget'[s] = HookTarget[h]
    /\ l \notin {"arm", "rem_target"} => slotTarget'[s] = None
    /\ l \in {"pub_armed", "pub_target"} => slotDetour'[s] = h
    /\ slotTarget'[s] # None => /\ slotDetour'[s] \in Hooks
                                /\ HookTarget[slotDetour'[s]] = slotTarget'[s]
    /\ pc[p] # "pub_detour" => slotDetour'[s] = slotDetour[s]
    /\ l = "arm" => todo'[p] = Threads

LEMMA TableStep ==
  ASSUME Inv, NEW p \in Threads, NEW h \in Hooks, NEW s \in Slots, NEW l, TableMove(p, h, s, l)
  PROVE  Inv' /\ (QInv => QInv')
<1> USE DEF TableMove
<1>1. TableType /\ HookType /\ TrapType /\ CallType
  BY TypeParts DEF Inv
<1>2. UNCHANGED <<handler, keepHandler, owner, stage, slot, missed, context, fault, hits, handled>>
  BY DEF managerVars, hookVars, excVars
<1>3. l \in LockPcs /\ pc[p] \in InstallPcs \cup RemovePcs /\ pc[p] \in LockPcs
  BY DEF LockPcs
<1>4. /\ pc' \in [Threads -> AllPcs] /\ pc'[p] = l /\ \A q \in Threads \ {p} : pc'[q] = pc[q]
  BY <1>1, <1>3, Pcs DEF CallType
<1>5. /\ HookTarget[h] \in Targets /\ owner = p
      /\ \A q \in Threads : pc[q] \in LockPcs => q = p
      /\ \A g \in Hooks : stage[g] \in {"arming", "removing"} => g = h
      /\ stage[h] \in {"arming", "removing"}
  BY <1>3, MyHook
<1>6. \A q \in Threads : pc'[q] \in LockPcs => q = p
  BY <1>4, <1>5
<1>7. TypeOK'
  <2>1. HookType' /\ TrapType'
    BY <1>1, <1>2 DEF HookType, TrapType
  <2>2. CallType'
    BY <1>1, <1>4 DEF CallType
  <2>3. QED
    BY <2>1, <2>2, TypePartsNext
<1>8. LockOK'
  <2>1. \A q \in Threads : pc'[q] \in HandlerPcs \cup LockPcs
    BY <1>3, <1>4 DEF Inv, LockOK
  <2>2. \A q \in Threads : pc'[q] \in LockPcs <=> owner' = q
    BY <1>2, <1>3, <1>4, <1>5 DEF Inv, LockOK
  <2>3. /\ \A q \in Threads : pc'[q] \in InstallPcs => arg'[q] \in Hooks /\ stage'[arg'[q]] = "arming"
        /\ \A q \in Threads : pc'[q] \in RemovePcs => arg'[q] \in Hooks /\ stage'[arg'[q]] = "removing"
    <3>1. /\ pc[p] \in InstallPcs => stage[h] = "arming"
          /\ pc[p] \in RemovePcs => stage[h] = "removing"
      BY DEF Inv, LockOK
    <3>2. InstallPcs \cap RemovePcs = {}
      BY DEF InstallPcs, RemovePcs
    <3>3. QED
      BY <1>2, <1>4, <1>6, <3>1, <3>2 DEF LockPcs
  <2>4. \A q \in Threads : pc'[q] # "disarm"
    BY <1>4, <1>6 DEF LockPcs, RemovePcs
  <2>5. \A g \in Hooks : stage'[g] \in {"arming", "removing"} =>
           \E q \in Threads : arg'[q] = g /\ pc'[q] \in InstallPcs \cup RemovePcs
    BY <1>2, <1>4, <1>5
  <2>6. QED
    BY <2>1, <2>2, <2>3, <2>4, <2>5 DEF LockOK
<1>9. SlotOK'
  BY <1>2 DEF Inv, SlotOK
<1>10. TableOK'
  <2>1. \A g \in Hooks : stage[g] = "live" => slot[g] \in Slots \ {s}
    BY <1>1, <1>5 DEF Inv, SlotOK, HookType
  <2>2. \A g \in Hooks : stage'[g] = "live" => slotTarget'[slot'[g]] = HookTarget[g]
    BY <1>2, <2>1 DEF Inv, TableOK
  <2>3. /\ \A q \in Threads : pc'[q] \in {"arm", "disarm", "rem_target"} =>
              slotTarget'[slot'[arg'[q]]] = HookTarget[arg'[q]]
        /\ \A q \in Threads : pc'[q] \in {"pub_detour", "pub_armed", "pub_target", "rem_detour"} =>
              slotTarget'[slot'[arg'[q]]] = None
        /\ \A q \in Threads : pc'[q] \in {"pub_armed", "pub_target"} =>
              slotDetour'[slot'[arg'[q]]] = arg'[q]
    BY <1>2, <1>4, <1>6 DEF LockPcs, InstallPcs, RemovePcs
  <2>4. \A u \in Slots : slotTarget'[u] # None =>
           slotDetour'[u] \in Hooks /\ HookTarget[slotDetour'[u]] = slotTarget'[u]
    BY DEF Inv, TableOK
  <2>5. QED
    BY <2>2, <2>3, <2>4 DEF TableOK
<1>11. FaultOK'
  <2>1. l \notin DispatchPcs /\ l \notin {"load_detour", "resync_live"}
    BY DEF InstallPcs, RemovePcs, DispatchPcs, SavedPcs
  <2>2. QED
    BY <1>2, <1>4, <2>1 DEF Inv, FaultOK
<1>12. ArmOK'
  <2>1. \A g \in Hooks, q \in Threads : ArmedIn(g, q) => ArmedIn(g, q)'
    <3>1. l \notin SavedPcs
      BY DEF InstallPcs, RemovePcs, SavedPcs
    <3>2. QED
      BY <1>2, <1>4, <3>1 DEF ArmedIn
  <2>2. \A g \in Hooks : stage'[g] = "live" => \A q \in Threads \ missed'[g] : ArmedIn(g, q)'
    BY <1>2, <2>1 DEF Inv, ArmOK
  <2>3. \A q \in Threads : pc'[q] = "arm" => todo'[q] = Threads
    BY <1>4, <1>6 DEF LockPcs, InstallPcs
  <2>4. QED
    BY <2>2, <2>3 DEF ArmOK
<1>13. ASSUME QInv PROVE QInv'
  <2>1. OwnDetour'
    <3>1. l # "detour"
      BY DEF InstallPcs, RemovePcs
    <3>2. QED
      BY <1>2, <1>4, <1>13, <3>1 DEF QInv, OwnDetour
  <2>2. ASSUME NEW r \in Threads, pc'[r] = "load_detour"
        PROVE  /\ slotDetour'[at'[r]] # None => HookTarget[slotDetour'[at'[r]]] = fault'[r]
               /\ \A q \in Threads : pc'[q] = "pub_detour" => slot'[arg'[q]] # at'[r]
    <3>1. l # "load_detour"
      BY DEF InstallPcs, RemovePcs
    <3>2. pc[r] = "load_detour" /\ at[r] \in Slots
      BY <1>4, <2>2, <3>1 DEF Inv, FaultOK
    <3>3. slotDetour'[at[r]] = slotDetour[at[r]]
      BY <1>13, <3>2 DEF QInv, LoadOK
    <3>4. \A q \in Threads : pc'[q] # "pub_detour"
      BY <1>4, <1>6 DEF LockPcs, InstallPcs
    <3>5. QED
      BY <1>2, <1>13, <3>2, <3>3, <3>4 DEF QInv, LoadOK
  <2>3. QED
    BY <2>1, <2>2 DEF QInv, LoadOK
<1>14. QED
  BY <1>7, <1>8, <1>9, <1>10, <1>11, <1>12, <1>13 DEF Inv

LEMMA PublishKeeps ==
  ASSUME Inv, NEW p \in Threads, pub_detour(p) \/ pub_armed(p) \/ pub_target(p)
  PROVE  Inv' /\ (QInv => QInv')
<1>1. TableType /\ CallType
  BY TypeParts DEF Inv
<1>2. /\ pc[p] \in {"pub_detour", "pub_armed", "pub_target"} /\ pc[p] \in InstallPcs
      /\ UNCHANGED <<retired, retiredNext, managerVars, hookVars, dr, excVars, arg, at>>
      /\ UNCHANGED <<handler, keepHandler, owner>>
  BY DEF pub_detour, pub_armed, pub_target, Publish, InstallPcs, managerVars
<1>3. /\ arg[p] \in Hooks /\ slot[arg[p]] \in Slots /\ HookTarget[arg[p]] \in Targets
  BY <1>2, MyHook
<1>4. PICK h \in Hooks : h = arg[p]
  BY <1>3
<1>5. PICK s \in Slots : s = slot[h]
  BY <1>3, <1>4
<1>6. slotTarget[s] = None
  BY <1>2, <1>4, <1>5 DEF Inv, TableOK
<1>7. CASE pub_detour(p)
  <2>1. /\ pc' = [pc EXCEPT ![p] = "pub_armed"] /\ slotDetour' = [slotDetour EXCEPT ![s] = h]
        /\ UNCHANGED <<slotTarget, slotArmed, todo>>
    BY <1>4, <1>5, <1>7 DEF pub_detour, Publish, Goto
  <2>2. /\ slotDetour' \in [Slots -> Hooks \cup {None}] /\ slotDetour'[s] = h
        /\ \A u \in Slots \ {s} : slotDetour'[u] = slotDetour[u]
    BY <1>1, <2>1 DEF TableType
  <2>3. TableType' /\ todo' \in [Threads -> SUBSET Threads]
    BY <1>1, <1>2, <2>1, <2>2 DEF TableType, CallType
  <2>4. PICK l : l = "pub_armed"
    OBVIOUS
  <2>5. /\ l \in (InstallPcs \cup RemovePcs) \ {"pub_detour", "disarm"} /\ l \in InstallPcs
        /\ l \notin {"arm", "rem_target"} /\ pc' = [pc EXCEPT ![p] = l]
        /\ pc[p] = "pub_detour"
    BY <1>7, <2>1, <2>4 DEF InstallPcs, pub_detour, Publish
  <2>6. \A u \in Slots \ {s} : slotTarget'[u] = slotTarget[u] /\ slotDetour'[u] = slotDetour[u]
    BY <2>1, <2>2
  <2>7. TableMove(p, h, s, l)
    BY <1>2, <1>4, <1>5, <1>6, <2>1, <2>2, <2>3, <2>5, <2>6 DEF TableMove
  <2>8. QED
    BY <2>7, TableStep
<1>8. CASE pub_armed(p)
  <2>1. /\ pc' = [pc EXCEPT ![p] = "pub_target"] /\ slotArmed' = [slotArmed EXCEPT ![s] = HookTarget[h]]
        /\ UNCHANGED <<slotTarget, slotDetour, todo>> /\ pc[p] = "pub_armed"
    BY <1>4, <1>5, <1>8 DEF pub_armed, Publish, Goto, Armed
  <2>2. slotArmed' \in Registers
    BY <1>1, <1>3, <1>4, <2>1 DEF TableType, Registers
  <2>3. TableType' /\ todo' \in [Threads -> SUBSET Threads]
    BY <1>1, <1>2, <2>1, <2>2 DEF TableType, CallType
  <2>4. slotDetour[s] = h
    BY <1>4, <1>5, <2>1 DEF Inv, TableOK
  <2>5. PICK l : l = "pub_target"
    OBVIOUS
  <2>6. /\ l \in (InstallPcs \cup RemovePcs) \ {"pub_detour", "disarm"} /\ l \in InstallPcs
        /\ l \notin {"arm", "rem_target"} /\ pc' = [pc EXCEPT ![p] = l]
    BY <2>1, <2>5 DEF InstallPcs
  <2>7. TableMove(p, h, s, l)
    BY <1>2, <1>4, <1>5, <1>6, <2>1, <2>3, <2>4, <2>6 DEF TableMove
  <2>8. QED
    BY <2>7, TableStep
<1>9. CASE pub_target(p)
  <2>1. /\ pc' = [pc EXCEPT ![p] = "arm"] /\ slotTarget' = [slotTarget EXCEPT ![s] = HookTarget[h]]
        /\ todo' = [todo EXCEPT ![p] = Threads]
        /\ UNCHANGED <<slotArmed, slotDetour>> /\ pc[p] = "pub_target"
    BY <1>4, <1>5, <1>9 DEF pub_target, Publish, Goto
  <2>2. /\ slotTarget' \in Registers /\ slotTarget'[s] = HookTarget[h]
        /\ \A u \in Slots \ {s} : slotTarget'[u] = slotTarget[u]
    BY <1>1, <1>3, <1>4, <2>1 DEF TableType, Registers
  <2>3. /\ TableType' /\ todo' \in [Threads -> SUBSET Threads] /\ todo'[p] = Threads
    BY <1>1, <1>2, <2>1, <2>2 DEF TableType, CallType
  <2>4. slotDetour[s] = h
    BY <1>4, <1>5, <2>1 DEF Inv, TableOK
  <2>5. PICK l : l = "arm"
    OBVIOUS
  <2>6. /\ l \in (InstallPcs \cup RemovePcs) \ {"pub_detour", "disarm"} /\ l \in InstallPcs
        /\ l \notin {"pub_armed", "pub_target"} /\ l \in {"arm", "rem_target"}
        /\ pc' = [pc EXCEPT ![p] = l]
    BY <2>1, <2>5 DEF InstallPcs
  <2>7. \A u \in Slots \ {s} : slotTarget'[u] = slotTarget[u] /\ slotDetour'[u] = slotDetour[u]
    BY <2>1, <2>2
  <2>8. TableMove(p, h, s, l)
    BY <1>2, <1>4, <1>5, <2>1, <2>2, <2>3, <2>4, <2>6, <2>7 DEF TableMove
  <2>9. QED
    BY <2>8, TableStep
<1>10. QED
  BY <1>7, <1>8, <1>9

LEMMA RetireKeeps ==
  ASSUME Inv, NEW p \in Threads, rem_retire(p) \/ rem_target(p)
  PROVE  Inv' /\ (QInv => QInv')
<1>1. TableType /\ CallType
  BY TypeParts DEF Inv
<1>2. /\ pc[p] \in {"disarm", "rem_target"} /\ pc[p] \in RemovePcs /\ pc[p] # "pub_detour"
      /\ UNCHANGED <<slotArmed, managerVars, slot, missed, dr, excVars, todo, at, stage, arg>>
      /\ UNCHANGED <<handler, keepHandler, owner, hookVars, slotDetour>>
  BY DEF rem_retire, rem_target, Removal, RemovePcs, managerVars, hookVars
<1>3. arg[p] \in Hooks /\ slot[arg[p]] \in Slots /\ HookTarget[arg[p]] \in Targets
  BY <1>2, MyHook
<1>4. PICK h \in Hooks : h = arg[p]
  BY <1>3
<1>5. PICK s \in Slots : s = slot[h]
  BY <1>3, <1>4
<1>6. slotTarget[s] = HookTarget[h]
  BY <1>2, <1>4, <1>5 DEF Inv, TableOK
<1>7. todo' \in [Threads -> SUBSET Threads]
  BY <1>1, <1>2 DEF CallType
<1>8. CASE rem_retire(p)
  <2>1. /\ pc[p] = "disarm" /\ pc' = [pc EXCEPT ![p] = "rem_target"] /\ slotTarget' = slotTarget
        /\ retired' = [retired EXCEPT ![retiredNext % RetiredLen] = HookTarget[h]]
        /\ retiredNext' = retiredNext + 1
    BY <1>4, <1>8 DEF rem_retire, Removal, Goto
  <2>2. retiredNext < MaxRemovals
    BY <2>1 DEF Inv, LockOK
  <2>3. /\ retiredNext' \in 0 .. MaxRemovals /\ retired' \in [Ring -> Targets \cup {None}]
    <3>1. retiredNext' \in 0 .. MaxRemovals
      BY <1>1, <2>1, <2>2, RingAssumption DEF TableType
    <3>2. PICK k : k = retiredNext % RetiredLen
      OBVIOUS
    <3>3. retired' = [retired EXCEPT ![k] = HookTarget[h]]
      BY <2>1, <3>2
    <3>4. retired' \in [Ring -> Targets \cup {None}]
      BY <1>1, <1>3, <1>4, <3>3 DEF TableType
    <3>5. QED
      BY <3>1, <3>4
  <2>4. TableType'
    BY <1>1, <1>2, <2>1, <2>3 DEF TableType
  <2>5. slotDetour[s] \in Hooks /\ HookTarget[slotDetour[s]] = slotTarget[s]
    BY <1>3, <1>4, <1>6, NoHook DEF Inv, TableOK
  <2>6. PICK l : l = "rem_target"
    OBVIOUS
  <2>7. /\ l \in (InstallPcs \cup RemovePcs) \ {"pub_detour", "disarm"} /\ l \in RemovePcs
        /\ l \in {"arm", "rem_target"} /\ l \notin {"pub_armed", "pub_target"} /\ l # "arm"
        /\ pc' = [pc EXCEPT ![p] = l] /\ l \notin InstallPcs /\ pc[p] \notin InstallPcs
    BY <2>1, <2>6 DEF RemovePcs, InstallPcs
  <2>8. \A u \in Slots \ {s} : slotTarget'[u] = slotTarget[u] /\ slotDetour'[u] = slotDetour[u]
    BY <1>2, <2>1
  <2>9. TableMove(p, h, s, l)
    BY <1>2, <1>4, <1>5, <1>6, <1>7, <2>1, <2>4, <2>5, <2>7, <2>8 DEF TableMove
  <2>10. QED
    BY <2>9, TableStep
<1>9. CASE rem_target(p)
  <2>1. /\ pc[p] = "rem_target" /\ pc' = [pc EXCEPT ![p] = "rem_detour"]
        /\ slotTarget' = [slotTarget EXCEPT ![s] = None] /\ UNCHANGED <<retired, retiredNext>>
    BY <1>4, <1>5, <1>9 DEF rem_target, Removal, Goto
  <2>2. /\ slotTarget' \in Registers /\ slotTarget'[s] = None
        /\ \A u \in Slots \ {s} : slotTarget'[u] = slotTarget[u]
    BY <1>1, <2>1 DEF TableType, Registers
  <2>3. TableType'
    BY <1>1, <1>2, <2>1, <2>2 DEF TableType
  <2>4. PICK l : l = "rem_detour"
    OBVIOUS
  <2>5. /\ l \in (InstallPcs \cup RemovePcs) \ {"pub_detour", "disarm"} /\ l \in RemovePcs
        /\ l \notin {"arm", "rem_target", "pub_armed", "pub_target"} /\ l # "arm"
        /\ pc' = [pc EXCEPT ![p] = l] /\ l \notin InstallPcs /\ pc[p] \notin InstallPcs
    BY <2>1, <2>4 DEF RemovePcs, InstallPcs
  <2>6. \A u \in Slots \ {s} : slotTarget'[u] = slotTarget[u] /\ slotDetour'[u] = slotDetour[u]
    BY <1>2, <2>2
  <2>7. TableMove(p, h, s, l)
    BY <1>2, <1>4, <1>5, <1>7, <2>2, <2>3, <2>5, <2>6 DEF TableMove
  <2>8. QED
    BY <2>7, TableStep
<1>10. QED
  BY <1>8, <1>9

(* One thread's register is written.  A hook that is live has a register   *)
(* of its own, and whoever does not take the update is missed.             *)
LEMMA set_debug_registerKeeps ==
  ASSUME Inv, NEW p \in Threads, NEW q \in Threads, NEW value,
         \/ pc[p] = "arm" /\ value = HookTarget[arg[p]]
         \/ pc[p] = "disarm" /\ value = None,
         set_debug_register(p, value, q)
  PROVE  Inv' /\ (QInv => QInv')
<1>1. TableType /\ HookType /\ TrapType /\ CallType
  BY TypeParts DEF Inv
<1>2. pc[p] \in InstallPcs \cup RemovePcs
  BY DEF InstallPcs, RemovePcs
<1>3. PICK h \in Hooks : h = arg[p]
  BY <1>2, MyHook
<1>4. PICK s \in Slots : s = slot[h]
  BY <1>2, <1>3, MyHook
<1>5. /\ HookTarget[h] \in Targets /\ stage[h] \in {"arming", "removing"}
      /\ \A r \in Threads : pc[r] \in LockPcs => r = p
  BY <1>2, <1>3, MyHook
<1>6. /\ UNCHANGED <<slotTarget, slotDetour, slotArmed, retired, retiredNext, handler, owner, stage,
                     slot, context, fault, hits, handled, pc, arg, at>>
      /\ todo' = [todo EXCEPT ![p] = @ \ {q}]
  BY DEF set_debug_register, tableVars, excVars
<1>7. PICK refused \in {FALSE, "update" \in Faults} :
         /\ dr' = IF refused THEN dr ELSE [dr EXCEPT ![q][s] = value]
         /\ keepHandler' = (keepHandler \/ (refused /\ value = None))
         /\ missed' = [missed EXCEPT ![h] =
                           IF value # None /\ (refused \/ pc[q] \in SavedPcs) THEN @ \cup {q}
                           ELSE @]
  BY <1>3, <1>4 DEF set_debug_register
<1>8. value \in Targets \cup {None} /\ (pc[p] = "arm" => value = HookTarget[h] /\ value # None)
  BY <1>3, <1>5, NoHook
<1>9. /\ todo' \in [Threads -> SUBSET Threads] /\ todo'[p] = todo[p] \ {q}
      /\ \A r \in Threads \ {p} : todo'[r] = todo[r]
  BY <1>1, <1>6 DEF CallType
<1>10. /\ missed' \in [Hooks -> SUBSET Threads] /\ missed[h] \subseteq missed'[h]
       /\ \A g \in Hooks \ {h} : missed'[g] = missed[g]
       /\ pc[p] = "arm" /\ (refused \/ pc[q] \in SavedPcs) => q \in missed'[h]
  BY <1>1, <1>7, <1>8 DEF HookType
<1>11. /\ dr' \in [Threads -> Registers]
       /\ \A r \in Threads, u \in Slots : r # q \/ u # s => dr'[r][u] = dr[r][u]
       /\ ~refused => dr'[q][s] = value
  <2>1. CASE refused
    BY <1>1, <1>7, <2>1 DEF TrapType
  <2>2. CASE ~refused
    <3>1. dr[q] \in Registers
      BY <1>1 DEF TrapType
    <3>2. PICK d : d = [dr[q] EXCEPT ![s] = value]
      OBVIOUS
    <3>3. d \in Registers /\ d[s] = value /\ \A u \in Slots \ {s} : d[u] = dr[q][u]
      BY <1>8, <3>1, <3>2 DEF Registers
    <3>4. dr' = [dr EXCEPT ![q] = d]
      BY <1>7, <2>2, <3>2
    <3>5. dr' \in [Threads -> Registers] /\ dr'[q] = d /\ \A r \in Threads \ {q} : dr'[r] = dr[r]
      BY <1>1, <3>3, <3>4 DEF TrapType
    <3>6. QED
      BY <3>3, <3>5
  <2>3. QED
    BY <2>1, <2>2
<1>12. TypeOK'
  <2>1. keepHandler' \in BOOLEAN
    BY <1>1, <1>7 DEF TableType
  <2>2. TableType'
    BY <1>1, <1>6, <2>1 DEF TableType
  <2>3. HookType' /\ TrapType'
    BY <1>1, <1>6, <1>10, <1>11 DEF HookType, TrapType
  <2>4. CallType'
    BY <1>1, <1>6, <1>9 DEF CallType
  <2>5. QED
    BY <2>2, <2>3, <2>4, TypePartsNext
<1>13. LockOK' /\ SlotOK' /\ TableOK' /\ FaultOK'
  BY <1>6 DEF Inv, LockOK, SlotOK, TableOK, FaultOK
<1>14. ArmOK'
  <2>1. ASSUME NEW g \in Hooks, NEW r \in Threads, ArmedIn(g, r), g # h, stage[g] # "none"
        PROVE  ArmedIn(g, r)'
    <3>1. slot[g] # s /\ slot[g] \in Slots
      BY <1>1, <1>4, <1>5, <2>1 DEF Inv, SlotOK, HookType
    <3>2. QED
      BY <1>6, <1>11, <2>1, <3>1 DEF ArmedIn
  <2>2. ASSUME NEW r \in Threads, ArmedIn(h, r), r # q PROVE ArmedIn(h, r)'
    BY <1>4, <1>6, <1>11, <2>2 DEF ArmedIn
  <2>3. ASSUME pc[p] = "arm", q \notin missed'[h] PROVE ArmedIn(h, q)'
    <3>1. ~refused /\ pc[q] \notin SavedPcs /\ value = HookTarget[h]
      BY <1>8, <1>10, <2>3
    <3>2. dr'[q][s] = HookTarget[h] /\ pc'[q] \notin SavedPcs /\ slot'[h] = s
      BY <1>4, <1>6, <1>11, <3>1
    <3>3. QED
      BY <3>2 DEF ArmedIn
  <2>4. \A g \in Hooks : stage'[g] = "live" => \A r \in Threads \ missed'[g] : ArmedIn(g, r)'
    BY <1>5, <1>6, <1>10, <2>1 DEF Inv, ArmOK
  <2>5. ASSUME NEW o \in Threads, pc'[o] = "arm", NEW r \in Threads \ (missed'[arg'[o]] \cup todo'[o])
        PROVE  ArmedIn(h, r)' /\ arg'[o] = h
    <3>1. o = p /\ arg'[o] = h /\ pc[p] = "arm"
      BY <1>3, <1>5, <1>6, <2>5 DEF LockPcs, InstallPcs
    <3>2. r \notin missed'[h] /\ r \notin todo'[p]
      BY <2>5, <3>1
    <3>3. CASE r = q
      BY <2>3, <3>1, <3>2, <3>3
    <3>4. CASE r # q
      <4>1. r \notin missed[h] /\ r \notin todo[p]
        BY <1>9, <1>10, <3>2, <3>4
      <4>2. ArmedIn(h, r)
        BY <1>3, <3>1, <4>1 DEF Inv, ArmOK
      <4>3. QED
        BY <2>2, <3>1, <3>4, <4>2
    <3>5. QED
      BY <3>1, <3>3, <3>4
  <2>6. \A o \in Threads : pc'[o] = "arm" =>
           \A r \in Threads \ (missed'[arg'[o]] \cup todo'[o]) : ArmedIn(arg[o], r)'
    <3>1. SUFFICES ASSUME NEW o \in Threads, pc'[o] = "arm",
                          NEW r \in Threads \ (missed'[arg'[o]] \cup todo'[o])
                   PROVE  ArmedIn(arg[o], r)'
      OBVIOUS
    <3>2. ArmedIn(h, r)' /\ arg'[o] = h
      BY <2>5, <3>1
    <3>3. QED
      BY <3>2 DEF ArmedIn
  <2>7. QED
    BY <2>4, <2>6 DEF ArmOK
<1>15. QInv => QInv'
  BY <1>6 DEF QInv, LoadOK, OwnDetour
<1>16. QED
  BY <1>12, <1>13, <1>14, <1>15 DEF Inv

LEMMA installedKeeps ==
  ASSUME Inv, NEW p \in Threads, installed(p)
  PROVE  Inv' /\ (QInv => QInv')
<1>1. TableType /\ HookType /\ TrapType /\ CallType
  BY TypeParts DEF Inv
<1>2. /\ pc[p] = "arm" /\ todo[p] = {} /\ owner' = None /\ pc' = [pc EXCEPT ![p] = "run"]
      /\ stage' = [stage EXCEPT ![arg[p]] = "live"] /\ arg' = [arg EXCEPT ![p] = None]
      /\ UNCHANGED <<slotTarget, slotDetour, slotArmed, retired, retiredNext, handler, keepHandler,
                     slot, missed, dr, context, fault, hits, handled, todo, at>>
  BY DEF installed, Goto, tableVars, excVars
<1>3. pc[p] \in InstallPcs /\ pc[p] \in LockPcs
  BY <1>2 DEF InstallPcs, LockPcs
<1>4. PICK h \in Hooks : h = arg[p]
  BY <1>3, MyHook
<1>5. /\ stage[h] = "arming" /\ owner = p
      /\ \A r \in Threads : pc[r] \in LockPcs => r = p
      /\ \A g \in Hooks : stage[g] \in {"arming", "removing"} => g = h
  BY <1>3, <1>4, MyHook DEF Inv, LockOK
<1>6. /\ pc' \in [Threads -> AllPcs] /\ pc'[p] = "run" /\ \A q \in Threads \ {p} : pc'[q] = pc[q]
  BY <1>1, <1>2 DEF CallType, AllPcs
<1>7. /\ stage' \in [Hooks -> {"none", "arming", "live", "removing"}] /\ stage'[h] = "live"
      /\ \A g \in Hooks \ {h} : stage'[g] = stage[g]
  BY <1>1, <1>2, <1>4 DEF HookType
<1>8. /\ arg' \in [Threads -> Hooks \cup {None}] /\ \A q \in Threads \ {p} : arg'[q] = arg[q]
  BY <1>1, <1>2 DEF CallType
<1>9. "run" \in HandlerPcs /\ "run" \notin LockPcs /\ "run" \notin DispatchPcs /\ "run" \notin SavedPcs
  BY DEF HandlerPcs, LockPcs, InstallPcs, RemovePcs, DispatchPcs, SavedPcs
<1>10. \A q \in Threads : pc'[q] \notin LockPcs
  BY <1>5, <1>6, <1>9
<1>11. \A q \in Threads : pc'[q] \notin InstallPcs \cup RemovePcs
  BY <1>10 DEF LockPcs
<1>12. TypeOK'
  <2>1. TableType' /\ HookType' /\ TrapType'
    BY <1>1, <1>2, <1>7 DEF TableType, HookType, TrapType
  <2>2. CallType'
    BY <1>1, <1>2, <1>6, <1>8 DEF CallType
  <2>3. QED
    BY <2>1, <2>2, TypePartsNext
<1>13. LockOK'
  <2>1. \A q \in Threads : pc'[q] \in HandlerPcs \cup LockPcs
    BY <1>6, <1>9 DEF Inv, LockOK
  <2>2. \A q \in Threads : owner' # q
    BY <1>2, NoHook
  <2>3. \A g \in Hooks : stage'[g] \notin {"arming", "removing"}
    BY <1>5, <1>7
  <2>4. QED
    BY <1>10, <1>11, <2>1, <2>2, <2>3 DEF LockOK, RemovePcs
<1>14. SlotOK'
  BY <1>2, <1>5, <1>7 DEF Inv, SlotOK
<1>15. TableOK'
  <2>1. slotTarget[slot[h]] = HookTarget[h]
    BY <1>2, <1>4 DEF Inv, TableOK
  <2>2. \A g \in Hooks : stage'[g] = "live" => slotTarget'[slot'[g]] = HookTarget[g]
    BY <1>2, <1>7, <2>1 DEF Inv, TableOK
  <2>3. \A q \in Threads : pc'[q] \notin {"arm", "disarm", "rem_target", "pub_detour", "pub_armed",
                                          "pub_target", "rem_detour"}
    BY <1>11 DEF InstallPcs, RemovePcs
  <2>4. QED
    BY <1>2, <2>2, <2>3 DEF Inv, TableOK
<1>16. FaultOK'
  BY <1>2, <1>6, <1>9 DEF Inv, FaultOK, DispatchPcs, SavedPcs
<1>17. ArmOK'
  <2>1. \A g \in Hooks, r \in Threads : ArmedIn(g, r) => ArmedIn(g, r)'
    BY <1>2, <1>6, <1>9 DEF ArmedIn
  <2>2. \A r \in Threads \ missed[h] : ArmedIn(h, r)
    BY <1>2, <1>4 DEF Inv, ArmOK
  <2>3. \A g \in Hooks : stage'[g] = "live" => \A r \in Threads \ missed'[g] : ArmedIn(g, r)'
    BY <1>2, <1>7, <2>1, <2>2 DEF Inv, ArmOK
  <2>4. \A q \in Threads : pc'[q] # "arm"
    BY <1>11 DEF InstallPcs
  <2>5. QED
    BY <2>3, <2>4 DEF ArmOK
<1>18. QInv => QInv'
  <2>1. \A q \in Threads : pc'[q] # "pub_detour"
    BY <1>11 DEF InstallPcs
  <2>2. QED
    BY <1>2, <1>6, <1>8, <2>1 DEF QInv, LoadOK, OwnDetour
<1>19. QED
  BY <1>12, <1>13, <1>14, <1>15, <1>16, <1>17, <1>18 DEF Inv

LEMMA releaseKeeps ==
  ASSUME Inv, NEW p \in Threads, release_idle_handler(p)
  PROVE  Inv' /\ (QInv => QInv')
<1>1. TableType /\ HookType /\ TrapType /\ CallType
  BY TypeParts DEF Inv
<1>2. /\ pc[p] = "release" /\ owner' = None /\ pc' = [pc EXCEPT ![p] = "run"]
      /\ handler' \in {FALSE, handler}
      /\ UNCHANGED <<slotTarget, slotDetour, slotArmed, retired, retiredNext, keepHandler, stage,
                     slot, missed, dr, context, fault, hits, handled, arg, todo, at>>
  BY DEF release_idle_handler, Goto, tableVars, excVars, hookVars
<1>3. \A r \in Threads : pc[r] \in LockPcs => r = p
  BY <1>2 DEF Inv, LockOK, LockPcs
<1>4. \A g \in Hooks : stage[g] \notin {"arming", "removing"}
  BY <1>2, <1>3 DEF Inv, LockOK, LockPcs, InstallPcs, RemovePcs
<1>5. /\ pc' \in [Threads -> AllPcs] /\ pc'[p] = "run" /\ \A q \in Threads \ {p} : pc'[q] = pc[q]
  BY <1>1, <1>2 DEF CallType, AllPcs
<1>6. "run" \in HandlerPcs /\ "run" \notin LockPcs /\ "run" \notin DispatchPcs /\ "run" \notin SavedPcs
  BY DEF HandlerPcs, LockPcs, InstallPcs, RemovePcs, DispatchPcs, SavedPcs
<1>7. \A q \in Threads : pc'[q] \notin LockPcs /\ pc'[q] \notin InstallPcs \cup RemovePcs
  BY <1>3, <1>5, <1>6 DEF LockPcs
<1>8. TypeOK'
  <2>1. handler' \in BOOLEAN
    BY <1>1, <1>2 DEF TableType
  <2>2. TableType' /\ HookType' /\ TrapType'
    BY <1>1, <1>2, <2>1 DEF TableType, HookType, TrapType
  <2>3. CallType'
    BY <1>1, <1>2, <1>5 DEF CallType
  <2>4. QED
    BY <2>2, <2>3, TypePartsNext
<1>9. LockOK'
  <2>1. \A q \in Threads : pc'[q] \in HandlerPcs \cup LockPcs
    BY <1>5, <1>6 DEF Inv, LockOK
  <2>2. \A q \in Threads : owner' # q
    BY <1>2, NoHook
  <2>3. QED
    BY <1>2, <1>4, <1>7, <2>1, <2>2 DEF LockOK, RemovePcs
<1>10. SlotOK'
  BY <1>2 DEF Inv, SlotOK
<1>11. \A q \in Threads : pc'[q] \notin {"arm", "disarm", "rem_target", "pub_detour", "pub_armed",
                                         "pub_target", "rem_detour"}
  BY <1>7 DEF InstallPcs, RemovePcs
<1>12. TableOK' /\ FaultOK'
  BY <1>2, <1>5, <1>6, <1>11 DEF Inv, TableOK, FaultOK, DispatchPcs, SavedPcs
<1>13. ArmOK'
  <2>1. \A g \in Hooks, r \in Threads : ArmedIn(g, r) => ArmedIn(g, r)'
    BY <1>2, <1>5, <1>6 DEF ArmedIn
  <2>2. QED
    BY <1>2, <1>11, <2>1 DEF Inv, ArmOK
<1>14. QInv => QInv'
  BY <1>2, <1>5, <1>11 DEF QInv, LoadOK, OwnDetour
<1>15. QED
  BY <1>8, <1>9, <1>10, <1>12, <1>13, <1>14 DEF Inv

(* rem_detour gives the slot back; the hook is gone.                       *)
LEMMA rem_detourKeeps ==
  ASSUME Inv, NEW p \in Threads, rem_detour(p)
  PROVE  Inv' /\ (QInv => QInv')
<1>1. TableType /\ HookType /\ TrapType /\ CallType
  BY TypeParts DEF Inv
<1>2. /\ pc[p] = "rem_detour" /\ pc' = [pc EXCEPT ![p] = "release"]
      /\ slotDetour' = [slotDetour EXCEPT ![slot[arg[p]]] = None]
      /\ stage' = [stage EXCEPT ![arg[p]] = "none"] /\ arg' = [arg EXCEPT ![p] = None]
      /\ UNCHANGED <<slotTarget, slotArmed, retired, retiredNext, handler, keepHandler, owner,
                     slot, missed, dr, context, fault, hits, handled, todo, at>>
  BY DEF rem_detour, Removal, Goto, managerVars, excVars
<1>3. pc[p] \in InstallPcs \cup RemovePcs /\ pc[p] \in LockPcs
  BY <1>2 DEF RemovePcs, LockPcs
<1>4. PICK h \in Hooks : h = arg[p]
  BY <1>3, MyHook
<1>5. PICK s \in Slots : s = slot[h]
  BY <1>3, <1>4, MyHook
<1>6. /\ stage[h] \in {"arming", "removing"} /\ owner = p
      /\ \A r \in Threads : pc[r] \in LockPcs => r = p
      /\ \A g \in Hooks : stage[g] \in {"arming", "removing"} => g = h
  BY <1>3, <1>4, MyHook
<1>7. /\ "release" \notin HandlerPcs /\ "release" \in LockPcs /\ "release" \in AllPcs
      /\ "release" \notin InstallPcs \cup RemovePcs
      /\ "release" \notin DispatchPcs /\ "release" \notin SavedPcs
  BY DEF HandlerPcs, LockPcs, InstallPcs, RemovePcs, DispatchPcs, SavedPcs, AllPcs, RemovalPcs
<1>8. /\ pc' \in [Threads -> AllPcs] /\ pc'[p] = "release"
      /\ \A q \in Threads \ {p} : pc'[q] = pc[q]
  BY <1>1, <1>2, <1>7 DEF CallType
<1>9. /\ stage' \in [Hooks -> {"none", "arming", "live", "removing"}] /\ stage'[h] = "none"
      /\ \A g \in Hooks \ {h} : stage'[g] = stage[g]
  BY <1>1, <1>2, <1>4 DEF HookType
<1>10. /\ arg' \in [Threads -> Hooks \cup {None}] /\ \A q \in Threads \ {p} : arg'[q] = arg[q]
  BY <1>1, <1>2 DEF CallType
<1>11. /\ slotDetour' \in [Slots -> Hooks \cup {None}] /\ slotDetour'[s] = None
       /\ \A u \in Slots \ {s} : slotDetour'[u] = slotDetour[u]
  BY <1>1, <1>2, <1>4, <1>5 DEF TableType
<1>12. \A q \in Threads : pc'[q] \notin InstallPcs \cup RemovePcs
  BY <1>6, <1>7, <1>8 DEF LockPcs
<1>13. \A q \in Threads : pc'[q] \notin {"arm", "disarm", "rem_target", "pub_detour", "pub_armed",
                                         "pub_target", "rem_detour"}
  BY <1>12 DEF InstallPcs, RemovePcs
<1>14. TypeOK'
  <2>1. TableType' /\ HookType' /\ TrapType'
    BY <1>1, <1>2, <1>9, <1>11 DEF TableType, HookType, TrapType
  <2>2. CallType'
    BY <1>1, <1>2, <1>8, <1>10 DEF CallType
  <2>3. QED
    BY <2>1, <2>2, TypePartsNext
<1>15. LockOK'
  <2>1. \A q \in Threads : pc'[q] \in HandlerPcs \cup LockPcs
    BY <1>7, <1>8 DEF Inv, LockOK
  <2>2. \A q \in Threads : pc'[q] \in LockPcs <=> owner' = q
    BY <1>2, <1>3, <1>6, <1>7, <1>8 DEF Inv, LockOK
  <2>3. \A g \in Hooks : stage'[g] \notin {"arming", "removing"}
    BY <1>6, <1>9
  <2>4. QED
    BY <1>12, <1>13, <2>1, <2>2, <2>3 DEF LockOK
<1>16. SlotOK'
  BY <1>2, <1>9 DEF Inv, SlotOK
<1>17. TableOK'
  <2>1. slotTarget[s] = None
    BY <1>2, <1>4, <1>5 DEF Inv, TableOK
  <2>2. \A g \in Hooks : stage'[g] = "live" => slotTarget'[slot'[g]] = HookTarget[g]
    BY <1>2, <1>9 DEF Inv, TableOK
  <2>3. \A u \in Slots : slotTarget'[u] # None =>
           slotDetour'[u] \in Hooks /\ HookTarget[slotDetour'[u]] = slotTarget'[u]
    BY <1>2, <1>11, <2>1 DEF Inv, TableOK
  <2>4. QED
    BY <1>13, <2>2, <2>3 DEF TableOK
<1>18. FaultOK'
  BY <1>2, <1>7, <1>8 DEF Inv, FaultOK
<1>19. ArmOK'
  <2>1. \A g \in Hooks, r \in Threads : ArmedIn(g, r) => ArmedIn(g, r)'
    BY <1>2, <1>7, <1>8 DEF ArmedIn
  <2>2. QED
    BY <1>2, <1>9, <1>13, <2>1 DEF Inv, ArmOK
<1>20. ASSUME QInv PROVE QInv'
  <2>1. OwnDetour'
    BY <1>2, <1>8, <1>10, <1>20 DEF QInv, OwnDetour
  <2>2. \A r \in Threads : pc'[r] = "load_detour" => pc[r] = "load_detour" /\ at[r] \in Slots
    BY <1>8 DEF Inv, FaultOK
  <2>3. LoadOK'
    BY <1>2, <1>11, <1>13, <1>20, <2>2 DEF QInv, LoadOK
  <2>4. QED
    BY <2>1, <2>3 DEF QInv
<1>21. QED
  BY <1>14, <1>15, <1>16, <1>17, <1>18, <1>19, <1>20 DEF Inv

(* A call that takes the lock.                                             *)
LEMMA FreeLock ==
  ASSUME Inv, owner = None
  PROVE  /\ \A q \in Threads : pc[q] \notin LockPcs
         /\ \A g \in Hooks : stage[g] \notin {"arming", "removing"}
<1>1. \A q \in Threads : pc[q] \notin LockPcs
  BY NoHook DEF Inv, LockOK
<1>2. QED
  BY <1>1 DEF Inv, LockOK, LockPcs

LEMMA removeKeeps ==
  ASSUME Inv, NEW p \in Threads, NEW h \in Hooks, remove(p, h)
  PROVE  Inv' /\ (QInv => QInv')
<1>1. TableType /\ HookType /\ TrapType /\ CallType
  BY TypeParts DEF Inv
<1>2. /\ pc[p] = "run" /\ stage[h] = "live" /\ owner = None /\ retiredNext < MaxRemovals
      /\ owner' = p /\ pc' = [pc EXCEPT ![p] = "disarm"]
      /\ stage' = [stage EXCEPT ![h] = "removing"] /\ arg' = [arg EXCEPT ![p] = h]
      /\ todo' = [todo EXCEPT ![p] = Threads]
      /\ UNCHANGED <<slotTarget, slotDetour, slotArmed, retired, retiredNext, handler, keepHandler,
                     slot, missed, dr, context, fault, hits, handled, at>>
  BY DEF remove, Goto, tableVars, excVars
<1>3. /\ \A q \in Threads : pc[q] \notin LockPcs
      /\ \A g \in Hooks : stage[g] \notin {"arming", "removing"}
  BY <1>2, FreeLock
<1>4. /\ "disarm" \notin HandlerPcs /\ "disarm" \in LockPcs /\ "disarm" \in AllPcs
      /\ "disarm" \in RemovePcs /\ "disarm" \notin InstallPcs
      /\ "disarm" \notin DispatchPcs /\ "disarm" \notin SavedPcs
  BY DEF HandlerPcs, LockPcs, InstallPcs, RemovePcs, DispatchPcs, SavedPcs, AllPcs, RemovalPcs
<1>5. /\ pc' \in [Threads -> AllPcs] /\ pc'[p] = "disarm"
      /\ \A q \in Threads \ {p} : pc'[q] = pc[q]
  BY <1>1, <1>2, <1>4 DEF CallType
<1>6. /\ stage' \in [Hooks -> {"none", "arming", "live", "removing"}] /\ stage'[h] = "removing"
      /\ \A g \in Hooks \ {h} : stage'[g] = stage[g]
  BY <1>1, <1>2 DEF HookType
<1>7. /\ arg' \in [Threads -> Hooks \cup {None}] /\ arg'[p] = h
      /\ \A q \in Threads \ {p} : arg'[q] = arg[q]
  BY <1>1, <1>2 DEF CallType
<1>8. \A q \in Threads : pc'[q] \in LockPcs => q = p
  BY <1>3, <1>5
<1>9. TypeOK'
  <2>1. TableType' /\ HookType' /\ TrapType'
    BY <1>1, <1>2, <1>6 DEF TableType, HookType, TrapType
  <2>2. CallType'
    BY <1>1, <1>2, <1>5, <1>7 DEF CallType
  <2>3. QED
    BY <2>1, <2>2, TypePartsNext
<1>10. LockOK'
  <2>1. \A q \in Threads : pc'[q] \in HandlerPcs \cup LockPcs
    BY <1>4, <1>5 DEF Inv, LockOK
  <2>2. \A q \in Threads : pc'[q] \in LockPcs <=> owner' = q
    BY <1>2, <1>4, <1>5, <1>8
  <2>3. /\ \A q \in Threads : pc'[q] \notin InstallPcs
        /\ \A q \in Threads : pc'[q] \in RemovePcs => arg'[q] = h
    BY <1>4, <1>5, <1>7, <1>8 DEF LockPcs
  <2>4. \A g \in Hooks : stage'[g] \in {"arming", "removing"} => g = h
    BY <1>3, <1>6
  <2>5. QED
    BY <1>2, <1>4, <1>5, <1>6, <1>7, <2>1, <2>2, <2>3, <2>4 DEF LockOK
<1>11. SlotOK'
  BY <1>2, <1>6 DEF Inv, SlotOK
<1>12. TableOK'
  <2>1. slotTarget[slot[h]] = HookTarget[h]
    BY <1>2 DEF Inv, TableOK
  <2>2. \A g \in Hooks : stage'[g] = "live" => slotTarget'[slot'[g]] = HookTarget[g]
    BY <1>2, <1>6 DEF Inv, TableOK
  <2>3. /\ \A q \in Threads : pc'[q] \in {"arm", "disarm", "rem_target"} => arg'[q] = h
        /\ \A q \in Threads : pc'[q] \notin {"pub_detour", "pub_armed", "pub_target", "rem_detour"}
    BY <1>5, <1>7, <1>8 DEF LockPcs, InstallPcs, RemovePcs
  <2>4. QED
    BY <1>2, <2>1, <2>2, <2>3 DEF Inv, TableOK
<1>13. FaultOK'
  BY <1>2, <1>4, <1>5 DEF Inv, FaultOK
<1>14. ArmOK'
  <2>1. \A g \in Hooks, r \in Threads : ArmedIn(g, r) => ArmedIn(g, r)'
    BY <1>2, <1>4, <1>5 DEF ArmedIn
  <2>2. \A q \in Threads : pc'[q] # "arm"
    BY <1>5, <1>8 DEF LockPcs, InstallPcs
  <2>3. QED
    BY <1>2, <1>6, <2>1, <2>2 DEF Inv, ArmOK
<1>15. QInv => QInv'
  <2>1. \A q \in Threads : pc'[q] # "pub_detour"
    BY <1>5, <1>8 DEF LockPcs, InstallPcs
  <2>2. QED
    BY <1>2, <1>5, <1>7, <2>1 DEF QInv, LoadOK, OwnDetour
<1>16. QED
  BY <1>9, <1>10, <1>11, <1>12, <1>13, <1>14, <1>15 DEF Inv

(* A free slot is not that of a live hook.                                 *)
LEMMA installKeeps ==
  ASSUME Inv, NEW p \in Threads, NEW h \in Hooks, install(p, h)
  PROVE  Inv' /\ (Quiet /\ QInv => QInv')
<1>1. TableType /\ HookType /\ TrapType /\ CallType
  BY TypeParts DEF Inv
<1>2. /\ pc[p] = "run" /\ stage[h] = "none" /\ owner = None
      /\ Quiet => \A q \in Threads : pc[q] \notin DispatchPcs
      /\ UNCHANGED <<slotTarget, slotDetour, slotArmed, retired, retiredNext, keepHandler,
                     dr, context, fault, hits, handled, todo, at>>
  BY DEF install, tableVars, excVars
<1>3. PICK i \in Slots : slotTarget[i] = None /\ slot' = [slot EXCEPT ![h] = i]
  BY DEF install, FirstFree
<1>4. /\ slot' \in [Hooks -> Slots] /\ slot'[h] = i /\ \A g \in Hooks \ {h} : slot'[g] = slot[g]
  BY <1>1, <1>3 DEF HookType
<1>5. /\ \A q \in Threads : pc[q] \notin LockPcs
      /\ \A g \in Hooks : stage[g] \notin {"arming", "removing"}
  BY <1>2, FreeLock
<1>6. \A q \in Threads : pc[q] \notin InstallPcs \cup RemovePcs
  BY <1>5 DEF LockPcs
<1>7. \A g \in Hooks : stage[g] # "none" => g # h /\ slot[g] # i
  <2>1. \A g \in Hooks : stage[g] # "none" => stage[g] = "live"
    BY <1>1, <1>5 DEF HookType
  <2>2. \A g \in Hooks : HookTarget[g] # None
    BY HookTargetAssumption, NoHook
  <2>3. QED
    BY <1>2, <1>3, <2>1, <2>2 DEF Inv, TableOK
<1>8. CASE UNCHANGED <<handler, owner, stage, missed, arg, pc>>
  <2>1. TypeOK'
    <3>1. TableType' /\ HookType' /\ TrapType' /\ CallType'
      BY <1>1, <1>2, <1>4, <1>8 DEF TableType, HookType, TrapType, CallType
    <3>2. QED
      BY <3>1, TypePartsNext
  <2>2. LockOK'
    BY <1>2, <1>8 DEF Inv, LockOK
  <2>3. SlotOK'
    BY <1>4, <1>7, <1>8 DEF Inv, SlotOK
  <2>4. \A q \in Threads : pc'[q] \notin {"arm", "disarm", "rem_target", "pub_detour", "pub_armed",
                                          "pub_target", "rem_detour"}
    BY <1>6, <1>8 DEF InstallPcs, RemovePcs
  <2>5. TableOK' /\ FaultOK'
    BY <1>2, <1>4, <1>7, <1>8, <2>4 DEF Inv, TableOK, FaultOK
  <2>6. ArmOK'
    <3>1. \A g \in Hooks, r \in Threads : stage[g] # "none" /\ ArmedIn(g, r) => ArmedIn(g, r)'
      BY <1>2, <1>4, <1>7, <1>8 DEF ArmedIn
    <3>2. QED
      BY <1>8, <2>4, <3>1 DEF Inv, ArmOK
  <2>7. QInv => QInv'
    BY <1>2, <1>8, <2>4 DEF QInv, LoadOK, OwnDetour
  <2>8. QED
    BY <2>1, <2>2, <2>3, <2>5, <2>6, <2>7 DEF Inv
<1>9. CASE /\ handler' = TRUE /\ owner' = p /\ stage' = [stage EXCEPT ![h] = "arming"]
           /\ missed' = [missed EXCEPT ![h] = {}] /\ arg' = [arg EXCEPT ![p] = h]
           /\ pc' = [pc EXCEPT ![p] = "pub_detour"]
  <2>1. /\ "pub_detour" \in LockPcs /\ "pub_detour" \in AllPcs
        /\ "pub_detour" \in InstallPcs /\ "pub_detour" \notin RemovePcs
        /\ "pub_detour" \notin DispatchPcs /\ "pub_detour" \notin SavedPcs
    BY DEF LockPcs, InstallPcs, RemovePcs, DispatchPcs, SavedPcs, AllPcs
  <2>2. /\ pc' \in [Threads -> AllPcs] /\ pc'[p] = "pub_detour"
        /\ \A q \in Threads \ {p} : pc'[q] = pc[q]
    BY <1>1, <1>9, <2>1 DEF CallType
  <2>3. /\ stage' \in [Hooks -> {"none", "arming", "live", "removing"}] /\ stage'[h] = "arming"
        /\ \A g \in Hooks \ {h} : stage'[g] = stage[g]
        /\ missed' \in [Hooks -> SUBSET Threads]
        /\ \A g \in Hooks \ {h} : missed'[g] = missed[g]
    BY <1>1, <1>9 DEF HookType
  <2>4. /\ arg' \in [Threads -> Hooks \cup {None}] /\ arg'[p] = h
        /\ \A q \in Threads \ {p} : arg'[q] = arg[q]
    BY <1>1, <1>9 DEF CallType
  <2>5. \A q \in Threads : pc'[q] \in LockPcs => q = p
    BY <1>5, <2>2
  <2>6. TypeOK'
    <3>1. owner' \in Threads \cup {None} /\ handler' \in BOOLEAN
      BY <1>9
    <3>2. TableType' /\ HookType' /\ TrapType'
      BY <1>1, <1>2, <1>4, <2>3, <3>1 DEF TableType, HookType, TrapType
    <3>3. CallType'
      BY <1>1, <1>2, <2>2, <2>4 DEF CallType
    <3>4. QED
      BY <3>2, <3>3, TypePartsNext
  <2>7. LockOK'
    <3>1. \A q \in Threads : pc'[q] \in HandlerPcs \cup LockPcs
      BY <2>1, <2>2 DEF Inv, LockOK
    <3>2. \A q \in Threads : pc'[q] \in LockPcs <=> owner' = q
      BY <1>9, <2>1, <2>2, <2>5
    <3>3. /\ \A q \in Threads : pc'[q] \notin RemovePcs
          /\ \A q \in Threads : pc'[q] \in InstallPcs => arg'[q] = h
      BY <2>1, <2>2, <2>4, <2>5 DEF LockPcs
    <3>4. \A g \in Hooks : stage'[g] \in {"arming", "removing"} => g = h
      BY <1>5, <2>3
    <3>5. \A q \in Threads : pc'[q] # "disarm"
      BY <3>3 DEF RemovePcs
    <3>6. QED
      BY <2>1, <2>2, <2>3, <2>4, <3>1, <3>2, <3>3, <3>4, <3>5 DEF LockOK
  <2>8. SlotOK'
    BY <1>4, <1>7, <2>3 DEF Inv, SlotOK
  <2>9. \A q \in Threads : pc'[q] \notin {"arm", "disarm", "rem_target", "pub_armed", "pub_target",
                                          "rem_detour"}
    BY <2>2, <2>5 DEF LockPcs, InstallPcs, RemovePcs
  <2>10. TableOK'
    <3>1. \A g \in Hooks : stage'[g] = "live" => slotTarget'[slot'[g]] = HookTarget[g]
      BY <1>2, <1>4, <2>3 DEF Inv, TableOK
    <3>2. \A q \in Threads : pc'[q] = "pub_detour" => slotTarget'[slot'[arg'[q]]] = None
      BY <1>2, <1>3, <1>4, <2>4, <2>5 DEF LockPcs, InstallPcs
    <3>3. QED
      BY <1>2, <2>9, <3>1, <3>2 DEF Inv, TableOK
  <2>11. FaultOK'
    BY <1>2, <2>1, <2>2 DEF Inv, FaultOK
  <2>12. ArmOK'
    <3>1. \A g \in Hooks, r \in Threads : stage[g] # "none" /\ ArmedIn(g, r) => ArmedIn(g, r)'
      BY <1>2, <1>4, <1>7, <2>1, <2>2 DEF ArmedIn
    <3>2. QED
      BY <2>3, <2>9, <3>1 DEF Inv, ArmOK
  <2>13. Quiet /\ QInv => QInv'
    <3>1. Quiet => \A q \in Threads : pc'[q] # "load_detour"
      BY <1>2, <2>2 DEF DispatchPcs, SavedPcs
    <3>2. QInv => OwnDetour'
      BY <1>2, <2>2, <2>4 DEF QInv, OwnDetour
    <3>3. QED
      BY <3>1, <3>2 DEF QInv, LoadOK
  <2>14. QED
    BY <2>6, <2>7, <2>8, <2>10, <2>11, <2>12, <2>13 DEF Inv
<1>10. QED
  BY <1>8, <1>9 DEF install, Goto

-----------------------------------------------------------------------------

LEMMA LockedKeeps ==
  ASSUME Inv, NEW p \in Threads, Locked(p)
  PROVE  Inv' /\ (QInv => QInv')
<1>1. CASE arm(p)
  <2>1. PICK q \in Threads : set_debug_register(p, HookTarget[arg[p]], q)
    BY <1>1 DEF arm
  <2>2. PICK value : value = HookTarget[arg[p]]
    OBVIOUS
  <2>3. pc[p] = "arm" /\ set_debug_register(p, value, q)
    BY <1>1, <2>1, <2>2 DEF arm
  <2>4. QED
    BY <2>2, <2>3, set_debug_registerKeeps
<1>2. CASE disarm(p)
  <2>1. PICK q \in Threads : set_debug_register(p, None, q)
    BY <1>2 DEF disarm
  <2>2. pc[p] = "disarm"
    BY <1>2 DEF disarm
  <2>3. QED
    BY <2>1, <2>2, set_debug_registerKeeps
<1>3. QED
  BY <1>1, <1>2, PublishKeeps, RetireKeeps, installedKeeps, rem_detourKeeps, releaseKeeps DEF Locked

LEMMA NextKeeps ==
  ASSUME Inv, [Next]_vars
  PROVE  Inv' /\ (Quiet /\ QInv => QInv')
<1>1. CASE UNCHANGED vars
  <2>1. UNCHANGED <<slotTarget, slotDetour, slotArmed, retired, retiredNext, handler, keepHandler,
                    owner, stage, slot, missed, dr, context, fault, hits, handled, pc, arg, todo, at>>
    BY <1>1 DEF vars, tableVars, managerVars, hookVars, excVars, callVars
  <2>2. TypeOK'
    BY <2>1 DEF Inv, TypeOK
  <2>3. LockOK' /\ SlotOK' /\ TableOK' /\ FaultOK'
    BY <2>1 DEF Inv, LockOK, SlotOK, TableOK, FaultOK
  <2>4. ArmOK'
    BY <2>1 DEF Inv, ArmOK, ArmedIn
  <2>5. QInv => QInv'
    BY <2>1 DEF QInv, LoadOK, OwnDetour
  <2>6. QED
    BY <2>2, <2>3, <2>4, <2>5 DEF Inv
<1>2. CASE Next
  <2>1. PICK p \in Threads : \/ Locked(p) \/ Handle(p) \/ raise(p) \/ return(p)
                             \/ \E h \in Hooks : install(p, h) \/ remove(p, h)
                             \/ \E t \in Targets : trap(p, t)
    BY <1>2 DEF Next
  <2>2. CASE Locked(p)
    BY <2>2, LockedKeeps
  <2>3. CASE Handle(p) \/ return(p)
    BY <2>3, HandleKeeps
  <2>4. CASE raise(p)
    BY <2>4, raiseKeeps
  <2>5. CASE \E h \in Hooks : install(p, h) \/ remove(p, h)
    BY <2>5, installKeeps, removeKeeps
  <2>6. CASE \E t \in Targets : trap(p, t)
    BY <2>6, trapKeeps
  <2>7. QED
    BY <2>1, <2>2, <2>3, <2>4, <2>5, <2>6
<1>3. QED
  BY <1>1, <1>2

-----------------------------------------------------------------------------
(***************************************************************************)
(* Theorems                                                                *)
(***************************************************************************)

LEMMA Invariance == Spec => []Inv
<1>1. Init => Inv
  BY InitInv
<1>2. Inv /\ [Next]_vars => Inv'
  BY NextKeeps
<1>3. QED
  BY <1>1, <1>2, PTL DEF Spec

(***************************************************************************)
(* Every variable keeps its type: no slot index leaves the table, and the  *)
(* ring index stays within the number of removals.                         *)
(***************************************************************************)
THEOREM TypeInvariant == Spec => []TypeOK
<1>1. Inv => TypeOK
  BY DEF Inv
<1>2. QED
  BY <1>1, Invariance, PTL

(***************************************************************************)
(* A live hook is armed in every thread that took the update and was not   *)
(* in an exception then: neither the handler, which rewrites the registers *)
(* saved by a stale trap, nor the end of an exception takes it away.       *)
(***************************************************************************)
THEOREM LiveHooksStayArmed == Spec => []LiveHookIsArmed
<1>1. Inv => LiveHookIsArmed
  BY DEF Inv, ArmOK, ArmedIn, LiveHookIsArmed
<1>2. QED
  BY <1>1, Invariance, PTL

(***************************************************************************)
(* Where no hook is installed while an exception is dispatched, the two    *)
(* loads of the handler, of a slot's target and of its detour, belong to   *)
(* one hook, however removals interleave with them.                        *)
(***************************************************************************)
THEOREM DetoursAreOwn == ASSUME Quiet PROVE Spec => []OwnDetour
<1>1. Init => Inv /\ QInv
  BY InitInv
<1>2. Inv /\ QInv /\ [Next]_vars => Inv' /\ QInv'
  BY NextKeeps
<1>3. QInv => OwnDetour
  BY DEF QInv
<1>4. QED
  BY <1>1, <1>2, <1>3, PTL DEF Spec

-----------------------------------------------------------------------------
(***************************************************************************)
(* Every trap is handled                                                   *)
(***************************************************************************)

(* The registers a thread runs on with, and one that holds a breakpoint    *)
(* its slot is not for.                                                    *)
Held(q) == IF pc[q] \in SavedPcs THEN context[q] ELSE dr[q]
Stale(q, s) == Held(q)[s] \notin {None, slotTarget[s]}

(* A hook is removed while no register but its own is stale: its removal   *)
(* clears that one only.                                                   *)
SettledRemovals ==
    \A h \in Hooks : stage[h] = "live" /\ stage'[h] = "removing" /\ ~keepHandler =>
        \A q \in Threads, s \in Slots \ {slot[h]} : ~Stale(q, s)

(* What the handler can tell of an address, and where it still has to look.*)
RingHas(t) == \E k \in Ring : retired[k] = t
RingOK ==
    /\ \A k \in Ring : k >= retiredNext => retired[k] = None
    /\ \A p \in Threads : pc[p] = "rem_target" => RingHas(HookTarget[arg[p]])
KnownOf(q) ==
    \A s \in Slots :
        /\ dr[q][s] # None => RingHas(dr[q][s]) \/ slotTarget[s] = dr[q][s]
        /\ context[q][s] # None => RingHas(context[q][s]) \/ slotTarget[s] = context[q][s]
TrapOf(q) ==
    /\ pc[q] # "unhandled"
    /\ pc[q] \in {"raised", "trapped"} =>
          RingHas(fault[q]) \/ \E s \in Slots : slotTarget[s] = fault[q]
    /\ pc[q] = "scan" =>
          /\ at[q] > 0
          /\ RingHas(fault[q]) \/ \E s \in Slots : s >= at[q] /\ slotTarget[s] = fault[q]
    /\ pc[q] = "load_detour" => RingHas(fault[q]) \/ slotTarget[at[q]] = fault[q]
    /\ pc[q] \in {"resync", "resync_live", "ring_resync", "resume"} => RingHas(fault[q])
    /\ pc[q] = "ring" => \E k \in Ring : k >= at[q] /\ retired[k] = fault[q]

(* Without the handler no thread is at a trap or can run into one, and a   *)
(* removal that was refused no update leaves no register behind that only  *)
(* the handler would clear.                                                *)
IdleOf(q) == pc[q] \in DispatchPcs => pc[q] = "foreign"
HandlerOK ==
    /\ \A h \in Hooks : stage[h] # "none" => handler
    /\ ~handler => \A q \in Threads : IdleOf(q) /\ \A s \in Slots : Held(q)[s] = None
TodoOK == \A p \in Threads : pc[p] \in {"rem_target", "rem_detour", "release"} => todo[p] = {}
Clean(p, q) ==
    /\ pc[p] \in {"disarm", "rem_target"} =>
          /\ \A s \in Slots \ {slot[arg[p]]} : ~Stale(q, s)
          /\ q \notin todo[p] /\ pc[q] \notin SavedPcs => dr[q][slot[arg[p]]] = None
    /\ pc[p] \in {"rem_detour", "release"} /\ pc[q] \notin SavedPcs =>
          \A s \in Slots : ~Stale(q, s)
CleanOK == ~keepHandler => \A p, q \in Threads : Clean(p, q)
TInv ==
    /\ RingOK /\ TodoOK /\ HandlerOK /\ CleanOK
    /\ \A q \in Threads : KnownOf(q) /\ TrapOf(q)

LEMMA Removing ==
  {"disarm", "rem_target", "rem_detour", "release"} \subseteq LockPcs \cap RemovalPcs
  BY DEF RemovalPcs, LockPcs, InstallPcs, RemovePcs

LEMMA InitTraps == Init => TInv
<1>1. SUFFICES ASSUME Init PROVE TInv
  OBVIOUS
<1>2. \A q \in Threads : pc[q] = "run"
  BY <1>1 DEF Init
<1>3. RingOK /\ TodoOK /\ CleanOK
  BY <1>1, <1>2 DEF Init, RingOK, TodoOK, CleanOK, Clean
<1>4. \A q \in Threads : pc[q] \notin DispatchPcs /\ pc[q] \notin SavedPcs
  BY <1>2 DEF DispatchPcs, SavedPcs
<1>5. \A q \in Threads, s \in Slots : dr[q][s] = None /\ context[q][s] = None
  BY <1>1 DEF Init, NoBreakpoint
<1>6. HandlerOK
  BY <1>1, <1>4, <1>5 DEF Init, HandlerOK, IdleOf, Held
<1>7. \A q \in Threads : KnownOf(q) /\ TrapOf(q)
  BY <1>2, <1>5 DEF KnownOf, TrapOf
<1>8. QED
  BY <1>3, <1>6, <1>7 DEF TInv

(* A step of a thread outside install and remove.                          *)
LEMMA OwnTrap ==
  ASSUME Quiet, Inv, TInv, NEW p \in Threads, pc[p] \in HandlerPcs, NEW l \in HandlerPcs,
         pc' = [pc EXCEPT ![p] = l], UNCHANGED <<tableVars, managerVars, hookVars, todo>>,
         \A q \in Threads \ {p} : /\ dr'[q] = dr[q] /\ context'[q] = context[q]
                                  /\ fault'[q] = fault[q] /\ at'[q] = at[q] /\ arg'[q] = arg[q],
         \A s \in Slots : /\ dr'[p][s] \in {dr[p][s], context[p][s]}
                          /\ context'[p][s] \in {None, dr[p][s], context[p][s], slotTarget[s]},
         \A s \in Slots : \/ Held(p)'[s] = Held(p)[s]
                          \/ handler /\ Held(p)'[s] = slotTarget[s],
         ~handler => IdleOf(p)', TrapOf(p)',
         (dr'[p] = dr[p] /\ (pc[p] \in SavedPcs => l \in SavedPcs)) \/ MayEnd(p)
  PROVE  TInv'
<1>1. /\ UNCHANGED <<slotTarget, slotDetour, slotArmed, retired, retiredNext, handler, keepHandler,
                     owner, stage, slot, missed, todo>>
  BY DEF tableVars, managerVars, hookVars
<1>2. pc \in [Threads -> AllPcs]
  BY TypeParts DEF Inv, CallType
<1>3. pc'[p] = l /\ \A q \in Threads \ {p} : pc'[q] = pc[q]
  BY <1>2
<1>4. pc[p] \notin LockPcs /\ l \notin LockPcs
  BY Pcs
<1>5. \A q \in Threads : pc'[q] \in LockPcs => pc'[q] = pc[q] /\ arg'[q] = arg[q] /\ q # p
  BY <1>3, <1>4
<1>6. \A t : RingHas(t)' <=> RingHas(t)
  BY <1>1 DEF RingHas
<1>7. RingOK'
  BY <1>1, <1>5, <1>6 DEF TInv, RingOK, LockPcs, RemovePcs
<1>8. TodoOK'
  BY <1>1, <1>5 DEF TInv, TodoOK, LockPcs, RemovePcs
<1>9. \A q \in Threads : KnownOf(q)'
  <2>1. \A q \in Threads \ {p} : KnownOf(q)'
    BY <1>1, <1>6 DEF TInv, KnownOf
  <2>2. KnownOf(p)'
    <3>1. KnownOf(p)
      BY DEF TInv
    <3>2. QED
      BY <1>1, <1>6, <3>1 DEF KnownOf
  <2>3. QED
    BY <2>1, <2>2
<1>10. \A q \in Threads : TrapOf(q)'
  <2>1. SUFFICES ASSUME NEW q \in Threads \ {p} PROVE TrapOf(q)'
    OBVIOUS
  <2>2. TrapOf(q) /\ pc'[q] = pc[q] /\ fault'[q] = fault[q] /\ at'[q] = at[q]
    BY <1>3 DEF TInv
  <2>3. QED
    BY <1>1, <1>6, <2>2 DEF TrapOf
<1>11. \A q \in Threads \ {p} : Held(q)' = Held(q) /\ (IdleOf(q) => IdleOf(q)')
  BY <1>3 DEF Held, IdleOf
<1>12. HandlerOK'
  <2>1. HandlerOK
    BY DEF TInv
  <2>2. ~handler => \A q \in Threads : IdleOf(q)' /\ \A s \in Slots : Held(q)'[s] = None
    BY <1>11, <2>1 DEF HandlerOK
  <2>3. QED
    BY <1>1, <2>1, <2>2 DEF HandlerOK
<1>13. \A q \in Threads, s \in Slots : Stale(q, s)' => Stale(q, s)
  BY <1>1, <1>11 DEF Stale
<1>14. CleanOK'
  <2>1. SUFFICES ASSUME ~keepHandler, NEW r \in Threads, NEW q \in Threads PROVE Clean(r, q)'
    BY <1>1 DEF CleanOK
  <2>2. CASE pc'[r] \notin {"disarm", "rem_target", "rem_detour", "release"}
    BY <2>2 DEF Clean
  <2>3. CASE pc'[r] \in {"disarm", "rem_target", "rem_detour", "release"}
    <3>1. pc'[r] \in LockPcs
      BY <2>3, Removing
    <3>2. pc'[r] = pc[r] /\ arg'[r] = arg[r] /\ r # p /\ slot' = slot /\ todo' = todo
      BY <1>1, <1>5, <3>1
    <3>3. Clean(r, q)
      BY <2>1 DEF TInv, CleanOK
    <3>4. CASE q # p \/ (dr'[p] = dr[p] /\ (pc[p] \in SavedPcs => l \in SavedPcs))
      <4>1. dr'[q] = dr[q] /\ (pc'[q] \notin SavedPcs => pc[q] \notin SavedPcs)
        BY <1>3, <3>4
      <4>2. QED
        BY <1>13, <3>2, <3>3, <4>1 DEF Clean
    <3>5. CASE q = p /\ MayEnd(p)
      <4>1. p \in todo[r]
        BY <2>3, <3>2, <3>5, Removing DEF MayEnd
      <4>2. pc[r] \notin {"rem_detour", "release"}
        BY <4>1 DEF TInv, TodoOK
      <4>3. QED
        BY <1>13, <3>2, <3>3, <3>5, <4>1, <4>2 DEF Clean
    <3>6. QED
      BY <3>4, <3>5
  <2>4. QED
    BY <2>2, <2>3
<1>15. QED
  BY <1>7, <1>8, <1>9, <1>10, <1>12, <1>14 DEF TInv

LEMMA trapTraps ==
  ASSUME Quiet, Inv, TInv, NEW p \in Threads, NEW t \in Targets, trap(p, t)
  PROVE  TInv'
<1>1. /\ pc[p] = "run" /\ fault' = [fault EXCEPT ![p] = t] /\ pc' = [pc EXCEPT ![p] = "raised"]
      /\ UNCHANGED <<tableVars, managerVars, hookVars, dr, context, handled, arg, todo, at>>
  BY DEF trap, Goto
<1>2. PICK s \in Slots : dr[p][s] = t
  BY DEF trap
<1>3. TrapType /\ CallType
  BY TypeParts DEF Inv
<1>4. /\ fault'[p] = t /\ pc'[p] = "raised"
      /\ \A q \in Threads \ {p} : fault'[q] = fault[q]
  BY <1>1, <1>3 DEF TrapType, CallType
<1>5. {"run", "raised"} \subseteq HandlerPcs /\ "run" \notin SavedPcs /\ "raised" \notin SavedPcs
  BY DEF HandlerPcs, DispatchPcs, SavedPcs
<1>6. Held(p) = dr[p] /\ Held(p)' = dr[p]
  BY <1>1, <1>4, <1>5 DEF Held
<1>7. handler
  BY <1>2, <1>6, NoHook DEF TInv, HandlerOK
<1>8. RingHas(t) \/ slotTarget[s] = t
  BY <1>2, NoHook DEF TInv, KnownOf
<1>9. TrapOf(p)'
  BY <1>1, <1>4, <1>8 DEF TrapOf, RingHas, tableVars
<1>10. QED
  BY <1>1, <1>4, <1>5, <1>6, <1>7, <1>9, OwnTrap

LEMMA captureTraps ==
  ASSUME Quiet, Inv, TInv, NEW p \in Threads, capture(p)
  PROVE  TInv'
<1>1. /\ pc[p] = "raised" /\ context' = [context EXCEPT ![p] = dr[p]]
      /\ pc' = [pc EXCEPT ![p] = "trapped"]
      /\ UNCHANGED <<tableVars, managerVars, hookVars, dr, fault, handled, arg, todo, at>>
  BY DEF capture, Goto
<1>2. TrapType /\ CallType
  BY TypeParts DEF Inv
<1>3. /\ context'[p] = dr[p] /\ pc'[p] = "trapped"
      /\ \A q \in Threads \ {p} : context'[q] = context[q]
  BY <1>1, <1>2 DEF TrapType, CallType
<1>4. /\ {"raised", "trapped"} \subseteq HandlerPcs /\ "raised" \notin SavedPcs
      /\ "trapped" \in SavedPcs /\ "raised" \in DispatchPcs
  BY DEF HandlerPcs, DispatchPcs, SavedPcs
<1>5. Held(p) = dr[p] /\ Held(p)' = dr[p]
  BY <1>1, <1>3, <1>4 DEF Held
<1>6. handler
  BY <1>1, <1>4 DEF TInv, HandlerOK, IdleOf
<1>7. TrapOf(p)'
  BY <1>1, <1>3 DEF TrapOf, RingHas, tableVars, TInv
<1>8. QED
  BY <1>1, <1>3, <1>4, <1>5, <1>6, <1>7, OwnTrap

LEMMA raiseTraps ==
  ASSUME Quiet, Inv, TInv, NEW p \in Threads, raise(p)
  PROVE  TInv'
<1>1. /\ pc[p] = "run" /\ context' = [context EXCEPT ![p] = dr[p]]
      /\ pc' = [pc EXCEPT ![p] = "foreign"]
      /\ UNCHANGED <<tableVars, managerVars, hookVars, dr, fault, hits, handled, arg, todo, at>>
  BY DEF raise, Goto
<1>2. TrapType /\ CallType
  BY TypeParts DEF Inv
<1>3. /\ context'[p] = dr[p] /\ pc'[p] = "foreign"
      /\ \A q \in Threads \ {p} : context'[q] = context[q]
  BY <1>1, <1>2 DEF TrapType, CallType
<1>4. {"run", "foreign"} \subseteq HandlerPcs /\ "run" \notin SavedPcs /\ "foreign" \in SavedPcs
  BY DEF HandlerPcs, DispatchPcs, SavedPcs
<1>5. Held(p) = dr[p] /\ Held(p)' = dr[p]
  BY <1>1, <1>3, <1>4 DEF Held
<1>6. IdleOf(p)' /\ TrapOf(p)'
  BY <1>3 DEF IdleOf, TrapOf
<1>7. QED
  BY <1>1, <1>3, <1>4, <1>5, <1>6, OwnTrap

(* At a trap the handler is there, and where it has got to changes.        *)
LEMMA AtTrap ==
  ASSUME TInv, NEW p \in Threads, pc[p] \in DispatchPcs \ {"foreign"}
  PROVE  handler
  BY DEF TInv, HandlerOK, IdleOf

LEMMA ScanTrap ==
  ASSUME Quiet, Inv, TInv, NEW p \in Threads, pc[p] \in SavedPcs \ {"foreign"},
         NEW l \in SavedPcs \ {"foreign"}, NEW i,
         pc' = [pc EXCEPT ![p] = l], at' = [at EXCEPT ![p] = i],
         UNCHANGED <<tableVars, managerVars, hookVars, todo, dr, context, fault, arg>>,
         pc'[p] = l /\ at'[p] = i => TrapOf(p)'
  PROVE  TInv'
<1>1. TrapType /\ CallType
  BY TypeParts DEF Inv
<1>2. at'[p] = i /\ pc'[p] = l /\ \A q \in Threads \ {p} : at'[q] = at[q]
  BY <1>1 DEF TrapType, CallType
<1>3. pc[p] \in HandlerPcs /\ l \in HandlerPcs /\ handler
  BY AtTrap DEF HandlerPcs, DispatchPcs, SavedPcs
<1>4. Held(p)' = Held(p)
  BY <1>2 DEF Held
<1>5. QED
  BY <1>2, <1>3, <1>4, OwnTrap

LEMMA dispatchTraps ==
  ASSUME Quiet, Inv, TInv, NEW p \in Threads, dispatch(p)
  PROVE  TInv'
<1>1. /\ pc[p] = "trapped" /\ pc' = [pc EXCEPT ![p] = IF handler THEN "scan" ELSE "unhandled"]
      /\ at' = [at EXCEPT ![p] = 1]
      /\ UNCHANGED <<tableVars, managerVars, hookVars, dr, context, fault, hits, arg, todo>>
  BY DEF dispatch, Goto
<1>2. /\ {"trapped", "scan"} \subseteq SavedPcs \ {"foreign"}
      /\ "trapped" \in DispatchPcs \ {"foreign"}
  BY DEF SavedPcs, DispatchPcs
<1>3. handler
  BY <1>1, <1>2, AtTrap
<1>4. ASSUME pc'[p] = "scan", at'[p] = 1 PROVE TrapOf(p)'
  <2>1. RingHas(fault[p]) \/ \E s \in Slots : slotTarget[s] = fault[p]
    BY <1>1 DEF TInv, TrapOf
  <2>2. \A s \in Slots : s >= 1
    BY SlotsAssumption DEF Slots
  <2>3. QED
    BY <1>1, <1>4, <2>1, <2>2 DEF TrapOf, RingHas, tableVars
<1>5. QED
  BY <1>1, <1>2, <1>3, <1>4, ScanTrap

LEMMA veh_handlerTraps ==
  ASSUME Quiet, Inv, TInv, NEW p \in Threads, veh_handler(p)
  PROVE  TInv'
<1>1. /\ pc[p] = "scan"
      /\ UNCHANGED <<tableVars, managerVars, hookVars, todo, dr, context, fault, hits, arg, handled>>
  BY DEF veh_handler, Look
<1>2. /\ at[p] > 0 /\ at[p] \in Nat
      /\ RingHas(fault[p]) \/ \E s \in Slots : s >= at[p] /\ slotTarget[s] = fault[p]
  BY <1>1, AtIs DEF TInv, TrapOf
<1>3. {"scan", "load_detour", "resync"} \subseteq SavedPcs \ {"foreign"}
  BY DEF SavedPcs
<1>4. slotTarget' = slotTarget /\ fault' = fault /\ \A t : RingHas(t)' <=> RingHas(t)
  BY <1>1 DEF tableVars, RingHas
<1>5. CASE at[p] \in Slots /\ slotTarget[at[p]] = fault[p] /\ To(p, "load_detour", at[p])
  <2>1. pc'[p] = "load_detour" /\ at'[p] = at[p] => TrapOf(p)'
    BY <1>4, <1>5 DEF TrapOf
  <2>2. QED
    BY <1>1, <1>3, <1>5, <2>1, ScanTrap DEF To, Goto
<1>6. CASE at[p] \in Slots /\ slotTarget[at[p]] # fault[p] /\ To(p, "scan", at[p] + 1)
  <2>1. RingHas(fault[p]) \/ \E s \in Slots : s >= at[p] + 1 /\ slotTarget[s] = fault[p]
    BY <1>2, <1>6 DEF Slots
  <2>2. pc'[p] = "scan" /\ at'[p] = at[p] + 1 => TrapOf(p)'
    BY <1>2, <1>4, <2>1 DEF TrapOf
  <2>3. QED
    BY <1>1, <1>3, <1>6, <2>2, ScanTrap DEF To, Goto
<1>7. CASE at[p] \notin Slots /\ To(p, "resync", 1)
  <2>1. RingHas(fault[p])
    BY <1>2, <1>7, SlotsAssumption DEF Slots
  <2>2. pc'[p] = "resync" => TrapOf(p)'
    BY <1>4, <2>1 DEF TrapOf
  <2>3. QED
    BY <1>1, <1>3, <1>7, <2>2, ScanTrap DEF To, Goto
<1>8. QED
  BY <1>5, <1>6, <1>7 DEF veh_handler

LEMMA resyncTraps ==
  ASSUME Quiet, Inv, TInv, NEW p \in Threads, resync(p)
  PROVE  TInv'
<1>1. /\ pc[p] = "resync"
      /\ UNCHANGED <<tableVars, managerVars, hookVars, todo, dr, context, fault, hits, arg, handled>>
  BY DEF resync, Look
<1>2. RingHas(fault[p])
  BY <1>1 DEF TInv, TrapOf
<1>3. {"resync", "resync_live", "resume", "ring"} \subseteq SavedPcs \ {"foreign"}
  BY DEF SavedPcs
<1>4. fault' = fault /\ RingHas(fault[p])' /\ \E k \in Ring : k >= 0 /\ retired'[k] = fault[p]
  BY <1>1, <1>2 DEF tableVars, RingHas, Ring
<1>5. PICK l \in {"resync", "resync_live", "resume", "ring"}, i \in 0 .. NumSlots + RetiredLen :
         /\ pc' = [pc EXCEPT ![p] = l] /\ at' = [at EXCEPT ![p] = i]
         /\ l = "ring" => i = 0
  <2>1. CASE at[p] \in Slots
    BY <2>1, AtIs DEF resync, To, Goto
  <2>2. CASE at[p] \notin Slots
    BY <2>2, AtIs DEF resync, To, Goto
  <2>3. QED
    BY <2>1, <2>2
<1>6. pc'[p] = l /\ at'[p] = i => TrapOf(p)'
  BY <1>4, <1>5 DEF TrapOf
<1>7. QED
  BY <1>1, <1>3, <1>5, <1>6, ScanTrap

LEMMA ring_scanTraps ==
  ASSUME Quiet, Inv, TInv, NEW p \in Threads, ring_scan(p)
  PROVE  TInv'
<1>1. /\ pc[p] = "ring"
      /\ UNCHANGED <<tableVars, managerVars, hookVars, todo, dr, context, fault, hits, arg, handled>>
  BY DEF ring_scan, Look
<1>2. at[p] \in Nat
  BY AtIs
<1>3. PICK k \in Ring : k >= at[p] /\ retired[k] = fault[p]
  BY <1>1 DEF TInv, TrapOf
<1>4. {"ring", "ring_resync"} \subseteq SavedPcs \ {"foreign"}
  BY DEF SavedPcs
<1>5. fault' = fault /\ retired' = retired
  BY <1>1 DEF tableVars
<1>6. at[p] \in Ring
  BY <1>2, <1>3, RingAssumption DEF Ring
<1>7. CASE retired[at[p]] = fault[p] /\ To(p, "ring_resync", 1)
  <2>1. pc'[p] = "ring_resync" => TrapOf(p)'
    BY <1>3, <1>5 DEF TrapOf, RingHas
  <2>2. QED
    BY <1>1, <1>4, <1>7, <2>1, ScanTrap DEF To, Goto
<1>8. CASE retired[at[p]] # fault[p] /\ To(p, "ring", at[p] + 1)
  <2>1. k >= at[p] + 1
    BY <1>2, <1>3, <1>8 DEF Ring
  <2>2. pc'[p] = "ring" /\ at'[p] = at[p] + 1 => TrapOf(p)'
    BY <1>3, <1>5, <2>1 DEF TrapOf
  <2>3. QED
    BY <1>1, <1>4, <1>8, <2>2, ScanTrap DEF To, Goto
<1>9. QED
  BY <1>6, <1>7, <1>8 DEF ring_scan

LEMMA ProgramTrap ==
  ASSUME Quiet, Inv, TInv, NEW p \in Threads, pc[p] \in {"resync_live", "ring_resync"},
         NEW s \in Slots, program_slot(p, s), NEW l \in {"resync", "ring_resync"}, NEW i,
         pc' = [pc EXCEPT ![p] = l], at' = [at EXCEPT ![p] = i],
         UNCHANGED <<tableVars, managerVars, hookVars, todo, dr, fault, arg>>
  PROVE  TInv'
<1>1. TableType /\ TrapType /\ CallType
  BY TypeParts DEF Inv
<1>2. pc'[p] = l /\ \A q \in Threads \ {p} : at'[q] = at[q]
  BY <1>1 DEF TrapType, CallType
<1>3. context[p] \in Registers
  BY <1>1 DEF TrapType
<1>4. context' = [context EXCEPT ![p] = [context[p] EXCEPT ![s] = slotTarget[s]]]
  BY <1>3 DEF program_slot, Registers
<1>5. /\ \A q \in Threads \ {p} : context'[q] = context[q]
      /\ context'[p] = [context[p] EXCEPT ![s] = slotTarget[s]]
  BY <1>1, <1>4 DEF TrapType
<1>6. \A u \in Slots : context'[p][u] = context[p][u] \/ context'[p][u] = slotTarget[u]
  BY <1>3, <1>5 DEF Registers
<1>7. /\ pc[p] \in HandlerPcs /\ l \in HandlerPcs /\ pc[p] \in SavedPcs /\ l \in SavedPcs
      /\ pc[p] \in DispatchPcs \ {"foreign"}
  BY DEF HandlerPcs, DispatchPcs, SavedPcs
<1>8. handler /\ Held(p) = context[p] /\ Held(p)' = context'[p]
  BY <1>2, <1>7, AtTrap DEF Held
<1>9. RingHas(fault[p])
  BY DEF TInv, TrapOf
<1>10. TrapOf(p)'
  BY <1>2, <1>9 DEF TrapOf, RingHas, tableVars
<1>11. QED
  BY <1>2, <1>5, <1>6, <1>7, <1>8, <1>10, OwnTrap

LEMMA resync_liveTraps ==
  ASSUME Quiet, Inv, TInv, NEW p \in Threads, resync_live(p)
  PROVE  TInv'
<1>1. /\ pc[p] = "resync_live" /\ program_slot(p, at[p])
      /\ pc' = [pc EXCEPT ![p] = "resync"] /\ at' = [at EXCEPT ![p] = at[p] + 1]
      /\ UNCHANGED <<tableVars, managerVars, hookVars, todo, dr, fault, hits, arg>>
  BY DEF resync_live, Look, To, Goto
<1>2. at[p] \in Slots
  BY <1>1 DEF Inv, FaultOK
<1>3. QED
  BY <1>1, <1>2, ProgramTrap

LEMMA ring_resyncTraps ==
  ASSUME Quiet, Inv, TInv, NEW p \in Threads, ring_resync(p)
  PROVE  TInv'
<1>1. /\ pc[p] = "ring_resync"
      /\ UNCHANGED <<tableVars, managerVars, hookVars, todo, dr, fault, hits, arg, handled>>
  BY DEF ring_resync, Look
<1>2. {"ring_resync", "resume"} \subseteq SavedPcs \ {"foreign"}
  BY DEF SavedPcs
<1>3. RingHas(fault[p])
  BY <1>1 DEF TInv, TrapOf
<1>4. CASE context' = context
  <2>1. PICK l \in {"ring_resync", "resume"}, i \in 0 .. NumSlots + RetiredLen :
           pc' = [pc EXCEPT ![p] = l] /\ at' = [at EXCEPT ![p] = i]
    BY AtIs DEF ring_resync, To, Goto
  <2>2. pc'[p] = l => TrapOf(p)'
    BY <1>1, <1>3, <2>1 DEF TrapOf, RingHas, tableVars
  <2>3. QED
    BY <1>1, <1>2, <1>4, <2>1, <2>2, ScanTrap
<1>5. CASE at[p] \in Slots /\ program_slot(p, at[p]) /\ To(p, "ring_resync", at[p] + 1)
  BY <1>1, <1>5, ProgramTrap DEF To, Goto
<1>6. QED
  BY <1>4, <1>5 DEF ring_resync

(* The end of a dispatch, with the saved registers.                        *)
LEMMA ContinueTrap ==
  ASSUME Quiet, Inv, TInv, NEW p \in Threads, pc[p] \in SavedPcs, NEW l \in {"run", "detour"},
         Continue(p, l), \A q \in Threads \ {p} : fault'[q] = fault[q] /\ arg'[q] = arg[q]
  PROVE  TInv'
<1>1. /\ MayEnd(p) /\ dr' = [dr EXCEPT ![p] = context[p]]
      /\ context' = [context EXCEPT ![p] = NoBreakpoint] /\ at' = [at EXCEPT ![p] = 0]
      /\ pc' = [pc EXCEPT ![p] = l]
      /\ UNCHANGED <<tableVars, managerVars, hookVars, handled, todo>>
  BY DEF Continue, Goto
<1>2. TrapType /\ CallType
  BY TypeParts DEF Inv
<1>3. /\ dr'[p] = context[p] /\ context'[p] = NoBreakpoint /\ pc'[p] = l
      /\ \A q \in Threads \ {p} : dr'[q] = dr[q] /\ context'[q] = context[q] /\ at'[q] = at[q]
  BY <1>1, <1>2 DEF TrapType, CallType
<1>4. \A s \in Slots : context'[p][s] = None
  BY <1>3 DEF NoBreakpoint
<1>5. pc[p] \in HandlerPcs /\ l \in HandlerPcs /\ l \notin DispatchPcs /\ l \notin SavedPcs
  BY DEF HandlerPcs, DispatchPcs, SavedPcs
<1>6. Held(p)' = Held(p) /\ IdleOf(p)'
  BY <1>3, <1>5 DEF Held, IdleOf
<1>7. TrapOf(p)'
  BY <1>3 DEF TrapOf
<1>8. QED
  BY <1>1, <1>3, <1>4, <1>5, <1>6, <1>7, OwnTrap

LEMMA load_detourTraps ==
  ASSUME Quiet, Inv, TInv, NEW p \in Threads, load_detour(p)
  PROVE  TInv'
<1>1. pc[p] = "load_detour" /\ "load_detour" \in SavedPcs \ {"foreign"} /\ "scan" \in SavedPcs \ {"foreign"}
  BY DEF load_detour, SavedPcs
<1>2. at[p] \in Slots /\ fault[p] \in Targets
  BY <1>1 DEF Inv, FaultOK, DispatchPcs
<1>3. CASE slotDetour[at[p]] # None
  <2>1. Continue(p, "detour") /\ fault' = fault /\ arg' = [arg EXCEPT ![p] = slotDetour[at[p]]]
    BY <1>3 DEF load_detour
  <2>2. \A q \in Threads \ {p} : arg'[q] = arg[q]
    BY <2>1, TypeParts DEF Inv, CallType
  <2>3. QED
    BY <1>1, <2>1, <2>2, ContinueTrap
<1>4. CASE slotDetour[at[p]] = None
  <2>1. /\ pc' = [pc EXCEPT ![p] = "scan"] /\ at' = [at EXCEPT ![p] = at[p] + 1]
        /\ UNCHANGED <<tableVars, managerVars, hookVars, todo, dr, context, fault, hits, arg, handled>>
    BY <1>4 DEF load_detour, Look, To, Goto
  <2>2. slotTarget[at[p]] = None
    BY <1>2, <1>4, NoHook DEF Inv, TableOK
  <2>3. RingHas(fault[p])
    BY <1>1, <1>2, <2>2, NoHook DEF TInv, TrapOf
  <2>4. at[p] + 1 > 0
    BY <1>2 DEF Slots
  <2>5. pc'[p] = "scan" /\ at'[p] = at[p] + 1 => TrapOf(p)'
    BY <2>1, <2>3, <2>4 DEF TrapOf, RingHas, tableVars
  <2>6. QED
    BY <1>1, <2>1, <2>5, ScanTrap
<1>5. QED
  BY <1>3, <1>4

LEMMA HandleTraps ==
  ASSUME Quiet, Inv, TInv, NEW p \in Threads, Handle(p) \/ return(p)
  PROVE  TInv'
<1>1. CASE resume(p)
  <2>1. pc[p] = "resume" /\ Continue(p, "run") /\ fault' = [fault EXCEPT ![p] = None] /\ arg' = arg
    BY <1>1 DEF resume
  <2>2. "resume" \in SavedPcs /\ \A q \in Threads \ {p} : fault'[q] = fault[q]
    BY <2>1, TypeParts DEF Inv, TrapType, SavedPcs
  <2>3. QED
    BY <2>1, <2>2, ContinueTrap
<1>2. CASE foreign_end(p)
  BY <1>2, ContinueTrap DEF foreign_end, SavedPcs
<1>3. CASE return(p)
  <2>1. /\ pc[p] = "detour" /\ pc' = [pc EXCEPT ![p] = "run"] /\ arg' = [arg EXCEPT ![p] = None]
        /\ fault' = [fault EXCEPT ![p] = None]
        /\ UNCHANGED <<tableVars, managerVars, hookVars, dr, context, hits, handled, todo, at>>
    BY <1>3 DEF return, Goto
  <2>2. /\ pc'[p] = "run" /\ \A q \in Threads \ {p} : fault'[q] = fault[q] /\ arg'[q] = arg[q]
    BY <2>1, TypeParts DEF Inv, TrapType, CallType
  <2>3. /\ {"run", "detour"} \subseteq HandlerPcs /\ {"run", "detour"} \cap DispatchPcs = {}
        /\ {"run", "detour"} \cap SavedPcs = {}
    BY DEF HandlerPcs, DispatchPcs, SavedPcs
  <2>4. Held(p)' = Held(p) /\ IdleOf(p)' /\ TrapOf(p)'
    BY <2>1, <2>2, <2>3 DEF Held, IdleOf, TrapOf
  <2>5. QED
    BY <2>1, <2>2, <2>3, <2>4, OwnTrap
<1>4. QED
  BY <1>1, <1>2, <1>3, captureTraps, dispatchTraps, veh_handlerTraps, load_detourTraps, resyncTraps,
     resync_liveTraps, ring_scanTraps, ring_resyncTraps DEF Handle

-----------------------------------------------------------------------------

(* A step under the manager's lock: what was known of an address stays     *)
(* known.                                                                  *)
LEMMA LockTrap ==
  ASSUME Inv, TInv, NEW p \in Threads, \A q \in Threads \ {p} : pc[q] \notin LockPcs,
         NEW l \in LockPcs \cup {"run"}, pc' = [pc EXCEPT ![p] = l],
         UNCHANGED <<context, fault, at>>,
         \A k \in Ring : retired[k] # None => retired'[k] = retired[k],
         \A s \in Slots : slotTarget[s] # None =>
             slotTarget'[s] = slotTarget[s] \/ RingHas(slotTarget[s]),
         \A q \in Threads, s \in Slots : dr'[q][s] \in {None, dr[q][s], slotTarget'[s]},
         l \in {"rem_target", "rem_detour", "release"} => todo'[p] = {},
         RingOK', HandlerOK', ~keepHandler' => \A q \in Threads : Clean(p, q)'
  PROVE  TInv'
<1>1. CallType
  BY TypeParts DEF Inv
<1>2. pc'[p] = l /\ \A q \in Threads \ {p} : pc'[q] = pc[q]
  BY <1>1 DEF CallType
<1>3. \A q \in Threads \ {p} : pc'[q] \notin LockPcs
  BY <1>2
<1>4. \A t : t # None /\ RingHas(t) => RingHas(t)'
  BY DEF RingHas
<1>5. TodoOK'
  BY <1>2, <1>3, Removing DEF TodoOK
<1>6. CleanOK'
  BY <1>3, Removing DEF CleanOK, Clean
<1>7. ASSUME NEW q \in Threads PROVE KnownOf(q)'
  <2>1. SUFFICES ASSUME NEW s \in Slots, NEW t, t # None, t \in {dr'[q][s], context'[q][s]}
                 PROVE  RingHas(t)' \/ slotTarget'[s] = t
    BY DEF KnownOf
  <2>2. CASE t = slotTarget'[s]
    BY <2>2
  <2>3. CASE t \in {dr[q][s], context[q][s]}
    <3>1. RingHas(t) \/ slotTarget[s] = t
      BY <2>1, <2>3 DEF TInv, KnownOf
    <3>2. QED
      BY <1>4, <2>1, <3>1
  <2>4. QED
    BY <2>1, <2>2, <2>3
<1>8. ASSUME NEW q \in Threads PROVE TrapOf(q)'
  <2>1. CASE q = p
    BY <1>2, <2>1, Pcs DEF TrapOf, LockPcs, InstallPcs, RemovePcs
  <2>2. CASE q # p
    <3>1. TrapOf(q) /\ pc'[q] = pc[q] /\ fault' = fault /\ at' = at
      BY <1>2, <2>2 DEF TInv
    <3>2. /\ pc[q] \in {"raised", "trapped", "scan", "load_detour", "resync", "resync_live",
                        "ring_resync", "resume", "ring"} => fault[q] # None
          /\ pc[q] = "load_detour" => at[q] \in Slots
      BY NoHook DEF Inv, FaultOK, DispatchPcs, SavedPcs
    <3>3. \A s \in Slots : slotTarget[s] = fault[q] /\ fault[q] # None =>
             RingHas(fault[q])' \/ slotTarget'[s] = fault[q]
      BY <1>4
    <3>4. \A k \in Ring : retired[k] = fault[q] /\ fault[q] # None => retired'[k] = fault[q]
      OBVIOUS
    <3>5. QED
      BY <1>4, <3>1, <3>2, <3>3, <3>4 DEF TrapOf
  <2>3. QED
    BY <2>1, <2>2
<1>9. QED
  BY <1>5, <1>6, <1>7, <1>8 DEF TInv

(* The registers of the threads are as they were, and so is the table for  *)
(* the slots of a removal.                                                 *)
LEMMA SameHeld ==
  ASSUME Inv, NEW p \in Threads, NEW l \in LockPcs \cup {"run"}, pc[p] \in LockPcs \cup {"run"},
         pc' = [pc EXCEPT ![p] = l], UNCHANGED <<context, dr>>
  PROVE  /\ \A q \in Threads : /\ Held(q)' = Held(q) /\ (IdleOf(q) => IdleOf(q)')
                               /\ pc'[q] \in SavedPcs <=> pc[q] \in SavedPcs
         /\ pc'[p] = l /\ \A q \in Threads \ {p} : pc'[q] = pc[q]
<1>1. pc'[p] = l /\ \A q \in Threads \ {p} : pc'[q] = pc[q]
  BY TypeParts DEF Inv, CallType
<1>2. l \notin DispatchPcs /\ pc[p] \notin DispatchPcs /\ l \notin SavedPcs /\ pc[p] \notin SavedPcs
  BY Pcs DEF LockPcs, InstallPcs, RemovePcs, DispatchPcs, SavedPcs
<1>3. QED
  BY <1>1, <1>2 DEF Held, IdleOf

LEMMA PublishTraps ==
  ASSUME Inv, TInv, NEW p \in Threads, pub_detour(p) \/ pub_armed(p) \/ pub_target(p)
  PROVE  TInv'
<1>1. PICK l \in {"pub_armed", "pub_target", "arm"} :
         /\ pc[p] \in {"pub_detour", "pub_armed", "pub_target"} /\ pc' = [pc EXCEPT ![p] = l]
         /\ UNCHANGED <<retired, retiredNext, managerVars, hookVars, dr, excVars, arg, at>>
         /\ slotTarget' = slotTarget
            \/ slotTarget' = [slotTarget EXCEPT ![slot[arg[p]]] = HookTarget[arg[p]]]
  BY DEF pub_detour, pub_armed, pub_target, Publish, Goto
<1>2. /\ pc[p] \in InstallPcs /\ l \in LockPcs /\ pc[p] \in LockPcs
  BY <1>1 DEF InstallPcs, LockPcs
<1>3. \A q \in Threads \ {p} : pc[q] \notin LockPcs
  BY <1>2, MyHook
<1>4. slot[arg[p]] \in Slots /\ slotTarget[slot[arg[p]]] = None
  BY <1>1, <1>2, MyHook DEF Inv, TableOK
<1>5. \A s \in Slots : slotTarget[s] # None => slotTarget'[s] = slotTarget[s]
  BY <1>1, <1>4, TypeParts DEF Inv, TableType, Registers
<1>6. UNCHANGED <<context, fault, at, dr, handler, keepHandler, stage, slot, arg>>
  BY <1>1 DEF excVars, hookVars, managerVars
<1>7. /\ \A q \in Threads : Held(q)' = Held(q) /\ (IdleOf(q) => IdleOf(q)')
      /\ pc'[p] = l /\ \A q \in Threads \ {p} : pc'[q] = pc[q]
  BY <1>1, <1>2, <1>6, SameHeld
<1>8. RingOK'
  BY <1>1, <1>6, <1>7 DEF TInv, RingOK, RingHas
<1>9. HandlerOK'
  BY <1>6, <1>7 DEF TInv, HandlerOK
<1>10. \A q \in Threads : Clean(p, q)'
  BY <1>1, <1>7 DEF Clean
<1>11. QED
  BY <1>1, <1>2, <1>3, <1>5, <1>6, <1>8, <1>9, <1>10, LockTrap

LEMMA installedTraps ==
  ASSUME Inv, TInv, NEW p \in Threads, installed(p)
  PROVE  TInv'
<1>1. /\ pc[p] = "arm" /\ stage' = [stage EXCEPT ![arg[p]] = "live"] /\ pc' = [pc EXCEPT ![p] = "run"]
      /\ arg' = [arg EXCEPT ![p] = None]
      /\ UNCHANGED <<tableVars, handler, keepHandler, slot, missed, dr, excVars, todo, at>>
  BY DEF installed, Goto
<1>2. pc[p] \in InstallPcs /\ pc[p] \in LockPcs
  BY <1>1 DEF InstallPcs, LockPcs
<1>3. /\ \A q \in Threads \ {p} : pc[q] \notin LockPcs
      /\ arg[p] \in Hooks /\ stage[arg[p]] # "none"
  BY <1>2, MyHook
<1>4. UNCHANGED <<context, fault, at, dr, retired, retiredNext, slotTarget>>
  BY <1>1 DEF excVars, tableVars
<1>5. /\ \A q \in Threads : Held(q)' = Held(q) /\ (IdleOf(q) => IdleOf(q)')
      /\ pc'[p] = "run" /\ \A q \in Threads \ {p} : pc'[q] = pc[q]
  BY <1>1, <1>2, <1>4, SameHeld
<1>6. \A q \in Threads \ {p} : arg'[q] = arg[q]
  BY <1>1, TypeParts DEF Inv, CallType
<1>7. RingOK'
  BY <1>4, <1>5, <1>6 DEF TInv, RingOK, RingHas
<1>8. \A h \in Hooks : stage'[h] # "none" => stage[h] # "none"
  BY <1>1, <1>3, TypeParts DEF Inv, HookType
<1>9. HandlerOK'
  BY <1>1, <1>5, <1>8 DEF TInv, HandlerOK
<1>10. \A q \in Threads : Clean(p, q)'
  BY <1>5 DEF Clean
<1>11. QED
  BY <1>1, <1>3, <1>4, <1>7, <1>9, <1>10, LockTrap

(* An update of one thread's register, by arm or by disarm.                *)
LEMMA UpdateTraps ==
  ASSUME Inv, TInv, NEW p \in Threads, NEW value, NEW q \in Threads,
         set_debug_register(p, value, q),
         \/ pc[p] = "arm" /\ value = HookTarget[arg[p]]
         \/ pc[p] = "disarm" /\ value = None
  PROVE  TInv'
<1>1. pc[p] \in InstallPcs \cup RemovePcs /\ pc[p] \in LockPcs
  BY DEF InstallPcs, RemovePcs, LockPcs
<1>2. PICK refused \in BOOLEAN :
         /\ dr' = IF refused THEN dr ELSE [dr EXCEPT ![q][slot[arg[p]]] = value]
         /\ keepHandler' = (keepHandler \/ (refused /\ value = None))
  BY FaultsAssumption DEF set_debug_register
<1>3. /\ todo' = [todo EXCEPT ![p] = @ \ {q}]
      /\ UNCHANGED <<tableVars, handler, owner, stage, slot, excVars, pc, arg, at>>
  BY DEF set_debug_register
<1>4. /\ \A r \in Threads \ {p} : pc[r] \notin LockPcs
      /\ arg[p] \in Hooks /\ stage[arg[p]] # "none" /\ slot[arg[p]] \in Slots
      /\ HookTarget[arg[p]] \in Targets
  BY <1>1, MyHook
<1>5. slotTarget[slot[arg[p]]] = HookTarget[arg[p]]
  BY DEF Inv, TableOK
<1>6. UNCHANGED <<context, fault, at, retired, retiredNext, slotTarget>>
  BY <1>3 DEF excVars, tableVars
<1>7. TrapType /\ CallType
  BY TypeParts DEF Inv
<1>8. \A r \in Threads, s \in Slots :
         dr'[r][s] = IF ~refused /\ r = q /\ s = slot[arg[p]] THEN value ELSE dr[r][s]
  <2>1. CASE refused
    BY <1>2, <2>1
  <2>2. CASE ~refused
    <3>1. dr \in [Threads -> Registers] /\ dr[q] \in [Slots -> Targets \cup {None}]
      BY <1>7 DEF TrapType, Registers
    <3>2. dr' = [dr EXCEPT ![q] = [dr[q] EXCEPT ![slot[arg[p]]] = value]]
      BY <1>2, <2>2
    <3>3. dr'[q] = [dr[q] EXCEPT ![slot[arg[p]]] = value] /\ \A r \in Threads \ {q} : dr'[r] = dr[r]
      BY <3>1, <3>2
    <3>4. QED
      BY <2>2, <3>1, <3>3, <1>4
  <2>3. QED
    BY <2>1, <2>2
<1>9. \A r \in Threads, s \in Slots : dr'[r][s] \in {None, dr[r][s], slotTarget'[s]}
  BY <1>5, <1>6, <1>8
<1>10. RingOK'
  BY <1>3, <1>6 DEF TInv, RingOK, RingHas
<1>11. HandlerOK'
  <2>1. handler
    BY <1>4 DEF TInv, HandlerOK
  <2>2. QED
    BY <1>3, <2>1 DEF HandlerOK
<1>12. ASSUME ~keepHandler', NEW r \in Threads PROVE Clean(p, r)'
  <2>1. CASE pc[p] = "arm"
    BY <1>3, <2>1 DEF Clean
  <2>2. CASE pc[p] = "disarm"
    <3>1. value = None /\ ~refused /\ ~keepHandler
      BY <1>2, <1>12, <2>2
    <3>2. Clean(p, r)
      BY <3>1 DEF TInv, CleanOK
    <3>3. \A s \in Slots \ {slot[arg[p]]} : Held(r)'[s] = Held(r)[s]
      BY <1>3, <1>6, <1>8 DEF Held
    <3>4. \A s \in Slots \ {slot[arg[p]]} : ~Stale(r, s)'
      BY <1>6, <2>2, <3>2, <3>3 DEF Stale, Clean
    <3>5. r \notin todo'[p] => r = q \/ r \notin todo[p]
      BY <1>3, <1>7 DEF CallType
    <3>6. r \notin todo'[p] /\ pc[r] \notin SavedPcs => dr'[r][slot[arg[p]]] = None
      BY <1>4, <1>8, <2>2, <3>1, <3>2, <3>5 DEF Clean
    <3>7. QED
      BY <1>3, <2>2, <3>4, <3>6 DEF Clean
  <2>3. QED
    BY <2>1, <2>2
<1>13. PICK l \in LockPcs : l = pc[p] /\ l \notin {"rem_target", "rem_detour", "release"}
  BY <1>1
<1>14. pc' = [pc EXCEPT ![p] = l]
  BY <1>3, <1>7, <1>13 DEF CallType
<1>15. QED
  BY <1>4, <1>6, <1>9, <1>10, <1>11, <1>12, <1>13, <1>14, LockTrap

LEMMA rem_retireTraps ==
  ASSUME MaxRemovals <= RetiredLen, Inv, TInv, NEW p \in Threads, rem_retire(p)
  PROVE  TInv'
<1>1. /\ pc[p] = "disarm" /\ todo[p] = {} /\ pc' = [pc EXCEPT ![p] = "rem_target"]
      /\ retired' = [retired EXCEPT ![retiredNext % RetiredLen] = HookTarget[arg[p]]]
      /\ retiredNext' = retiredNext + 1
      /\ UNCHANGED <<slotTarget, slotDetour, stage, arg>>
      /\ UNCHANGED <<slotArmed, managerVars, slot, missed, dr, excVars, todo, at>>
  BY DEF rem_retire, Removal, Goto
<1>2. pc[p] \in RemovePcs /\ pc[p] \in LockPcs /\ "rem_target" \in LockPcs
  BY <1>1 DEF RemovePcs, LockPcs
<1>3. /\ \A q \in Threads \ {p} : pc[q] \notin LockPcs
      /\ arg[p] \in Hooks /\ slot[arg[p]] \in Slots /\ HookTarget[arg[p]] \in Targets
  BY <1>2, MyHook
<1>4. UNCHANGED <<context, fault, at, dr, slotTarget, handler, keepHandler, stage, slot, arg, todo>>
  BY <1>1 DEF excVars, managerVars
<1>5. /\ \A q \in Threads : Held(q)' = Held(q) /\ (IdleOf(q) => IdleOf(q)')
      /\ \A q \in Threads : pc'[q] \in SavedPcs <=> pc[q] \in SavedPcs
      /\ pc'[p] = "rem_target" /\ \A q \in Threads \ {p} : pc'[q] = pc[q]
  BY <1>1, <1>2, <1>4, SameHeld
<1>6. /\ retired \in [Ring -> Targets \cup {None}] /\ retiredNext \in Nat /\ retiredNext < RetiredLen
      /\ retiredNext \in Ring
  BY <1>1, RingAssumption, TypeParts DEF Inv, TableType, LockOK, Ring
<1>7. retiredNext % RetiredLen = retiredNext
  BY <1>6, RingAssumption
<1>8. retired[retiredNext] = None
  BY <1>6 DEF TInv, RingOK
<1>9. \A k \in Ring : retired'[k] = IF k = retiredNext THEN HookTarget[arg[p]] ELSE retired[k]
  BY <1>1, <1>6, <1>7
<1>10. \A k \in Ring : retired[k] # None => retired'[k] = retired[k]
  BY <1>8, <1>9
<1>11. RingOK'
  <2>1. \A k \in Ring : k >= retiredNext' => retired'[k] = None
    BY <1>1, <1>6, <1>9 DEF TInv, RingOK, Ring
  <2>2. RingHas(HookTarget[arg[p]])'
    BY <1>4, <1>6, <1>9 DEF RingHas
  <2>3. \A q \in Threads : pc'[q] = "rem_target" => q = p
    BY <1>2, <1>3, <1>5
  <2>4. QED
    BY <2>1, <2>2, <2>3 DEF RingOK
<1>12. HandlerOK'
  BY <1>4, <1>5 DEF TInv, HandlerOK
<1>13. ASSUME ~keepHandler', NEW q \in Threads PROVE Clean(p, q)'
  <2>1. Clean(p, q)
    BY <1>4, <1>13 DEF TInv, CleanOK
  <2>2. QED
    BY <1>1, <1>4, <1>5, <2>1 DEF Clean, Stale
<1>14. QED
  BY <1>1, <1>2, <1>3, <1>4, <1>10, <1>11, <1>12, <1>13, LockTrap

LEMMA rem_targetTraps ==
  ASSUME Inv, TInv, NEW p \in Threads, rem_target(p)
  PROVE  TInv'
<1>1. /\ pc[p] = "rem_target" /\ pc' = [pc EXCEPT ![p] = "rem_detour"]
      /\ slotTarget' = [slotTarget EXCEPT ![slot[arg[p]]] = None]
      /\ UNCHANGED <<slotDetour, retired, retiredNext, stage, arg>>
      /\ UNCHANGED <<slotArmed, managerVars, slot, missed, dr, excVars, todo, at>>
  BY DEF rem_target, Removal, Goto
<1>2. pc[p] \in RemovePcs /\ pc[p] \in LockPcs /\ "rem_detour" \in LockPcs
  BY <1>1 DEF RemovePcs, LockPcs
<1>3. /\ \A q \in Threads \ {p} : pc[q] \notin LockPcs
      /\ arg[p] \in Hooks /\ slot[arg[p]] \in Slots /\ HookTarget[arg[p]] \in Targets
  BY <1>2, MyHook
<1>4. UNCHANGED <<context, fault, at, dr, handler, keepHandler, stage, slot, arg, todo>>
  BY <1>1 DEF excVars, managerVars
<1>5. /\ \A q \in Threads : Held(q)' = Held(q) /\ (IdleOf(q) => IdleOf(q)')
      /\ \A q \in Threads : pc'[q] \in SavedPcs <=> pc[q] \in SavedPcs
      /\ pc'[p] = "rem_detour" /\ \A q \in Threads \ {p} : pc'[q] = pc[q]
  BY <1>1, <1>2, <1>4, SameHeld
<1>6. \A s \in Slots : slotTarget'[s] = IF s = slot[arg[p]] THEN None ELSE slotTarget[s]
  BY <1>1, <1>3, TypeParts DEF Inv, TableType, Registers
<1>7. /\ slotTarget[slot[arg[p]]] = HookTarget[arg[p]] /\ RingHas(HookTarget[arg[p]])
      /\ todo[p] = {}
  BY <1>1 DEF Inv, TableOK, TInv, RingOK, TodoOK
<1>8. \A s \in Slots : slotTarget[s] # None =>
         slotTarget'[s] = slotTarget[s] \/ RingHas(slotTarget[s])
  BY <1>6, <1>7
<1>9. RingOK'
  BY <1>1, <1>5 DEF TInv, RingOK, RingHas
<1>10. HandlerOK'
  BY <1>4, <1>5 DEF TInv, HandlerOK
<1>11. ASSUME ~keepHandler', NEW q \in Threads PROVE Clean(p, q)'
  <2>1. /\ \A s \in Slots \ {slot[arg[p]]} : ~Stale(q, s)
        /\ pc[q] \notin SavedPcs => dr[q][slot[arg[p]]] = None
    BY <1>1, <1>4, <1>7, <1>11 DEF TInv, CleanOK, Clean
  <2>2. pc[q] \notin SavedPcs => \A s \in Slots : ~Stale(q, s)'
    BY <1>5, <1>6, <2>1 DEF Stale, Held
  <2>3. QED
    BY <1>5, <2>2 DEF Clean
<1>12. QED
  BY <1>1, <1>2, <1>3, <1>4, <1>7, <1>8, <1>9, <1>10, <1>11, LockTrap

LEMMA rem_detourTraps ==
  ASSUME Inv, TInv, NEW p \in Threads, rem_detour(p)
  PROVE  TInv'
<1>1. /\ pc[p] = "rem_detour" /\ pc' = [pc EXCEPT ![p] = "release"]
      /\ stage' = [stage EXCEPT ![arg[p]] = "none"] /\ arg' = [arg EXCEPT ![p] = None]
      /\ UNCHANGED <<slotTarget, retired, retiredNext>>
      /\ UNCHANGED <<slotArmed, managerVars, slot, missed, dr, excVars, todo, at>>
  BY DEF rem_detour, Removal, Goto
<1>2. pc[p] \in RemovePcs /\ pc[p] \in LockPcs /\ "release" \in LockPcs
  BY <1>1 DEF RemovePcs, LockPcs
<1>3. \A q \in Threads \ {p} : pc[q] \notin LockPcs
  BY <1>2, MyHook
<1>4. UNCHANGED <<context, fault, at, dr, handler, keepHandler, slot, todo>>
  BY <1>1 DEF excVars, managerVars
<1>5. /\ \A q \in Threads : Held(q)' = Held(q) /\ (IdleOf(q) => IdleOf(q)')
      /\ \A q \in Threads : pc'[q] \in SavedPcs <=> pc[q] \in SavedPcs
      /\ pc'[p] = "release" /\ \A q \in Threads \ {p} : pc'[q] = pc[q]
  BY <1>1, <1>2, <1>4, SameHeld
<1>6. \A q \in Threads \ {p} : arg'[q] = arg[q]
  BY <1>1, TypeParts DEF Inv, CallType
<1>7. RingOK'
  BY <1>1, <1>5, <1>6 DEF TInv, RingOK, RingHas
<1>8. \A h \in Hooks : stage'[h] # "none" => stage[h] # "none"
  BY <1>1, TypeParts DEF Inv, HookType
<1>9. HandlerOK'
  BY <1>4, <1>5, <1>8 DEF TInv, HandlerOK
<1>10. ASSUME ~keepHandler', NEW q \in Threads PROVE Clean(p, q)'
  <2>1. pc[q] \notin SavedPcs => \A s \in Slots : ~Stale(q, s)
    BY <1>1, <1>4, <1>10 DEF TInv, CleanOK, Clean
  <2>2. QED
    BY <1>1, <1>5, <2>1 DEF Clean, Stale
<1>11. todo'[p] = {}
  BY <1>1 DEF TInv, TodoOK
<1>12. QED
  BY <1>1, <1>2, <1>3, <1>4, <1>7, <1>9, <1>10, <1>11, LockTrap

(* The handler goes only when nothing is left that could trap.             *)
LEMMA releaseTraps ==
  ASSUME Inv, TInv, NEW p \in Threads, release_idle_handler(p)
  PROVE  TInv'
<1>1. /\ pc[p] = "release" /\ pc' = [pc EXCEPT ![p] = "run"]
      /\ UNCHANGED <<tableVars, keepHandler, hookVars, dr, excVars, arg, todo, at>>
  BY DEF release_idle_handler, Goto
<1>2. pc[p] \in LockPcs
  BY <1>1 DEF LockPcs
<1>3. \A q \in Threads \ {p} : pc[q] \notin LockPcs
  BY <1>2 DEF Inv, LockOK
<1>4. UNCHANGED <<context, fault, at, dr, retired, retiredNext, slotTarget, stage, slot, arg>>
  BY <1>1 DEF excVars, tableVars, hookVars
<1>5. /\ \A q \in Threads : Held(q)' = Held(q) /\ (IdleOf(q) => IdleOf(q)')
      /\ pc'[p] = "run" /\ \A q \in Threads \ {p} : pc'[q] = pc[q]
  BY <1>1, <1>2, <1>4, SameHeld
<1>6. RingOK'
  BY <1>4, <1>5 DEF TInv, RingOK, RingHas
<1>7. CASE handler' = handler
  <2>1. HandlerOK'
    BY <1>4, <1>5, <1>7 DEF TInv, HandlerOK
  <2>2. \A q \in Threads : Clean(p, q)'
    BY <1>5 DEF Clean
  <2>3. QED
    BY <1>1, <1>3, <1>4, <1>6, <2>1, <2>2, LockTrap
<1>8. CASE MayRelease /\ ~exceptions_in_flight(p) /\ handler' = FALSE
  <2>1. ~keepHandler /\ \A s \in Slots : slotTarget[s] = None
    BY <1>8 DEF MayRelease
  <2>2. \A h \in Hooks : stage[h] = "none"
    <3>1. \A h \in Hooks : stage[h] \notin {"arming", "removing"}
      <4>1. pc[p] \notin InstallPcs \cup RemovePcs
        BY <1>1 DEF InstallPcs, RemovePcs
      <4>2. QED
        BY <1>3, <4>1 DEF Inv, LockOK, LockPcs
    <3>2. \A h \in Hooks : stage[h] # "live"
      BY <2>1, NoHook, HookTargetAssumption, TypeParts DEF Inv, TableOK, HookType
    <3>3. QED
      BY <3>1, <3>2, TypeParts DEF Inv, HookType
  <2>3. ASSUME NEW q \in Threads PROVE IdleOf(q)
    <3>1. SUFFICES ASSUME pc[q] \in DispatchPcs, pc[q] # "foreign" PROVE FALSE
      BY DEF IdleOf
    <3>2. q # p
      BY <1>1, <3>1 DEF DispatchPcs, SavedPcs
    <3>3. fault[q] \in Targets /\ (pc[q] = "load_detour" => at[q] \in Slots)
      BY <3>1 DEF Inv, FaultOK
    <3>4. TrapOf(q) /\ \A s \in Slots : slotTarget[s] # fault[q]
      BY <2>1, <3>3, NoHook DEF TInv
    <3>5. RingHas(fault[q])
      BY <3>1, <3>3, <3>4 DEF TrapOf, DispatchPcs, SavedPcs, RingHas
    <3>6. IsOurs(fault[q])
      BY <3>3, <3>5, NoHook DEF IsOurs, RingHas
    <3>7. QED
      BY <1>8, <3>1, <3>2, <3>6 DEF exceptions_in_flight
  <2>4. ASSUME NEW q \in Threads, NEW s \in Slots PROVE Held(q)[s] = None
    <3>1. CASE pc[q] \in SavedPcs
      <4>1. q # p
        BY <1>1, <3>1 DEF SavedPcs
      <4>2. ~IsOurs(context[q][s])
        BY <1>8, <3>1, <4>1 DEF exceptions_in_flight
      <4>3. context[q][s] = None
        BY <2>1, <4>2 DEF TInv, KnownOf, IsOurs, RingHas
      <4>4. QED
        BY <3>1, <4>3 DEF Held
    <3>2. CASE pc[q] \notin SavedPcs
      <4>1. ~Stale(q, s)
        BY <1>1, <2>1, <3>2 DEF TInv, CleanOK, Clean
      <4>2. QED
        BY <2>1, <4>1 DEF Stale
    <3>3. QED
      BY <3>1, <3>2
  <2>5. HandlerOK'
    BY <1>4, <1>5, <2>2, <2>3, <2>4 DEF HandlerOK
  <2>6. \A q \in Threads : Clean(p, q)'
    BY <1>5 DEF Clean
  <2>7. QED
    BY <1>1, <1>3, <1>4, <1>6, <2>5, <2>6, LockTrap
<1>9. QED
  BY <1>7, <1>8 DEF release_idle_handler

LEMMA removeTraps ==
  ASSUME Inv, TInv, SettledRemovals, NEW p \in Threads, NEW h \in Hooks, remove(p, h)
  PROVE  TInv'
<1>1. /\ pc[p] = "run" /\ stage[h] = "live" /\ owner = None
      /\ stage' = [stage EXCEPT ![h] = "removing"] /\ arg' = [arg EXCEPT ![p] = h]
      /\ todo' = [todo EXCEPT ![p] = Threads] /\ pc' = [pc EXCEPT ![p] = "disarm"]
      /\ UNCHANGED <<tableVars, handler, keepHandler, slot, missed, dr, excVars, at>>
  BY DEF remove, Goto
<1>2. "disarm" \in LockPcs /\ \A q \in Threads : pc[q] \notin LockPcs
  BY <1>1, NoHook DEF Inv, LockOK, LockPcs, RemovePcs
<1>3. UNCHANGED <<context, fault, at, dr, retired, retiredNext, slotTarget>>
  BY <1>1 DEF excVars, tableVars
<1>4. /\ \A q \in Threads : Held(q)' = Held(q) /\ (IdleOf(q) => IdleOf(q)')
      /\ pc'[p] = "disarm" /\ \A q \in Threads \ {p} : pc'[q] = pc[q]
  BY <1>1, <1>2, <1>3, SameHeld
<1>5. /\ stage'[h] = "removing" /\ arg'[p] = h /\ todo'[p] = Threads
      /\ \A q \in Threads \ {p} : arg'[q] = arg[q]
  BY <1>1, TypeParts DEF Inv, HookType, CallType
<1>6. RingOK'
  BY <1>3, <1>4, <1>5 DEF TInv, RingOK, RingHas
<1>7. \A g \in Hooks : stage'[g] # "none" => stage[g] # "none"
  BY <1>1, TypeParts DEF Inv, HookType
<1>8. HandlerOK'
  BY <1>1, <1>4, <1>7 DEF TInv, HandlerOK
<1>9. ASSUME ~keepHandler', NEW q \in Threads PROVE Clean(p, q)'
  <2>1. \A s \in Slots \ {slot[h]} : ~Stale(q, s)
    BY <1>1, <1>5, <1>9 DEF SettledRemovals
  <2>2. \A s \in Slots \ {slot'[arg'[p]]} : ~Stale(q, s)'
    BY <1>1, <1>3, <1>4, <1>5, <2>1 DEF Stale
  <2>3. QED
    BY <1>4, <1>5, <2>2 DEF Clean
<1>10. QED
  BY <1>1, <1>2, <1>3, <1>6, <1>8, <1>9, LockTrap

LEMMA installTraps ==
  ASSUME Quiet, Inv, TInv, NEW p \in Threads, NEW h \in Hooks, install(p, h)
  PROVE  TInv'
<1>1. /\ pc[p] = "run" /\ stage[h] = "none" /\ owner = None
      /\ UNCHANGED <<tableVars, keepHandler, dr, excVars, todo, at>>
  BY DEF install
<1>2. "pub_detour" \in LockPcs /\ \A q \in Threads : pc[q] \notin LockPcs
  BY <1>1, NoHook DEF Inv, LockOK, LockPcs, InstallPcs
<1>3. UNCHANGED <<context, fault, at, dr, retired, retiredNext, slotTarget>>
  BY <1>1 DEF excVars, tableVars
<1>4. PICK l \in {"run", "pub_detour"} :
         /\ pc' = [pc EXCEPT ![p] = l]
         /\ UNCHANGED <<handler, stage, arg>>
            \/ (handler' = TRUE /\ arg' = [arg EXCEPT ![p] = h])
  <2>1. CASE UNCHANGED <<handler, owner, stage, missed, arg, pc>>
    <3>1. pc' = [pc EXCEPT ![p] = "run"]
      BY <1>1, <2>1, TypeParts DEF Inv, CallType
    <3>2. QED
      BY <2>1, <3>1
  <2>2. CASE handler' = TRUE /\ arg' = [arg EXCEPT ![p] = h] /\ pc' = [pc EXCEPT ![p] = "pub_detour"]
    BY <2>2
  <2>3. QED
    BY <2>1, <2>2 DEF install, Goto
<1>5. /\ \A q \in Threads : Held(q)' = Held(q) /\ (IdleOf(q) => IdleOf(q)')
      /\ pc'[p] = l /\ \A q \in Threads \ {p} : pc'[q] = pc[q]
  BY <1>1, <1>2, <1>3, <1>4, SameHeld
<1>6. RingOK'
  <2>1. \A q \in Threads : pc'[q] # "rem_target"
    BY <1>2, <1>4, <1>5, Removing
  <2>2. QED
    BY <1>3, <2>1 DEF TInv, RingOK
<1>7. HandlerOK'
  BY <1>4, <1>5 DEF TInv, HandlerOK
<1>8. \A q \in Threads : Clean(p, q)'
  BY <1>5 DEF Clean
<1>9. QED
  BY <1>2, <1>3, <1>4, <1>6, <1>7, <1>8, LockTrap

LEMMA LockedTraps ==
  ASSUME MaxRemovals <= RetiredLen, Inv, TInv, NEW p \in Threads, Locked(p)
  PROVE  TInv'
<1>1. CASE arm(p)
  <2>1. PICK q \in Threads : set_debug_register(p, HookTarget[arg[p]], q)
    BY <1>1 DEF arm
  <2>2. pc[p] = "arm"
    BY <1>1 DEF arm
  <2>3. PICK value : value = HookTarget[arg[p]]
    OBVIOUS
  <2>4. set_debug_register(p, value, q)
    BY <2>1, <2>3
  <2>5. QED
    BY <2>2, <2>3, <2>4, UpdateTraps
<1>2. CASE disarm(p)
  <2>1. PICK q \in Threads : set_debug_register(p, None, q)
    BY <1>2 DEF disarm
  <2>2. pc[p] = "disarm"
    BY <1>2 DEF disarm
  <2>3. QED
    BY <2>1, <2>2, UpdateTraps
<1>3. QED
  BY <1>1, <1>2, PublishTraps, installedTraps, rem_retireTraps, rem_targetTraps, rem_detourTraps,
     releaseTraps DEF Locked

LEMMA NextTraps ==
  ASSUME Quiet, MaxRemovals <= RetiredLen, Inv, TInv, [Next]_vars, [SettledRemovals]_vars
  PROVE  TInv'
<1>1. CASE UNCHANGED vars
  <2>1. UNCHANGED <<slotTarget, slotDetour, slotArmed, retired, retiredNext, handler, keepHandler,
                    owner, stage, slot, missed, dr, context, fault, hits, handled, pc, arg, todo, at>>
    BY <1>1 DEF vars, tableVars, managerVars, hookVars, excVars, callVars
  <2>2. RingOK' /\ TodoOK'
    BY <2>1 DEF TInv, RingOK, RingHas, TodoOK
  <2>3. HandlerOK' /\ CleanOK'
    BY <2>1 DEF TInv, HandlerOK, IdleOf, Held, CleanOK, Clean, Stale
  <2>4. \A q \in Threads : KnownOf(q)' /\ TrapOf(q)'
    BY <2>1 DEF TInv, KnownOf, TrapOf, RingHas
  <2>5. QED
    BY <2>2, <2>3, <2>4 DEF TInv
<1>2. CASE Next /\ SettledRemovals
  <2>1. PICK p \in Threads : \/ Locked(p) \/ Handle(p) \/ raise(p) \/ return(p)
                             \/ \E h \in Hooks : install(p, h) \/ remove(p, h)
                             \/ \E t \in Targets : trap(p, t)
    BY <1>2 DEF Next
  <2>2. CASE Locked(p)
    BY <2>2, LockedTraps
  <2>3. CASE Handle(p) \/ return(p)
    BY <2>3, HandleTraps
  <2>4. CASE raise(p)
    BY <2>4, raiseTraps
  <2>5. CASE \E h \in Hooks : install(p, h) \/ remove(p, h)
    BY <1>2, <2>5, installTraps, removeTraps
  <2>6. CASE \E t \in Targets : trap(p, t)
    BY <2>6, trapTraps
  <2>7. QED
    BY <2>1, <2>2, <2>3, <2>4, <2>5, <2>6
<1>3. QED
  BY <1>1, <1>2

(***************************************************************************)
(* No trap ends as an unhandled exception, of a live hook or of a          *)
(* breakpoint a removal left behind, where hooks are installed and removed *)
(* outside dispatches as Quiet and SettledRemovals say and the ring        *)
(* remembers every removal: the handler stays while a thread is at a trap  *)
(* or could run into one, and finds the address in a slot or in the ring.  *)
(***************************************************************************)
THEOREM TrapsAreAlwaysHandled ==
  ASSUME Quiet, MaxRemovals <= RetiredLen
  PROVE  Spec /\ [][SettledRemovals]_vars => []TrapsAreHandled
<1>1. Init => Inv /\ TInv
  BY InitInv, InitTraps
<1>2. Inv /\ TInv /\ [Next]_vars /\ [SettledRemovals]_vars => Inv' /\ TInv'
  BY NextKeeps, NextTraps
<1>3. TInv => TrapsAreHandled
  BY DEF TInv, TrapOf, TrapsAreHandled
<1>4. QED
  BY <1>1, <1>2, <1>3, PTL DEF Spec

(***************************************************************************)
(* With one register there is no other one to be stale, and every removal  *)
(* is settled: the instances that TLC explores need no such hypothesis.    *)
(***************************************************************************)
THEOREM OneRegisterTrapsAreHandled ==
  ASSUME Quiet, MaxRemovals <= RetiredLen, NumSlots = 1
  PROVE  Spec => []TrapsAreHandled
<1>1. Inv => [SettledRemovals]_vars
  <2>1. SUFFICES ASSUME Inv PROVE SettledRemovals
    OBVIOUS
  <2>2. \A h \in Hooks : slot[h] \in Slots
    BY <2>1, TypeParts DEF Inv, HookType
  <2>3. \A h \in Hooks : Slots \ {slot[h]} = {}
    BY <2>2 DEF Slots
  <2>4. QED
    BY <2>3 DEF SettledRemovals
<1>2. Spec => [][SettledRemovals]_vars
  BY <1>1, Invariance, PTL
<1>3. QED
  BY <1>2, TrapsAreAlwaysHandled, PTL

=============================================================================
