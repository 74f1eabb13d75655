-------------------------- MODULE Int3Hooks_proofs --------------------------
(***************************************************************************)
(* Proofs about the INT3 hooks, for any number of threads, hooks,          *)
(* functions and slots and any length of the ring that has room for them.  *)
(*                                                                         *)
(* The slot table, with or without ArmWhenQuiet: a hook that may have its  *)
(* byte in the code holds a slot, alone, and the slot leads back to it.    *)
(* Arming and removing keep that across their separate stores because      *)
(* every slot but the one in hand belongs to a settled hook, or to nobody. *)
(*                                                                         *)
(* The handler, with ArmWhenQuiet: a dispatch finds the slot of its        *)
(* function ahead of its scan or, once the slot is gone, an entry of the   *)
(* ring that is young enough to outlive the removals still possible.       *)
(***************************************************************************)
EXTENDS Int3Hooks, FiniteSetTheorems, TLAPS

ArmPcs == {"arm_detour", "arm_target", "arm_write", "arm_undo"}
RemPcs == {"rem_write", "rem_target", "rem_detour"}
HookPcs == {"arm"} \cup ArmPcs \cup RemPcs
\* Where the slot of the hook in hand is published.
HeldPcs == {"arm_write", "rem_write", "rem_target"}

\* The thread that holds the locks works on h, at one of the places S.
Working(h, S) == owner # None /\ pc[owner] \in S /\ arg[owner] = h

\* A hook has a published slot, and its byte may be in the code.
Held(h) == stage[h] = "live" \/ Working(h, HeldPcs)
Armed(h) == stage[h] = "live" \/ Working(h, {"rem_write"})

\* The locks are held exactly by a thread inside their scope.
LockOK ==
    /\ \A p \in Threads : pc[p] \in LockedPcs => owner = p
    /\ owner # None => pc[owner] \in LockedPcs

\* A thread that installs or removes has a hook in hand, and no other has it.
InHand ==
    /\ \A p \in Threads : pc[p] \in {"arm"} \cup ArmPcs =>
          arg[p] \in Hooks /\ stage[arg[p]] = "arming"
    /\ \A p \in Threads : pc[p] \in RemPcs =>
          arg[p] \in Hooks /\ stage[arg[p]] = "removing"
    /\ \A p, q \in Threads :
          pc[p] \in HookPcs /\ pc[q] \in HookPcs /\ arg[p] = arg[q] => p = q

\* The detour that is loaded is the one of a slot.
ScanOK == \A p \in Threads : pc[p] = "load_detour" => at[p] \in Slots

\* A held slot leads back to its hook.
SlotOfHook ==
    \A h \in Hooks : Held(h) =>
        slotTarget[slot[h]] = HookTarget[h] /\ slotDetour[slot[h]] = h /\ handler

\* No two hooks hold slots for one function.
OnePerTarget ==
    \A h, g \in Hooks : Held(h) /\ Held(g) /\ HookTarget[h] = HookTarget[g] => h = g

\* Every taken slot is held.
HookOfSlot ==
    \A i \in Slots : slotTarget[i] # None => \E h \in Hooks : Held(h) /\ slot[h] = i

\* The slot in hand before it is published, and after it is withdrawn.
SlotInHand ==
    \A h \in Hooks :
        /\ Working(h, ArmPcs) => handler
        /\ Working(h, {"arm_detour", "arm_target"}) =>
              \A i \in Slots : slotTarget[i] # HookTarget[h]
        /\ Working(h, {"arm_target"}) => slotDetour[slot[h]] = h
        /\ Working(h, {"arm_detour", "arm_target", "arm_undo", "rem_detour"}) =>
              slotTarget[slot[h]] = None

\* Breakpoints belong to armed hooks, which remember the original byte.
BytesOwned ==
    /\ \A t \in Targets : byte[t] = "cc" => \E h \in Hooks : Armed(h) /\ HookTarget[h] = t
    /\ \A h \in Hooks : Armed(h) => saved[h] = "orig"

SInv == ScanOK /\ LockOK /\ InHand /\ SlotOfHook /\ OnePerTarget /\ HookOfSlot /\ SlotInHand
IInv == TypeOK /\ SInv /\ BytesOwned

\* With ArmWhenQuiet: a loaded slot has a detour of the trapped function or none, and the
\* detour about to be published goes to a slot that nobody has loaded.
LoadedOK ==
    /\ \A p \in Threads : pc[p] = "load_detour" =>
          slotDetour[at[p]] = None \/ HookTarget[slotDetour[at[p]]] = addr[p]
    /\ \A p, q \in Threads :
          pc[q] = "arm_detour" /\ pc[p] = "load_detour" => at[p] # slot[arg[q]]

DInv == LoadedOK /\ OwnDetour

\* A trap that is dispatched came from a function.
PlaceType == \A p \in Threads : pc[p] \in DispatchPcs => addr[p] \in Targets

\* The hooks that may still be removed, and thus enter the ring, and their slots.
Pending(h) == stage[h] = "live" \/ Working(h, ArmPcs)
Removable == {i \in Slots : \E h \in Hooks : Pending(h) /\ slot[h] = i}

\* How many removals came after the one that entry k of the ring remembers.  The entry
\* outlives the removals still to come if it fits.
Age(k) == IF k < retiredNext THEN retiredNext - k - 1 ELSE RetiredLen + retiredNext - k - 1
Fits(k) == Age(k) + Cardinality(Removable) < RetiredLen
InRing(t, from) == \E k \in Ring : k >= from /\ retired[k] = t /\ Fits(k)

HeldFor(t) == \E h \in Hooks : Held(h) /\ HookTarget[h] = t
LiveFor(t) == \E h \in Hooks : stage[h] = "live" /\ HookTarget[h] = t

\* A function with a dispatched trap is not being armed.
PublishPcs == {"arm_detour", "arm_target", "arm_write"}
ArmedQuietly ==
    \A h \in Hooks : Working(h, PublishPcs) => ~Dispatching(HookTarget[h])

\* It has a live hook or a place in the ring that lasts; so has one whose byte is being
\* restored.
Covered ==
    /\ \A p \in Threads : pc[p] \in DispatchPcs => LiveFor(addr[p]) \/ InRing(addr[p], 0)
    /\ \A h \in Hooks : Working(h, {"rem_write"}) => InRing(HookTarget[h], 0)

\* Wherever a dispatch is, its answer lies ahead: t is its function, n its place in a scan.
Place(p, t, n) ==
    /\ pc[p] \in DispatchPcs => handler
    /\ pc[p] = "scan" =>
          /\ ~rescan[p] /\ n >= 1
          /\ \/ ~HeldFor(t)
             \/ \E h \in Hooks : Held(h) /\ HookTarget[h] = t /\ slot[h] >= n
    /\ pc[p] = "load_detour" => ~rescan[p] /\ (~HeldFor(t) \/ slotTarget[n] = t)
    /\ pc[p] = "ring" => ~HeldFor(t) /\ InRing(t, n)
    /\ pc[p] = "read_byte" => ~HeldFor(t)
PlaceOK == \A p \in Threads : Place(p, addr[p], at[p])

RInv == PlaceType /\ ArmedQuietly /\ Covered /\ PlaceOK /\ SafelyResumed

-----------------------------------------------------------------------------
(***************************************************************************)
(* Type correctness                                                        *)
(***************************************************************************)

LEMMA Constants ==
    /\ None \notin Threads /\ None \notin Hooks /\ None \notin Targets
    /\ \A h \in Hooks : HookTarget[h] \in Targets
    /\ RetiredLen \in Nat /\ RetiredLen > 0 /\ 0 \in Ring /\ 1 \in Slots
<1>1. None \notin Threads /\ None \notin Hooks /\ None \notin Targets
  BY NoneAssumption
<1>2. \A h \in Hooks : HookTarget[h] \in Targets
  BY HookTargetAssumption
<1>3. RetiredLen \in Nat /\ RetiredLen > 0 /\ 0 \in Ring /\ 1 \in Slots
  BY SlotsAssumption, RingAssumption DEF Ring, Slots
<1> QED BY <1>1, <1>2, <1>3

\* The next place in the ring is a place in the ring.
LEMMA RingStep == TypeOK => NextRetired \in Ring
BY RingAssumption, SlotsAssumption DEF TypeOK, NextRetired, Ring

LEMMA InitType == Init => TypeOK
<1> SUFFICES ASSUME Init PROVE TypeOK OBVIOUS
<1>1. /\ byte \in [Targets -> Byte]
      /\ slotTarget \in [Slots -> Targets \cup {None}]
      /\ slotDetour \in [Slots -> Hooks \cup {None}]
      /\ retired \in [Ring -> Targets \cup {None}]
      /\ retiredNext \in Ring /\ handler \in BOOLEAN
  BY Constants DEF Init, Byte
<1>2. /\ owner \in Threads \cup {None}
      /\ stage \in [Hooks -> {"none", "arming", "live", "removing"}]
      /\ slot \in [Hooks -> Slots]
      /\ saved \in [Hooks -> Byte]
      /\ gateway \in [Hooks -> Byte \cup {"none"}]
  BY Constants DEF Init, Byte
<1>3. /\ pc \in [Threads -> Pcs]
      /\ arg \in [Threads -> Hooks \cup {None}]
      /\ addr \in [Threads -> Targets \cup {None}]
      /\ at \in [Threads -> Nat]
      /\ rescan \in [Threads -> BOOLEAN]
  BY DEF Init, Pcs
<1> QED BY <1>1, <1>2, <1>3 DEF TypeOK

\* Installs and removals keep the types: their hook is in hand.
LEMMA CallType ==
    ASSUME TypeOK, InHand, NEW p \in Threads, Call(p) \/ Locked(p)
    PROVE  TypeOK'
<1> USE Constants DEF Pcs, LockedPcs, DispatchPcs, Goto, Byte
<1>1. ASSUME NEW h \in Hooks, NEW w \in BOOLEAN, install(p, h, w) PROVE TypeOK'
  BY <1>1 DEF install, TypeOK, tableVars
<1>2. ASSUME NEW h \in Hooks, remove(p, h) PROVE TypeOK'
  BY <1>2, RingStep DEF remove, TypeOK, Remembered
<1>3. ASSUME NEW h \in Hooks, forget(p, h) PROVE TypeOK'
  BY <1>3 DEF forget, TypeOK, threadVars
<1>4. ASSUME arm(p) PROVE TypeOK'
  <2>1. handler' \in BOOLEAN
    BY <1>4 DEF arm, TypeOK
  <2>2. /\ owner' \in Threads \cup {None}
        /\ stage' \in [Hooks -> {"none", "arming", "live", "removing"}]
        /\ slot' \in [Hooks -> Slots]
    BY <1>4 DEF arm, TypeOK
  <2>3. /\ gateway' \in [Hooks -> Byte \cup {"none"}]
        /\ pc' \in [Threads -> Pcs]
        /\ arg' \in [Threads -> Hooks \cup {None}]
    BY <1>4 DEF arm, TypeOK
  <2> QED BY <1>4, <2>1, <2>2, <2>3 DEF arm, TypeOK
<1>5. ASSUME release_unused_handler(p) PROVE TypeOK'
  BY <1>5 DEF release_unused_handler, TypeOK, tableVars, hookVars
<1>6. ASSUME arm_detour(p) PROVE TypeOK'
  BY <1>6 DEF arm_detour, PublishedDetour, TypeOK, InHand, ArmPcs, hookVars
<1>7. ASSUME arm_target(p) PROVE TypeOK'
  BY <1>7 DEF arm_target, TypeOK, InHand, ArmPcs, hookVars
<1>8. ASSUME arm_write(p) PROVE TypeOK'
  BY <1>8 DEF arm_write, RolledBack, TypeOK, InHand, ArmPcs
<1>9. ASSUME arm_undo(p) PROVE TypeOK'
  BY <1>9 DEF arm_undo, TypeOK
<1>10. ASSUME rem_write(p) PROVE TypeOK'
  BY <1>10 DEF rem_write, TypeOK, InHand, RemPcs, tableVars, hookVars
<1>11. ASSUME rem_target(p) PROVE TypeOK'
  BY <1>11 DEF rem_target, TypeOK, hookVars
<1>12. ASSUME rem_detour(p) PROVE TypeOK'
  BY <1>12 DEF rem_detour, TypeOK
<1>13. ASSUME release_idle_handler(p) PROVE TypeOK'
  <2>0. handler' \in BOOLEAN
    BY <1>13, Zenon DEF release_idle_handler, TypeOK
  <2>1. retired' \in [Ring -> Targets \cup {None}] /\ retiredNext' \in Ring
    BY <1>13 DEF release_idle_handler, TypeOK
  <2> QED BY <1>13, <2>0, <2>1 DEF release_idle_handler, TypeOK, hookVars
<1> QED
  BY <1>1, <1>2, <1>3, <1>4, <1>5, <1>6, <1>7, <1>8, <1>9, <1>10, <1>11, <1>12, <1>13
  DEF Call, Locked

\* So do traps and the handler.
LEMMA HandleType ==
    ASSUME TypeOK, ScanOK, NEW p \in Threads,
           Handle(p) \/ return(p) \/ (\E t \in Targets : trap(p, t))
    PROVE  TypeOK'
<1> USE Constants DEF Pcs, DispatchPcs, Goto, tableVars, hookVars
<1>1. ASSUME dispatch(p) PROVE TypeOK'
  BY <1>1 DEF dispatch, TypeOK
<1>2. ASSUME find_detour(p) PROVE TypeOK'
  BY <1>2 DEF find_detour, AfterScan, TypeOK
<1>3. ASSUME load_detour(p) PROVE TypeOK'
  BY <1>3 DEF load_detour, TypeOK, ScanOK
<1>4. ASSUME scan_retired(p) PROVE TypeOK'
  BY <1>4 DEF scan_retired, TypeOK
<1>5. ASSUME read_byte(p) PROVE TypeOK'
  <2>1. /\ addr' \in [Threads -> Targets \cup {None}]
        /\ at' \in [Threads -> Nat]
        /\ pc' \in [Threads -> Pcs]
    BY <1>5 DEF read_byte, TypeOK
  <2>2. CASE rescan' = rescan
    BY <1>5, <2>1, <2>2 DEF read_byte, TypeOK
  <2>3. CASE rescan' = [rescan EXCEPT ![p] = TRUE]
    BY <1>5, <2>1, <2>3 DEF read_byte, TypeOK
  <2> QED BY <1>5, <2>2, <2>3 DEF read_byte
<1>6. ASSUME return(p) PROVE TypeOK'
  BY <1>6 DEF return, TypeOK
<1>7. ASSUME NEW t \in Targets, trap(p, t) PROVE TypeOK'
  BY <1>7 DEF trap, TypeOK
<1> QED BY <1>1, <1>2, <1>3, <1>4, <1>5, <1>6, <1>7 DEF Handle

-----------------------------------------------------------------------------
(***************************************************************************)
(* The slot table                                                          *)
(***************************************************************************)

\* No slot is held by a hook whose own slot is not published.
LEMMA OwnSlot ==
    ASSUME TypeOK, SlotOfHook, NEW h \in Hooks, slotTarget[slot[h]] = None,
           NEW g \in Hooks, Held(g)
    PROVE  slot[g] # slot[h]
BY Constants DEF SlotOfHook

\* A thread that neither installs, removes nor holds the locks disturbs nothing.
LEMMA Bystander ==
    ASSUME TypeOK, SInv, NEW p \in Threads, NEW l \in Pcs,
           pc[p] \notin HookPcs \cup LockedPcs, l \notin HookPcs \cup LockedPcs,
           pc' = [pc EXCEPT ![p] = l],
           \A q \in Threads : q # p => arg'[q] = arg[q],
           ScanOK', UNCHANGED <<byte, tableVars, owner, hookVars>>
    PROVE  SInv' /\ (BytesOwned => BytesOwned')
<1>0. /\ UNCHANGED <<byte, slotTarget, slotDetour, handler, owner, stage, slot, saved>>
      /\ owner # p
      /\ pc'[p] = l
      /\ \A q \in Threads : q # p => pc'[q] = pc[q] /\ arg'[q] = arg[q]
  BY Constants DEF TypeOK, SInv, LockOK, tableVars, hookVars
<1>1. LockOK'
  BY <1>0 DEF TypeOK, SInv, LockOK
<1>2. InHand'
  BY <1>0 DEF SInv, InHand, HookPcs
<1>3. \A h, S : Working(h, S)' <=> Working(h, S)
  BY <1>0 DEF Working, TypeOK
<1>4. \A h \in Hooks : (Held(h)' <=> Held(h)) /\ (Armed(h)' <=> Armed(h))
  BY <1>0, <1>3 DEF Held, Armed
<1>5. SlotOfHook' /\ OnePerTarget' /\ HookOfSlot'
  BY <1>0, <1>4 DEF SInv, SlotOfHook, OnePerTarget, HookOfSlot
<1>6. SlotInHand'
  BY <1>0, <1>3 DEF SInv, SlotInHand
<1>7. BytesOwned => BytesOwned'
  BY <1>0, <1>4 DEF BytesOwned
<1> QED BY <1>1, <1>2, <1>5, <1>6, <1>7 DEF SInv

\* Traps and the handler.
LEMMA HandleStep ==
    ASSUME TypeOK, SInv, NEW p \in Threads,
           Handle(p) \/ return(p) \/ (\E t \in Targets : trap(p, t))
    PROVE  SInv' /\ (BytesOwned => BytesOwned')
<1> DEFINE Done == SInv' /\ (BytesOwned => BytesOwned')
           Idle == {"run", "detour", "unhandled"} \cup DispatchPcs
<1> USE DEF Goto
<1>1. ASSUME pc[p] \in Idle,
             \E l \in Idle : pc' = [pc EXCEPT ![p] = l],
             pc'[p] = "load_detour" => at'[p] \in Slots,
             \A q \in Threads : q # p => arg'[q] = arg[q] /\ at'[q] = at[q],
             UNCHANGED <<byte, tableVars, owner, hookVars>>
      PROVE  Done
  <2>1. PICK l \in Idle : pc' = [pc EXCEPT ![p] = l]
    BY <1>1
  <2>2. l \in Pcs /\ l \notin HookPcs \cup LockedPcs /\ pc[p] \notin HookPcs \cup LockedPcs
    BY <1>1 DEF Pcs, DispatchPcs, HookPcs, ArmPcs, RemPcs, LockedPcs
  <2>3. ScanOK'
    BY <1>1, <2>1 DEF SInv, ScanOK, TypeOK
  <2>4. \A q \in Threads : q # p => arg'[q] = arg[q]
    BY <1>1
  <2> QED BY <1>1, <2>1, <2>2, <2>3, <2>4, Bystander
<1> HIDE DEF Done
<1>2. ASSUME dispatch(p) PROVE Done
  BY <1>1, <1>2 DEF dispatch, DispatchPcs, TypeOK
<1>3. ASSUME find_detour(p) PROVE Done
  BY <1>1, <1>3 DEF find_detour, AfterScan, DispatchPcs, TypeOK
<1>4. ASSUME load_detour(p) PROVE Done
  BY <1>1, <1>4 DEF load_detour, DispatchPcs, TypeOK
<1>5. ASSUME scan_retired(p) PROVE Done
  BY <1>1, <1>5 DEF scan_retired, DispatchPcs, TypeOK
<1>6. ASSUME read_byte(p) PROVE Done
  BY <1>1, <1>6 DEF read_byte, DispatchPcs, TypeOK
<1>7. ASSUME return(p) PROVE Done
  BY <1>1, <1>7 DEF return, TypeOK
<1>8. ASSUME NEW t \in Targets, trap(p, t) PROVE Done
  BY <1>1, <1>8 DEF trap, DispatchPcs, TypeOK
<1>9. Done
  BY <1>2, <1>3, <1>4, <1>5, <1>6, <1>7, <1>8 DEF Handle
<1> QED BY <1>9 DEF Done

\* What every step of p that works on h keeps to: it moves p to l with h in hand,
\* takes or releases the locks with it, and leaves the other hooks alone.
Handles(p, h, l) ==
    /\ pc' = [pc EXCEPT ![p] = l] /\ at' = at
    /\ l \in Pcs /\ l # "load_detour"
    /\ \A q \in Threads : q # p => arg'[q] = arg[q]
    /\ owner' = owner \/ (owner \in {None, p} /\ owner' \in {None, p})
    /\ l \in LockedPcs <=> owner' = p
    /\ l \in HookPcs => arg'[p] = h
    /\ l \in {"arm"} \cup ArmPcs => stage'[h] = "arming"
    /\ l \in RemPcs => stage'[h] = "removing"
    /\ pc[p] \in HookPcs => arg[p] = h
    /\ pc[p] \notin HookPcs => stage[h] \in {"none", "live"}
    /\ \A g \in Hooks : g # h => stage'[g] = stage[g]

LEMMA Bookkeeping ==
    ASSUME TypeOK, SInv, NEW p \in Threads, NEW h \in Hooks, NEW l, Handles(p, h, l)
    PROVE  ScanOK' /\ LockOK' /\ InHand'
<1> USE DEF Handles
<1>1. /\ pc'[p] = l
      /\ \A q \in Threads : q # p => pc'[q] = pc[q] /\ arg'[q] = arg[q]
  BY DEF TypeOK
<1>2. ScanOK'
  BY <1>1 DEF SInv, ScanOK
<1>3. LockOK'
  <2>1. CASE owner' = owner
    BY <1>1, <2>1, Constants DEF SInv, LockOK, TypeOK
  <2>2. CASE owner \in {None, p} /\ owner' \in {None, p}
    <3>1. \A q \in Threads : q # p => pc[q] \notin LockedPcs
      BY <2>2, Constants DEF SInv, LockOK
    <3> QED BY <1>1, <2>2, <3>1, Constants DEF LockOK
  <2> QED BY <2>1, <2>2
<1>4. \A q \in Threads : q # p /\ pc[q] \in HookPcs => arg[q] \in Hooks /\ arg[q] # h
  BY DEF SInv, InHand, HookPcs
<1>5. InHand'
  <2>1. \A q \in Threads : pc'[q] \in {"arm"} \cup ArmPcs =>
            arg'[q] \in Hooks /\ stage'[arg'[q]] = "arming"
    BY <1>1, <1>4 DEF SInv, InHand, HookPcs
  <2>2. \A q \in Threads : pc'[q] \in RemPcs =>
            arg'[q] \in Hooks /\ stage'[arg'[q]] = "removing"
    BY <1>1, <1>4 DEF SInv, InHand, HookPcs
  <2>3. \A q, r \in Threads : q # p /\ r # p /\
            pc'[q] \in HookPcs /\ pc'[r] \in HookPcs /\ arg'[q] = arg'[r] => q = r
    BY <1>1 DEF SInv, InHand
  <2>4. \A q \in Threads : q # p /\ pc'[q] \in HookPcs /\ pc'[p] \in HookPcs => arg'[q] # arg'[p]
    BY <1>1, <1>4
  <2> QED BY <2>1, <2>2, <2>3, <2>4 DEF InHand
<1> QED BY <1>2, <1>3, <1>5

\* install: a hook is taken in hand.
LEMMA InstallStep ==
    ASSUME TypeOK, SInv, NEW p \in Threads, NEW h \in Hooks, NEW w \in BOOLEAN,
           install(p, h, w)
    PROVE  SInv' /\ (BytesOwned => BytesOwned')
<1>1. /\ UNCHANGED <<byte, slotTarget, slotDetour, handler, owner, slot, saved, at>>
      /\ pc[p] = "run" /\ stage[h] = "none"
      /\ stage' = [stage EXCEPT ![h] = "arming"]
      /\ pc' = [pc EXCEPT ![p] = "arm"]
      /\ arg' = [arg EXCEPT ![p] = h]
  BY DEF install, Goto, tableVars
<1>2. owner # p
  BY <1>1, Constants DEF SInv, LockOK, LockedPcs
<1>3. /\ pc'[p] = "arm" /\ arg'[p] = h /\ stage'[h] = "arming"
      /\ \A q \in Threads : q # p => pc'[q] = pc[q] /\ arg'[q] = arg[q]
      /\ \A g \in Hooks : g # h => stage'[g] = stage[g]
  BY <1>1 DEF TypeOK
<1>4. ScanOK' /\ LockOK' /\ InHand'
  <2>1. Handles(p, h, "arm")
    BY <1>1, <1>2, <1>3 DEF Handles, Pcs, LockedPcs, RemPcs, HookPcs, ArmPcs
  <2> QED BY <2>1, Bookkeeping
<1>5. \A g, S : Working(g, S)' <=> Working(g, S)
  BY <1>1, <1>2, <1>3 DEF Working, TypeOK
<1>6. \A g \in Hooks : (Held(g)' <=> Held(g)) /\ (Armed(g)' <=> Armed(g))
  BY <1>1, <1>3, <1>5 DEF Held, Armed
<1>7. SlotOfHook' /\ OnePerTarget' /\ HookOfSlot'
  BY <1>1, <1>6 DEF SInv, SlotOfHook, OnePerTarget, HookOfSlot
<1>8. SlotInHand'
  BY <1>1, <1>5 DEF SInv, SlotInHand
<1>9. BytesOwned => BytesOwned'
  BY <1>1, <1>6 DEF BytesOwned
<1> QED BY <1>4, <1>7, <1>8, <1>9 DEF SInv

\* arm, refused: the hook is given up.  Granted: a free slot and the handler.
LEMMA ArmStep ==
    ASSUME TypeOK, SInv, NEW p \in Threads, arm(p)
    PROVE  SInv' /\ (BytesOwned => BytesOwned')
<1> DEFINE h == arg[p]
<1>1. /\ UNCHANGED <<byte, slotTarget, slotDetour, saved, at>>
      /\ pc[p] = "arm" /\ owner = None
      /\ h \in Hooks /\ stage[h] = "arming"
  BY DEF arm, SInv, InHand
<1>2. CASE /\ stage' = [stage EXCEPT ![h] = "none"]
           /\ arg' = [arg EXCEPT ![p] = None]
           /\ pc' = [pc EXCEPT ![p] = "run"]
           /\ UNCHANGED <<handler, owner, slot>>
  <2>1. ScanOK' /\ LockOK' /\ InHand'
    <3>1. Handles(p, h, "run")
      BY <1>1, <1>2, Constants DEF Handles, Pcs, LockedPcs, DispatchPcs, RemPcs, HookPcs, ArmPcs, TypeOK
    <3> QED BY <1>1, <3>1, Bookkeeping
  <2>2. \A g, S : Working(g, S)' <=> Working(g, S)
    BY <1>1, <1>2 DEF Working
  <2>3. \A g \in Hooks : (Held(g)' <=> Held(g)) /\ (Armed(g)' <=> Armed(g))
    BY <1>1, <1>2, <2>2 DEF Held, Armed, TypeOK
  <2>4. SlotOfHook' /\ OnePerTarget' /\ HookOfSlot'
    BY <1>1, <1>2, <2>3 DEF SInv, SlotOfHook, OnePerTarget, HookOfSlot
  <2>5. SlotInHand'
    BY <1>1, <1>2, <2>2 DEF SInv, SlotInHand
  <2>6. BytesOwned => BytesOwned'
    BY <1>1, <2>3 DEF BytesOwned
  <2> QED BY <2>1, <2>4, <2>5, <2>6 DEF SInv
<1>3. ASSUME NEW i \in Slots, FirstFree(i), ~Refused(h),
             owner' = p, slot' = [slot EXCEPT ![h] = i], handler' = TRUE,
             pc' = [pc EXCEPT ![p] = "arm_detour"], UNCHANGED <<stage, arg>>
      PROVE  SInv' /\ (BytesOwned => BytesOwned')
  <2>1. ScanOK' /\ LockOK' /\ InHand'
    <3>1. Handles(p, h, "arm_detour")
      BY <1>1, <1>3 DEF Handles, Pcs, LockedPcs, DispatchPcs, RemPcs, HookPcs, ArmPcs, TypeOK
    <3> QED BY <1>1, <3>1, Bookkeeping
  <2>2. \A g \in Hooks : Held(g) => g # h
    BY <1>1 DEF Held, Working
  <2>3. \A g, S : Working(g, S)' <=> g = h /\ "arm_detour" \in S
    BY <1>1, <1>3, Constants DEF Working, TypeOK
  <2>4. \A g \in Hooks : (Held(g)' <=> Held(g)) /\ (Armed(g)' <=> Armed(g))
    BY <1>1, <1>3, <2>3 DEF Held, Armed, Working, HeldPcs
  <2>5. /\ \A g \in Hooks : g # h => slot'[g] = slot[g]
        /\ slot'[h] = i /\ slotTarget'[i] = None /\ handler'
        /\ \A j \in Slots : slotTarget'[j] # HookTarget[h]
    BY <1>1, <1>3 DEF TypeOK, FirstFree, Refused
  <2>6. SlotOfHook' /\ OnePerTarget' /\ HookOfSlot'
    BY <1>1, <2>2, <2>4, <2>5 DEF SInv, SlotOfHook, OnePerTarget, HookOfSlot
  <2>7. SlotInHand'
    BY <1>1, <2>3, <2>5 DEF SlotInHand
  <2>8. BytesOwned => BytesOwned'
    BY <1>1, <2>4 DEF BytesOwned
  <2> QED BY <2>1, <2>6, <2>7, <2>8 DEF SInv
<1> QED BY <1>2, <1>3 DEF arm, Goto

\* The detour is stored while no hook holds the slot.
LEMMA ArmDetourStep ==
    ASSUME TypeOK, SInv, NEW p \in Threads, arm_detour(p)
    PROVE  SInv' /\ (BytesOwned => BytesOwned')
<1> DEFINE h == arg[p]
<1>1. /\ UNCHANGED <<byte, slotTarget, handler, owner, stage, slot, saved, arg, at>>
      /\ pc[p] = "arm_detour" /\ owner = p /\ owner # None
      /\ h \in Hooks /\ stage[h] = "arming"
      /\ slotDetour' = [slotDetour EXCEPT ![slot[h]] = h]
      /\ pc' = [pc EXCEPT ![p] = "arm_target"]
  BY Constants DEF arm_detour, PublishedDetour, Goto, hookVars, SInv, InHand, LockOK, ArmPcs, LockedPcs
<1>2. ScanOK' /\ LockOK' /\ InHand'
  <2>1. Handles(p, h, "arm_target")
    BY <1>1 DEF Handles, Pcs, LockedPcs, DispatchPcs, RemPcs, HookPcs, ArmPcs, TypeOK
  <2> QED BY <1>1, <2>1, Bookkeeping
<1>3. /\ \A g, S : Working(g, S) <=> g = h /\ "arm_detour" \in S
      /\ \A g, S : Working(g, S)' <=> g = h /\ "arm_target" \in S
  BY <1>1 DEF Working, TypeOK
<1>4. \A g \in Hooks : (Held(g)' <=> Held(g)) /\ (Armed(g)' <=> Armed(g)) /\ (Held(g) => g # h)
  BY <1>1, <1>3 DEF Held, Armed, HeldPcs
<1>5. /\ slotTarget[slot[h]] = None /\ handler /\ slot[h] \in Slots
      /\ \A i \in Slots : slotTarget[i] # HookTarget[h]
  BY <1>1, <1>3 DEF SInv, SlotInHand, ArmPcs, TypeOK
<1>6. /\ slotDetour'[slot[h]] = h
      /\ \A g \in Hooks : Held(g) => slotDetour'[slot[g]] = slotDetour[slot[g]]
  BY <1>1, <1>5, OwnSlot DEF TypeOK, SInv
<1>7. SlotOfHook' /\ OnePerTarget' /\ HookOfSlot'
  BY <1>1, <1>4, <1>6 DEF SInv, SlotOfHook, OnePerTarget, HookOfSlot
<1>8. SlotInHand'
  BY <1>1, <1>3, <1>5, <1>6 DEF SlotInHand
<1>9. BytesOwned => BytesOwned'
  BY <1>1, <1>4 DEF BytesOwned
<1> QED BY <1>2, <1>7, <1>8, <1>9 DEF SInv

\* The target is stored: the hook holds its slot.
LEMMA ArmTargetStep ==
    ASSUME TypeOK, SInv, NEW p \in Threads, arm_target(p)
    PROVE  SInv' /\ (BytesOwned => BytesOwned')
<1> DEFINE h == arg[p]
<1>1. /\ UNCHANGED <<byte, slotDetour, handler, owner, stage, slot, saved, arg, at>>
      /\ pc[p] = "arm_target" /\ owner = p /\ owner # None
      /\ h \in Hooks /\ stage[h] = "arming"
      /\ slotTarget' = [slotTarget EXCEPT ![slot[h]] = HookTarget[h]]
      /\ pc' = [pc EXCEPT ![p] = "arm_write"]
  BY Constants DEF arm_target, Goto, hookVars, SInv, InHand, LockOK, ArmPcs, LockedPcs
<1>2. ScanOK' /\ LockOK' /\ InHand'
  <2>1. Handles(p, h, "arm_write")
    BY <1>1 DEF Handles, Pcs, LockedPcs, DispatchPcs, RemPcs, HookPcs, ArmPcs, TypeOK
  <2> QED BY <1>1, <2>1, Bookkeeping
<1>3. /\ \A g, S : Working(g, S) <=> g = h /\ "arm_target" \in S
      /\ \A g, S : Working(g, S)' <=> g = h /\ "arm_write" \in S
  BY <1>1 DEF Working, TypeOK
<1>4. /\ \A g \in Hooks : Held(g)' <=> Held(g) \/ g = h
      /\ \A g \in Hooks : (Armed(g)' <=> Armed(g)) /\ (Held(g) => g # h)
  BY <1>1, <1>3 DEF Held, Armed, HeldPcs
<1>5. /\ slotTarget[slot[h]] = None /\ handler /\ slotDetour[slot[h]] = h /\ slot[h] \in Slots
      /\ \A i \in Slots : slotTarget[i] # HookTarget[h]
  BY <1>1, <1>3 DEF SInv, SlotInHand, ArmPcs, TypeOK
<1>6. /\ slotTarget'[slot[h]] = HookTarget[h]
      /\ \A i \in Slots : i # slot[h] => slotTarget'[i] = slotTarget[i]
      /\ \A g \in Hooks : Held(g) => slot[g] \in Slots /\ slot[g] # slot[h]
  BY <1>1, <1>5, OwnSlot DEF TypeOK, SInv
<1>7. SlotOfHook'
  BY <1>1, <1>4, <1>5, <1>6 DEF SInv, SlotOfHook
<1>8. OnePerTarget'
  <2>1. \A g \in Hooks : Held(g) => HookTarget[g] # HookTarget[h]
    BY <1>5, <1>6 DEF SInv, SlotOfHook
  <2> QED BY <1>4, <2>1 DEF SInv, OnePerTarget
<1>9. HookOfSlot'
  BY <1>1, <1>4, <1>6 DEF SInv, HookOfSlot
<1>10. SlotInHand'
  BY <1>1, <1>3, <1>5 DEF SlotInHand
<1>11. BytesOwned => BytesOwned'
  BY <1>1, <1>4 DEF BytesOwned
<1> QED BY <1>2, <1>7, <1>8, <1>9, <1>10, <1>11 DEF SInv

\* A hook gives up its slot, which no other hook holds.
LEMMA SlotCleared ==
    ASSUME TypeOK, SInv, NEW h \in Hooks, Held(h),
           slotTarget' = [slotTarget EXCEPT ![slot[h]] = None],
           UNCHANGED <<slotDetour, handler, slot>>,
           \A g \in Hooks : Held(g)' <=> Held(g) /\ g # h
    PROVE  /\ SlotOfHook' /\ OnePerTarget' /\ HookOfSlot'
           /\ slotTarget'[slot[h]] = None
<1>1. \A g \in Hooks : Held(g) /\ g # h => slot[g] # slot[h]
  BY DEF SInv, SlotOfHook, OnePerTarget
<1>2. /\ slotTarget'[slot[h]] = None
      /\ \A i \in Slots : i # slot[h] => slotTarget'[i] = slotTarget[i]
      /\ \A g \in Hooks : slot[g] \in Slots
  BY DEF TypeOK
<1>3. SlotOfHook' /\ OnePerTarget'
  BY <1>1, <1>2 DEF SInv, SlotOfHook, OnePerTarget
<1>4. HookOfSlot'
  BY <1>2 DEF SInv, HookOfSlot
<1> QED BY <1>2, <1>3, <1>4

\* The byte is written, or the slot withdrawn.
LEMMA ArmWriteStep ==
    ASSUME TypeOK, SInv, NEW p \in Threads, arm_write(p)
    PROVE  SInv' /\ (BytesOwned => BytesOwned')
<1> DEFINE h == arg[p]
           t == HookTarget[h]
<1>1. /\ UNCHANGED <<slotDetour, handler, slot, at>>
      /\ pc[p] = "arm_write" /\ owner = p /\ owner # None
      /\ h \in Hooks /\ t \in Targets /\ stage[h] = "arming"
  BY Constants DEF arm_write, SInv, InHand, LockOK, ArmPcs, LockedPcs
<1>2. \A g, S : Working(g, S) <=> g = h /\ "arm_write" \in S
  BY <1>1 DEF Working
<1>3. Held(h) /\ ~Armed(h) /\ handler
  BY <1>1, <1>2 DEF Held, Armed, HeldPcs, SInv, SlotInHand, ArmPcs
<1>4. CASE /\ saved' = [saved EXCEPT ![h] = byte[t]]
           /\ byte' = [byte EXCEPT ![t] = "cc"]
           /\ stage' = [stage EXCEPT ![h] = "live"]
           /\ arg' = [arg EXCEPT ![p] = None]
           /\ owner' = None
           /\ pc' = [pc EXCEPT ![p] = "run"]
           /\ slotTarget' = slotTarget
  <2>1. ScanOK' /\ LockOK' /\ InHand'
    <3>1. Handles(p, h, "run")
      BY <1>1, <1>4, Constants DEF Handles, Pcs, LockedPcs, DispatchPcs, RemPcs, HookPcs, ArmPcs, TypeOK
    <3> QED BY <1>1, <3>1, Bookkeeping
  <2>2. /\ \A g, S : ~Working(g, S)'
        /\ stage'[h] = "live" /\ saved'[h] = byte[t] /\ byte'[t] = "cc"
        /\ \A g \in Hooks : g # h => stage'[g] = stage[g] /\ saved'[g] = saved[g]
        /\ \A u \in Targets : u # t => byte'[u] = byte[u]
    BY <1>1, <1>4 DEF Working, TypeOK
  <2>3. \A g \in Hooks : (Held(g)' <=> Held(g)) /\ (Armed(g)' <=> Armed(g) \/ g = h)
    BY <1>1, <1>2, <1>3, <2>2 DEF Held, Armed
  <2>4. SlotOfHook' /\ OnePerTarget' /\ HookOfSlot'
    BY <1>1, <1>4, <2>3 DEF SInv, SlotOfHook, OnePerTarget, HookOfSlot
  <2>5. SlotInHand'
    BY <2>2 DEF SlotInHand
  <2>6. ASSUME BytesOwned PROVE BytesOwned'
    <3>1. \A g \in Hooks : Armed(g) => Held(g)
      BY DEF Armed, Held, Working, HeldPcs
    <3>2. byte[t] # "cc"
      BY <1>1, <1>3, <2>6, <3>1 DEF BytesOwned, SInv, OnePerTarget
    <3>3. saved'[h] = "orig"
      BY <1>1, <2>2, <3>2 DEF TypeOK, Byte
    <3>4. \A u \in Targets : byte'[u] = "cc" =>
              \E g \in Hooks : Armed(g)' /\ HookTarget[g] = u
      BY <1>1, <2>2, <2>3, <2>6 DEF BytesOwned
    <3>5. \A g \in Hooks : Armed(g)' => saved'[g] = "orig"
      BY <2>2, <2>3, <2>6, <3>3 DEF BytesOwned
    <3> QED BY <3>4, <3>5 DEF BytesOwned
  <2> QED BY <2>1, <2>4, <2>5, <2>6 DEF SInv
<1>5. CASE /\ slotTarget' = [slotTarget EXCEPT ![slot[h]] = None]
           /\ pc' = [pc EXCEPT ![p] = "arm_undo"]
           /\ UNCHANGED <<byte, stage, saved, owner, arg>>
  <2>1. ScanOK' /\ LockOK' /\ InHand'
    <3>1. Handles(p, h, "arm_undo")
      BY <1>1, <1>5 DEF Handles, Pcs, LockedPcs, DispatchPcs, RemPcs, HookPcs, ArmPcs, TypeOK
    <3> QED BY <1>1, <3>1, Bookkeeping
  <2>2. \A g, S : Working(g, S)' <=> g = h /\ "arm_undo" \in S
    BY <1>1, <1>5 DEF Working, TypeOK
  <2>3. \A g \in Hooks : (Held(g)' <=> Held(g) /\ g # h) /\ (Armed(g)' <=> Armed(g))
    BY <1>1, <1>2, <1>5, <2>2 DEF Held, Armed, HeldPcs
  <2>4. SlotOfHook' /\ OnePerTarget' /\ HookOfSlot' /\ slotTarget'[slot[h]] = None
    <3>1. \A g \in Hooks : Held(g)' <=> Held(g) /\ g # h
      BY <2>3
    <3> QED BY <1>1, <1>3, <1>5, <3>1, SlotCleared
  <2>5. SlotInHand'
    BY <1>1, <1>3, <1>5, <2>2, <2>4 DEF SlotInHand
  <2>6. BytesOwned => BytesOwned'
    BY <1>5, <2>3 DEF BytesOwned
  <2> QED BY <2>1, <2>4, <2>5, <2>6 DEF SInv
<1> QED BY <1>4, <1>5 DEF arm_write, RolledBack, Goto

\* The detour of a withdrawn slot is cleared, and the hook given up.
LEMMA ClearDetourStep ==
    ASSUME TypeOK, SInv, NEW p \in Threads, arm_undo(p) \/ rem_detour(p)
    PROVE  SInv' /\ (BytesOwned => BytesOwned')
<1> DEFINE h == arg[p]
<1>1. /\ UNCHANGED <<byte, slotTarget, handler, owner, slot, saved, at>>
      /\ pc[p] \in {"arm_undo", "rem_detour"} /\ owner = p /\ owner # None
      /\ h \in Hooks /\ stage[h] # "live"
      /\ slotDetour' = [slotDetour EXCEPT ![slot[h]] = None]
      /\ stage' = [stage EXCEPT ![h] = "none"]
      /\ arg' = [arg EXCEPT ![p] = None]
      /\ pc' = [pc EXCEPT ![p] = "release"]
  BY Constants DEF arm_undo, rem_detour, Goto, SInv, InHand, LockOK, ArmPcs, RemPcs, LockedPcs
<1>2. ScanOK' /\ LockOK' /\ InHand'
  <2>1. Handles(p, h, "release")
    BY <1>1 DEF Handles, Pcs, LockedPcs, DispatchPcs, RemPcs, HookPcs, ArmPcs, TypeOK
  <2> QED BY <1>1, <2>1, Bookkeeping
<1>3. /\ \A g, S : Working(g, S) <=> g = h /\ pc[p] \in S
      /\ \A g, S : Working(g, S)' <=> g = None /\ "release" \in S
  BY <1>1 DEF Working, TypeOK
<1>4. \A g \in Hooks : (Held(g)' <=> Held(g)) /\ (Armed(g)' <=> Armed(g)) /\ (Held(g) => g # h)
  BY <1>1, <1>3, Constants DEF Held, Armed, HeldPcs, TypeOK
<1>5. slotTarget[slot[h]] = None /\ slot[h] \in Slots
  BY <1>1, <1>3 DEF SInv, SlotInHand, TypeOK
<1>6. \A g \in Hooks : Held(g) => slotDetour'[slot[g]] = slotDetour[slot[g]]
  BY <1>1, <1>5, OwnSlot DEF TypeOK, SInv
<1>7. SlotOfHook' /\ OnePerTarget' /\ HookOfSlot'
  BY <1>1, <1>4, <1>6 DEF SInv, SlotOfHook, OnePerTarget, HookOfSlot
<1>8. SlotInHand'
  BY <1>3, Constants DEF SlotInHand
<1>9. BytesOwned => BytesOwned'
  BY <1>1, <1>4 DEF BytesOwned
<1> QED BY <1>2, <1>7, <1>8, <1>9 DEF SInv

\* A removal begins: the hook keeps its slot and its byte.
LEMMA RemoveStep ==
    ASSUME TypeOK, SInv, NEW p \in Threads, NEW h \in Hooks, remove(p, h)
    PROVE  SInv' /\ (BytesOwned => BytesOwned')
<1>1. /\ UNCHANGED <<byte, slotTarget, slotDetour, handler, slot, saved, at>>
      /\ pc[p] = "run" /\ owner = None /\ stage[h] = "live"
      /\ owner' = p
      /\ stage' = [stage EXCEPT ![h] = "removing"]
      /\ arg' = [arg EXCEPT ![p] = h]
      /\ pc' = [pc EXCEPT ![p] = "rem_write"]
  BY DEF remove, Goto
<1>2. ScanOK' /\ LockOK' /\ InHand'
  <2>1. Handles(p, h, "rem_write")
    BY <1>1 DEF Handles, Pcs, LockedPcs, DispatchPcs, RemPcs, HookPcs, ArmPcs, TypeOK
  <2> QED BY <2>1, Bookkeeping
<1>3. /\ \A g, S : ~Working(g, S)
      /\ \A g, S : Working(g, S)' <=> g = h /\ "rem_write" \in S
  BY <1>1, Constants DEF Working, TypeOK
<1>4. \A g \in Hooks : (Held(g)' <=> Held(g)) /\ (Armed(g)' <=> Armed(g))
  BY <1>1, <1>3 DEF Held, Armed, HeldPcs, TypeOK
<1>5. SlotOfHook' /\ OnePerTarget' /\ HookOfSlot'
  BY <1>1, <1>4 DEF SInv, SlotOfHook, OnePerTarget, HookOfSlot
<1>6. SlotInHand'
  BY <1>3 DEF SlotInHand, ArmPcs
<1>7. BytesOwned => BytesOwned'
  BY <1>1, <1>4 DEF BytesOwned
<1> QED BY <1>2, <1>5, <1>6, <1>7 DEF SInv

\* The original byte is back before the slot goes, unless the write is refused.
LEMMA RemWriteStep ==
    ASSUME TypeOK, SInv, NEW p \in Threads, rem_write(p)
    PROVE  SInv' /\ ("restore" \notin Faults /\ BytesOwned => BytesOwned')
<1> DEFINE h == arg[p]
           t == HookTarget[h]
<1>1. /\ UNCHANGED <<slotTarget, slotDetour, handler, owner, stage, slot, saved, arg, at>>
      /\ pc[p] = "rem_write" /\ owner = p /\ owner # None
      /\ h \in Hooks /\ t \in Targets /\ stage[h] = "removing"
      /\ pc' = [pc EXCEPT ![p] = "rem_target"]
  BY Constants DEF rem_write, Goto, tableVars, hookVars, SInv, InHand, LockOK, RemPcs, LockedPcs
<1>2. ScanOK' /\ LockOK' /\ InHand'
  <2>1. Handles(p, h, "rem_target")
    BY <1>1 DEF Handles, Pcs, LockedPcs, DispatchPcs, RemPcs, HookPcs, ArmPcs, TypeOK
  <2> QED BY <1>1, <2>1, Bookkeeping
<1>3. /\ \A g, S : Working(g, S) <=> g = h /\ "rem_write" \in S
      /\ \A g, S : Working(g, S)' <=> g = h /\ "rem_target" \in S
  BY <1>1 DEF Working, TypeOK
<1>4. \A g \in Hooks : (Held(g)' <=> Held(g)) /\ (Armed(g)' <=> Armed(g) /\ g # h)
  BY <1>1, <1>3 DEF Held, Armed, HeldPcs
<1>5. SlotOfHook' /\ OnePerTarget' /\ HookOfSlot'
  BY <1>1, <1>4 DEF SInv, SlotOfHook, OnePerTarget, HookOfSlot
<1>6. SlotInHand'
  BY <1>3 DEF SlotInHand, ArmPcs
<1>7. ASSUME "restore" \notin Faults, BytesOwned PROVE BytesOwned'
  <2>1. byte' = [byte EXCEPT ![t] = saved[h]] /\ Armed(h)
    BY <1>1, <1>3, <1>7 DEF rem_write, Armed
  <2>2. byte'[t] = "orig" /\ \A u \in Targets : u # t => byte'[u] = byte[u]
    BY <1>1, <1>7, <2>1 DEF TypeOK, BytesOwned
  <2> QED BY <1>1, <1>4, <1>7, <2>2 DEF BytesOwned
<1> QED BY <1>2, <1>5, <1>6, <1>7 DEF SInv

\* The slot goes.
LEMMA RemTargetStep ==
    ASSUME TypeOK, SInv, NEW p \in Threads, rem_target(p)
    PROVE  SInv' /\ (BytesOwned => BytesOwned')
<1> DEFINE h == arg[p]
<1>1. /\ UNCHANGED <<byte, slotDetour, handler, owner, stage, slot, saved, arg, at>>
      /\ pc[p] = "rem_target" /\ owner = p /\ owner # None
      /\ h \in Hooks /\ stage[h] = "removing"
      /\ slotTarget' = [slotTarget EXCEPT ![slot[h]] = None]
      /\ pc' = [pc EXCEPT ![p] = "rem_detour"]
  BY Constants DEF rem_target, Goto, hookVars, SInv, InHand, LockOK, RemPcs, LockedPcs
<1>2. ScanOK' /\ LockOK' /\ InHand'
  <2>1. Handles(p, h, "rem_detour")
    BY <1>1 DEF Handles, Pcs, LockedPcs, DispatchPcs, RemPcs, HookPcs, ArmPcs, TypeOK
  <2> QED BY <1>1, <2>1, Bookkeeping
<1>3. /\ \A g, S : Working(g, S) <=> g = h /\ "rem_target" \in S
      /\ \A g, S : Working(g, S)' <=> g = h /\ "rem_detour" \in S
  BY <1>1 DEF Working, TypeOK
<1>4. Held(h) /\ \A g \in Hooks : (Held(g)' <=> Held(g) /\ g # h) /\ (Armed(g)' <=> Armed(g))
  BY <1>1, <1>3 DEF Held, Armed, HeldPcs
<1>5. SlotOfHook' /\ OnePerTarget' /\ HookOfSlot' /\ slotTarget'[slot[h]] = None
  <2>1. \A g \in Hooks : Held(g)' <=> Held(g) /\ g # h
    BY <1>4
  <2> QED BY <1>1, <1>4, <2>1, SlotCleared
<1>6. SlotInHand'
  BY <1>1, <1>3, <1>5 DEF SlotInHand, ArmPcs
<1>7. BytesOwned => BytesOwned'
  BY <1>1, <1>4 DEF BytesOwned
<1> QED BY <1>2, <1>5, <1>6, <1>7 DEF SInv

\* forget, under no lock: another thread may be in the middle of an install.
LEMMA ForgetStep ==
    ASSUME TypeOK, SInv, NEW p \in Threads, NEW h \in Hooks, forget(p, h)
    PROVE  SInv' /\ (BytesOwned => BytesOwned')
<1> DEFINE t == HookTarget[h]
<1>1. /\ UNCHANGED <<slotDetour, handler, owner, slot, saved, pc, arg, at>>
      /\ pc[p] = "run" /\ stage[h] = "live"
      /\ byte' = [byte EXCEPT ![t] = "orig"]
      /\ slotTarget' = [slotTarget EXCEPT ![slot[h]] = None]
      /\ stage' = [stage EXCEPT ![h] = "none"]
  BY DEF forget, threadVars
<1>2. stage'[h] = "none" /\ \A g \in Hooks : g # h => stage'[g] = stage[g]
  BY <1>1 DEF TypeOK
<1>3. \A q \in Threads : pc[q] \in HookPcs => arg[q] \in Hooks /\ arg[q] # h
  BY <1>1 DEF SInv, InHand, HookPcs
<1>4. ScanOK' /\ LockOK'
  BY <1>1 DEF SInv, ScanOK, LockOK
<1>5. InHand'
  BY <1>1, <1>2, <1>3 DEF SInv, InHand, HookPcs
<1>6. \A g, S : Working(g, S)' <=> Working(g, S)
  BY <1>1 DEF Working
<1>7. ~Working(h, HookPcs) /\ Held(h)
  BY <1>1, <1>3 DEF Working, Held, TypeOK
<1>8. \A g \in Hooks : (Held(g)' <=> Held(g) /\ g # h) /\ (Armed(g)' <=> Armed(g) /\ g # h)
  BY <1>1, <1>2, <1>6, <1>7 DEF Held, Armed, Working, HeldPcs, HookPcs, ArmPcs, RemPcs
<1>9. SlotOfHook' /\ OnePerTarget' /\ HookOfSlot' /\ slotTarget'[slot[h]] = None
  <2>1. \A g \in Hooks : Held(g)' <=> Held(g) /\ g # h
    BY <1>8
  <2> QED BY <1>1, <1>7, <2>1, SlotCleared
<1>10. SlotInHand'
  <2>1. \A i \in Slots : slotTarget'[i] \in {slotTarget[i], None}
    BY <1>1 DEF TypeOK
  <2>2. \A g \in Hooks : slot[g] \in Slots /\ HookTarget[g] # None
    BY Constants DEF TypeOK
  <2> QED BY <1>1, <1>6, <2>1, <2>2 DEF SInv, SlotInHand
<1>11. ASSUME BytesOwned PROVE BytesOwned'
  <2>1. byte'[t] # "cc" /\ \A u \in Targets : u # t => byte'[u] = byte[u]
    BY <1>1, Constants DEF TypeOK
  <2> QED BY <1>1, <1>8, <1>11, <2>1 DEF BytesOwned
<1> QED BY <1>4, <1>5, <1>9, <1>10, <1>11 DEF SInv

\* The handler goes only when no slot is taken.
LEMMA ReleaseStep ==
    ASSUME TypeOK, SInv, NEW p \in Threads,
           release_unused_handler(p) \/ release_idle_handler(p)
    PROVE  SInv' /\ (BytesOwned => BytesOwned')
<1> DEFINE l == pc'[p]
<1>1. /\ UNCHANGED <<byte, slotTarget, slotDetour, stage, slot, saved, arg, at>>
      /\ \/ pc[p] = "run" /\ owner = None /\ owner' = p /\ l = "release"
         \/ pc[p] = "release" /\ owner' = None /\ l = "run"
      /\ \A q \in Threads : q # p => pc'[q] = pc[q]
  BY DEF release_unused_handler, release_idle_handler, Goto, TypeOK, tableVars, hookVars
<1>2. owner \in {None, p}
  BY <1>1 DEF SInv, LockOK, LockedPcs
<1>3. ScanOK'
  BY <1>1 DEF SInv, ScanOK
<1>4. LockOK'
  <2>1. \A q \in Threads : q # p => pc[q] \notin LockedPcs
    BY <1>2, Constants DEF SInv, LockOK
  <2>2. "release" \in LockedPcs /\ "run" \notin LockedPcs
    BY DEF LockedPcs
  <2> QED BY <1>1, <2>1, <2>2, Constants DEF LockOK
<1>5. InHand'
  <2>1. l \notin HookPcs /\ l \notin {"arm"} \cup ArmPcs /\ l \notin RemPcs
    BY <1>1 DEF HookPcs, ArmPcs, RemPcs
  <2> QED BY <1>1, <2>1 DEF SInv, InHand
<1>6. \A g \in Hooks : \A S \in SUBSET (ArmPcs \cup RemPcs) : ~Working(g, S) /\ ~Working(g, S)'
  BY <1>1, <1>2, Constants DEF Working, ArmPcs, RemPcs
<1>7. \A g \in Hooks : (Held(g)' <=> Held(g)) /\ (Armed(g)' <=> Armed(g))
  BY <1>1, <1>6 DEF Held, Armed, HeldPcs, ArmPcs, RemPcs
<1>8. \A g \in Hooks : Held(g) => handler'
  <2>1. CASE handler' = handler
    BY <2>1 DEF SInv, SlotOfHook
  <2>2. CASE SlotsIdle
    BY <2>2, Constants DEF SlotsIdle, SInv, SlotOfHook, TypeOK
  <2> QED BY <2>1, <2>2 DEF release_unused_handler, release_idle_handler, tableVars
<1>9. SlotOfHook' /\ OnePerTarget' /\ HookOfSlot'
  BY <1>1, <1>7, <1>8 DEF SInv, SlotOfHook, OnePerTarget, HookOfSlot
<1>10. SlotInHand'
  BY <1>6 DEF SlotInHand, ArmPcs, RemPcs
<1>11. BytesOwned => BytesOwned'
  BY <1>1, <1>7 DEF BytesOwned
<1> QED BY <1>3, <1>4, <1>5, <1>9, <1>10, <1>11 DEF SInv

-----------------------------------------------------------------------------
(***************************************************************************)
(* Theorems                                                                *)
(***************************************************************************)

LEMMA InitInv == Init => TypeOK /\ SInv /\ BytesOwned
<1> SUFFICES ASSUME Init PROVE TypeOK /\ SInv /\ BytesOwned OBVIOUS
<1>1. TypeOK
  BY InitType
<1>2. /\ \A p \in Threads : pc[p] = "run"
      /\ owner = None
      /\ \A h \in Hooks : stage[h] = "none"
      /\ \A i \in Slots : slotTarget[i] = None
      /\ \A t \in Targets : byte[t] # "cc"
  BY DEF Init
<1>3. \A h \in Hooks : ~Held(h) /\ ~Armed(h) /\ \A S : ~Working(h, S)
  BY <1>2 DEF Held, Armed, Working
<1>4. ScanOK /\ LockOK /\ InHand
  BY <1>2 DEF ScanOK, LockOK, InHand, LockedPcs, HookPcs, ArmPcs, RemPcs
<1>5. SlotOfHook /\ OnePerTarget /\ HookOfSlot /\ SlotInHand /\ BytesOwned
  BY <1>2, <1>3 DEF SlotOfHook, OnePerTarget, HookOfSlot, SlotInHand, BytesOwned
<1> QED BY <1>1, <1>4, <1>5 DEF SInv

LEMMA StepInv ==
    ASSUME TypeOK, SInv, [Next]_vars
    PROVE  /\ TypeOK' /\ SInv'
           /\ "restore" \notin Faults /\ BytesOwned => BytesOwned'
<1> DEFINE Goal == /\ TypeOK' /\ SInv'
                   /\ "restore" \notin Faults /\ BytesOwned => BytesOwned'
<1>1. ASSUME NEW p \in Threads, Handle(p) \/ return(p) \/ (\E t \in Targets : trap(p, t))
      PROVE  Goal
  <2>1. TypeOK'
    BY <1>1, HandleType DEF SInv
  <2> QED BY <1>1, <2>1, HandleStep
<1>2. ASSUME NEW p \in Threads, Call(p) \/ Locked(p)
      PROVE  Goal
  <2>1. TypeOK'
    BY <1>2, CallType DEF SInv
  <2>2. SInv' /\ ("restore" \notin Faults /\ BytesOwned => BytesOwned')
    BY <1>2, InstallStep, ArmStep, ArmDetourStep, ArmTargetStep, ArmWriteStep,
       ClearDetourStep, RemoveStep, RemWriteStep, RemTargetStep, ForgetStep, ReleaseStep
    DEF Call, Locked
  <2> QED BY <2>1, <2>2
<1>3. CASE UNCHANGED vars
  <2>1. TypeOK'
    BY <1>3 DEF TypeOK, vars, tableVars, hookVars, threadVars
  <2>2. /\ UNCHANGED <<byte, slotTarget, slotDetour, handler, owner>>
        /\ UNCHANGED <<stage, slot, saved, pc, arg, at>>
    BY <1>3 DEF vars, tableVars, hookVars, threadVars
  <2>3. ScanOK' /\ LockOK' /\ InHand'
    BY <2>2 DEF SInv, ScanOK, LockOK, InHand
  <2>4. \A g, S : Working(g, S)' <=> Working(g, S)
    BY <2>2 DEF Working
  <2>5. \A g \in Hooks : (Held(g)' <=> Held(g)) /\ (Armed(g)' <=> Armed(g))
    BY <2>2, <2>4 DEF Held, Armed
  <2>6. SlotOfHook' /\ OnePerTarget' /\ HookOfSlot'
    BY <2>2, <2>5 DEF SInv, SlotOfHook, OnePerTarget, HookOfSlot
  <2>7. SlotInHand' /\ (BytesOwned => BytesOwned')
    BY <2>2, <2>4, <2>5 DEF SInv, SlotInHand, BytesOwned
  <2> QED BY <2>1, <2>3, <2>6, <2>7 DEF SInv
<1> QED BY <1>1, <1>2, <1>3 DEF Next

(***************************************************************************)
(* Every variable of the slot table, the hooks and the threads keeps its   *)
(* type, whatever is installed, removed, forgotten or refused: the ring    *)
(* index wraps, and the handler only loads detours of existing slots.      *)
(***************************************************************************)
THEOREM TypeInvariant == Spec => []TypeOK
<1>1. Init => TypeOK /\ SInv
  BY InitInv
<1>2. TypeOK /\ SInv /\ [Next]_vars => TypeOK' /\ SInv'
  BY StepInv
<1> QED BY <1>1, <1>2, PTL DEF Spec

(***************************************************************************)
(* A taken slot always belongs to a hook that is being armed, live or      *)
(* being removed, although forget clears its slot without the locks.       *)
(***************************************************************************)
THEOREM SlotsAreNeverLost == Spec => []NoSlotLost
<1>1. Init => TypeOK /\ SInv
  BY InitInv
<1>2. TypeOK /\ SInv /\ [Next]_vars => TypeOK' /\ SInv'
  BY StepInv
<1>3. TypeOK /\ SInv => NoSlotLost
  <2> SUFFICES ASSUME TypeOK, SInv, NEW i \in Slots, slotTarget[i] # None
               PROVE  \E h \in Hooks : /\ stage[h] # "none" /\ slot[h] = i
                                       /\ HookTarget[h] = slotTarget[i]
    BY DEF NoSlotLost
  <2>1. PICK h \in Hooks : Held(h) /\ slot[h] = i
    BY DEF SInv, HookOfSlot
  <2>2. stage[h] # "none"
    BY <2>1 DEF Held, Working, HeldPcs, SInv, InHand, ArmPcs, RemPcs, TypeOK
  <2> QED BY <2>1, <2>2 DEF SInv, SlotOfHook
<1> QED BY <1>1, <1>2, <1>3, PTL DEF Spec

(***************************************************************************)
(* As long as restoring a byte is not refused, a 0xCC byte in the code     *)
(* always has the handler and a slot of its own behind it, at every step   *)
(* of an install, a removal and an unload.                                 *)
(***************************************************************************)
THEOREM BreakpointsAreServed ==
    ASSUME "restore" \notin Faults
    PROVE  Spec => []TrapIsServed
<1>1. Init => IInv
  BY InitInv DEF IInv
<1>2. IInv /\ [Next]_vars => IInv'
  BY StepInv DEF IInv
<1>3. IInv => TrapIsServed
  <2> SUFFICES ASSUME IInv, NEW t \in Targets, byte[t] = "cc"
               PROVE  /\ handler
                      /\ \E i \in Slots : /\ slotTarget[i] = t
                                          /\ slotDetour[i] \in Hooks
                                          /\ HookTarget[slotDetour[i]] = t
    BY DEF TrapIsServed
  <2>1. PICK h \in Hooks : Armed(h) /\ HookTarget[h] = t
    BY DEF IInv, BytesOwned
  <2>2. Held(h)
    BY <2>1 DEF Armed, Held, Working, HeldPcs
  <2>3. slotTarget[slot[h]] = t /\ slotDetour[slot[h]] = h /\ handler /\ slot[h] \in Slots
    BY <2>1, <2>2 DEF IInv, SInv, SlotOfHook, TypeOK
  <2> QED BY <2>1, <2>3
<1> QED BY <1>1, <1>2, <1>3, PTL DEF Spec

-----------------------------------------------------------------------------
(***************************************************************************)
(* The detour a trap resumes in, when hooks are armed in quiet moments     *)
(***************************************************************************)

\* A step that publishes no detour and brings nobody to one disturbs nothing.
LEMMA DetourFrame ==
    ASSUME TypeOK, SInv, DInv, slot' = slot,
           \A i \in Slots : slotDetour'[i] \in {slotDetour[i], None},
           \A q \in Threads : pc'[q] \in {"load_detour", "arm_detour", "detour"} =>
               /\ pc'[q] = pc[q] /\ at'[q] = at[q]
               /\ addr'[q] = addr[q] /\ arg'[q] = arg[q]
    PROVE  DInv'
<1>1. LoadedOK'
  <2>1. ASSUME NEW q \in Threads, pc'[q] = "load_detour"
        PROVE  slotDetour'[at'[q]] = None \/ HookTarget[slotDetour'[at'[q]]] = addr'[q]
    <3>1. /\ pc[q] = "load_detour" /\ at'[q] = at[q] /\ addr'[q] = addr[q]
          /\ at[q] \in Slots
      BY <2>1 DEF SInv, ScanOK
    <3> QED BY <3>1 DEF DInv, LoadedOK
  <2>2. ASSUME NEW q \in Threads, NEW r \in Threads,
               pc'[r] = "arm_detour", pc'[q] = "load_detour"
        PROVE  at'[q] # slot'[arg'[r]]
    BY <2>2 DEF DInv, LoadedOK
  <2> QED BY <2>1, <2>2 DEF LoadedOK
<1>2. OwnDetour'
  BY DEF DInv, OwnDetour
<1> QED BY <1>1, <1>2 DEF DInv

LEMMA TrapPlace ==
    ASSUME TypeOK, PlaceType, [Next]_vars
    PROVE  PlaceType'
<1> DEFINE Kept(p) == /\ \A q \in Threads : q # p => pc'[q] = pc[q] /\ addr'[q] = addr[q]
                      /\ pc'[p] \in DispatchPcs => addr'[p] \in Targets
<1>1. ASSUME NEW p \in Threads, Locked(p) PROVE Kept(p)
  BY <1>1 DEF Locked, arm_detour, arm_target, arm_write, arm_undo, rem_write, rem_target, rem_detour,
              release_idle_handler, Goto, TypeOK, DispatchPcs
<1>2. ASSUME NEW p \in Threads, Call(p) PROVE Kept(p)
  <2>1. ASSUME NEW h \in Hooks, forget(p, h) PROVE Kept(p)
    BY <2>1 DEF forget, PlaceType, threadVars
  <2>2. CASE arm(p)
    BY <2>2 DEF arm, Goto, TypeOK, DispatchPcs
  <2> QED BY <1>2, <2>1, <2>2 DEF Call, install, remove, release_unused_handler,
                                  Goto, TypeOK, DispatchPcs
<1>3. ASSUME NEW p \in Threads, Handle(p) PROVE Kept(p)
  BY <1>3 DEF Handle, dispatch, find_detour, load_detour, scan_retired, read_byte,
              Goto, TypeOK, DispatchPcs, PlaceType
<1>4. ASSUME NEW p \in Threads, return(p) \/ (\E t \in Targets : trap(p, t)) PROVE Kept(p)
  BY <1>4 DEF return, trap, Goto, TypeOK, DispatchPcs
<1>5. ASSUME NEW p \in Threads, Kept(p) PROVE PlaceType'
  BY <1>5 DEF PlaceType
<1>6. CASE UNCHANGED vars
  BY <1>6 DEF PlaceType, vars, threadVars
<1> QED BY <1>1, <1>2, <1>3, <1>4, <1>5, <1>6 DEF Next

\* A slot is chosen while nobody dispatches.
LEMMA DetourArm ==
    ASSUME TypeOK, SInv, DInv, PlaceType, ArmWhenQuiet, NEW p \in Threads, arm(p)
    PROVE  DInv'
<1>1. /\ UNCHANGED <<slotDetour, addr, at>>
      /\ \A q \in Threads : q # p => pc'[q] = pc[q] /\ arg'[q] = arg[q]
      /\ pc'[p] \in {"run", "arm_detour"}
  BY DEF arm, Goto, TypeOK
<1>2. \A q \in Threads : pc[q] # "load_detour"
  BY DEF arm, Quiet, Dispatching, DispatchPcs, PlaceType
<1>3. \A q \in Threads : pc'[q] # "load_detour"
  BY <1>1, <1>2
<1>4. LoadedOK'
  BY <1>3 DEF LoadedOK
<1>5. OwnDetour'
  BY <1>1 DEF DInv, OwnDetour
<1> QED BY <1>4, <1>5 DEF DInv

\* The detour is published in a slot that nobody has loaded.
LEMMA DetourPublish ==
    ASSUME TypeOK, SInv, DInv, NEW p \in Threads, arm_detour(p)
    PROVE  DInv'
<1>1. /\ UNCHANGED <<slot, arg, addr, at>> /\ pc[p] = "arm_detour"
      /\ slotDetour' = [slotDetour EXCEPT ![slot[arg[p]]] = arg[p]]
      /\ \A q \in Threads : q # p => pc'[q] = pc[q]
      /\ pc'[p] = "arm_target"
  BY DEF arm_detour, PublishedDetour, Goto, TypeOK, hookVars
<1>2. \A q \in Threads : pc'[q] = "load_detour" =>
          /\ pc[q] = "load_detour" /\ at[q] \in Slots /\ slotDetour'[at[q]] = slotDetour[at[q]]
  BY <1>1 DEF DInv, LoadedOK, SInv, ScanOK, TypeOK
<1>3. LoadedOK'
  BY <1>1, <1>2 DEF DInv, LoadedOK
<1>4. OwnDetour'
  BY <1>1 DEF DInv, OwnDetour
<1> QED BY <1>3, <1>4 DEF DInv

\* A slot whose target is the trapped function holds a detour of it.
LEMMA DetourFound ==
    ASSUME TypeOK, SInv, DInv, PlaceType, NEW p \in Threads, find_detour(p)
    PROVE  DInv'
<1>1. /\ UNCHANGED <<slotTarget, slotDetour, slot, arg, addr>>
      /\ \A q \in Threads : q # p => pc'[q] = pc[q] /\ at'[q] = at[q]
  BY DEF find_detour, Goto, TypeOK, tableVars, hookVars
<1>2. CASE pc'[p] # "load_detour"
  <2>1. pc'[p] \notin {"arm_detour", "detour"}
    BY DEF find_detour, AfterScan, Goto, TypeOK
  <2>2. \A i \in Slots : slotDetour'[i] \in {slotDetour[i], None}
    BY <1>1
  <2> QED BY <1>1, <1>2, <2>1, <2>2, DetourFrame
<1>3. CASE pc'[p] = "load_detour"
  <2>1. /\ at'[p] = at[p] /\ at[p] \in Slots /\ slotTarget[at[p]] = addr[p]
        /\ pc[p] = "scan"
    BY <1>3 DEF find_detour, AfterScan, Goto, TypeOK
  <2>2. addr[p] # None
    BY <2>1, Constants DEF PlaceType, DispatchPcs
  <2>3. PICK h \in Hooks : Held(h) /\ slot[h] = at[p]
    BY <2>1, <2>2 DEF SInv, HookOfSlot
  <2>4. slotDetour[at[p]] = h /\ HookTarget[h] = addr[p]
    BY <2>1, <2>3 DEF SInv, SlotOfHook
  <2>5. \A q \in Threads : pc[q] = "arm_detour" => slot[arg[q]] # at[p]
    <3> SUFFICES ASSUME NEW q \in Threads, pc[q] = "arm_detour" PROVE slot[arg[q]] # at[p]
      OBVIOUS
    <3>1. arg[q] \in Hooks /\ Working(arg[q], {"arm_detour", "arm_target", "arm_undo", "rem_detour"})
      BY Constants DEF SInv, InHand, LockOK, LockedPcs, ArmPcs, Working
    <3>2. slotTarget[slot[arg[q]]] = None
      BY <3>1 DEF SInv, SlotInHand
    <3> QED BY <2>1, <2>2, <3>2
  <2>6. LoadedOK'
    <3>1. ASSUME NEW q \in Threads, pc'[q] = "load_detour"
          PROVE  slotDetour'[at'[q]] = None \/ HookTarget[slotDetour'[at'[q]]] = addr'[q]
      BY <1>1, <2>1, <2>4, <3>1 DEF DInv, LoadedOK
    <3>2. ASSUME NEW q \in Threads, NEW r \in Threads,
                 pc'[r] = "arm_detour", pc'[q] = "load_detour"
          PROVE  at'[q] # slot'[arg'[r]]
      <4>1. r # p /\ pc[r] = "arm_detour"
        BY <1>1, <1>3, <3>2
      <4> QED BY <1>1, <2>1, <2>5, <3>2, <4>1 DEF DInv, LoadedOK
    <3> QED BY <3>1, <3>2 DEF LoadedOK
  <2>7. OwnDetour'
    BY <1>1, <1>3 DEF DInv, OwnDetour
  <2> QED BY <2>6, <2>7 DEF DInv
<1> QED BY <1>2, <1>3

\* The detour taken is the one loaded.
LEMMA DetourTaken ==
    ASSUME TypeOK, SInv, DInv, NEW p \in Threads, load_detour(p)
    PROVE  DInv'
<1>1. /\ UNCHANGED <<slotDetour, slot, addr>> /\ pc[p] = "load_detour"
      /\ \A q \in Threads : q # p => pc'[q] = pc[q] /\ at'[q] = at[q] /\ arg'[q] = arg[q]
      /\ \/ /\ pc'[p] = "detour" /\ arg'[p] = slotDetour[at[p]] /\ slotDetour[at[p]] # None
         \/ pc'[p] = "scan"
  BY DEF load_detour, Goto, TypeOK, tableVars, hookVars
<1>2. LoadedOK'
  BY <1>1 DEF DInv, LoadedOK
<1>3. OwnDetour'
  BY <1>1 DEF DInv, LoadedOK, OwnDetour
<1> QED BY <1>2, <1>3 DEF DInv

LEMMA DetourStep ==
    ASSUME TypeOK, SInv, DInv, PlaceType, ArmWhenQuiet, [Next]_vars
    PROVE  DInv' /\ PlaceType'
<1> DEFINE Same(q) == /\ pc'[q] = pc[q] /\ at'[q] = at[q]
                      /\ addr'[q] = addr[q] /\ arg'[q] = arg[q]
           Marked == {"load_detour", "arm_detour", "detour"}
           Others(p) == \A q \in Threads : q # p => Same(q)
           Cleared == \A i \in Slots : slotDetour'[i] \in {slotDetour[i], None}
<1>1. ASSUME NEW p \in Threads, slot' = slot, Cleared, Others(p), pc'[p] \notin Marked
      PROVE  DInv'
  <2>1. \A q \in Threads : pc'[q] \in {"load_detour", "arm_detour", "detour"} => Same(q)
    BY <1>1
  <2> QED BY <1>1, <2>1, DetourFrame
<1>2. ASSUME NEW p \in Threads, Locked(p) PROVE DInv'
  <2>1. CASE arm_detour(p)
    BY <2>1, DetourPublish
  <2>2. CASE ~arm_detour(p)
    <3>1. slot' = slot /\ Others(p) /\ pc'[p] \notin Marked
      BY <1>2, <2>2 DEF Locked, arm_target, arm_write, arm_undo, rem_write, rem_target, rem_detour,
                        release_idle_handler, Goto, TypeOK, hookVars
    <3>2. Cleared
      BY <1>2, <2>2 DEF Locked, arm_target, arm_write, arm_undo, rem_write, rem_target, rem_detour,
                        release_idle_handler, TypeOK, tableVars
    <3> QED BY <1>1, <3>1, <3>2
  <2> QED BY <2>1, <2>2
<1>3. ASSUME NEW p \in Threads, Call(p) PROVE DInv'
  <2>1. CASE arm(p)
    BY <2>1, DetourArm
  <2>2. ASSUME NEW h \in Hooks, NEW w \in BOOLEAN, install(p, h, w) PROVE DInv'
    BY <1>1, <2>2 DEF install, Goto, TypeOK, tableVars
  <2>3. ASSUME NEW h \in Hooks, remove(p, h) PROVE DInv'
    BY <1>1, <2>3 DEF remove, Goto, TypeOK
  <2>4. ASSUME NEW h \in Hooks, forget(p, h) PROVE DInv'
    BY <1>1, <2>4 DEF forget, TypeOK, threadVars
  <2>5. CASE release_unused_handler(p)
    BY <1>1, <2>5 DEF release_unused_handler, Goto, TypeOK, tableVars, hookVars
  <2> QED BY <1>3, <2>1, <2>2, <2>3, <2>4, <2>5 DEF Call
<1>4. ASSUME NEW p \in Threads, Handle(p) PROVE DInv'
  <2>1. CASE find_detour(p)
    BY <2>1, DetourFound
  <2>2. CASE load_detour(p)
    BY <2>2, DetourTaken
  <2>3. CASE dispatch(p)
    BY <1>1, <2>3 DEF dispatch, Goto, TypeOK, tableVars, hookVars
  <2>4. CASE scan_retired(p)
    BY <1>1, <2>4 DEF scan_retired, Goto, TypeOK, tableVars, hookVars
  <2>5. CASE read_byte(p)
    BY <1>1, <2>5 DEF read_byte, Goto, TypeOK, tableVars, hookVars
  <2> QED BY <1>4, <2>1, <2>2, <2>3, <2>4, <2>5 DEF Handle
<1>5. ASSUME NEW p \in Threads, return(p) PROVE DInv'
  BY <1>1, <1>5 DEF return, Goto, TypeOK, tableVars, hookVars
<1>6. ASSUME NEW p \in Threads, NEW t \in Targets, trap(p, t) PROVE DInv'
  BY <1>1, <1>6 DEF trap, Goto, TypeOK, tableVars, hookVars
<1>7. ASSUME UNCHANGED vars PROVE DInv'
  <2>1. UNCHANGED <<slot, slotDetour, pc, at, addr, arg>>
    BY <1>7 DEF vars, tableVars, hookVars, threadVars
  <2>2. Cleared
    BY <2>1
  <2>3. \A q \in Threads : pc'[q] \in {"load_detour", "arm_detour", "detour"} => Same(q)
    BY <2>1
  <2>4. slot' = slot
    BY <2>1
  <2> QED BY <2>2, <2>3, <2>4, DetourFrame
<1>8. DInv'
  BY <1>2, <1>3, <1>4, <1>5, <1>6, <1>7 DEF Next
<1>9. PlaceType'
  BY TrapPlace
<1> QED BY <1>8, <1>9

(***************************************************************************)
(* Every trap resumes in a detour of the function it trapped in, also when *)
(* its hook is removed, and its slot withdrawn, while the handler scans:   *)
(* no slot changes hands under a dispatch, because hooks are armed only    *)
(* while no trap is dispatched.                                            *)
(***************************************************************************)
THEOREM DetoursAreOwn ==
    ASSUME ArmWhenQuiet
    PROVE  Spec => []OwnDetour
<1>1. Init => TypeOK /\ SInv /\ DInv /\ PlaceType
  <2>1. Init => TypeOK /\ SInv
    BY InitInv
  <2>2. Init => DInv /\ PlaceType
    BY DEF Init, DInv, LoadedOK, OwnDetour, PlaceType, DispatchPcs
  <2> QED BY <2>1, <2>2
<1>2. TypeOK /\ SInv /\ DInv /\ PlaceType /\ [Next]_vars => (TypeOK /\ SInv /\ DInv /\ PlaceType)'
  <2>1. TypeOK /\ SInv /\ [Next]_vars => TypeOK' /\ SInv'
    BY StepInv
  <2> QED BY <2>1, DetourStep
<1>3. DInv => OwnDetour
  BY DEF DInv
<1> QED BY <1>1, <1>2, <1>3, PTL DEF Spec

-----------------------------------------------------------------------------
(***************************************************************************)
(* No trap is lost                                                         *)
(***************************************************************************)

\* The ring has room for every slot.
LEMMA Room ==
    /\ IsFiniteSet(Removable)
    /\ Cardinality(Removable) \in Nat
    /\ Cardinality(Removable) <= NumSlots
<1>1. IsFiniteSet(Slots) /\ Cardinality(Slots) = NumSlots
  <2>1. 1 \in Int /\ NumSlots \in Int /\ ~(1 > NumSlots) /\ NumSlots - 1 + 1 = NumSlots
    BY SlotsAssumption
  <2> QED BY <2>1, FS_Interval DEF Slots
<1>2. Removable \in SUBSET Slots
  BY DEF Removable
<1>3. IsFiniteSet(Removable) /\ Cardinality(Removable) <= Cardinality(Slots)
  BY <1>1, <1>2, FS_Subset
<1> QED BY <1>1, <1>3, FS_CardinalityType

LEMMA NextPlace ==
    ASSUME TypeOK
    PROVE  /\ NextRetired \in Ring
           /\ NextRetired = IF retiredNext + 1 = RetiredLen THEN 0 ELSE retiredNext + 1
<1>1. /\ retiredNext \in Nat /\ RetiredLen \in Nat /\ RetiredLen > 0
      /\ retiredNext <= RetiredLen - 1
  BY RingAssumption, SlotsAssumption DEF TypeOK, Ring
<1>2. CASE retiredNext + 1 = RetiredLen
  BY <1>1, <1>2 DEF NextRetired, Ring
<1>3. CASE retiredNext + 1 < RetiredLen
  BY <1>1, <1>3 DEF NextRetired, Ring
<1> QED BY <1>1, <1>2, <1>3

\* An entry of the ring stays while nothing is removed.
LEMMA RingKept ==
    ASSUME TypeOK, UNCHANGED <<retired, retiredNext, slot>>,
           \A h \in Hooks : Pending(h)' => Pending(h),
           NEW t, NEW from, InRing(t, from)
    PROVE  InRing(t, from)'
<1>1. Removable' \in SUBSET Removable
  BY DEF Removable
<1>2. Cardinality(Removable') <= Cardinality(Removable) /\ IsFiniteSet(Removable')
  BY <1>1, Room, FS_Subset
<1>3. Cardinality(Removable') \in Nat
  BY <1>2, FS_CardinalityType
<1>4. PICK k \in Ring : k >= from /\ retired[k] = t /\ Fits(k)
  BY DEF InRing
<1>5. Age(k)' = Age(k) /\ Age(k) \in Int /\ RetiredLen \in Int
  BY RingAssumption DEF Age, TypeOK, Ring
<1>6. Fits(k)'
  BY <1>2, <1>3, <1>4, <1>5, Room DEF Fits
<1> QED BY <1>4, <1>6 DEF InRing

\* What an install or a removal may do, short of choosing a slot, entering the ring or
\* taking the handler away, leaves every dispatch its answer.
LEMMA DispatchFrame ==
    ASSUME TypeOK, SInv, RInv, NEW p \in Threads,
           pc[p] \notin DispatchPcs, pc'[p] \notin DispatchPcs \cup {"unhandled"},
           \A q \in Threads : q # p =>
               pc'[q] = pc[q] /\ addr'[q] = addr[q] /\ at'[q] = at[q] /\ rescan'[q] = rescan[q],
           UNCHANGED <<slot, handler>>,
           \A t, from : InRing(t, from) => InRing(t, from)',
           \A h \in Hooks : Working(h, PublishPcs)' => Working(h, PublishPcs),
           \A h \in Hooks : Working(h, {"rem_write"})' =>
               Working(h, {"rem_write"}) \/ InRing(HookTarget[h], 0)',
           \A h \in Hooks : Dispatching(HookTarget[h]) =>
               /\ stage[h] = "live" => stage'[h] = "live" \/ InRing(HookTarget[h], 0)'
               /\ Held(h)' => Held(h)
               /\ Held(h) => Held(h)' \/ ~HeldFor(HookTarget[h])',
           \A i \in Slots, t \in Targets : slotTarget[i] = t /\ Dispatching(t) =>
               slotTarget'[i] = t \/ ~HeldFor(t)'
    PROVE  RInv'
<1>1. \A q \in Threads : pc'[q] \in DispatchPcs =>
          /\ q # p /\ pc'[q] = pc[q] /\ addr'[q] = addr[q]
          /\ at'[q] = at[q] /\ rescan'[q] = rescan[q]
          /\ Dispatching(addr[q])
  BY DEF Dispatching
<1>2. \A t, from : InRing(t, from) => InRing(t, from)'
  OBVIOUS
<1>3. \A t : Dispatching(t)' => Dispatching(t)
  BY <1>1 DEF Dispatching
<1>4. ArmedQuietly'
  BY <1>3 DEF RInv, ArmedQuietly
<1>5. \A t : Dispatching(t) /\ LiveFor(t) => LiveFor(t)' \/ InRing(t, 0)'
  BY DEF LiveFor
<1>6. Covered'
  <2>1. ASSUME NEW q \in Threads, pc'[q] \in DispatchPcs
        PROVE  (LiveFor(addr[q]) \/ InRing(addr[q], 0))'
    <3>1. pc[q] \in DispatchPcs /\ addr'[q] = addr[q] /\ Dispatching(addr[q])
      BY <1>1, <2>1
    <3>2. PICK t : t = addr[q]
      OBVIOUS
    <3>3. Dispatching(t) /\ (LiveFor(t) \/ InRing(t, 0))
      BY <3>1, <3>2 DEF RInv, Covered
    <3>4. LiveFor(t)' \/ InRing(t, 0)'
      BY <1>2, <1>5, <3>3
    <3> QED BY <3>1, <3>2, <3>4 DEF LiveFor, InRing
  <2>2. ASSUME NEW h \in Hooks, Working(h, {"rem_write"})' PROVE InRing(HookTarget[h], 0)'
    BY <1>2, <2>2 DEF RInv, Covered
  <2> QED BY <2>1, <2>2 DEF Covered
<1>7. PlaceOK'
  <2>1. ASSUME NEW q \in Threads, pc'[q] \in DispatchPcs,
               NEW t, t = addr[q], NEW n, n = at[q]
        PROVE  Place(q, t, n)'
    <3>1. /\ pc'[q] = pc[q] /\ addr'[q] = addr[q] /\ at'[q] = at[q] /\ rescan'[q] = rescan[q]
          /\ Dispatching(t) /\ Place(q, t, n) /\ t \in Targets
      BY <1>1, <2>1 DEF RInv, PlaceOK, PlaceType
    <3>2. ~HeldFor(t) => ~HeldFor(t)'
      BY <3>1 DEF HeldFor
    <3>3. \A h \in Hooks : Held(h) /\ HookTarget[h] = t => Held(h)' \/ ~HeldFor(t)'
      BY <3>1
    <3>4. CASE pc[q] = "scan"
      BY <3>1, <3>2, <3>3, <3>4 DEF Place, DispatchPcs
    <3>5. CASE pc[q] = "load_detour"
      <4>1. n \in Slots
        BY <2>1, <3>5 DEF SInv, ScanOK
      <4>2. slotTarget[n] = t => slotTarget'[n] = t \/ ~HeldFor(t)'
        BY <3>1, <4>1
      <4> QED BY <3>1, <3>2, <3>5, <4>2 DEF Place, DispatchPcs
    <3>6. CASE pc[q] \in {"trapped", "ring", "read_byte"}
      BY <1>2, <3>1, <3>2, <3>6 DEF Place, DispatchPcs
    <3> QED BY <2>1, <3>1, <3>4, <3>5, <3>6 DEF DispatchPcs
  <2>2. ASSUME NEW q \in Threads PROVE Place(q, addr[q], at[q])'
    <3>1. CASE pc'[q] \in DispatchPcs
      BY <1>1, <2>1, <3>1 DEF Place, HeldFor, InRing
    <3>2. CASE pc'[q] \notin DispatchPcs
      BY <3>2 DEF Place, DispatchPcs
    <3> QED BY <3>1, <3>2
  <2> QED BY <2>2 DEF PlaceOK
<1>8. SafelyResumed'
  BY <1>1 DEF RInv, SafelyResumed, DispatchPcs
<1>9. PlaceType'
  BY <1>1 DEF RInv, PlaceType
<1> QED BY <1>4, <1>6, <1>7, <1>8, <1>9 DEF RInv

\* install, and an install that is refused.
LEMMA DispatchInstall ==
    ASSUME TypeOK, SInv, RInv, NEW p \in Threads, NEW h \in Hooks,
           stage[h] \in {"none", "arming"}, stage'[h] \in {"none", "arming"},
           \A g \in Hooks : g # h => stage'[g] = stage[g],
           pc[p] \in {"run", "arm"}, pc'[p] \in {"run", "arm"},
           \A q \in Threads : q # p => pc'[q] = pc[q] /\ arg'[q] = arg[q],
           UNCHANGED <<slotTarget, retired, retiredNext, handler, slot, owner, addr, at, rescan>>
    PROVE  RInv'
<1>1. owner # p
  BY Constants DEF SInv, LockOK, LockedPcs
<1>2. \A g, S : Working(g, S)' <=> Working(g, S)
  BY <1>1 DEF Working, TypeOK
<1>3. \A g \in Hooks : (Held(g)' <=> Held(g)) /\ (Pending(g)' <=> Pending(g))
  BY <1>2 DEF Held, Pending
<1>4. \A t, from : InRing(t, from) => InRing(t, from)'
  BY <1>3, RingKept
<1> QED BY <1>2, <1>3, <1>4, DispatchFrame DEF DispatchPcs

\* A slot is chosen while nobody dispatches and nothing is removed.
LEMMA DispatchArm ==
    ASSUME TypeOK, SInv, RInv, ArmWhenQuiet, NEW p \in Threads, arm(p)
    PROVE  RInv'
<1>1. /\ pc[p] = "arm" /\ owner = None /\ arg[p] \in Hooks /\ stage[arg[p]] = "arming"
      /\ UNCHANGED <<slotTarget, retired, retiredNext, addr, at, rescan>>
      /\ \A q \in Threads : q # p => pc'[q] = pc[q] /\ arg'[q] = arg[q]
      /\ pc'[p] \in {"run", "arm_detour"}
  BY DEF arm, Goto, TypeOK, SInv, InHand
<1>2. \A q \in Threads : pc[q] \notin DispatchPcs
  BY DEF arm, Quiet, Dispatching, RInv, PlaceType
<1>3. \A q \in Threads : pc'[q] \notin DispatchPcs /\ pc'[q] # "unhandled"
  BY <1>1, <1>2 DEF DispatchPcs, RInv, SafelyResumed
<1>4. \A h \in Hooks : ~Working(h, {"rem_write"})'
  BY <1>1, Constants DEF Working, arm
<1>5. \A t : ~Dispatching(t)'
  BY <1>3 DEF Dispatching
<1>6. PlaceOK'
  BY <1>3 DEF PlaceOK, Place, DispatchPcs
<1> QED BY <1>3, <1>4, <1>5, <1>6 DEF RInv, PlaceType, ArmedQuietly, Covered, SafelyResumed

\* The steps of an install and a removal that hold the locks.
LEMMA DispatchLocked ==
    ASSUME TypeOK, SInv, RInv, NEW p \in Threads, Locked(p), ~release_idle_handler(p)
    PROVE  RInv'
<1>0. /\ pc[p] \in ArmPcs \cup RemPcs
      /\ owner = p /\ owner # None /\ arg[p] \in Hooks
  <2>1. pc[p] \in ArmPcs \cup RemPcs
    BY DEF Locked, arm_detour, arm_target, arm_write, arm_undo, rem_write, rem_target, rem_detour,
           ArmPcs, RemPcs
  <2>2. owner = p /\ owner # None /\ arg[p] \in Hooks
    BY <2>1, Constants DEF SInv, InHand, LockOK, ArmPcs, RemPcs, LockedPcs
  <2> QED BY <2>1, <2>2
<1> PICK h \in Hooks : h = arg[p]
  BY <1>0
<1> DEFINE t == HookTarget[h]
<1>1. /\ pc[p] \in ArmPcs \cup RemPcs /\ owner = p /\ owner # None /\ h = arg[p] /\ t \in Targets
      /\ UNCHANGED <<retired, retiredNext, handler, slot, addr, at, rescan>>
      /\ \A q \in Threads : q # p => pc'[q] = pc[q] /\ arg'[q] = arg[q]
  BY <1>0, Constants DEF Locked, arm_detour, arm_target, arm_write, arm_undo, rem_write, rem_target,
           rem_detour, Goto, TypeOK, tableVars, hookVars
<1>2. \A g, S : Working(g, S) <=> g = h /\ pc[p] \in S
  BY <1>1 DEF Working
<1>3. /\ stage[h] # "live"
      /\ pc[p] \in PublishPcs => ~Dispatching(t)
  BY <1>1, <1>2 DEF SInv, InHand, RInv, ArmedQuietly
\* What remains for each step: its effect on its own hook and slot.
<1>4. ASSUME pc'[p] \in ArmPcs \cup RemPcs => owner' = p /\ arg'[p] = h,
             pc'[p] \notin ArmPcs \cup RemPcs => owner' \in {None, p},
             pc'[p] \in ArmPcs \cup RemPcs \cup {"run", "release"},
             pc'[p] # "rem_write",
             pc'[p] \in ArmPcs => pc[p] \in ArmPcs,
             pc'[p] \in PublishPcs => pc[p] \in PublishPcs,
             stage'[h] = "live" => pc[p] \in ArmPcs,
             \A g \in Hooks : g # h => stage'[g] = stage[g],
             ~Dispatching(t) \/ (Held(h)' <=> Held(h)) \/ (~Held(h)'),
             \A i \in Slots : slotTarget'[i] = slotTarget[i] \/ i = slot[h],
             slotTarget'[slot[h]] # slotTarget[slot[h]] /\ slotTarget[slot[h]] # None =>
                 slotTarget[slot[h]] = t /\ ~Held(h)' /\ Held(h)
      PROVE  RInv'
  <2>1. \A g \in Hooks : ~Working(g, {"rem_write"})'
    BY <1>1, <1>4, Constants DEF Working, ArmPcs, RemPcs
  <2>2. \A g \in Hooks : g # h => ~Working(g, HeldPcs) /\ ~Working(g, HeldPcs)'
    BY <1>1, <1>4, Constants DEF Working, ArmPcs, RemPcs, HeldPcs
  <2>3. \A g \in Hooks : Working(g, ArmPcs)' => Working(g, ArmPcs)
    BY <1>1, <1>4, Constants DEF Working, ArmPcs, RemPcs
  <2>4. \A g \in Hooks : Pending(g)' => Pending(g)
    BY <1>2, <1>4, <2>3 DEF Pending
  <2>13. \A g \in Hooks : Working(g, PublishPcs)' => Working(g, PublishPcs)
    BY <1>1, <1>4, Constants DEF Working, ArmPcs, RemPcs, PublishPcs
  <2>14. \A u, from : InRing(u, from) => InRing(u, from)'
    BY <1>1, <2>4, RingKept
  <2>5. \A g \in Hooks : g # h => (Held(g)' <=> Held(g))
    BY <1>4, <2>2 DEF Held
  <2>6. Held(h) /\ ~Held(h)' => ~HeldFor(t)'
    BY <1>1, <2>5 DEF HeldFor, SInv, OnePerTarget
  <2>7. \A g \in Hooks : Dispatching(HookTarget[g]) =>
               /\ stage[g] = "live" => stage'[g] = "live"
               /\ Held(g)' => Held(g)
               /\ Held(g) => Held(g)' \/ ~HeldFor(HookTarget[g])'
    BY <1>3, <1>4, <2>5, <2>6
  <2>8. \A i \in Slots, u \in Targets : slotTarget[i] = u /\ Dispatching(u) =>
               slotTarget'[i] = u \/ ~HeldFor(u)'
    BY <1>4, <2>6, Constants
  <2>9. /\ pc[p] \notin DispatchPcs /\ pc'[p] \notin DispatchPcs \cup {"unhandled"}
    BY <1>1, <1>4 DEF DispatchPcs, ArmPcs, RemPcs
  <2>10. \A q \in Threads : q # p =>
            pc'[q] = pc[q] /\ addr'[q] = addr[q] /\ at'[q] = at[q] /\ rescan'[q] = rescan[q]
    BY <1>1
  <2>11. \A g \in Hooks : Working(g, {"rem_write"})' => Working(g, {"rem_write"})
    BY <2>1
  <2>12. UNCHANGED <<slot, handler>>
    BY <1>1
  <2> QED BY <2>7, <2>8, <2>9, <2>10, <2>11, <2>12, <2>13, <2>14, DispatchFrame
<1> USE DEF Goto, ArmPcs, RemPcs, PublishPcs
<1>5. CASE arm_detour(p)
  <2>1. /\ pc[p] = "arm_detour" /\ pc'[p] = "arm_target"
        /\ UNCHANGED <<slotTarget, owner, stage, arg>>
    BY <1>5 DEF arm_detour, TypeOK, hookVars
  <2> QED BY <1>1, <1>3, <1>4, <2>1
<1>6. CASE arm_target(p)
  <2>1. /\ pc[p] = "arm_target" /\ pc'[p] = "arm_write"
        /\ UNCHANGED <<owner, stage, arg>>
        /\ slotTarget' = [slotTarget EXCEPT ![slot[h]] = t]
    BY <1>6 DEF arm_target, TypeOK, hookVars
  <2>2. slotTarget[slot[h]] = None /\ \A i \in Slots : slotTarget'[i] = slotTarget[i] \/ i = slot[h]
    BY <1>1, <1>2, <2>1 DEF SInv, SlotInHand, TypeOK
  <2> QED BY <1>1, <1>3, <1>4, <2>1, <2>2
<1>7. CASE arm_write(p)
  <2>1. pc[p] = "arm_write" /\ Held(h) /\ slotTarget[slot[h]] = t
    BY <1>1, <1>2, <1>7 DEF arm_write, Held, HeldPcs, SInv, SlotOfHook
  <2>2. CASE /\ stage' = [stage EXCEPT ![h] = "live"] /\ owner' = None
             /\ pc' = [pc EXCEPT ![p] = "run"] /\ slotTarget' = slotTarget
    BY <1>1, <1>3, <1>4, <2>1, <2>2 DEF TypeOK
  <2>3. CASE /\ slotTarget' = [slotTarget EXCEPT ![slot[h]] = None]
             /\ pc' = [pc EXCEPT ![p] = "arm_undo"] /\ UNCHANGED <<stage, owner, arg>>
    <3>1. ~Held(h)'
      BY <1>1, <1>3, <2>3 DEF Held, Working, HeldPcs, TypeOK
    <3>2. \A i \in Slots : slotTarget'[i] = slotTarget[i] \/ i = slot[h]
      BY <2>3 DEF TypeOK
    <3> QED BY <1>1, <1>3, <1>4, <2>1, <2>3, <3>1, <3>2 DEF TypeOK
  <2> QED BY <1>7, <2>2, <2>3 DEF arm_write, RolledBack
<1>8. CASE arm_undo(p) \/ rem_detour(p)
  <2>1. /\ pc[p] \in {"arm_undo", "rem_detour"} /\ pc'[p] = "release"
        /\ UNCHANGED <<owner, slotTarget>>
        /\ stage' = [stage EXCEPT ![h] = "none"] /\ arg'[p] = None
    BY <1>8 DEF arm_undo, rem_detour, TypeOK
  <2>2. ~Held(h)'
    BY <1>1, <2>1, Constants DEF Held, Working, HeldPcs, TypeOK
  <2> QED BY <1>1, <1>3, <1>4, <2>1, <2>2 DEF TypeOK
<1>9. CASE rem_write(p)
  <2>1. /\ pc[p] = "rem_write" /\ pc'[p] = "rem_target"
        /\ UNCHANGED <<slotTarget, owner, stage, arg>>
    BY <1>9 DEF rem_write, TypeOK, tableVars, hookVars
  <2>2. Held(h)' <=> Held(h)
    BY <1>1, <2>1 DEF Held, Working, HeldPcs
  <2> QED BY <1>1, <1>3, <1>4, <2>1, <2>2
<1>10. CASE rem_target(p)
  <2>1. /\ pc[p] = "rem_target" /\ pc'[p] = "rem_detour"
        /\ UNCHANGED <<owner, stage, arg>>
        /\ slotTarget' = [slotTarget EXCEPT ![slot[h]] = None]
    BY <1>10 DEF rem_target, TypeOK, hookVars
  <2>2. ~Held(h)' /\ Held(h) /\ slotTarget[slot[h]] = t
    BY <1>1, <1>2, <1>3, <2>1 DEF Held, Working, HeldPcs, SInv, SlotOfHook
  <2>3. \A i \in Slots : slotTarget'[i] = slotTarget[i] \/ i = slot[h]
    BY <2>1 DEF TypeOK
  <2> QED BY <1>1, <1>3, <1>4, <2>1, <2>2, <2>3
<1> QED BY <1>5, <1>6, <1>7, <1>8, <1>9, <1>10 DEF Locked

\* forget: nobody dispatches a trap of the unloaded function.
LEMMA DispatchForget ==
    ASSUME TypeOK, SInv, RInv, NEW p \in Threads, NEW h \in Hooks, forget(p, h)
    PROVE  RInv'
<1> DEFINE t == HookTarget[h]
<1>1. /\ UNCHANGED <<retired, retiredNext, handler, owner, slot, pc, arg, addr, at, rescan>>
      /\ pc[p] = "run" /\ stage[h] = "live" /\ ~Dispatching(t)
      /\ slotTarget' = [slotTarget EXCEPT ![slot[h]] = None]
      /\ stage' = [stage EXCEPT ![h] = "none"]
  BY DEF forget, threadVars
<1>2. \A g \in Hooks : g # h => stage'[g] = stage[g]
  BY <1>1 DEF TypeOK
<1>3. \A g, S : Working(g, S)' <=> Working(g, S)
  BY <1>1 DEF Working
<1>4. \A g \in Hooks : Pending(g)' => Pending(g)
  BY <1>1, <1>2, <1>3 DEF Pending
<1>11. \A g \in Hooks : g # h => (Held(g)' <=> Held(g))
  BY <1>2, <1>3 DEF Held
<1>13. \A u, from : InRing(u, from) => InRing(u, from)'
  BY <1>1, <1>4, RingKept
<1>12. \A g \in Hooks : /\ Working(g, PublishPcs)' => Working(g, PublishPcs)
                        /\ Working(g, {"rem_write"})' => Working(g, {"rem_write"})
  BY <1>3
<1>5. /\ \A i \in Slots : i # slot[h] => slotTarget'[i] = slotTarget[i]
      /\ slotTarget[slot[h]] = t
  BY <1>1 DEF SInv, SlotOfHook, Held, TypeOK
<1>6. pc[p] \notin DispatchPcs /\ pc'[p] \notin DispatchPcs \cup {"unhandled"}
  BY <1>1 DEF DispatchPcs
<1>7. \A g \in Hooks : Dispatching(HookTarget[g]) =>
          /\ stage[g] = "live" => stage'[g] = "live"
          /\ Held(g)' => Held(g)
          /\ Held(g) => Held(g)' \/ ~HeldFor(HookTarget[g])'
  <2> SUFFICES ASSUME NEW g \in Hooks, Dispatching(HookTarget[g])
               PROVE  stage'[g] = stage[g] /\ (Held(g)' <=> Held(g))
    OBVIOUS
  <2>1. g # h
    BY <1>1
  <2> QED BY <1>2, <1>11, <2>1
<1>8. \A i \in Slots, u \in Targets : slotTarget[i] = u /\ Dispatching(u) =>
          slotTarget'[i] = u \/ ~HeldFor(u)'
  BY <1>1, <1>5
<1>9. \A q \in Threads : q # p =>
          pc'[q] = pc[q] /\ addr'[q] = addr[q] /\ at'[q] = at[q] /\ rescan'[q] = rescan[q]
  BY <1>1
<1>10. UNCHANGED <<slot, handler>>
  BY <1>1
<1> QED BY <1>6, <1>7, <1>8, <1>9, <1>10, <1>12, <1>13, DispatchFrame

\* The removal of a hook ages the ring by one, and leaves one hook less to be removed.
LEMMA RingAged ==
    ASSUME TypeOK, SInv, RInv, NEW p \in Threads, NEW h \in Hooks, remove(p, h)
    PROVE  /\ InRing(HookTarget[h], 0)'
           /\ \A t, from : InRing(t, from) => InRing(t, from)'
<1>1. /\ pc[p] = "run" /\ stage[h] = "live" /\ owner = None /\ owner' = p
      /\ stage' = [stage EXCEPT ![h] = "removing"]
      /\ retired' = [retired EXCEPT ![retiredNext] = HookTarget[h]]
      /\ retiredNext' = NextRetired /\ slot' = slot
      /\ pc'[p] = "rem_write"
  BY DEF remove, Remembered, Goto, TypeOK
<1>2. \A g \in Hooks : /\ Pending(g) <=> stage[g] = "live"
                       /\ Pending(g)' <=> stage[g] = "live" /\ g # h
  <2>1. \A g \in Hooks : ~Working(g, ArmPcs) /\ ~Working(g, ArmPcs)'
    BY <1>1, Constants DEF Working, ArmPcs
  <2> QED BY <1>1, <2>1 DEF Pending, TypeOK
<1>3. \A g \in Hooks : stage[g] = "live" /\ slot[g] = slot[h] => g = h
  BY <1>1 DEF SInv, SlotOfHook, Held
<1>4. Removable' = Removable \ {slot[h]} /\ slot[h] \in Removable
  <2>1. \A g \in Hooks : slot[g] \in Slots
    BY DEF TypeOK
  <2>2. \A i \in Slots : i \in Removable <=> \E g \in Hooks : stage[g] = "live" /\ slot[g] = i
    BY <1>2 DEF Removable
  <2>3. \A i \in Slots : i \in Removable' <=>
            \E g \in Hooks : stage[g] = "live" /\ g # h /\ slot[g] = i
    BY <1>1, <1>2 DEF Removable
  <2>4. \A i \in Slots : i \in Removable' <=> i \in Removable /\ i # slot[h]
    BY <1>1, <1>3, <2>2, <2>3
  <2>5. Removable \subseteq Slots /\ Removable' \subseteq Slots
    BY DEF Removable
  <2> QED BY <1>1, <2>1, <2>2, <2>4, <2>5
<1>5. Cardinality(Removable') = Cardinality(Removable) - 1
  BY <1>4, Room, FS_RemoveElement
<1> DEFINE c == Cardinality(Removable)
<1>6. /\ c \in Nat /\ c <= NumSlots /\ NumSlots \in Nat /\ NumSlots <= RetiredLen
      /\ RetiredLen \in Nat /\ RetiredLen > 0
  BY Room, RingAssumption, SlotsAssumption
<1>7. /\ retiredNext \in Nat /\ retiredNext < RetiredLen /\ retiredNext' \in Nat
      /\ retiredNext' = IF retiredNext + 1 = RetiredLen THEN 0 ELSE retiredNext + 1
      /\ retiredNext \in Ring
  BY <1>1, <1>6, NextPlace DEF TypeOK, Ring
<1>8. ASSUME NEW k \in Ring PROVE k \in Nat /\ k < RetiredLen
  BY <1>6 DEF Ring
<1> HIDE DEF c
<1>9. \A k \in Ring : k # retiredNext => Age(k)' = Age(k) + 1
  BY <1>6, <1>7, <1>8 DEF Age
<1>10. Age(retiredNext) = RetiredLen - 1
  BY <1>6, <1>7 DEF Age
<1>11. \A k : k = retiredNext => Age(k)' = 0
  BY <1>6, <1>7 DEF Age
<1>12. ASSUME NEW k, k = retiredNext PROVE Fits(k)'
  BY <1>5, <1>6, <1>11, <1>12 DEF Fits, c
<1>13. ASSUME NEW k \in Ring, Fits(k) PROVE k # retiredNext /\ Fits(k)'
  <2>1. c >= 1
    <3>1. c # 0
      BY <1>4, Room, FS_EmptySet DEF c
    <3> QED BY <1>6, <3>1
  <2>2. Age(k) + c < RetiredLen /\ Age(k) \in Int
    BY <1>6, <1>7, <1>8, <1>13 DEF Fits, Age, c
  <2>3. k # retiredNext
    BY <1>6, <1>10, <2>1, <2>2
  <2>4. Age(k)' = Age(k) + 1 /\ Cardinality(Removable)' = c - 1
    BY <1>5, <1>9, <2>3 DEF c
  <2> QED BY <1>6, <2>2, <2>3, <2>4 DEF Fits
<1>14. \A t, from : InRing(t, from) => InRing(t, from)'
  <2> SUFFICES ASSUME NEW t, NEW from, InRing(t, from) PROVE InRing(t, from)'
    OBVIOUS
  <2>1. PICK k \in Ring : k >= from /\ retired[k] = t /\ Fits(k)
    BY DEF InRing
  <2>2. k # retiredNext /\ Fits(k)'
    BY <1>13, <2>1
  <2>3. retired'[k] = t
    BY <1>1, <2>1, <2>2 DEF TypeOK
  <2> QED BY <2>1, <2>2, <2>3 DEF InRing
<1>15. InRing(HookTarget[h], 0)'
  <2>1. PICK k \in Ring : k = retiredNext
    BY <1>7
  <2>2. retired'[k] = HookTarget[h] /\ Fits(k)' /\ k >= 0
    BY <1>1, <1>8, <1>12, <2>1 DEF TypeOK
  <2> QED BY <2>1, <2>2 DEF InRing
<1> QED BY <1>14, <1>15

\* A removal begins: the function has a place in the ring before its slot goes.
LEMMA DispatchRemove ==
    ASSUME TypeOK, SInv, RInv, NEW p \in Threads, NEW h \in Hooks, remove(p, h)
    PROVE  RInv'
<1>1. /\ UNCHANGED <<slotTarget, handler, slot, addr, at, rescan>>
      /\ pc[p] = "run" /\ owner = None /\ stage[h] = "live"
      /\ owner' = p /\ arg'[p] = h /\ pc'[p] = "rem_write"
      /\ stage' = [stage EXCEPT ![h] = "removing"]
      /\ \A q \in Threads : q # p => pc'[q] = pc[q]
  BY DEF remove, Goto, TypeOK
<1>2. /\ InRing(HookTarget[h], 0)'
      /\ \A t, from : InRing(t, from) => InRing(t, from)'
  BY RingAged
<1>3. \A g \in Hooks : /\ ~Working(g, HeldPcs)
                       /\ Working(g, HeldPcs)' <=> g = h
                       /\ Working(g, {"rem_write"})' => g = h
                       /\ ~Working(g, PublishPcs)'
  BY <1>1, Constants DEF Working, HeldPcs, PublishPcs
<1>4. \A g \in Hooks : Held(g)' <=> Held(g)
  BY <1>1, <1>3 DEF Held, TypeOK
<1>5. \A g \in Hooks : g # h => stage'[g] = stage[g]
  BY <1>1 DEF TypeOK
<1>6. \A g \in Hooks : Dispatching(HookTarget[g]) =>
          /\ stage[g] = "live" => stage'[g] = "live" \/ InRing(HookTarget[g], 0)'
          /\ Held(g)' => Held(g)
          /\ Held(g) => Held(g)' \/ ~HeldFor(HookTarget[g])'
  BY <1>2, <1>4, <1>5
<1>7. /\ \A g \in Hooks : Working(g, PublishPcs)' => Working(g, PublishPcs)
      /\ \A g \in Hooks : Working(g, {"rem_write"})' =>
             Working(g, {"rem_write"}) \/ InRing(HookTarget[g], 0)'
  BY <1>2, <1>3
<1>8. pc[p] \notin DispatchPcs /\ pc'[p] \notin DispatchPcs \cup {"unhandled"}
  BY <1>1 DEF DispatchPcs
<1>9. \A q \in Threads : q # p =>
          pc'[q] = pc[q] /\ addr'[q] = addr[q] /\ at'[q] = at[q] /\ rescan'[q] = rescan[q]
  BY <1>1
<1>10. /\ UNCHANGED <<slot, handler>>
       /\ \A i \in Slots, t \in Targets : slotTarget[i] = t /\ Dispatching(t) =>
              slotTarget'[i] = t \/ ~HeldFor(t)'
  BY <1>1
<1> QED BY <1>2, <1>6, <1>7, <1>8, <1>9, <1>10, DispatchFrame

\* The handler goes only when no trap is dispatched.
LEMMA DispatchRelease ==
    ASSUME TypeOK, SInv, RInv, NEW p \in Threads,
           release_unused_handler(p) \/ release_idle_handler(p)
    PROVE  RInv'
<1>1. /\ UNCHANGED <<slotTarget, stage, slot, arg, addr, at, rescan>>
      /\ pc[p] \in {"run", "release"} /\ pc'[p] \in {"run", "release"}
      /\ owner \in {None, p} /\ owner' \in {None, p}
      /\ \A q \in Threads : q # p => pc'[q] = pc[q]
  BY DEF release_unused_handler, release_idle_handler, Goto, TypeOK, tableVars, hookVars,
         SInv, LockOK, LockedPcs
<1>2. \A g \in Hooks : /\ ~Working(g, ArmPcs) /\ ~Working(g, ArmPcs)'
                       /\ ~Working(g, HeldPcs) /\ ~Working(g, HeldPcs)'
                       /\ ~Working(g, PublishPcs)' /\ ~Working(g, {"rem_write"})'
  BY <1>1 DEF Working, HeldPcs, PublishPcs, ArmPcs
<1>3. pc[p] \notin DispatchPcs /\ pc'[p] \notin DispatchPcs \cup {"unhandled"}
  BY <1>1 DEF DispatchPcs
<1>4. CASE UNCHANGED <<handler, retired, retiredNext>>
  <2>1. \A g \in Hooks : (Held(g)' <=> Held(g)) /\ (Pending(g)' => Pending(g))
    BY <1>1, <1>2 DEF Held, Pending
  <2>2. \A t, from : InRing(t, from) => InRing(t, from)'
    BY <1>1, <1>4, <2>1, RingKept
  <2>3. /\ \A g \in Hooks : Dispatching(HookTarget[g]) =>
              /\ stage[g] = "live" => stage'[g] = "live" \/ InRing(HookTarget[g], 0)'
              /\ Held(g)' => Held(g)
              /\ Held(g) => Held(g)' \/ ~HeldFor(HookTarget[g])'
        /\ \A g \in Hooks : Working(g, PublishPcs)' => Working(g, PublishPcs)
        /\ \A g \in Hooks : Working(g, {"rem_write"})' =>
               Working(g, {"rem_write"}) \/ InRing(HookTarget[g], 0)'
    BY <1>1, <1>2, <2>1
  <2>4. \A q \in Threads : q # p =>
            pc'[q] = pc[q] /\ addr'[q] = addr[q] /\ at'[q] = at[q] /\ rescan'[q] = rescan[q]
    BY <1>1
  <2>5. /\ UNCHANGED <<slot, handler>>
        /\ \A i \in Slots, t \in Targets : slotTarget[i] = t /\ Dispatching(t) =>
               slotTarget'[i] = t \/ ~HeldFor(t)'
    BY <1>1, <1>4
  <2> QED BY <1>3, <2>2, <2>3, <2>4, <2>5, DispatchFrame
<1>5. CASE SlotsIdle /\ ~exceptions_in_flight
  <2>1. ASSUME NEW q \in Threads, pc[q] \in DispatchPcs PROVE FALSE
    <3>1. PICK t \in Targets : t = addr[q]
      BY <2>1 DEF RInv, PlaceType
    <3>2. Dispatching(t) /\ (LiveFor(t) \/ InRing(t, 0))
      BY <2>1, <3>1 DEF RInv, Covered, Dispatching
    <3>3. ~LiveFor(t)
      BY <1>5, Constants DEF LiveFor, SlotsIdle, SInv, SlotOfHook, Held, TypeOK
    <3>4. ~InRing(t, 0)
      BY <1>5, <3>2, Constants DEF InRing, exceptions_in_flight
    <3> QED BY <3>2, <3>3, <3>4
  <2>2. \A q \in Threads : pc'[q] \notin DispatchPcs /\ pc'[q] # "unhandled"
    BY <1>1, <1>3, <2>1 DEF RInv, SafelyResumed
  <2>3. \A t : ~Dispatching(t)'
    BY <2>2 DEF Dispatching
  <2>4. PlaceOK'
    BY <2>2 DEF PlaceOK, Place, DispatchPcs
  <2> QED BY <1>2, <2>2, <2>3, <2>4 DEF RInv, PlaceType, ArmedQuietly, Covered, SafelyResumed
<1> QED BY <1>4, <1>5 DEF release_unused_handler, release_idle_handler, tableVars

\* Traps and the handler leave the tables alone.
LEMMA Unmoved ==
    ASSUME TypeOK, SInv, NEW p \in Threads, pc[p] \notin LockedPcs,
           \A q \in Threads : q # p => pc'[q] = pc[q] /\ arg'[q] = arg[q],
           UNCHANGED <<byte, tableVars, owner, hookVars>>
    PROVE  /\ \A g, S : Working(g, S)' <=> Working(g, S)
           /\ \A g \in Hooks : Held(g)' <=> Held(g)
           /\ \A t : HeldFor(t)' <=> HeldFor(t)
           /\ \A t : LiveFor(t)' <=> LiveFor(t)
           /\ \A t, from : InRing(t, from)' <=> InRing(t, from)
<1>1. UNCHANGED <<owner, stage, slot, retired, retiredNext>> /\ owner # p
  BY Constants DEF tableVars, hookVars, SInv, LockOK
<1>2. \A g, S : Working(g, S)' <=> Working(g, S)
  BY <1>1 DEF Working, TypeOK
<1>3. \A g \in Hooks : Held(g)' <=> Held(g)
  BY <1>1, <1>2 DEF Held
<1>4. \A g \in Hooks : Pending(g)' <=> Pending(g)
  BY <1>1, <1>2 DEF Pending
<1>5. Removable' = Removable
  BY <1>1, <1>4 DEF Removable
<1>6. \A k : Fits(k)' <=> Fits(k)
  BY <1>1, <1>5 DEF Fits, Age
<1>7. \A t, from : InRing(t, from)' <=> InRing(t, from)
  BY <1>1, <1>6 DEF InRing
<1> QED BY <1>1, <1>2, <1>3, <1>7 DEF HeldFor, LiveFor

\* A dispatch may move to any place with its answer ahead.
LEMMA DispatchMove ==
    ASSUME TypeOK, SInv, RInv, NEW p \in Threads, pc[p] \notin LockedPcs,
           \A q \in Threads : q # p => /\ pc'[q] = pc[q] /\ arg'[q] = arg[q] /\ addr'[q] = addr[q]
                                       /\ at'[q] = at[q] /\ rescan'[q] = rescan[q],
           UNCHANGED <<byte, tableVars, owner, hookVars>>,
           pc'[p] # "unhandled", NEW t, t = addr'[p], NEW n, n = at'[p],
           Place(p, t, n)',
           pc'[p] \in DispatchPcs =>
               /\ t \in Targets /\ (LiveFor(t) \/ InRing(t, 0))
               /\ \A h \in Hooks : Working(h, PublishPcs) => HookTarget[h] # t
    PROVE  RInv'
<1>1. /\ \A g, S : Working(g, S)' <=> Working(g, S)
      /\ \A g \in Hooks : Held(g)' <=> Held(g)
      /\ \A u : HeldFor(u)' <=> HeldFor(u)
      /\ \A u : LiveFor(u)' <=> LiveFor(u)
      /\ \A u, from : InRing(u, from)' <=> InRing(u, from)
  BY Unmoved
<1>2. PlaceType' /\ SafelyResumed'
  BY DEF RInv, PlaceType, SafelyResumed
<1>3. ArmedQuietly'
  <2> SUFFICES ASSUME NEW h \in Hooks, Working(h, PublishPcs), NEW q \in Threads,
                      pc'[q] \in DispatchPcs
               PROVE  addr'[q] # HookTarget[h]
    BY <1>1 DEF ArmedQuietly, Dispatching
  <2> QED BY DEF RInv, ArmedQuietly, Dispatching
<1>4. Covered'
  <2>1. ASSUME NEW q \in Threads, pc'[q] \in DispatchPcs
        PROVE  (LiveFor(addr[q]) \/ InRing(addr[q], 0))'
    <3>1. PICK u : u = addr'[q]
      OBVIOUS
    <3>2. LiveFor(u) \/ InRing(u, 0)
      BY <2>1, <3>1 DEF RInv, Covered
    <3>3. LiveFor(u)' \/ InRing(u, 0)'
      BY <1>1, <3>2
    <3> QED BY <3>1, <3>3 DEF LiveFor, InRing
  <2>2. ASSUME NEW h \in Hooks, Working(h, {"rem_write"})' PROVE InRing(HookTarget[h], 0)'
    BY <1>1, <2>2 DEF RInv, Covered
  <2> QED BY <2>1, <2>2 DEF Covered
<1>5. PlaceOK'
  <2>1. ASSUME NEW q \in Threads PROVE Place(q, addr[q], at[q])'
    <3>1. CASE q = p
      BY <3>1 DEF Place, HeldFor, InRing
    <3>2. CASE q # p
      <4>1. PICK u, m : u = addr[q] /\ m = at[q]
        OBVIOUS
      <4>2. Place(q, u, m) /\ pc'[q] = pc[q] /\ addr'[q] = u /\ at'[q] = m /\ rescan'[q] = rescan[q]
        BY <3>2, <4>1 DEF RInv, PlaceOK
      <4>3. UNCHANGED <<slotTarget, slot, handler>>
        BY DEF tableVars, hookVars
      <4>4. Place(q, u, m)'
        BY <1>1, <4>2, <4>3 DEF Place
      <4> QED BY <4>2, <4>4 DEF Place, HeldFor, InRing
    <3> QED BY <3>1, <3>2
  <2> QED BY <2>1 DEF PlaceOK
<1> QED BY <1>2, <1>3, <1>4, <1>5 DEF RInv

\* The function of a dispatched trap, and what is known of it.
LEMMA Dispatched ==
    ASSUME TypeOK, SInv, RInv, NEW p \in Threads, pc[p] \in DispatchPcs
    PROVE  /\ addr[p] \in Targets /\ addr[p] # None /\ handler
           /\ LiveFor(addr[p]) \/ InRing(addr[p], 0)
           /\ LiveFor(addr[p]) => HeldFor(addr[p])
           /\ \A h \in Hooks : Working(h, PublishPcs) => HookTarget[h] # addr[p]
           /\ Place(p, addr[p], at[p]) /\ at[p] \in Nat
           /\ pc[p] \notin LockedPcs
<1>1. addr[p] \in Targets /\ handler /\ Place(p, addr[p], at[p]) /\ at[p] \in Nat
  BY DEF RInv, PlaceType, PlaceOK, Place, TypeOK
<1>2. LiveFor(addr[p]) \/ InRing(addr[p], 0)
  BY DEF RInv, Covered
<1>3. LiveFor(addr[p]) => HeldFor(addr[p])
  BY DEF LiveFor, HeldFor, Held
<1>4. \A h \in Hooks : Working(h, PublishPcs) => HookTarget[h] # addr[p]
  BY DEF RInv, ArmedQuietly, Dispatching
<1>5. pc[p] \notin LockedPcs
  BY DEF DispatchPcs, LockedPcs
<1> QED BY <1>1, <1>2, <1>3, <1>4, <1>5, Constants

\* A breakpoint belongs to a hook that is live or in the ring, and not being published.
LEMMA DispatchTrap ==
    ASSUME TypeOK, SInv, BytesOwned, RInv, NEW p \in Threads, NEW t \in Targets, trap(p, t)
    PROVE  RInv'
<1>1. /\ pc[p] = "run" /\ byte[t] = "cc" /\ pc'[p] = "trapped" /\ addr'[p] = t
      /\ UNCHANGED <<byte, tableVars, owner, hookVars, arg, at, rescan>>
      /\ \A q \in Threads : q # p => pc'[q] = pc[q] /\ addr'[q] = addr[q]
  BY DEF trap, Goto, TypeOK
<1>2. PICK h \in Hooks : Armed(h) /\ HookTarget[h] = t
  BY <1>1 DEF BytesOwned
<1>3. Held(h) /\ handler /\ slotTarget[slot[h]] = t /\ slot[h] \in Slots
  BY <1>2 DEF Armed, Held, Working, HeldPcs, SInv, SlotOfHook, TypeOK
<1>4. LiveFor(t) \/ InRing(t, 0)
  BY <1>2 DEF Armed, LiveFor, RInv, Covered
<1>5. ASSUME NEW g \in Hooks, Working(g, PublishPcs), HookTarget[g] = t PROVE FALSE
  <2>1. /\ pc[owner] \in PublishPcs /\ owner # None /\ arg[owner] = g /\ owner \in Threads
        /\ stage[g] = "arming"
    BY <1>5 DEF Working, TypeOK, SInv, InHand, PublishPcs, ArmPcs
  <2>2. CASE pc[owner] \in {"arm_detour", "arm_target"}
    BY <1>3, <1>5, <2>1, <2>2 DEF Working, SInv, SlotInHand
  <2>3. CASE pc[owner] = "arm_write"
    <3>1. Held(g)
      BY <2>1, <2>3 DEF Held, Working, HeldPcs
    <3>2. g = h
      BY <1>2, <1>3, <1>5, <3>1 DEF SInv, OnePerTarget
    <3> QED BY <1>2, <2>1, <2>3, <3>2 DEF Armed, Working
  <2> QED BY <2>1, <2>2, <2>3 DEF PublishPcs
<1>6. PICK n : n = at'[p]
  OBVIOUS
<1>7. Place(p, t, n)'
  <2>1. handler'
    BY <1>1, <1>3 DEF tableVars
  <2> QED BY <1>1, <2>1 DEF Place
<1>8. pc[p] \notin LockedPcs /\ pc'[p] # "unhandled" /\ t = addr'[p]
  BY <1>1 DEF LockedPcs
<1>9. \A q \in Threads : q # p => /\ pc'[q] = pc[q] /\ arg'[q] = arg[q] /\ addr'[q] = addr[q]
                                  /\ at'[q] = at[q] /\ rescan'[q] = rescan[q]
  BY <1>1
<1>10. UNCHANGED <<byte, tableVars, owner, hookVars>>
  BY <1>1
<1>11. \A g \in Hooks : Working(g, PublishPcs) => HookTarget[g] # t
  BY <1>5
<1> QED BY <1>4, <1>6, <1>7, <1>8, <1>9, <1>10, <1>11, DispatchMove

\* The handler.
LEMMA DispatchHandle ==
    ASSUME TypeOK, SInv, BytesOwned, RInv, NEW p \in Threads, Handle(p)
    PROVE  RInv'
<1>1. pc[p] \in DispatchPcs
  BY DEF Handle, dispatch, find_detour, load_detour, scan_retired, read_byte, DispatchPcs
<1>2. PICK t, n : t = addr[p] /\ n = at[p]
  OBVIOUS
<1>3. /\ t \in Targets /\ t # None /\ handler
      /\ LiveFor(t) \/ InRing(t, 0)
      /\ LiveFor(t) => HeldFor(t)
      /\ \A h \in Hooks : Working(h, PublishPcs) => HookTarget[h] # t
      /\ Place(p, t, n) /\ n \in Nat
      /\ pc[p] \notin LockedPcs
  BY <1>1, <1>2, Dispatched
<1>4. /\ UNCHANGED <<byte, tableVars, owner, hookVars>>
      /\ \A q \in Threads : q # p => /\ pc'[q] = pc[q] /\ arg'[q] = arg[q] /\ addr'[q] = addr[q]
                                      /\ at'[q] = at[q] /\ rescan'[q] = rescan[q]
  BY DEF Handle, dispatch, find_detour, load_detour, scan_retired, read_byte, Goto, TypeOK
<1>5. /\ \A u : HeldFor(u)' <=> HeldFor(u)
      /\ \A u, from : InRing(u, from)' <=> InRing(u, from)
      /\ \A h \in Hooks : Held(h)' <=> Held(h)
  <2>1. \A q \in Threads : q # p => pc'[q] = pc[q] /\ arg'[q] = arg[q]
    BY <1>4
  <2> QED BY <1>3, <1>4, <2>1, Unmoved
<1>6. UNCHANGED <<slotTarget, slotDetour, slot, handler, retired>>
  BY <1>4 DEF tableVars, hookVars
\* Where the thread goes, and why its answer is still ahead.
<1>7. ASSUME addr'[p] = t, NEW m, m = at'[p], Place(p, t, m)', pc'[p] # "unhandled" PROVE RInv'
  BY <1>3, <1>4, <1>7, DispatchMove
<1>8. ASSUME pc'[p] \in {"run", "detour"} PROVE RInv'
  <2>1. PICK u, m : u = addr'[p] /\ m = at'[p]
    OBVIOUS
  <2>2. Place(p, u, m)' /\ pc'[p] # "unhandled" /\ pc'[p] \notin DispatchPcs
    BY <1>8 DEF Place, DispatchPcs
  <2> QED BY <1>3, <1>4, <2>1, <2>2, DispatchMove
<1>9. CASE dispatch(p)
  <2>1. pc'[p] = "scan" /\ addr'[p] = t /\ at'[p] = 1 /\ ~rescan'[p]
    BY <1>2, <1>3, <1>9 DEF dispatch, Goto, TypeOK
  <2>2. \A h \in Hooks : slot[h] >= 1
    BY DEF TypeOK, Slots
  <2>3. Place(p, t, 1)'
    <3>1. ~HeldFor(t)' \/ \E h \in Hooks : Held(h)' /\ HookTarget[h] = t /\ slot'[h] >= 1
      BY <1>5, <1>6, <2>2 DEF HeldFor
    <3> QED BY <1>3, <1>6, <2>1, <3>1 DEF Place
  <2> QED BY <1>7, <2>1, <2>3
<1>10. CASE find_detour(p)
  <2>1. /\ pc[p] = "scan" /\ addr'[p] = t /\ rescan'[p] = rescan[p] /\ ~rescan[p] /\ n >= 1
        /\ ~HeldFor(t) \/ \E h \in Hooks : Held(h) /\ HookTarget[h] = t /\ slot[h] >= n
    BY <1>2, <1>3, <1>10 DEF find_detour, Place
  <2>2. \A h \in Hooks : /\ slot[h] \in Nat /\ slot[h] <= NumSlots /\ slot[h] \in Slots
                         /\ Held(h) => slotTarget[slot[h]] = HookTarget[h]
    BY SlotsAssumption DEF TypeOK, Slots, SInv, SlotOfHook
  <2>3. CASE n \in Slots /\ slotTarget[n] = t /\ pc'[p] = "load_detour" /\ at'[p] = n
    <3>1. Place(p, t, n)'
      BY <1>3, <1>6, <2>1, <2>3 DEF Place
    <3> QED BY <1>7, <2>1, <2>3, <3>1
  <2>4. CASE n \in Slots /\ slotTarget[n] # t /\ pc'[p] = "scan" /\ at'[p] = n + 1
    <3>1. ASSUME HeldFor(t) PROVE \E h \in Hooks : Held(h) /\ HookTarget[h] = t /\ slot[h] >= n + 1
      <4>1. PICK h \in Hooks : Held(h) /\ HookTarget[h] = t /\ slot[h] >= n
        BY <2>1, <3>1
      <4>2. slot[h] # n
        BY <2>2, <2>4, <4>1
      <4>3. slot[h] >= n + 1
        BY <1>3, <2>2, <4>1, <4>2
      <4> QED BY <4>1, <4>3
    <3>2. n + 1 >= 1
      BY <1>3
    <3>3. ~HeldFor(t)' \/ \E h \in Hooks : Held(h)' /\ HookTarget[h] = t /\ slot'[h] >= n + 1
      BY <1>5, <1>6, <3>1
    <3>4. PICK m : m = n + 1
      OBVIOUS
    <3>5. Place(p, t, m)'
      BY <1>3, <1>6, <2>1, <2>4, <3>2, <3>3, <3>4 DEF Place
    <3> QED BY <1>7, <2>1, <2>4, <3>4, <3>5
  <2>5. CASE n \notin Slots /\ pc'[p] = "ring" /\ at'[p] = 0
    <3>1. ~HeldFor(t)
      <4>1. ASSUME NEW h \in Hooks, Held(h), HookTarget[h] = t, slot[h] >= n PROVE FALSE
        BY <1>3, <2>1, <2>2, <2>5, <4>1, SlotsAssumption DEF Slots
      <4> QED BY <2>1, <4>1
    <3>2. InRing(t, 0)
      BY <1>3, <3>1
    <3>3. Place(p, t, 0)'
      BY <1>3, <1>5, <1>6, <2>5, <3>1, <3>2 DEF Place
    <3> QED BY <1>7, <2>1, <2>5, <3>3
  <2>6. \/ n \in Slots /\ slotTarget[n] = t /\ pc'[p] = "load_detour" /\ at'[p] = n
        \/ n \in Slots /\ slotTarget[n] # t /\ pc'[p] = "scan" /\ at'[p] = n + 1
        \/ n \notin Slots /\ pc'[p] = "ring" /\ at'[p] = 0
    BY <1>2, <1>10, <2>1 DEF find_detour, AfterScan, Goto, TypeOK
  <2> QED BY <2>3, <2>4, <2>5, <2>6
<1>11. CASE load_detour(p)
  <2>1. /\ pc[p] = "load_detour" /\ addr'[p] = t /\ rescan'[p] = rescan[p] /\ ~rescan[p]
        /\ n \in Slots /\ (~HeldFor(t) \/ slotTarget[n] = t)
    BY <1>2, <1>3, <1>11 DEF load_detour, Place, SInv, ScanOK
  <2>2. CASE pc'[p] = "scan" /\ at'[p] = n + 1 /\ slotDetour[n] = None
    <3>1. ~HeldFor(t)
      BY <1>3, <2>1, <2>2, Constants DEF SInv, HookOfSlot, SlotOfHook
    <3>2. PICK m : m = n + 1
      OBVIOUS
    <3>3. m >= 1
      BY <1>3, <3>2
    <3>4. Place(p, t, m)'
      BY <1>3, <1>5, <1>6, <2>1, <2>2, <3>1, <3>3 DEF Place
    <3> QED BY <1>7, <2>1, <2>2, <3>2, <3>4
  <2> QED BY <1>2, <1>8, <1>11, <2>2 DEF load_detour, Goto, TypeOK
<1>12. CASE scan_retired(p)
  <2>1. pc[p] = "ring" /\ addr'[p] = t /\ ~HeldFor(t) /\ InRing(t, n)
    BY <1>2, <1>3, <1>12 DEF scan_retired, Place
  <2>2. PICK k \in Ring : k >= n /\ retired[k] = t /\ Fits(k)
    BY <2>1 DEF InRing
  <2>3. n \in Ring /\ k \in Nat
    BY <1>3, <2>2, RingAssumption DEF Ring
  <2>4. CASE pc'[p] = "read_byte"
    <3>1. PICK m : m = at'[p]
      OBVIOUS
    <3>2. Place(p, t, m)'
      BY <1>3, <1>5, <1>6, <2>1, <2>4 DEF Place
    <3> QED BY <1>7, <2>1, <2>4, <3>1, <3>2
  <2>5. CASE pc'[p] = "ring" /\ at'[p] = n + 1 /\ retired[n] # t
    <3>1. k >= n + 1
      BY <1>3, <2>2, <2>3, <2>5
    <3>2. PICK m : m = n + 1
      OBVIOUS
    <3>3. InRing(t, m)
      BY <2>2, <3>1, <3>2 DEF InRing
    <3>4. Place(p, t, m)'
      BY <1>3, <1>5, <1>6, <2>1, <2>5, <3>3 DEF Place
    <3> QED BY <1>7, <2>1, <2>5, <3>2, <3>4
  <2> QED BY <1>2, <1>12, <2>1, <2>3, <2>4, <2>5 DEF scan_retired, Goto, TypeOK
<1>13. CASE read_byte(p)
  <2>1. pc[p] = "read_byte" /\ ~HeldFor(t)
    BY <1>3, <1>13 DEF read_byte, Place
  <2>2. byte[t] # "cc"
    <3>1. \A h \in Hooks : Armed(h) => Held(h)
      BY DEF Armed, Held, Working, HeldPcs
    <3> QED BY <1>3, <2>1, <3>1 DEF BytesOwned, HeldFor
  <2> QED BY <1>2, <1>8, <1>13, <2>2 DEF read_byte, Goto, TypeOK
<1> QED BY <1>9, <1>10, <1>11, <1>12, <1>13 DEF Handle

LEMMA DispatchReturn ==
    ASSUME TypeOK, SInv, RInv, NEW p \in Threads, return(p)
    PROVE  RInv'
<1>1. /\ pc[p] = "detour" /\ pc'[p] = "run" /\ UNCHANGED <<byte, tableVars, owner, hookVars>>
      /\ \A q \in Threads : q # p => /\ pc'[q] = pc[q] /\ arg'[q] = arg[q] /\ addr'[q] = addr[q]
                                      /\ at'[q] = at[q] /\ rescan'[q] = rescan[q]
  BY DEF return, Goto, TypeOK
<1>2. PICK u, m : u = addr'[p] /\ m = at'[p]
  OBVIOUS
<1>3. Place(p, u, m)' /\ pc'[p] # "unhandled" /\ pc'[p] \notin DispatchPcs /\ pc[p] \notin LockedPcs
  BY <1>1 DEF Place, DispatchPcs, LockedPcs
<1> QED BY <1>1, <1>2, <1>3, DispatchMove

LEMMA DispatchStep ==
    ASSUME TypeOK, SInv, BytesOwned, RInv, ArmWhenQuiet, [Next]_vars
    PROVE  RInv'
<1>1. ASSUME NEW p \in Threads, Call(p) PROVE RInv'
  <2>1. ASSUME NEW h \in Hooks, NEW w \in BOOLEAN, install(p, h, w) PROVE RInv'
    <3>1. /\ stage[h] = "none" /\ stage'[h] = "arming" /\ pc[p] = "run" /\ pc'[p] = "arm"
          /\ \A g \in Hooks : g # h => stage'[g] = stage[g]
          /\ \A q \in Threads : q # p => pc'[q] = pc[q] /\ arg'[q] = arg[q]
          /\ UNCHANGED <<slotTarget, retired, retiredNext, handler, slot, owner, addr, at, rescan>>
      BY <2>1 DEF install, Goto, TypeOK, tableVars
    <3> QED BY <3>1, DispatchInstall
  <2>2. ASSUME NEW h \in Hooks, remove(p, h) PROVE RInv'
    BY <2>2, DispatchRemove
  <2>3. ASSUME NEW h \in Hooks, forget(p, h) PROVE RInv'
    BY <2>3, DispatchForget
  <2>4. ASSUME arm(p) PROVE RInv'
    BY <2>4, DispatchArm
  <2>5. ASSUME release_unused_handler(p) PROVE RInv'
    BY <2>5, DispatchRelease
  <2> QED BY <1>1, <2>1, <2>2, <2>3, <2>4, <2>5 DEF Call
<1>2. ASSUME NEW p \in Threads, Locked(p) PROVE RInv'
  <2>1. CASE release_idle_handler(p)
    BY <2>1, DispatchRelease
  <2>2. CASE ~release_idle_handler(p)
    BY <1>2, <2>2, DispatchLocked
  <2> QED BY <2>1, <2>2
<1>3. ASSUME UNCHANGED vars PROVE RInv'
  <2>1. /\ UNCHANGED <<slotTarget, retired, retiredNext, handler, owner, stage, slot>>
        /\ UNCHANGED <<pc, arg, addr, at, rescan>>
    BY <1>3 DEF vars, tableVars, hookVars, threadVars
  <2>2. /\ \A g, S : Working(g, S)' <=> Working(g, S)
        /\ \A t : Dispatching(t)' <=> Dispatching(t)
    BY <2>1 DEF Working, Dispatching
  <2>3. \A g \in Hooks : (Held(g)' <=> Held(g)) /\ (Pending(g)' <=> Pending(g))
    BY <2>1, <2>2 DEF Held, Pending
  <2>4. Removable' = Removable
    BY <2>1, <2>3 DEF Removable
  <2>5. \A k : Fits(k)' <=> Fits(k)
    BY <2>1, <2>4 DEF Fits, Age
  <2>6. PlaceType' /\ SafelyResumed' /\ ArmedQuietly'
    BY <2>1, <2>2 DEF RInv, PlaceType, SafelyResumed, ArmedQuietly
  <2>7. Covered'
    BY <2>1, <2>2, <2>5 DEF RInv, Covered, LiveFor, InRing
  <2>8. PlaceOK'
    BY <2>1, <2>3, <2>5 DEF RInv, PlaceOK, Place, HeldFor, InRing
  <2> QED BY <2>6, <2>7, <2>8 DEF RInv
<1>4. ASSUME NEW p \in Threads, Handle(p) PROVE RInv'
  BY <1>4, DispatchHandle
<1>5. ASSUME NEW p \in Threads, return(p) PROVE RInv'
  BY <1>5, DispatchReturn
<1>6. ASSUME NEW p \in Threads, NEW t \in Targets, trap(p, t) PROVE RInv'
  BY <1>6, DispatchTrap
<1> QED BY <1>1, <1>2, <1>3, <1>4, <1>5, <1>6 DEF Next

(***************************************************************************)
(* No trap of a hook ends as an unhandled breakpoint, however its hook and *)
(* the others are removed, forgotten or rolled back while the system walks *)
(* the handlers: the ring of RETIRED_LEN entries outlives every dispatch   *)
(* because it has room for each hook that can still be removed, and the    *)
(* handler stays while a remembered function has a trap in flight.  The    *)
(* client arms hooks in quiet moments, and no original byte is refused.    *)
(***************************************************************************)
THEOREM TrapsAreSafelyResumed ==
    ASSUME ArmWhenQuiet, "restore" \notin Faults
    PROVE  Spec => []SafelyResumed
<1> DEFINE Inv == IInv /\ RInv
<1>1. Init => Inv
  <2>1. Init => IInv
    BY InitInv DEF IInv
  <2>2. Init => \A p \in Threads : pc[p] \notin DispatchPcs /\ pc[p] # "unhandled"
    BY DEF Init, DispatchPcs
  <2>3. Init => \A h, S : ~Working(h, S)
    BY DEF Init, Working
  <2> QED BY <2>1, <2>2, <2>3
      DEF RInv, PlaceType, ArmedQuietly, Covered, PlaceOK, Place, SafelyResumed, DispatchPcs
<1>2. Inv /\ [Next]_vars => Inv'
  <2> SUFFICES ASSUME IInv, RInv, [Next]_vars PROVE IInv' /\ RInv'
    OBVIOUS
  <2>1. IInv'
    BY StepInv DEF IInv
  <2>2. RInv'
    BY DispatchStep DEF IInv
  <2> QED BY <2>1, <2>2
<1>3. Inv => SafelyResumed
  BY DEF RInv
<1> QED BY <1>1, <1>2, <1>3, PTL DEF Spec
=============================================================================
