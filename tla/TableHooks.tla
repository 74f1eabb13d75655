----------------------------- MODULE TableHooks -----------------------------
(***************************************************************************)
(* Hooks that replace a pointer in a table: import slots (IAT), export     *)
(* slots (EAT), virtual method slots (VTable), and virtual methods of one  *)
(* object (VTable instance), for which the object's table is cloned.       *)
(*                                                                         *)
(* A slot belongs to one hook at a time (claim_table_slot); a clone is     *)
(* shared by all hooks of an object and counted.  Slots and clones are     *)
(* touched under the code lock only, but a drop takes it anew for each of  *)
(* its steps, and the program resolves exports and rebuilds objects        *)
(* whenever it likes.                                                      *)
(***************************************************************************)
EXTENDS Naturals, Sequences, FiniteSets

CONSTANTS
    Threads, NoThread,
    Hooks,       \* hooks that clients may attach, each with its own detour
    Original,    \* the original pointer of a slot, the class table of an object
    Imports, Exports,
    Methods,     \* slots of the class table that all objects share
    Objects,
    Wants,       \* the places a hook may be attached to
    Far,         \* hooks whose detour an export reaches through a jump stub only
    MaxQueue,    \* bound on the operations of a transaction
    Faults       \* what the system may refuse

Slots == Imports \cup Exports \cup Methods
Instances == Objects \X Methods
Pointer == Hooks \cup {Original}

ASSUME HooksAssumption == Original \notin Hooks /\ NoThread \notin Threads
ASSUME PlacesAssumption == Original \notin Slots \cup Instances /\ Slots \cap Instances = {}
ASSUME WantsAssumption == Wants \in [Hooks -> SUBSET (Slots \cup Instances)]
ASSUME FarAssumption == Far \subseteq Hooks /\ MaxQueue \in Nat
ASSUME FaultsAssumption == Faults \subseteq {"alloc", "protect", "reprotect", "retarget"}

VARIABLES
    slot,       \* [Slots -> Pointer]: the tables
    claims,     \* table_slots()
    vptr,       \* [Objects -> Pointer]: a clone is named after the hook that made it
    clones,     \* instance_clones(): the entry of an object
    cloneSlot, owned, freed,    \* a clone's slots, its flags, and whether it is freed
    hook, stage,                \* the guards
    stub,       \* the jump stub of a far export hook: where it leads
    resolved,   \* stubs whose address the program got from GetProcAddress
    codeOwner,  \* CODE_LOCK
    queue, installed, detached, idx, \* the transaction of a thread
    pc, arg, after              \* the call in progress, its hook, where a drop returns to

objVars == <<vptr, clones, cloneSlot, owned, freed>>
tableVars == <<slot, claims, objVars, stub>>
txVars == <<queue, installed, detached, idx>>
callVars == <<pc, arg, after>>
vars == <<tableVars, hook, stage, resolved, codeOwner, txVars, callVars>>

Ops == [op : {"attach", "detach"}, hook : Hooks]
Guard == [place : Slots \cup Instances \cup {Original}, orig : Pointer, clone : Pointer,
          claimed : BOOLEAN, active : BOOLEAN, enabled : BOOLEAN]
NoGuard == [place |-> Original, orig |-> Original, clone |-> Original,
            claimed |-> FALSE, active |-> FALSE, enabled |-> FALSE]
NoEntry == [clone |-> Original, original |-> Original, hooks |-> 0]

\* Every variable keeps its type, and the lists of a commit, which cannot grow while threads
\* are suspended, keep within what was reserved for them.
TypeOK ==
    /\ slot \in [Slots -> Pointer] /\ claims \subseteq Slots
    /\ vptr \in [Objects -> Pointer]
    /\ clones \in [Objects -> [clone : Pointer, original : Pointer, hooks : Nat]]
    /\ cloneSlot \in [Hooks -> [Methods -> Pointer]]
    /\ owned \in [Hooks -> SUBSET Methods] /\ freed \subseteq Hooks
    /\ hook \in [Hooks -> Guard]
    /\ stage \in [Hooks -> {"new", "queued", "live", "borrowed", "dropping", "gone"}]
    /\ stub \in [Hooks -> {"none", "detour", "original", "retired"}]
    /\ resolved \subseteq Far
    /\ codeOwner \in Threads \cup {NoThread}
    /\ queue \in [Threads -> Seq(Ops)] /\ installed \in [Threads -> Seq(Hooks)]
    /\ detached \in [Threads -> Seq([hook : Hooks, was_enabled : BOOLEAN])]
    /\ \A t \in Threads : Len(installed[t]) <= MaxQueue /\ Len(detached[t]) <= MaxQueue
    /\ idx \in [Threads -> Nat]
    /\ pc \in [Threads -> {"ready", "lock", "apply", "eat_protect", "finalize", "undo_detaches",
                           "rollback", "dismantle", "drop", "release", "retire_stub"}]
    /\ arg \in [Threads -> Pointer] /\ after \in [Threads -> {"ready", "dismantle"}]

Init ==
    /\ slot = [s \in Slots |-> Original] /\ claims = {}
    /\ vptr = [o \in Objects |-> Original] /\ clones = [o \in Objects |-> NoEntry]
    /\ cloneSlot = [h \in Hooks |-> [m \in Methods |-> Original]]
    /\ owned = [h \in Hooks |-> {}] /\ freed = {}
    /\ hook = [h \in Hooks |-> NoGuard]
    /\ stage = [h \in Hooks |-> "new"]
    /\ stub = [h \in Hooks |-> "none"]
    /\ resolved = {} /\ codeOwner = NoThread
    /\ queue = [t \in Threads |-> << >>] /\ installed = [t \in Threads |-> << >>]
    /\ detached = [t \in Threads |-> << >>] /\ idx = [t \in Threads |-> 0]
    /\ pc = [t \in Threads |-> "ready"] /\ arg = [t \in Threads |-> Original]
    /\ after = [t \in Threads |-> "ready"]

-----------------------------------------------------------------------------
(***************************************************************************)
(* The operations on slots and clones.  Each runs under the code lock,     *)
(* which a thread inside a commit already holds.                           *)
(***************************************************************************)

with_code_lock(t) == codeOwner \in {NoThread, t}

Place(h) == hook[h].place
Object(h) == Place(h)[1]
Method(h) == Place(h)[2]

\* hook_import, write_export_slot, write_slot: the protection of the page is lifted and put
\* back around the store.  A refusal leaves the slot as it was.
WriteRefused(h) == Place(h) \in Slots /\ "protect" \in Faults
write_slot(h, v) ==
    /\ slot' = [slot EXCEPT ![Place(h)] = v]
    /\ UNCHANGED objVars
\* The clone is plain memory: the store cannot be refused.
write_clone_slot(h, v) ==
    /\ cloneSlot' = [cloneSlot EXCEPT ![hook[h].clone][Method(h)] = v]
    /\ UNCHANGED <<slot, vptr, clones, owned, freed>>
Write(h, v) ==
    \/ Place(h) \in Slots /\ write_slot(h, v)
    \/ Place(h) \in Instances /\ write_clone_slot(h, v)

\* The last hook on an object points it back at its own table, if it still uses the clone,
\* and the clone is freed.  The others restore their slot of the clone.
LastOfClone_Early(h) == clones[Object(h)].hooks <= 2
LastOfClone(h) == clones[Object(h)].hooks = 1
VptrRefused(h) ==
    /\ LastOfClone(h) /\ vptr[Object(h)] = clones[Object(h)].clone
    /\ "protect" \in Faults
restore_instance(h) ==
    LET o == Object(h) e == clones[o] IN
    /\ e # NoEntry
    /\ IF LastOfClone(h)
       THEN /\ vptr' = [vptr EXCEPT ![o] = IF @ = e.clone THEN e.original ELSE @]
            /\ clones' = [clones EXCEPT ![o] = NoEntry]
            /\ freed' = freed \cup {e.clone}
            /\ UNCHANGED <<cloneSlot, owned>>
       ELSE /\ cloneSlot' = [cloneSlot EXCEPT ![hook[h].clone][Method(h)] = hook[h].orig]
            /\ owned' = [owned EXCEPT ![e.clone] = @ \ {Method(h)}]
            /\ clones' = [clones EXCEPT ![o].hooks = @ - 1]
            /\ UNCHANGED <<vptr, freed>>
    /\ UNCHANGED slot

\* perform_unhook puts the saved pointer back, enabled or not; Unrestored is its failure.
perform_unhook(h) ==
    \/ Place(h) \in Slots /\ write_slot(h, hook[h].orig)
    \/ Place(h) \in Instances /\ restore_instance(h)
Unrestored(h) ==
    /\ IF Place(h) \in Slots
       THEN WriteRefused(h)
       ELSE VptrRefused(h) \/ clones[Object(h)] = NoEntry
    /\ UNCHANGED <<slot, objVars>>

Goto(t, to) == pc' = [pc EXCEPT ![t] = to]
Idle(t) == pc[t] = "ready"
SetStage(h, s) == stage' = [stage EXCEPT ![h] = s]

-----------------------------------------------------------------------------
(***************************************************************************)
(* The transaction                                                         *)
(***************************************************************************)

QueuedHooks(t) == {queue[t][i].hook : i \in {j \in DOMAIN queue[t] : queue[t][j].op = "attach"}}

\* A live hook, or one queued in this transaction, redirects the slot.
table_slot_taken(t, s) == s \in claims \/ \E h \in QueuedHooks(t) : Place(h) = s
instance_slot_hooked(o, m) == clones[o] # NoEntry /\ m \in owned[clones[o].clone]
PlaceTaken(t, p) ==
    IF p \in Slots
    THEN table_slot_taken(t, p)
    ELSE instance_slot_hooked(p[1], p[2]) \/ \E h \in QueuedHooks(t) : Place(h) = p

Push(t, kind, h) == queue' = [queue EXCEPT ![t] = Append(@, [op |-> kind, hook |-> h])]

Enqueue(t, h, p) ==
    /\ Idle(t) /\ with_code_lock(t)
    /\ stage[h] = "new" /\ p \in Wants[h] /\ Len(queue[t]) < MaxQueue
    /\ ~PlaceTaken(t, p)
    /\ hook' = [hook EXCEPT ![h].place = p]
    /\ SetStage(h, "queued")
    /\ Push(t, "attach", h)
    /\ UNCHANGED <<tableVars, resolved, codeOwner, installed, detached, idx, callVars>>

attach_iat(t, h) == \E s \in Imports : Enqueue(t, h, s)
attach_eat(t, h) == \E s \in Exports : Enqueue(t, h, s)
attach_vtable(t, h) == \E s \in Methods : Enqueue(t, h, s)
attach_vtable_instance(t, h) == \E p \in Instances : Enqueue(t, h, p)

detach(t, h) ==
    /\ Idle(t) /\ stage[h] = "live" /\ Len(queue[t]) < MaxQueue
    /\ SetStage(h, "borrowed")
    /\ Push(t, "detach", h)
    /\ UNCHANGED <<tableVars, hook, resolved, codeOwner, installed, detached, idx, callVars>>

\* The hooks of the queue go and the borrowed guards are the client's again.
DropQueue(t) ==
    /\ queue' = [queue EXCEPT ![t] = << >>]
    /\ stage' = [h \in Hooks |->
                    IF h \in QueuedHooks(t) /\ stage[h] = "queued" THEN "gone"
                    ELSE IF \E i \in DOMAIN queue[t] : queue[t][i] = [op |-> "detach", hook |-> h]
                         THEN "live" ELSE stage[h]]

\* Before the lock: prepare_export builds the stubs of far hooks.
NeedsStub(t) == {h \in QueuedHooks(t) : h \in Far /\ Place(h) \in Exports}
commit(t) ==
    /\ Idle(t) /\ queue[t] # << >>
    /\ \/ /\ stub' = [h \in Hooks |-> IF h \in NeedsStub(t) THEN "detour" ELSE stub[h]]
          /\ Goto(t, "lock")
          /\ UNCHANGED <<queue, stage>>
       \/ /\ "alloc" \in Faults
          /\ \E h \in QueuedHooks(t) : h \in NeedsStub(t) \/ Place(h) \in Instances
          /\ DropQueue(t)
          /\ UNCHANGED <<stub, pc>>
    /\ UNCHANGED <<slot, claims, objVars, hook, resolved, codeOwner, installed, detached, idx,
                   arg, after>>

commit_lock(t) ==
    /\ pc[t] = "lock" /\ codeOwner = NoThread
    /\ codeOwner' = t
    /\ idx' = [idx EXCEPT ![t] = 1]
    /\ Goto(t, "apply")
    /\ UNCHANGED <<tableVars, hook, stage, resolved, queue, installed, detached, arg, after>>

Applies(t, kind, P) ==
    /\ pc[t] = "apply" /\ idx[t] <= Len(queue[t])
    /\ queue[t][idx[t]].op = kind
    /\ Place(queue[t][idx[t]].hook) \in P
StepFails(t) ==
    /\ Goto(t, "undo_detaches")
    /\ UNCHANGED <<slot, claims, objVars, hook, installed, idx>>
Installed(t, h, original, clone) ==
    /\ hook' = [hook EXCEPT ![h] = [place |-> @.place, orig |-> original, clone |-> clone,
                                    claimed |-> Place(h) \in Slots,
                                    active |-> TRUE, enabled |-> TRUE]]
    /\ installed' = [installed EXCEPT ![t] = Append(@, h)]
    /\ idx' = [idx EXCEPT ![t] = @ + 1]

claim_table_slot_Shared(s) == claims' = claims \cup {s}
claim_table_slot(s) == s \notin claims /\ claims' = claims \cup {s}

\* An import or a method of the class: hook_import, VTableHook::install.
install_slot(t) ==
    LET h == queue[t][idx[t]].hook IN
    /\ Applies(t, "attach", Imports \cup Methods)
    /\ \/ /\ claim_table_slot(Place(h))
          /\ write_slot(h, h)
          /\ Installed(t, h, slot[Place(h)], Original)
          /\ UNCHANGED pc
       \/ (Place(h) \in claims \/ WriteRefused(h)) /\ StepFails(t)
    /\ UNCHANGED <<stage, stub, resolved, codeOwner, queue, detached, arg, after>>

\* install_eat stores the address; the program may resolve it before the protection of the
\* page is put back, or, if that is refused, the old address is.
install_eat(t) ==
    LET h == queue[t][idx[t]].hook IN
    /\ Applies(t, "attach", Exports)
    /\ \/ /\ claim_table_slot(Place(h))
          /\ write_slot(h, h)
          /\ hook' = [hook EXCEPT ![h].orig = slot[Place(h)]]
          /\ Goto(t, "eat_protect")
          /\ UNCHANGED <<installed, idx>>
       \/ (Place(h) \in claims \/ "protect" \in Faults) /\ StepFails(t)
    /\ UNCHANGED <<stage, stub, resolved, codeOwner, queue, detached, arg, after>>
eat_protect(t) ==
    LET h == queue[t][idx[t]].hook IN
    /\ pc[t] = "eat_protect"
    /\ \E refused \in {FALSE, "reprotect" \in Faults} :
          IF refused
          THEN /\ slot' = [slot EXCEPT ![Place(h)] = hook[h].orig]
               /\ claims' = claims \ {Place(h)}
               /\ Goto(t, "undo_detaches")
               /\ UNCHANGED <<hook, installed, idx>>
          ELSE /\ Installed(t, h, hook[h].orig, Original)
               /\ Goto(t, "apply")
               /\ UNCHANGED <<slot, claims>>
    /\ UNCHANGED <<objVars, stage, stub, resolved, codeOwner, queue, detached, arg, after>>

\* install_into: a further hook on an object shares its clone, if the object still uses it.
ShareClone(t, h) ==
    LET o == Object(h) c == clones[o].clone IN
    /\ clones[o] # NoEntry /\ vptr[o] = c /\ Method(h) \notin owned[c]
    /\ Installed(t, h, cloneSlot[c][Method(h)], c)
    /\ cloneSlot' = [cloneSlot EXCEPT ![c][Method(h)] = h]
    /\ owned' = [owned EXCEPT ![c] = @ \cup {Method(h)}]
    /\ clones' = [clones EXCEPT ![o].hooks = @ + 1]
    /\ UNCHANGED <<slot, claims, vptr, freed>>
NewClone(t, h) ==
    LET o == Object(h)
        table == IF vptr[o] = Original THEN [m \in Methods |-> slot[m]] ELSE cloneSlot[vptr[o]] IN
    /\ clones[o] = NoEntry
    /\ Installed(t, h, table[Method(h)], h)
    /\ cloneSlot' = [cloneSlot EXCEPT ![h] = [table EXCEPT ![Method(h)] = h]]
    /\ owned' = [owned EXCEPT ![h] = {Method(h)}]
    /\ vptr' = [vptr EXCEPT ![o] = h]
    /\ clones' = [clones EXCEPT ![o] = [clone |-> h, original |-> vptr[o], hooks |-> 1]]
    /\ UNCHANGED <<slot, claims, freed>>
install_into(t) ==
    LET h == queue[t][idx[t]].hook o == Object(h) IN
    /\ Applies(t, "attach", Instances)
    /\ \/ (ShareClone(t, h) \/ NewClone(t, h)) /\ UNCHANGED pc
       \/ /\ IF clones[o] # NoEntry
             THEN vptr[o] # clones[o].clone \/ Method(h) \in owned[clones[o].clone]
             ELSE "protect" \in Faults
          /\ StepFails(t)
    /\ UNCHANGED <<stage, stub, resolved, codeOwner, queue, detached, arg, after>>

prepare_detach(t) ==
    LET h == queue[t][idx[t]].hook IN
    /\ Applies(t, "detach", Slots \cup Instances)
    /\ \/ /\ IF hook[h].enabled
             THEN Write(h, hook[h].orig) /\ hook' = [hook EXCEPT ![h].enabled = FALSE]
             ELSE UNCHANGED <<slot, objVars, hook>>
          /\ detached' = [detached EXCEPT
                              ![t] = Append(@, [hook |-> h, was_enabled |-> hook[h].enabled])]
          /\ idx' = [idx EXCEPT ![t] = @ + 1]
          /\ UNCHANGED <<claims, installed, pc>>
       \/ hook[h].enabled /\ WriteRefused(h) /\ StepFails(t) /\ UNCHANGED detached
    /\ UNCHANGED <<stage, stub, resolved, codeOwner, queue, arg, after>>

\* All operations are done: the new guards are the client's, and the detached ones become
\* inert one by one.
commit_applied(t) ==
    /\ pc[t] = "apply" /\ idx[t] > Len(queue[t])
    /\ Goto(t, "finalize")
    /\ stage' = [h \in Hooks |-> IF h \in QueuedHooks(t) THEN "live" ELSE stage[h]]
    /\ UNCHANGED <<tableVars, hook, resolved, codeOwner, txVars, arg, after>>

Inert(h) == [hook EXCEPT ![h].active = FALSE, ![h].enabled = FALSE,
                         ![h].claimed = FALSE, ![h].clone = Original]
Unhooked(h) == hook' = [hook EXCEPT ![h].active = FALSE, ![h].enabled = FALSE]
\* The stub is kept for good, and jumps to the original from now on, unless it cannot be
\* made writable.
RetireStub_Released(h) ==
    stub' = [stub EXCEPT ![h] = IF @ = "detour" THEN "retired" ELSE @]
RetireStub(h) ==
    \E refused \in {FALSE, "retarget" \in Faults} :
        stub' = [stub EXCEPT ![h] = IF @ = "detour" /\ ~refused THEN "original" ELSE @]
detach_finalize(t) ==
    LET h == Head(detached[t]).hook IN
    /\ pc[t] = "finalize" /\ detached[t] # << >>
    /\ \/ /\ Place(h) \in Slots
          /\ hook' = Inert(h)
          /\ claims' = IF hook[h].claimed THEN claims \ {Place(h)} ELSE claims
          /\ RetireStub(h)
          /\ UNCHANGED <<slot, objVars>>
       \/ /\ Place(h) \in Instances /\ hook[h].active
          /\ \/ restore_instance(h) /\ hook' = Inert(h)
             \/ Unrestored(h) /\ Unhooked(h)
          /\ UNCHANGED <<claims, stub>>
       \/ /\ Place(h) \in Instances /\ ~hook[h].active
          /\ UNCHANGED <<slot, claims, objVars, stub, hook>>
    /\ detached' = [detached EXCEPT ![t] = Tail(@)]
    /\ UNCHANGED <<stage, resolved, codeOwner, queue, installed, idx, callVars>>

CommitEnds_Kept(t) ==
    /\ codeOwner' = NoThread
    /\ DropQueue(t)
    /\ idx' = [idx EXCEPT ![t] = 0]
    /\ Goto(t, "ready")
    /\ UNCHANGED installed
CommitEnds(t) ==
    /\ codeOwner' = NoThread
    /\ DropQueue(t)
    /\ installed' = [installed EXCEPT ![t] = << >>]
    /\ idx' = [idx EXCEPT ![t] = 0]
    /\ Goto(t, "ready")
commit_end(t) ==
    /\ pc[t] = "finalize" /\ detached[t] = << >>
    /\ CommitEnds(t)
    /\ UNCHANGED <<tableVars, hook, resolved, detached, arg, after>>

\* A step failed.  Detached hooks are enabled again, last first, then the new hooks are
\* disabled, last first; a refusal is ignored.
rollback_detaches(t) ==
    LET d == detached[t][Len(detached[t])] h == d.hook IN
    /\ pc[t] = "undo_detaches"
    /\ IF detached[t] = << >>
       THEN /\ Goto(t, "rollback")
            /\ idx' = [idx EXCEPT ![t] = Len(installed[t])]
            /\ UNCHANGED <<slot, objVars, hook, detached>>
       ELSE /\ \/ /\ d.was_enabled /\ hook[h].active
                  /\ Write(h, h) /\ hook' = [hook EXCEPT ![h].enabled = TRUE]
               \/ /\ d.was_enabled => ~hook[h].active \/ WriteRefused(h)
                  /\ UNCHANGED <<slot, objVars, hook>>
            /\ detached' = [detached EXCEPT ![t] = SubSeq(@, 1, Len(@) - 1)]
            /\ UNCHANGED <<pc, idx>>
    /\ UNCHANGED <<claims, stage, stub, resolved, codeOwner, queue, installed, arg, after>>

rollback(t) ==
    LET h == installed[t][idx[t]] IN
    /\ pc[t] = "rollback"
    /\ IF idx[t] = 0
       THEN Goto(t, "dismantle") /\ UNCHANGED <<slot, objVars, hook, idx>>
       ELSE /\ \/ Write(h, hook[h].orig) /\ hook' = [hook EXCEPT ![h].enabled = FALSE]
               \/ WriteRefused(h) /\ UNCHANGED <<slot, objVars, hook>>
            /\ idx' = [idx EXCEPT ![t] = @ - 1]
            /\ UNCHANGED pc
    /\ UNCHANGED <<claims, stage, stub, resolved, codeOwner, queue, installed, detached, arg,
                   after>>

\* The threads run again: the hooks of the failed commit are dropped, in order.
DropNext(t, h, back) ==
    /\ arg' = [arg EXCEPT ![t] = h]
    /\ after' = [after EXCEPT ![t] = back]
    /\ Goto(t, "drop")
dismantle(t) ==
    LET h == Head(installed[t]) IN
    /\ pc[t] = "dismantle" /\ installed[t] # << >>
    /\ DropNext(t, h, "dismantle") /\ SetStage(h, "dropping")
    /\ installed' = [installed EXCEPT ![t] = Tail(@)]
    /\ UNCHANGED <<tableVars, hook, resolved, codeOwner, queue, detached, idx>>
\* Then what was reserved and not taken over: the stubs go to the quarantine.
dismantle_end(t) ==
    /\ pc[t] = "dismantle" /\ installed[t] = << >>
    /\ CommitEnds(t)
    /\ stub' = [h \in Hooks |-> IF h \in QueuedHooks(t) /\ stage[h] = "queued" /\ stub[h] = "detour"
                                THEN "retired" ELSE stub[h]]
    /\ UNCHANGED <<slot, claims, objVars, hook, resolved, detached, arg, after>>

-----------------------------------------------------------------------------
(***************************************************************************)
(* The guards                                                              *)
(***************************************************************************)

\* A refusal changes nothing and is returned.
Toggle(t, h, v) ==
    /\ Idle(t) /\ with_code_lock(t) /\ stage[h] = "live"
    /\ Write(h, v)
    /\ hook' = [hook EXCEPT ![h].enabled = ~@]
    /\ UNCHANGED <<claims, stage, stub, resolved, codeOwner, txVars, callVars>>
enable(t, h) == hook[h].active /\ ~hook[h].enabled /\ Toggle(t, h, h)
disable(t, h) == hook[h].enabled /\ Toggle(t, h, hook[h].orig)

\* unhook restores and drops the guard, which tries again after a refusal.
unhook(t, h) ==
    /\ Idle(t) /\ with_code_lock(t) /\ stage[h] = "live"
    /\ \/ /\ hook[h].active /\ perform_unhook(h)
          /\ hook' = [hook EXCEPT ![h].active = FALSE, ![h].clone = Original]
       \/ hook[h].active /\ Unrestored(h) /\ UNCHANGED hook
       \/ ~hook[h].active /\ UNCHANGED <<slot, objVars, hook>>
    /\ DropNext(t, h, "ready") /\ SetStage(h, "dropping")
    /\ UNCHANGED <<claims, stub, resolved, codeOwner, txVars>>
drop(t, h) ==
    /\ Idle(t) /\ stage[h] = "live"
    /\ DropNext(t, h, "ready") /\ SetStage(h, "dropping")
    /\ UNCHANGED <<tableVars, hook, resolved, codeOwner, txVars>>

\* The guard is gone; a claim that it did not release stays.
DropEnds(t, claimed) ==
    /\ SetStage(arg[t], "gone")
    /\ hook' = [hook EXCEPT ![arg[t]] = [NoGuard EXCEPT
                                             !.place = Place(arg[t]), !.claimed = claimed]]
    /\ arg' = [arg EXCEPT ![t] = Original]
    /\ Goto(t, after[t])
\* Drop restores what is active.  Only a slot that could be restored is released.
drop_unhook(t) ==
    LET h == arg[t] IN
    /\ pc[t] = "drop" /\ with_code_lock(t)
    /\ \/ /\ Place(h) \in Slots /\ hook[h].claimed
          /\ IF hook[h].active THEN perform_unhook(h) ELSE UNCHANGED <<slot, objVars>>
          /\ Goto(t, "release")
          /\ UNCHANGED <<arg, stage, hook>>
       \/ /\ Place(h) \in Slots
          /\ ~hook[h].claimed \/ (hook[h].active /\ Unrestored(h))
          /\ UNCHANGED <<slot, objVars>>
          /\ DropEnds(t, hook[h].claimed)
       \/ /\ Place(h) \in Instances
          /\ IF hook[h].active
             THEN perform_unhook(h) \/ Unrestored(h)
             ELSE UNCHANGED <<slot, objVars>>
          /\ DropEnds(t, FALSE)
    /\ UNCHANGED <<claims, stub, resolved, codeOwner, txVars, after>>
release_table_slot(t) ==
    LET h == arg[t] IN
    /\ pc[t] = "release" /\ with_code_lock(t)
    /\ claims' = claims \ {Place(h)}
    /\ IF stub[h] = "detour"
       THEN /\ Goto(t, "retire_stub")
            /\ hook' = [hook EXCEPT ![h].claimed = FALSE]
            /\ UNCHANGED <<stage, arg>>
       ELSE DropEnds(t, FALSE)
    /\ UNCHANGED <<slot, objVars, stub, resolved, codeOwner, txVars, after>>
retire_stub(t) ==
    /\ pc[t] = "retire_stub" /\ with_code_lock(t)
    /\ RetireStub(arg[t])
    /\ DropEnds(t, FALSE)
    /\ UNCHANGED <<slot, claims, objVars, resolved, codeOwner, txVars, after>>

-----------------------------------------------------------------------------
\* External: the program resolves an export and keeps the address; only that of a stub may
\* go bad.
GetProcAddress(e) ==
    /\ resolved' = resolved \cup ({slot[e]} \cap Far)
    /\ UNCHANGED <<tableVars, hook, stage, codeOwner, txVars, callVars>>
\* External: an object is destroyed and built again; its constructor stores the class table.
construct(o) ==
    /\ vptr' = [vptr EXCEPT ![o] = Original]
    /\ UNCHANGED <<slot, claims, clones, cloneSlot, owned, freed, stub, hook, stage, resolved,
                   codeOwner, txVars, callVars>>

Client(t, h) ==
    \/ attach_iat(t, h) \/ attach_eat(t, h) \/ attach_vtable(t, h)
    \/ attach_vtable_instance(t, h) \/ detach(t, h)
    \/ enable(t, h) \/ disable(t, h) \/ unhook(t, h) \/ drop(t, h)
Commit(t) ==
    \/ commit_lock(t) \/ install_slot(t) \/ install_eat(t) \/ eat_protect(t)
    \/ install_into(t) \/ prepare_detach(t) \/ commit_applied(t) \/ detach_finalize(t)
    \/ commit_end(t) \/ rollback_detaches(t) \/ rollback(t) \/ dismantle(t) \/ dismantle_end(t)
Dropping(t) == drop_unhook(t) \/ release_table_slot(t) \/ retire_stub(t)

Next ==
    \/ \E t \in Threads : commit(t) \/ Commit(t) \/ Dropping(t) \/ \E h \in Hooks : Client(t, h)
    \/ \E e \in Exports : GetProcAddress(e)
    \/ \E o \in Objects : construct(o)

Spec == Init /\ [][Next]_vars

-----------------------------------------------------------------------------
(***************************************************************************)
(* Properties                                                              *)
(***************************************************************************)

Owns(h, s) ==
    /\ Place(h) = s
    /\ \/ hook[h].claimed
       \/ \E t \in Threads : pc[t] = "eat_protect" /\ queue[t][idx[t]].hook = h

(***************************************************************************)
(* A claimed slot has one owner, a slot that leads to a detour is claimed  *)
(* by the hook of that detour, and the guard of a hook knows whether its   *)
(* slot leads there: through commits that fail half-way, drops whose steps *)
(* interleave with them, and refused writes.                               *)
(***************************************************************************)
OneOwnerPerSlot ==
    /\ \A s \in claims : \E h \in Hooks : Owns(h, s)
    /\ \A s \in Slots : \A g, h \in Hooks : Owns(g, s) /\ Owns(h, s) => g = h
    /\ \A s \in Slots : slot[s] \in Hooks => s \in claims /\ Owns(slot[s], s)
    /\ \A h \in Hooks : stage[h] = "live" /\ hook[h].claimed =>
            (hook[h].enabled <=> slot[Place(h)] = h)

(***************************************************************************)
(* An address that the program resolved while an export was hooked stays   *)
(* good: the jump stub behind it is never released, and once the hook has  *)
(* gone it leads to the original.                                          *)
(***************************************************************************)
ResolvedAddressesWork ==
    \A h \in resolved :
        /\ stub[h] \in {"detour", "original"}
        /\ stage[h] = "gone" /\ ~hook[h].claimed => stub[h] = "original"

(***************************************************************************)
(* No object dispatches through a freed clone, or through one that the     *)
(* registry does not know; a clone lives as long as some hook owns a slot  *)
(* of it, and an active hook owns its slot and has it restored to what     *)
(* the class had there.                                                    *)
(***************************************************************************)
ClonesAreSafe ==
    /\ \A o \in Objects :
          /\ vptr[o] \in Hooks => vptr[o] \notin freed /\ clones[o].clone = vptr[o]
          /\ clones[o] # NoEntry =>
                /\ clones[o].clone \notin freed
                /\ clones[o].hooks = Cardinality(owned[clones[o].clone])
    /\ \A h \in Hooks : Place(h) \in Instances /\ hook[h].active =>
          /\ hook[h].clone = clones[Object(h)].clone
          /\ Method(h) \in owned[hook[h].clone]
          /\ \A g \in Hooks : Place(g) \in Instances => hook[h].orig # g
=============================================================================
