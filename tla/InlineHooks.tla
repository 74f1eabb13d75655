----------------------------- MODULE InlineHooks -----------------------------
(***************************************************************************)
(* Transactional inline hooks: TransactionCore, InlineHook and the         *)
(* process-wide registries of src/src/transaction.rs, with INT3 hooks as   *)
(* the other writer of code bytes.                                         *)
(*                                                                         *)
(* A step is one critical section, or one unlocked read of shared state:   *)
(* `attach` takes no lock of its own, so everything it looks at may change *)
(* before it looks at the next thing.  A commit owns the transaction lock  *)
(* from its start (or from the first tracked thread) and the code lock for *)
(* its patch phase; every other writer takes the code lock alone.          *)
(***************************************************************************)
EXTENDS Naturals, Sequences

CONSTANTS
    Procs,        \* threads that call the library
    Hooks,        \* identities of InlineHook objects, each used at most once
    Funcs,        \* function entries a client may hook
    Covers,       \* <<s, t>>: the entry byte of t lies in the stolen bytes of s
    Int3Funcs,    \* the entries clients also put INT3 hooks on
    NoProc,       \* the owner of a free lock
    AttachAlone,  \* clients run no other call while one is inside `attach`
    InstalledGatewaysOnly, \* clients chain only onto gateways of installed hooks
    Faults        \* kinds of code writes the system may refuse

ASSUME ProcsAssumption == NoProc \notin Procs
ASSUME HooksAssumption == Hooks \cap {"orig", "cc", "none"} = {}
ASSUME FuncsAssumption == Int3Funcs \subseteq Funcs
ASSUME CoversAssumption == Covers \subseteq Funcs \X Funcs
ASSUME ClientAssumption ==
    AttachAlone \in BOOLEAN /\ InstalledGatewaysOnly \in BOOLEAN
ASSUME FaultsAssumption ==
    Faults \subseteq {"install", "restore", "toggle", "rollback", "int3"}

-----------------------------------------------------------------------------
(***************************************************************************)
(* Code addresses.  A hook's trampoline is one allocation with two parts:  *)
(* the gateway stub, a jump that a chained hook may overwrite, and the     *)
(* body, the relocated prologue of the hook's target.                      *)
(***************************************************************************)
Gateway(h) == <<"gateway", h>>
Body(h) == <<"body", h>>
Detour(h) == <<"detour", h>>

Gateways == {Gateway(h) : h \in Hooks}
Bodies == {Body(h) : h \in Hooks}
Detours == {Detour(h) : h \in Hooks}
Site == Funcs \cup Gateways \cup Bodies \cup Detours

\* What clients hook and what the library allocates are different memory.
ASSUME SitesAssumption == Funcs \cap (Gateways \cup Bodies \cup Detours) = {}

\* The hook whose trampoline holds the site.
InTrampoline(s, h) == s = Gateway(h) \/ s = Body(h)

\* What the bytes of a site are: untouched, the jump of a hook, or 0xCC.
Content == {"orig", "cc"} \cup Hooks

Stage == {"none",       \* identity not used yet
          "building",   \* inside attach
          "queued",     \* InlineData of a pending transaction
          "installed",  \* InlineHook of a commit that has not returned
          "guard",      \* InlineHook held by the client
          "detaching",  \* held by the client and queued for detach
          "dropping",   \* inside unhook or drop
          "gone",       \* dropped
          "leaked"}     \* dropped, but the target could not be restored

NoHook == "none"

Ops == [op : {"attach", "detach"}, hook : Hooks]

VARIABLES
    code,         \* content of every site
    \* fields of InlineData / InlineHook
    stage, target, kind, leads, orig, body, active, enabled, published,
    retired,      \* how often the trampoline was handed to reclaim::retire
    \* registries
    livePatches, managed, dependents, orphan, armed,
    saved,        \* original_byte of the INT3 hook on a function
    \* locks
    txOwner, codeOwner,
    \* TransactionCore of each thread, and the locals of its commit
    txOpen, queue, installed, detached, idx, before,
    \* the call each thread is in
    pc, arg, link, how

hookVars == <<stage, target, kind, leads, orig, body, active, enabled,
              published, retired>>
regVars == <<livePatches, managed, dependents, orphan, armed, saved>>
lockVars == <<txOwner, codeOwner>>
txVars == <<txOpen, queue, installed, detached, idx, before>>
callVars == <<pc, arg, link, how>>
vars == <<code, hookVars, regVars, lockVars, txVars, callVars>>

AttachPcs == {"att_managed", "att_stub", "att_follow", "att_check",
              "att_relocate", "att_snapshot"}
CommitPcs == {"com_code", "com_install", "com_publish"}
CodePcs == {"com_install", "com_publish", "com_finalize", "com_relink",
            "com_undo_detach", "com_undo_install", "com_dismantle",
            "drop_release", "drop_relink", "drop_end"}
Pcs == {"ready", "drop_begin"} \cup AttachPcs \cup CommitPcs \cup CodePcs
\* The calls that work on the hook in `arg`.
HookPcs == AttachPcs \cup
           {"com_relink", "drop_begin", "drop_release", "drop_relink", "drop_end"}

(***************************************************************************)
(* Every variable keeps its type, and a thread inside a call on one hook   *)
(* has that hook in hand.                                                  *)
(***************************************************************************)
TypeOK ==
    /\ code \in [Site -> Content]
    /\ stage \in [Hooks -> Stage]
    /\ target \in [Hooks -> Site]
    /\ kind \in [Hooks -> {"Normal", "ManagedGateway"}]
    /\ leads \in [Hooks -> Site]
    /\ orig \in [Hooks -> Content]
    /\ body \in [Hooks -> Content]
    /\ active \in [Hooks -> BOOLEAN]
    /\ enabled \in [Hooks -> BOOLEAN]
    /\ published \in [Hooks -> BOOLEAN]
    /\ retired \in [Hooks -> Nat]
    /\ livePatches \in SUBSET Site
    /\ managed \in SUBSET Hooks
    /\ dependents \in [Hooks -> Nat]
    /\ orphan \in SUBSET Hooks
    /\ armed \in SUBSET Funcs
    /\ saved \in [Funcs -> Content]
    /\ txOwner \in Procs \cup {NoProc}
    /\ codeOwner \in Procs \cup {NoProc}
    /\ txOpen \in [Procs -> BOOLEAN]
    /\ queue \in [Procs -> Seq(Ops)]
    /\ installed \in [Procs -> Seq(Hooks)]
    /\ detached \in [Procs -> Seq([hook : Hooks, was : BOOLEAN])]
    /\ idx \in [Procs -> Nat]
    /\ before \in [Procs -> [Site -> Content]]
    /\ pc \in [Procs -> Pcs]
    /\ arg \in [Procs -> Hooks \cup {NoHook}]
    /\ \A p \in Procs : pc[p] \in HookPcs => arg[p] \in Hooks
    /\ link \in [Procs -> {"none", "alive", "orphan"}]
    /\ how \in [Procs -> {"unhook", "drop"}]

Init ==
    /\ code = [s \in Site |-> "orig"]
    /\ stage = [h \in Hooks |-> "none"]
    /\ target = [h \in Hooks |-> Body(h)]
    /\ kind = [h \in Hooks |-> "Normal"]
    /\ leads = [h \in Hooks |-> Body(h)]
    /\ orig = [h \in Hooks |-> "orig"]
    /\ body = [h \in Hooks |-> "orig"]
    /\ active = [h \in Hooks |-> FALSE]
    /\ enabled = [h \in Hooks |-> FALSE]
    /\ published = [h \in Hooks |-> FALSE]
    /\ retired = [h \in Hooks |-> 0]
    /\ livePatches = {}
    /\ managed = {}
    /\ dependents = [h \in Hooks |-> 0]
    /\ orphan = {}
    /\ armed = {}
    /\ saved = [s \in Funcs |-> "orig"]
    /\ txOwner = NoProc
    /\ codeOwner = NoProc
    /\ txOpen = [p \in Procs |-> FALSE]
    /\ queue = [p \in Procs |-> << >>]
    /\ installed = [p \in Procs |-> << >>]
    /\ detached = [p \in Procs |-> << >>]
    /\ idx = [p \in Procs |-> 0]
    /\ before = [p \in Procs |-> [s \in Site |-> "orig"]]
    /\ pc = [p \in Procs |-> "ready"]
    /\ arg = [p \in Procs |-> NoHook]
    /\ link = [p \in Procs |-> "none"]
    /\ how = [p \in Procs |-> "drop"]

-----------------------------------------------------------------------------
(***************************************************************************)
(* Helpers                                                                 *)
(***************************************************************************)
Goto(p, l) == pc' = [pc EXCEPT ![p] = l]

\* The entry byte of t lies in the stolen bytes of s.
InRange(s, t) == s = t \/ <<s, t>> \in Covers

\* ranges_overlap on the stolen bytes of two sites.
Overlaps(s, t) == InRange(s, t) \/ InRange(t, s)

armed_in_range_Missed(s) == FALSE
armed_in_range(s) == \E t \in armed : InRange(s, t)

overlaps_live_patch_Int3Only(s) == armed_in_range(s)
overlaps_live_patch(s) ==
    armed_in_range(s) \/ \E t \in livePatches : Overlaps(s, t)

is_managed_gateway(s) == \E g \in managed : s = Gateway(g)

is_chained_gateway(s) == \E g \in Hooks : s = Gateway(g) /\ dependents[g] > 0

\* The hooks thread p has queued to install.
Queued(p) == {h \in Hooks : \E i \in 1..Len(queue[p]) :
                               queue[p][i] = [op |-> "attach", hook |-> h]}

\* queued_inline, and the overlap with other queued hooks.
queued_inline(p, s) == \E h \in Queued(p) : target[h] = s
overlaps_pending(p, s) == \E h \in Queued(p) : Overlaps(target[h], s)

\* What a reader of the stolen bytes of s finds there: a patch that covers any
\* of them, or the original instructions.
Patches(s) == {t \in Site : \/ code[t] \in Hooks /\ Overlaps(s, t)
                            \/ code[t] = "cc" /\ InRange(s, t)}
ReadBytes(s) == IF Patches(s) = {} THEN "orig"
                ELSE IF s \in Patches(s) THEN code[s]
                ELSE code[CHOOSE t \in Patches(s) : TRUE]

\* The guard of CODE_LOCK goes out of scope.
ReleaseCode_Forgotten == UNCHANGED codeOwner
ReleaseCode == codeOwner' = NoProc

\* Discipline of the clients (see AttachAlone): nobody is inside `attach`, and
\* for a thread about to enter it, nobody is inside any call.
MayCall(p) == AttachAlone => \A q \in Procs : pc[q] \notin AttachPcs
MayAttach(p) == AttachAlone => \A q \in Procs : pc[q] = "ready"

-----------------------------------------------------------------------------
(***************************************************************************)
(* Transactions: begin, update_thread, abort                               *)
(***************************************************************************)
Begin(p) ==
    /\ pc[p] = "ready" /\ ~txOpen[p]
    /\ txOpen' = [txOpen EXCEPT ![p] = TRUE]
    /\ UNCHANGED <<code, hookVars, regVars, lockVars, queue, installed,
                   detached, idx, before, callVars>>

\* The first tracked thread takes the transaction lock.
update_thread(p) ==
    /\ pc[p] = "ready" /\ txOpen[p]
    /\ txOwner = NoProc
    /\ txOwner' = p
    /\ UNCHANGED <<code, hookVars, regVars, codeOwner, txVars, callVars>>

\* Dropping the queue retires the trampolines that were built for it and ends
\* the borrow of the hooks that were to be detached.
DropQueue(p) ==
    LET dead == Queued(p)
        kept == {h \in Hooks : \E i \in 1..Len(queue[p]) :
                                  queue[p][i] = [op |-> "detach", hook |-> h]}
    IN /\ stage' = [h \in Hooks |-> IF h \in dead THEN "gone"
                                    ELSE IF h \in kept THEN "guard"
                                    ELSE stage[h]]
       /\ retired' = [h \in Hooks |-> IF h \in dead THEN retired[h] + 1
                                      ELSE retired[h]]
       /\ queue' = [queue EXCEPT ![p] = << >>]

\* cleanup_threads: the transaction lock is released if this thread holds it.
ReleaseTx(p) == txOwner' = IF txOwner = p THEN NoProc ELSE txOwner

abort(p) ==
    /\ pc[p] = "ready" /\ txOpen[p]
    /\ DropQueue(p)
    /\ ReleaseTx(p)
    /\ txOpen' = [txOpen EXCEPT ![p] = FALSE]
    /\ UNCHANGED <<code, target, kind, leads, orig, body, active, enabled,
                   published, regVars, codeOwner, installed, detached, idx,
                   before, callVars>>

-----------------------------------------------------------------------------
(***************************************************************************)
(* attach / attach_exact.  `follow` tells them apart.                      *)
(***************************************************************************)

\* A pointer a client can pass: a function, or the gateway an earlier attach
\* returned.
Attachable(s) ==
    \/ s \in Funcs
    \/ \E g \in Hooks :
          /\ s = Gateway(g)
          /\ stage[g] \in {"queued", "installed", "guard", "detaching"}
          /\ InstalledGatewaysOnly => published[g]

attach(p, h, s, follow) ==
    /\ pc[p] = "ready" /\ txOpen[p] /\ MayAttach(p)
    /\ stage[h] = "none" /\ Attachable(s)
    /\ follow => ~is_chained_gateway(s)
    /\ follow \/ s \in Funcs
    /\ stage' = [stage EXCEPT ![h] = "building"]
    /\ target' = [target EXCEPT ![h] = s]
    /\ arg' = [arg EXCEPT ![p] = h]
    /\ Goto(p, IF follow THEN "att_managed" ELSE "att_check")
    /\ UNCHANGED <<code, kind, leads, orig, body, active, enabled, published,
                   retired, regVars, lockVars, txVars, link, how>>

\* An error return, or the dedup of a repeated attach: nothing was queued.
Reject_WithoutReturn(p) ==
    /\ stage' = [stage EXCEPT ![arg[p]] = "none"]
    /\ target' = [target EXCEPT ![arg[p]] = Body(arg[p])]
    /\ arg' = [arg EXCEPT ![p] = NoHook]
    /\ UNCHANGED <<code, kind, leads, orig, body, active, enabled, published,
                   retired, regVars, lockVars, txVars, pc, link, how>>
Reject(p) ==
    /\ stage' = [stage EXCEPT ![arg[p]] = "none"]
    /\ target' = [target EXCEPT ![arg[p]] = Body(arg[p])]
    /\ kind' = [kind EXCEPT ![arg[p]] = "Normal"]
    /\ arg' = [arg EXCEPT ![p] = NoHook]
    /\ Goto(p, "ready")
    /\ UNCHANGED <<code, leads, orig, body, active, enabled, published,
                   retired, regVars, lockVars, txVars, link, how>>

attach_managed(p) ==
    LET h == arg[p] IN
    /\ pc[p] = "att_managed"
    /\ \/ /\ is_managed_gateway(target[h])
          /\ queued_inline(p, target[h])
          /\ Reject(p)
       \/ /\ is_managed_gateway(target[h])
          /\ ~queued_inline(p, target[h])
          /\ kind' = [kind EXCEPT ![h] = "ManagedGateway"]
          /\ Goto(p, "att_stub")
          /\ UNCHANGED <<code, stage, target, leads, orig, body, active,
                         enabled, published, retired, regVars, lockVars,
                         txVars, arg, link, how>>
       \/ /\ ~is_managed_gateway(target[h])
          /\ Goto(p, "att_follow")
          /\ UNCHANGED <<code, hookVars, regVars, lockVars, txVars, arg, link,
                         how>>

\* read_managed_gateway_target: the stub's destination.  A jump that a commit
\* has written over the stub meanwhile is refused when it is the relative form
\* and taken for a stub when it is the absolute one.
attach_stub(p) ==
    LET h == arg[p] IN
    /\ pc[p] = "att_stub"
    /\ \/ \E s \in Site :
             /\ \/ \E g \in Hooks : /\ target[h] = Gateway(g)
                                    /\ code[target[h]] = "orig"
                                    /\ s = leads[g]
                \/ \E c \in Hooks : code[target[h]] = c /\ s = Detour(c)
             /\ leads' = [leads EXCEPT ![h] = s]
             /\ Goto(p, "att_snapshot")
             /\ UNCHANGED <<code, stage, target, kind, orig, body, active,
                            enabled, published, retired, regVars, lockVars,
                            txVars, arg, link, how>>
       \/ code[target[h]] # "orig" /\ Reject(p)

\* detour_code_from_pointer follows one jump per iteration.
attach_follow(p) ==
    LET h == arg[p] IN
    /\ pc[p] = "att_follow"
    /\ \/ \E s \in Site :
             /\ \/ \E c \in Hooks : code[target[h]] = c /\ s = Detour(c)
                \/ \E g \in Hooks : /\ target[h] = Gateway(g)
                                    /\ code[target[h]] = "orig"
                                    /\ s = leads[g]
             /\ target' = [target EXCEPT ![h] = s]
             /\ UNCHANGED pc
       \/ /\ code[target[h]] \notin Hooks
          /\ target[h] \notin Gateways
          /\ Goto(p, "att_check")
          /\ UNCHANGED target
    /\ UNCHANGED <<code, stage, kind, leads, orig, body, active, enabled,
                   published, retired, regVars, lockVars, txVars, arg, link,
                   how>>

\* The first disjunct also stands for a prologue that cannot be measured or
\* is branched into.
attach_check(p) ==
    LET s == target[arg[p]] IN
    /\ pc[p] = "att_check"
    /\ \/ Reject(p)
       \/ /\ ~queued_inline(p, s)
          /\ ~overlaps_pending(p, s) /\ ~overlaps_live_patch(s)
          /\ Goto(p, "att_relocate")
          /\ UNCHANGED <<code, hookVars, regVars, lockVars, txVars, arg, link,
                         how>>

\* Disassembler::relocate copies the prologue into the trampoline body.
attach_relocate(p) ==
    LET h == arg[p] IN
    /\ pc[p] = "att_relocate"
    /\ body' = [body EXCEPT ![h] = ReadBytes(target[h])]
    /\ leads' = [leads EXCEPT ![h] = Body(h)]
    /\ Goto(p, "att_snapshot")
    /\ UNCHANGED <<code, stage, target, kind, orig, active, enabled, published,
                   retired, regVars, lockVars, txVars, arg, link, how>>

\* orig_bytes is read and the hook queued.
attach_snapshot(p) ==
    LET h == arg[p] IN
    /\ pc[p] = "att_snapshot"
    /\ orig' = [orig EXCEPT ![h] = ReadBytes(target[h])]
    /\ stage' = [stage EXCEPT ![h] = "queued"]
    /\ queue' = [queue EXCEPT ![p] = Append(@, [op |-> "attach", hook |-> h])]
    /\ arg' = [arg EXCEPT ![p] = NoHook]
    /\ Goto(p, "ready")
    /\ UNCHANGED <<code, target, kind, leads, body, active, enabled, published,
                   retired, regVars, lockVars, txOpen, installed, detached,
                   idx, before, link, how>>

\* The hook stays borrowed by the transaction until commit or abort.
detach(p, h) ==
    /\ pc[p] = "ready" /\ txOpen[p] /\ MayCall(p)
    /\ stage[h] = "guard"
    /\ stage' = [stage EXCEPT ![h] = "detaching"]
    /\ queue' = [queue EXCEPT ![p] = Append(@, [op |-> "detach", hook |-> h])]
    /\ UNCHANGED <<code, target, kind, leads, orig, body, active, enabled,
                   published, retired, regVars, lockVars, txOpen, installed,
                   detached, idx, before, callVars>>

-----------------------------------------------------------------------------
(***************************************************************************)
(* commit                                                                  *)
(***************************************************************************)

\* A failed commit: the transaction stays pending, with nothing queued and no
\* thread tracked.
CommitFails(p) ==
    /\ DropQueue(p)
    /\ ReleaseTx(p)
    /\ Goto(p, "ready")

\* What the patch phase needs: the queued ranges overlap neither each other nor
\* a patch that another transaction installed since attach.
Reservable_AsAtAttach(p) ==
    \A g, h \in Queued(p) : g # h => ~Overlaps(target[g], target[h])
Reservable(p) ==
    /\ \A g, h \in Queued(p) : g # h => ~Overlaps(target[g], target[h])
    /\ \A h \in Queued(p) : ~overlaps_live_patch(target[h])

\* Takes the transaction lock and checks the queue again.
commit(p) ==
    /\ pc[p] = "ready" /\ txOpen[p] /\ MayCall(p)
    /\ txOwner \in {NoProc, p}
    /\ \/ /\ Reservable(p)
          /\ txOwner' = p
          /\ Goto(p, "com_code")
          /\ UNCHANGED <<stage, retired, queue>>
       \/ ~Reservable(p) /\ CommitFails(p)
    /\ UNCHANGED <<code, target, kind, leads, orig, body, active, enabled,
                   published, regVars, codeOwner, txOpen, installed, detached,
                   idx, before, arg, link, how>>

\* A gateway queued for chaining lost its owner since attach.
Orphaned_Unchecked(p) == FALSE
Orphaned(p) ==
    \E h \in Queued(p) :
        kind[h] = "ManagedGateway" /\ ~is_managed_gateway(target[h])

\* hold_code_lock, and the check for orphaned gateways under it.
commit_lock(p) ==
    /\ pc[p] = "com_code"
    /\ codeOwner = NoProc
    /\ \/ /\ ~Orphaned(p)
          /\ codeOwner' = p
          /\ before' = [before EXCEPT ![p] = code]
          /\ Goto(p, "com_install")
          /\ UNCHANGED <<stage, retired, queue, txOwner>>
       \/ Orphaned(p) /\ CommitFails(p) /\ UNCHANGED <<codeOwner, before>>
    /\ UNCHANGED <<code, target, kind, leads, orig, body, active, enabled,
                   published, regVars, txOpen, installed, detached, idx, arg,
                   link, how>>

\* One queued operation of the suspend window; the failing one stays queued.
install_inline(p, h) ==
    /\ Head(queue[p]) = [op |-> "attach", hook |-> h]
    /\ ~armed_in_range(target[h])
    /\ code' = [code EXCEPT ![target[h]] = h]
    /\ stage' = [stage EXCEPT ![h] = "installed"]
    /\ active' = [active EXCEPT ![h] = TRUE]
    /\ enabled' = [enabled EXCEPT ![h] = TRUE]
    /\ installed' = [installed EXCEPT ![p] = Append(@, h)]
    /\ UNCHANGED detached

prepare_detach(p, h) ==
    /\ Head(queue[p]) = [op |-> "detach", hook |-> h]
    /\ code' = IF enabled[h] THEN [code EXCEPT ![target[h]] = orig[h]] ELSE code
    /\ enabled' = [enabled EXCEPT ![h] = FALSE]
    /\ detached' = [detached EXCEPT ![p] =
                       Append(@, [hook |-> h, was |-> enabled[h]])]
    /\ UNCHANGED <<stage, active, installed>>

commit_install(p) ==
    /\ pc[p] = "com_install" /\ queue[p] # << >>
    /\ \E h \in Hooks : install_inline(p, h) \/ prepare_detach(p, h)
    /\ queue' = [queue EXCEPT ![p] = Tail(@)]
    /\ UNCHANGED <<target, kind, leads, orig, body, published, retired,
                   regVars, lockVars, txOpen, idx, before, callVars>>

commit_fail(p) ==
    /\ pc[p] = "com_install" /\ queue[p] # << >>
    /\ \E h \in Hooks :
          \/ /\ Head(queue[p]) = [op |-> "attach", hook |-> h]
             /\ armed_in_range(target[h]) \/ "install" \in Faults
          \/ /\ Head(queue[p]) = [op |-> "detach", hook |-> h]
             /\ enabled[h] /\ "toggle" \in Faults
    /\ Goto(p, "com_undo_detach")
    /\ UNCHANGED <<code, hookVars, regVars, lockVars, txVars, arg, link, how>>

\* Every operation was applied: threads run again and publishing starts.
commit_applied(p) ==
    /\ pc[p] = "com_install" /\ queue[p] = << >>
    /\ idx' = [idx EXCEPT ![p] = 1]
    /\ Goto(p, "com_publish")
    /\ UNCHANGED <<code, hookVars, regVars, lockVars, txOpen, queue, installed,
                   detached, before, arg, link, how>>

\* Registers one installed hook: its gateway, its range, and the gateway it is
\* chained on.
publish(p) ==
    LET h == installed[p][idx[p]] IN
    /\ pc[p] = "com_publish" /\ idx[p] <= Len(installed[p])
    /\ LET chainedOn == {g \in Hooks : /\ kind[h] = "ManagedGateway"
                                       /\ target[h] = Gateway(g)}
       IN /\ managed' = (managed \ chainedOn) \cup {h}
          /\ dependents' = [g \in Hooks |-> IF g \in chainedOn
                                            THEN dependents[g] + 1
                                            ELSE dependents[g]]
    /\ livePatches' = livePatches \cup {target[h]}
    /\ published' = [published EXCEPT ![h] = TRUE]
    /\ idx' = [idx EXCEPT ![p] = @ + 1]
    /\ UNCHANGED <<code, stage, target, kind, leads, orig, body, active,
                   enabled, retired, orphan, armed, saved, lockVars, txOpen, queue,
                   installed, detached, before, callVars>>

\* The hooks go to the client and the transaction lock is released; the code
\* lock is kept for finalize_detaches.
commit_published(p) ==
    /\ pc[p] = "com_publish" /\ idx[p] > Len(installed[p])
    /\ stage' = [h \in Hooks |->
                    IF \E i \in 1..Len(installed[p]) : installed[p][i] = h
                    THEN "guard" ELSE stage[h]]
    /\ installed' = [installed EXCEPT ![p] = << >>]
    /\ idx' = [idx EXCEPT ![p] = 0]
    /\ ReleaseTx(p)
    /\ Goto(p, "com_finalize")
    /\ UNCHANGED <<code, target, kind, leads, orig, body, active, enabled,
                   published, retired, regVars, codeOwner, txOpen, queue,
                   detached, before, arg, link, how>>

-----------------------------------------------------------------------------
(***************************************************************************)
(* InlineHook::release, in two registry updates: first the patched range   *)
(* and the dependency are withdrawn, then the gateway the hook was chained *)
(* on becomes chainable again or, when its owner is gone, is retired.      *)
(***************************************************************************)
Release(p, h) ==
    LET chainedOn == {g \in Hooks : /\ published[h]
                                    /\ kind[h] = "ManagedGateway"
                                    /\ target[h] = Gateway(g)}
        last == {g \in chainedOn : dependents[g] <= 1}
    IN /\ published' = [published EXCEPT ![h] = FALSE]
       /\ livePatches' = IF published[h] THEN livePatches \ {target[h]}
                         ELSE livePatches
       /\ dependents' = [g \in Hooks |-> IF g \in last THEN 0
                                         ELSE IF g \in chainedOn
                                         THEN dependents[g] - 1
                                         ELSE dependents[g]]
       /\ orphan' = orphan \ last
       /\ link' = [link EXCEPT ![p] = IF chainedOn = {} THEN "none"
                                      ELSE IF chainedOn \cap orphan = {}
                                      THEN "alive"
                                      ELSE IF last # {} THEN "orphan"
                                      ELSE "none"]

\* The gateways the second half acts on.
Linked(p) == {g \in Hooks : target[arg[p]] = Gateway(g)}
RelinkManaged_OwnerIgnored(p) == managed \cup Linked(p)
RelinkManaged(p) == managed \cup (IF link[p] = "alive" THEN Linked(p) ELSE {})
RelinkRetired_Leaked(p) == retired
RelinkRetired(p) == [g \in Hooks |-> IF link[p] = "orphan" /\ g \in Linked(p)
                                     THEN retired[g] + 1 ELSE retired[g]]

-----------------------------------------------------------------------------
(***************************************************************************)
(* commit, continued: finalize_detaches and the failure path               *)
(***************************************************************************)
detach_finalize(p) ==
    LET h == Head(detached[p]).hook IN
    /\ pc[p] = "com_finalize" /\ detached[p] # << >>
    /\ Release(p, h)
    /\ arg' = [arg EXCEPT ![p] = h]
    /\ Goto(p, "com_relink")
    /\ UNCHANGED <<code, stage, target, kind, leads, orig, body, active,
                   enabled, retired, managed, armed, saved, lockVars, txVars, how>>

detach_relink(p) ==
    LET h == arg[p] IN
    /\ pc[p] = "com_relink"
    /\ managed' = RelinkManaged(p) \ {h}
    /\ retired' = RelinkRetired(p)
    /\ link' = [link EXCEPT ![p] = "none"]
    /\ active' = [active EXCEPT ![h] = FALSE]
    /\ stage' = [stage EXCEPT ![h] = "guard"]
    /\ detached' = [detached EXCEPT ![p] = Tail(@)]
    /\ arg' = [arg EXCEPT ![p] = NoHook]
    /\ Goto(p, "com_finalize")
    /\ UNCHANGED <<code, target, kind, leads, orig, body, enabled, published,
                   livePatches, dependents, orphan, armed, saved, lockVars, txOpen,
                   queue, installed, idx, before, how>>

NoSnapshot(p) == before' = [before EXCEPT ![p] = [s \in Site |-> "orig"]]

commit_done(p) ==
    /\ pc[p] = "com_finalize" /\ detached[p] = << >>
    /\ ReleaseCode
    /\ txOpen' = [txOpen EXCEPT ![p] = FALSE]
    /\ NoSnapshot(p)
    /\ Goto(p, "ready")
    /\ UNCHANGED <<code, hookVars, regVars, txOwner, queue, installed, detached,
                   idx, arg, link, how>>

\* detach_rollback enables the hook only if the detach disabled it.
detach_rollback_Skipped(d) == FALSE
detach_rollback(d) == d.was

\* rollback_detaches: the last applied detach is re-enabled first.
rollback_detaches(p) ==
    LET d == detached[p][Len(detached[p])] IN
    /\ pc[p] = "com_undo_detach" /\ detached[p] # << >>
    /\ \/ /\ detach_rollback(d)
          /\ code' = [code EXCEPT ![target[d.hook]] = d.hook]
          /\ enabled' = [enabled EXCEPT ![d.hook] = TRUE]
       \/ /\ ~detach_rollback(d) \/ "rollback" \in Faults
          /\ UNCHANGED <<code, enabled>>
    /\ stage' = [stage EXCEPT ![d.hook] = "guard"]
    /\ detached' = [detached EXCEPT ![p] = SubSeq(@, 1, Len(@) - 1)]
    /\ UNCHANGED <<target, kind, leads, orig, body, active, published, retired,
                   regVars, lockVars, txOpen, queue, installed, idx, before,
                   callVars>>

rollback_start(p) ==
    /\ pc[p] = "com_undo_detach" /\ detached[p] = << >>
    /\ idx' = [idx EXCEPT ![p] = Len(installed[p])]
    /\ Goto(p, "com_undo_install")
    /\ UNCHANGED <<code, hookVars, regVars, lockVars, txOpen, queue, installed,
                   detached, before, arg, link, how>>

\* rollback: disable the installed hooks, last first; a failing write is
\* ignored.
rollback(p) ==
    LET h == installed[p][idx[p]] IN
    /\ pc[p] = "com_undo_install" /\ idx[p] > 0
    /\ \/ /\ code' = [code EXCEPT ![target[h]] = orig[h]]
          /\ enabled' = [enabled EXCEPT ![h] = FALSE]
       \/ "rollback" \in Faults /\ UNCHANGED <<code, enabled>>
    /\ idx' = [idx EXCEPT ![p] = @ - 1]
    /\ UNCHANGED <<stage, target, kind, leads, orig, body, active, published,
                   retired, regVars, lockVars, txOpen, queue, installed,
                   detached, before, callVars>>

\* cleanup_threads: the transaction lock goes before the hooks are dismantled.
rollback_done(p) ==
    /\ pc[p] = "com_undo_install" /\ idx[p] = 0
    /\ ReleaseTx(p)
    /\ Goto(p, "com_dismantle")
    /\ UNCHANGED <<code, hookVars, regVars, codeOwner, txVars, arg, link, how>>

\* drop(installed): each InlineHook is dropped.  It was never published, so its
\* release does nothing and no hook can be chained on its gateway.
dismantle(p) ==
    LET h == Head(installed[p]) IN
    /\ pc[p] = "com_dismantle" /\ installed[p] # << >>
    /\ \/ /\ code' = [code EXCEPT ![target[h]] = orig[h]]
          /\ stage' = [stage EXCEPT ![h] = "gone"]
          /\ retired' = [retired EXCEPT ![h] = @ + 1]
          /\ managed' = managed \ {h}
       \/ /\ "rollback" \in Faults
          /\ stage' = [stage EXCEPT ![h] = "leaked"]
          /\ UNCHANGED <<code, retired, managed>>
    /\ installed' = [installed EXCEPT ![p] = Tail(@)]
    /\ UNCHANGED <<target, kind, leads, orig, body, active, enabled, published,
                   livePatches, dependents, orphan, armed, saved, lockVars, txOpen,
                   queue, detached, idx, before, callVars>>

\* drop(pending), and the code lock.
commit_failed(p) ==
    /\ pc[p] = "com_dismantle" /\ installed[p] = << >>
    /\ DropQueue(p)
    /\ ReleaseCode
    /\ NoSnapshot(p)
    /\ Goto(p, "ready")
    /\ UNCHANGED <<code, target, kind, leads, orig, body, active, enabled,
                   published, regVars, txOwner, txOpen, installed, detached,
                   idx, arg, link, how>>

-----------------------------------------------------------------------------
(***************************************************************************)
(* InlineHook: enable, disable, unhook, drop                               *)
(***************************************************************************)

disable(p, h) ==
    /\ pc[p] = "ready" /\ MayCall(p) /\ codeOwner = NoProc
    /\ stage[h] = "guard" /\ enabled[h]
    /\ code' = [code EXCEPT ![target[h]] = orig[h]]
    /\ enabled' = [enabled EXCEPT ![h] = FALSE]
    /\ UNCHANGED <<stage, target, kind, leads, orig, body, active, published,
                   retired, regVars, lockVars, txVars, callVars>>

enable(p, h) ==
    /\ pc[p] = "ready" /\ MayCall(p) /\ codeOwner = NoProc
    /\ stage[h] = "guard" /\ active[h] /\ ~enabled[h]
    /\ code' = [code EXCEPT ![target[h]] = h]
    /\ enabled' = [enabled EXCEPT ![h] = TRUE]
    /\ UNCHANGED <<stage, target, kind, leads, orig, body, active, published,
                   retired, regVars, lockVars, txVars, callVars>>

\* unhook restores and releases under one hold of the code lock; the guard is
\* dropped afterwards, also when the write failed.
unhook(p, h) ==
    /\ pc[p] = "ready" /\ MayCall(p) /\ codeOwner = NoProc
    /\ stage[h] = "guard" /\ active[h]
    /\ stage' = [stage EXCEPT ![h] = "dropping"]
    /\ arg' = [arg EXCEPT ![p] = h]
    /\ \/ /\ code' = [code EXCEPT ![target[h]] = orig[h]]
          /\ codeOwner' = p
          /\ how' = [how EXCEPT ![p] = "unhook"]
          /\ Goto(p, "drop_release")
       \/ /\ "restore" \in Faults
          /\ Goto(p, "drop_begin")
          /\ UNCHANGED <<code, codeOwner, how>>
    /\ UNCHANGED <<target, kind, leads, orig, body, active, enabled, published,
                   retired, regVars, txOwner, txVars, link>>

Drop(p, h) ==
    /\ pc[p] = "ready" /\ MayCall(p)
    /\ stage[h] = "guard"
    /\ stage' = [stage EXCEPT ![h] = "dropping"]
    /\ arg' = [arg EXCEPT ![p] = h]
    /\ Goto(p, "drop_begin")
    /\ UNCHANGED <<code, target, kind, leads, orig, body, active, enabled,
                   published, retired, regVars, lockVars, txVars, link, how>>

\* Drop unhooks a hook that was neither unhooked nor detached, enabled or not.
MustRestore_Disabled(h) == active[h] /\ ~enabled[h]
MustRestore(h) == active[h]

\* The code lock is taken; an active hook restores its target first, and when
\* that fails the trampoline and the registrations stay.
drop_write(p) ==
    LET h == arg[p] IN
    /\ pc[p] = "drop_begin" /\ codeOwner = NoProc
    /\ \/ /\ code' = IF MustRestore(h)
                     THEN [code EXCEPT ![target[h]] = orig[h]] ELSE code
          /\ codeOwner' = p
          /\ Goto(p, "drop_release")
          /\ UNCHANGED <<stage, arg>>
       \/ /\ MustRestore(h) /\ "restore" \in Faults
          /\ stage' = [stage EXCEPT ![h] = "leaked"]
          /\ arg' = [arg EXCEPT ![p] = NoHook]
          /\ Goto(p, "ready")
          /\ UNCHANGED <<code, codeOwner>>
    /\ UNCHANGED <<target, kind, leads, orig, body, active, enabled, published,
                   retired, regVars, txOwner, txVars, link, how>>

drop_release(p) ==
    /\ pc[p] = "drop_release"
    /\ Release(p, arg[p])
    /\ Goto(p, "drop_relink")
    /\ UNCHANGED <<code, stage, target, kind, leads, orig, body, active,
                   enabled, retired, managed, armed, saved, lockVars, txVars, arg,
                   how>>

\* Restores the gateway this hook was chained on and withdraws its own.
drop_relink(p) ==
    LET h == arg[p] IN
    /\ pc[p] = "drop_relink"
    /\ managed' = RelinkManaged(p) \ {h}
    /\ retired' = RelinkRetired(p)
    /\ link' = [link EXCEPT ![p] = "none"]
    /\ active' = [active EXCEPT ![h] = FALSE]
    /\ \/ /\ how[p] = "unhook"
          /\ ReleaseCode
          /\ how' = [how EXCEPT ![p] = "drop"]
          /\ Goto(p, "drop_begin")
       \/ /\ how[p] = "drop"
          /\ Goto(p, "drop_end")
          /\ UNCHANGED <<codeOwner, how>>
    /\ UNCHANGED <<code, stage, target, kind, leads, orig, body, enabled,
                   published, livePatches, dependents, orphan, armed, saved, txOwner,
                   txVars, arg>>

\* The trampoline is retired with the hook unless hooks chained on the gateway
\* inherited it (orphan_chained_gateway).
orphan_chained_gateway_Refused(h) == FALSE
orphan_chained_gateway(h) == dependents[h] > 0
RetiresTrampoline_Always(h) == TRUE
RetiresTrampoline(h) == ~orphan_chained_gateway(h)

drop_end(p) ==
    LET h == arg[p] IN
    /\ pc[p] = "drop_end"
    /\ orphan' = IF orphan_chained_gateway(h) THEN orphan \cup {h} ELSE orphan
    /\ retired' = IF RetiresTrampoline(h)
                  THEN [retired EXCEPT ![h] = @ + 1] ELSE retired
    /\ stage' = [stage EXCEPT ![h] = "gone"]
    /\ enabled' = [enabled EXCEPT ![h] = FALSE]
    /\ ReleaseCode
    /\ arg' = [arg EXCEPT ![p] = NoHook]
    /\ Goto(p, "ready")
    /\ UNCHANGED <<code, target, kind, leads, orig, body, active, published,
                   livePatches, managed, dependents, armed, saved, txOwner, txVars,
                   link, how>>

-----------------------------------------------------------------------------
(***************************************************************************)
(* INT3 hooks, as far as they share code bytes with inline hooks           *)
(***************************************************************************)

\* The byte is checked against the patched ranges, saved and replaced under the
\* code lock.
arm_int3(p, s) ==
    /\ pc[p] = "ready" /\ MayCall(p) /\ codeOwner = NoProc
    /\ s \notin armed
    /\ ~\E t \in livePatches : InRange(t, s)
    /\ armed' = armed \cup {s}
    /\ saved' = [saved EXCEPT ![s] = code[s]]
    /\ code' = [code EXCEPT ![s] = "cc"]
    /\ UNCHANGED <<hookVars, livePatches, managed, dependents, orphan, lockVars,
                   txVars, callVars>>

\* A refused write is ignored and the slot freed all the same.
remove_int3(p, s) ==
    /\ pc[p] = "ready" /\ MayCall(p) /\ codeOwner = NoProc
    /\ s \in armed
    /\ armed' = armed \ {s}
    /\ saved' = [saved EXCEPT ![s] = "orig"]
    /\ \/ code' = [code EXCEPT ![s] = saved[s]]
       \/ "int3" \in Faults /\ UNCHANGED code
    /\ UNCHANGED <<hookVars, livePatches, managed, dependents, orphan, lockVars,
                   txVars, callVars>>

-----------------------------------------------------------------------------
Attach(p) ==
    \/ \E h \in Hooks, s \in Funcs \cup Gateways, follow \in BOOLEAN :
          attach(p, h, s, follow)
    \/ attach_managed(p) \/ attach_stub(p) \/ attach_follow(p)
    \/ attach_check(p) \/ attach_relocate(p) \/ attach_snapshot(p)

Commit(p) ==
    \/ commit(p) \/ commit_lock(p) \/ commit_install(p) \/ commit_fail(p)
    \/ commit_applied(p) \/ publish(p) \/ commit_published(p)
    \/ detach_finalize(p) \/ detach_relink(p) \/ commit_done(p)
    \/ rollback_detaches(p) \/ rollback_start(p) \/ rollback(p)
    \/ rollback_done(p) \/ dismantle(p) \/ commit_failed(p)

Toggle(p) == \E h \in Hooks : enable(p, h) \/ disable(p, h)

Unhook(p) ==
    \/ \E h \in Hooks : unhook(p, h) \/ Drop(p, h)
    \/ drop_write(p) \/ drop_release(p) \/ drop_relink(p) \/ drop_end(p)

Int3(p) == \E s \in Int3Funcs : arm_int3(p, s) \/ remove_int3(p, s)

Transaction(p) ==
    \/ Begin(p) \/ update_thread(p) \/ abort(p)
    \/ \E h \in Hooks : detach(p, h)

Next == \E p \in Procs :
    Transaction(p) \/ Attach(p) \/ Commit(p) \/ Toggle(p) \/ Unhook(p) \/ Int3(p)

Spec == Init /\ [][Next]_vars

\* A thread that is inside a call keeps running it.  Nothing is assumed of the
\* calls clients start, nor of who gets a contended lock.
Running(p) ==
    \/ attach_managed(p) \/ attach_stub(p) \/ attach_follow(p)
    \/ attach_check(p) \/ attach_relocate(p) \/ attach_snapshot(p)
    \/ commit_lock(p) \/ commit_install(p) \/ commit_fail(p)
    \/ commit_applied(p) \/ publish(p) \/ commit_published(p)
    \/ detach_finalize(p) \/ detach_relink(p) \/ commit_done(p)
    \/ rollback_detaches(p) \/ rollback_start(p) \/ rollback(p)
    \/ rollback_done(p) \/ dismantle(p) \/ commit_failed(p)
    \/ drop_write(p) \/ drop_release(p) \/ drop_relink(p) \/ drop_end(p)

FairSpec == Spec /\ \A p \in Procs : WF_vars(Running(p))

-----------------------------------------------------------------------------
(***************************************************************************)
(* Properties                                                              *)
(***************************************************************************)

\* The hooks that still mean to restore their target.
Holding(h) == stage[h] \in {"installed", "guard", "detaching", "dropping", "leaked"}

(***************************************************************************)
(* No two patches share a byte: neither two jumps nor a jump and a 0xCC.   *)
(* This is what the overlap checks of attach, commit, install_inline and   *)
(* Int3Hook::arm are for.                                                  *)
(***************************************************************************)
NoOverlappingPatches ==
    \A s, t \in Site : s # t =>
        /\ ~(code[s] \in Hooks /\ code[t] \in Hooks /\ Overlaps(s, t))
        /\ ~(code[s] \in Hooks /\ code[t] = "cc" /\ InRange(s, t))

(***************************************************************************)
(* Every patch belongs to a hook that is still there: a jump to a hook     *)
(* that targets this site and whose trampoline was not released, a 0xCC to *)
(* an INT3 hook.  Bytes nobody owns any more would send callers into freed *)
(* memory or an unhandled breakpoint.                                      *)
(***************************************************************************)
EveryPatchHasAnOwner ==
    \A s \in Site :
        /\ code[s] \in Hooks =>
              LET h == code[s]
              IN Holding(h) /\ target[h] = s /\ retired[h] = 0
        /\ code[s] = "cc" => s \in armed

(***************************************************************************)
(* A hook holds the original bytes of its target, in orig_bytes for unhook *)
(* and in the trampoline body for calls of the original function.          *)
(***************************************************************************)
HoldsOriginalBytes ==
    \A h \in Hooks : Holding(h) => orig[h] = "orig" /\ body[h] = "orig"

(***************************************************************************)
(* "its gateway memory stays allocated until the last of them is dropped,  *)
(* so their unhook never writes into released memory": as long as a hook   *)
(* may still write to its target, the trampoline holding that target was   *)
(* not released.                                                           *)
(***************************************************************************)
TargetMemoryIsHeld ==
    \A h, g \in Hooks :
        Holding(h) /\ active[h] /\ InTrampoline(target[h], g) => retired[g] = 0

\* A trampoline is retired at most once, whoever lets go of it last.
RetiredOnce == \A h \in Hooks : retired[h] <= 1

(***************************************************************************)
(* Nothing is lost either: a trampoline whose hook is gone is retired or   *)
(* still waits for a hook chained on its gateway.                          *)
(***************************************************************************)
NoTrampolineLost ==
    \A h \in Hooks :
        stage[h] = "gone" =>
            \/ retired[h] = 1
            \/ h \in orphan /\ dependents[h] > 0
            \/ \E p \in Procs : link[p] = "orphan" /\ h \in Linked(p)

(***************************************************************************)
(* A gateway offered for chaining can be chained on: its memory is held,   *)
(* no other hook is chained on it, and its stub is intact.                 *)
(***************************************************************************)
ManagedIsChainable ==
    \A g \in managed :
        /\ retired[g] = 0 /\ stage[g] # "gone"
        /\ dependents[g] = 0
        /\ codeOwner = NoProc => code[Gateway(g)] = "orig"

(***************************************************************************)
(* The registered ranges of published hooks are disjoint, and registered   *)
(* until the hook is released.                                             *)
(***************************************************************************)
PublishedDisjoint ==
    \A g, h \in Hooks : published[g] /\ published[h] =>
        /\ target[g] \in livePatches
        /\ g # h => ~Overlaps(target[g], target[h])

(***************************************************************************)
(* A failed commit undid everything it wrote by the time it dismantles its *)
(* hooks: the code is what it was when the patch phase began, hooks it had *)
(* detached included.                                                      *)
(***************************************************************************)
FailedCommitLeavesNoTrace ==
    \A p \in Procs : pc[p] = "com_dismantle" => code = before[p]

(***************************************************************************)
(* A patch is never written over another one: what a write replaces, or    *)
(* what it leaves, is the original code.                                   *)
(***************************************************************************)
NoPatchOverPatch ==
    [][\A s \in Site : code'[s] # code[s] =>
           code[s] = "orig" \/ code'[s] = "orig"]_vars

(***************************************************************************)
(* The pointer attach returned "can be used to call the original function" *)
(* as long as the hook is installed: the stub leads into memory that was   *)
(* not released.                                                           *)
(***************************************************************************)
OriginalIsCallable ==
    \A h, g \in Hooks :
        /\ stage[h] = "guard" /\ active[h]
        /\ InTrampoline(leads[h], g)
        => retired[g] = 0

(***************************************************************************)
(* CODE_LOCK is held for a bounded stretch: its holder waits for nothing,  *)
(* so a thread that unhooks or drops a hook never waits for an open        *)
(* transaction, whatever the commit it meets runs into.                    *)
(***************************************************************************)
CodeLockIsReleased == \A p \in Procs : codeOwner = p ~> codeOwner # p
=============================================================================
