------------------------------- MODULE Handles -------------------------------
(***************************************************************************)
(* Who owns a committed hook: the vector a Rust commit returns, the slots  *)
(* behind a C handle (api.rs) and the process-wide registry of named hooks *)
(* (registry.rs), under the transaction, code and registry locks.  What a  *)
(* hook writes where is in InlineHooks and TableHooks; here a hook is      *)
(* enabled or not.                                                         *)
(***************************************************************************)
EXTENDS Naturals, Sequences, FiniteSets, Functions

CONSTANTS
    Threads,       \* threads of the client
    Hooks,         \* one per attach the client ever queues successfully
    Names,         \* names in the registry
    None,          \* an emptied slot, an absent entry, a free lock
    MaxHandles,    \* commits made through the C interface
    MaxSeq         \* registrations

(* Where a call is: outside, in a commit, or in a teardown. *)
WindowPcs == {"commit_install", "rollback_detaches", "rollback"}
Pcs == {"idle", "drop", "commit_lock"} \cup WindowPcs

ASSUME HandlesAssumption ==
    /\ None \notin Threads \cup Hooks /\ None \notin Hooks \X Nat
    /\ Pcs \cap Names = {} /\ IsFiniteSet(Names)
    /\ MaxHandles \in Nat /\ MaxSeq \in Nat

VARIABLES
    tx,          \* [Threads -> the thread's DetourTransaction]
    pc,          \* [Threads -> where its call is; the name it is toggling]
    handles,     \* sequence of the handles returned so far
    kept,        \* [Threads -> hooks the thread owns as Rust values]
    registry,    \* [Names -> <<hook, sequence number>> or None]
    next_seq,
    dying,       \* [Threads -> hooks the thread's call has still to drop]
    enabled,     \* [Hooks -> BOOLEAN] the patch or pointer is written
    active,      \* [Hooks -> BOOLEAN] installed and neither dropped nor detached
    spent,       \* hooks that were installed once and are no longer
    base,        \* [Hooks -> the hook whose gateway it was chained on, or None]
    taken,       \* [Threads -> entries its running unhook_all took from the registry]
    txLock, codeLock, regLock

vars == <<tx, pc, handles, kept, registry, next_seq, dying, enabled, active,
          spent, base, taken, txLock, codeLock, regLock>>

Slots == 1 .. Cardinality(Hooks)

(* A queued operation: attach a hook, detach one by its slot in a handle   *)
(* or by reference.                                                        *)
Ops == [op : {"attach", "detach"}, hook : Hooks]
          \cup [op : {"slot"}, handle : Nat, idx : Slots]

(* A detach that a commit has applied, and what it has to undo. *)
AppliedDetach == [target : Ops, hook : Hooks, was : BOOLEAN]

NoTx == [phase |-> "none", queue |-> <<>>, installed |-> <<>>, detached |-> <<>>]

Init ==
    /\ tx = [t \in Threads |-> NoTx]
    /\ pc = [t \in Threads |-> "idle"]
    /\ handles = <<>>
    /\ kept = [t \in Threads |-> {}]
    /\ registry = [n \in Names |-> None]
    /\ next_seq = 0
    /\ dying = [t \in Threads |-> <<>>]
    /\ enabled = [h \in Hooks |-> FALSE]
    /\ active = [h \in Hooks |-> FALSE]
    /\ spent = {}
    /\ base = [h \in Hooks |-> None]
    /\ taken = [t \in Threads |-> {}]
    /\ txLock = None /\ codeLock = None /\ regLock = None

Queued(t) == Range(tx[t].queue)

(* The hook in a slot, None for an emptied one or an index out of range. *)
Slot(hd, i) == IF i \in DOMAIN handles[hd].slots THEN handles[hd].slots[i] ELSE None

LiveHandles == {hd \in DOMAIN handles : ~handles[hd].freed}

(* A hook detached by reference is borrowed until the transaction ends. *)
Borrowed(h) == \E t \in Threads : [op |-> "detach", hook |-> h] \in Queued(t)

(* A handle has to outlive the detaches queued from it, as its callers     *)
(* are told.                                                               *)
Pinned(hd) == \E t \in Threads : \E o \in Queued(t) : o.op = "slot" /\ o.handle = hd

-----------------------------------------------------------------------------
(* Transactions. *)

Begin(t, interface) ==
    /\ pc[t] = "idle" /\ tx[t].phase = "none"
    /\ tx' = [tx EXCEPT ![t].phase = interface]
    /\ UNCHANGED <<pc, handles, kept, registry, next_seq, dying, enabled, active,
                   spent, base, taken, txLock, codeLock, regLock>>

begin(t) == Begin(t, "rust")

(* A transaction of the C interface ends with a handle. *)
detours_transaction_begin(t) ==
    /\ Len(handles) + Cardinality({u \in Threads : tx[u].phase = "c"}) < MaxHandles
    /\ Begin(t, "c")

(* Tracking a thread takes the transaction lock once. *)
update_threads(t) ==
    /\ pc[t] = "idle" /\ tx[t].phase # "none" /\ txLock = None
    /\ txLock' = t
    /\ UNCHANGED <<tx, pc, handles, kept, registry, next_seq, dying, enabled,
                   active, spent, base, taken, codeLock, regLock>>

(* A new hook is chained on the gateway of the newest one still there. *)
Top(t) == LET below == {h \in Hooks : active[h]
                            \/ [op |-> "attach", hook |-> h] \in Queued(t)}
          IN  {h \in below : \A g \in below : base[g] # h}

QueueAttach(t, h) ==
    /\ pc[t] = "idle"
    /\ ~active[h] /\ h \notin spent
    /\ \A u \in Threads : [op |-> "attach", hook |-> h] \notin Queued(u)
    /\ tx' = [tx EXCEPT ![t].queue = Append(@, [op |-> "attach", hook |-> h])]
    /\ \E b \in IF Top(t) = {} THEN {None} ELSE Top(t) : base' = [base EXCEPT ![h] = b]
    /\ UNCHANGED <<pc, handles, kept, registry, next_seq, dying, enabled, active,
                   spent, taken, txLock, codeLock, regLock>>

attach(t, h) == tx[t].phase = "rust" /\ QueueAttach(t, h)

detours_transaction_attach(t, h) == tx[t].phase = "c" /\ QueueAttach(t, h)

detach_handle_index(t, hd, i) ==
    /\ pc[t] = "idle" /\ tx[t].phase = "c"
    /\ [op |-> "slot", handle |-> hd, idx |-> i] \notin Queued(t)
    /\ codeLock = None
    /\ Slot(hd, i) # None
    /\ tx' = [tx EXCEPT ![t].queue = Append(@, [op |-> "slot", handle |-> hd, idx |-> i])]
    /\ UNCHANGED <<pc, handles, kept, registry, next_seq, dying, enabled, active,
                   spent, base, taken, txLock, codeLock, regLock>>

detach(t, h) ==
    /\ pc[t] = "idle" /\ tx[t].phase = "rust"
    /\ h \in kept[t] /\ ~Borrowed(h)
    /\ tx' = [tx EXCEPT ![t].queue = Append(@, [op |-> "detach", hook |-> h])]
    /\ UNCHANGED <<pc, handles, kept, registry, next_seq, dying, enabled, active,
                   spent, base, taken, txLock, codeLock, regLock>>

ReleaseTx(t) == txLock' = IF txLock = t THEN None ELSE txLock

(* The hooks a transaction queued go with it. *)
Forget(t) == base' = [h \in Hooks |-> IF [op |-> "attach", hook |-> h] \in Queued(t)
                                         THEN None ELSE base[h]]

Abort(t) ==
    /\ pc[t] = "idle"
    /\ tx' = [tx EXCEPT ![t] = NoTx]
    /\ Forget(t) /\ ReleaseTx(t)
    /\ UNCHANGED <<pc, handles, kept, registry, next_seq, dying, enabled, active,
                   spent, taken, codeLock, regLock>>

abort(t) == tx[t].phase = "rust" /\ Abort(t)

detours_transaction_abort(t) == tx[t].phase = "c" /\ Abort(t)

commit(t) ==
    /\ pc[t] = "idle" /\ tx[t].phase # "none"
    /\ txLock \in {None, t}
    /\ txLock' = t
    /\ pc' = [pc EXCEPT ![t] = "commit_lock"]
    /\ UNCHANGED <<tx, handles, kept, registry, next_seq, dying, enabled, active,
                   spent, base, taken, codeLock, regLock>>

commit_lock(t) ==
    /\ pc[t] = "commit_lock" /\ codeLock = None
    /\ codeLock' = t
    /\ pc' = [pc EXCEPT ![t] = "commit_install"]
    /\ UNCHANGED <<tx, handles, kept, registry, next_seq, dying, enabled, active,
                   spent, base, taken, txLock, regLock>>

hook_from_detach_target(o) == IF o.op = "slot" THEN Slot(o.handle, o.idx) ELSE o.hook

Fail(t) == /\ pc' = [pc EXCEPT ![t] = "rollback_detaches"]
           /\ UNCHANGED <<tx, enabled, active>>

(* Ops are applied in the order they were queued.  A detach finds its slot *)
(* empty when another transaction detached the hook in between.            *)
commit_install(t) ==
    LET n == Len(tx[t].installed) + Len(tx[t].detached)
        o == tx[t].queue[n + 1]
        h == hook_from_detach_target(o)
    IN  /\ pc[t] = "commit_install" /\ n < Len(tx[t].queue)
        /\ \/ Fail(t)
           \/ /\ o.op = "attach"
              /\ tx' = [tx EXCEPT ![t].installed = Append(@, h)]
              /\ enabled' = [enabled EXCEPT ![h] = TRUE]
              /\ active' = [active EXCEPT ![h] = TRUE]
              /\ UNCHANGED pc
           \/ /\ o.op # "attach" /\ h # None
              /\ tx' = [tx EXCEPT ![t].detached =
                            Append(@, [target |-> o, hook |-> h, was |-> enabled[h]])]
              /\ enabled' = [enabled EXCEPT ![h] = FALSE]
              /\ UNCHANGED <<pc, active>>
        /\ UNCHANGED <<handles, kept, registry, next_seq, dying, spent, base,
                       taken, txLock, codeLock, regLock>>

Installed(t) == Range(tx[t].installed)
Detached(t) == {d.hook : d \in Range(tx[t].detached)}

(* Detached by t while it was enabled. *)
WasEnabled(t, h) == \E d \in Range(tx[t].detached) : d.hook = h /\ d.was

(* Re-enabled last to first; a hook detached while disabled stays so. *)
rollback_detaches(t) ==
    /\ pc[t] = "rollback_detaches"
    /\ enabled' = [h \in Hooks |-> enabled[h] \/ WasEnabled(t, h)]
    /\ pc' = [pc EXCEPT ![t] = "rollback"]
    /\ UNCHANGED <<tx, handles, kept, registry, next_seq, dying, active, spent,
                   base, taken, txLock, codeLock, regLock>>

(* The rollback also ends the transaction: both interfaces consume it. *)
rollback(t) ==
    /\ pc[t] = "rollback"
    /\ enabled' = [h \in Hooks |-> enabled[h] /\ h \notin Installed(t)]
    /\ active' = [h \in Hooks |-> active[h] /\ h \notin Installed(t)]
    /\ tx' = [tx EXCEPT ![t] = NoTx]
    /\ pc' = [pc EXCEPT ![t] = "idle"]
    /\ codeLock' = None
    /\ Forget(t) /\ ReleaseTx(t)
    /\ UNCHANGED <<handles, kept, registry, next_seq, dying, spent, taken, regLock>>

finalize_detaches_Removed(t, hd) ==
    SelectSeq(handles[hd].slots, LAMBDA h : h \notin Detached(t))

(* The slot is emptied rather than removed, so no other index moves. *)
finalize_detaches(t, hd) ==
    [i \in DOMAIN handles[hd].slots |->
        IF \E d \in Range(tx[t].detached) :
               d.target = [op |-> "slot", handle |-> hd, idx |-> i] THEN None
        ELSE handles[hd].slots[i]]

(* A C commit boxes its hooks as slots in the order of their attaches. *)
commit_done(t) ==
    /\ pc[t] = "commit_install"
    /\ Len(tx[t].installed) + Len(tx[t].detached) = Len(tx[t].queue)
    /\ LET finalized == [hd \in DOMAIN handles |->
                            [handles[hd] EXCEPT !.slots = finalize_detaches(t, hd)]]
       IN  \/ /\ tx[t].phase = "c"
              /\ handles' = Append(finalized, [slots |-> tx[t].installed, freed |-> FALSE])
              /\ UNCHANGED kept
           \/ /\ tx[t].phase = "rust"
              /\ handles' = finalized
              /\ kept' = [kept EXCEPT ![t] = @ \cup Installed(t)]
    /\ active' = [h \in Hooks |-> active[h] /\ h \notin Detached(t)]
    /\ spent' = spent \cup Detached(t)
    /\ tx' = [tx EXCEPT ![t] = NoTx]
    /\ pc' = [pc EXCEPT ![t] = "idle"]
    /\ codeLock' = None
    /\ ReleaseTx(t)
    /\ UNCHANGED <<registry, next_seq, dying, enabled, base, taken, regLock>>

-----------------------------------------------------------------------------
(* The slots of a handle. *)

with_handle_slot_Unlocked(hd, i) == Slot(hd, i) # None

(* The accessors run under the code lock, so a commit that detaches from   *)
(* the same handle is seen before or after, never halfway.                 *)
with_handle_slot(hd, i) == codeLock = None /\ Slot(hd, i) # None

detours_handle_set_enabled(t, hd, i, on) ==
    /\ pc[t] = "idle"
    /\ with_handle_slot(hd, i)
    /\ enabled[Slot(hd, i)] # on
    /\ enabled' = [enabled EXCEPT ![Slot(hd, i)] = on]
    /\ UNCHANGED <<tx, pc, handles, kept, registry, next_seq, dying, active, spent,
                   base, taken, txLock, codeLock, regLock>>

detours_handle_unhook_and_free(t, hd) ==
    /\ pc[t] = "idle" /\ ~Pinned(hd)
    /\ handles' = [handles EXCEPT ![hd] = [slots |-> <<>>, freed |-> TRUE]]
    /\ dying' = [dying EXCEPT ![t] = handles[hd].slots]
    /\ pc' = [pc EXCEPT ![t] = "drop"]
    /\ UNCHANGED <<tx, kept, registry, next_seq, enabled, active, spent, base,
                   taken, txLock, codeLock, regLock>>

drop_kept(t, h) ==
    /\ pc[t] = "idle" /\ h \in kept[t] /\ ~Borrowed(h)
    /\ kept' = [kept EXCEPT ![t] = @ \ {h}]
    /\ dying' = [dying EXCEPT ![t] = IF active[h] THEN <<h>> ELSE <<>>]
    /\ pc' = [pc EXCEPT ![t] = "drop"]
    /\ UNCHANGED <<tx, handles, registry, next_seq, enabled, active, spent, base,
                   taken, txLock, codeLock, regLock>>

-----------------------------------------------------------------------------
(* The registry. *)

Entry(h) == <<h, next_seq>>

Previous_Lost(n) == {}

(* The hook a registration replaces goes back to the caller. *)
Previous(n) == {registry[m][1] : m \in {k \in {n} : registry[k] # None}}

register(t, n, h) ==
    /\ pc[t] = "idle" /\ regLock = None /\ next_seq < MaxSeq
    /\ h \in kept[t] /\ ~Borrowed(h) /\ active[h]
    /\ registry' = [registry EXCEPT ![n] = Entry(h)]
    /\ next_seq' = next_seq + 1
    /\ kept' = [kept EXCEPT ![t] = (@ \ {h}) \cup Previous(n)]
    /\ UNCHANGED <<tx, pc, handles, dying, enabled, active, spent, base, taken,
                   txLock, codeLock, regLock>>

take(t, n) ==
    /\ pc[t] = "idle" /\ regLock = None /\ registry[n] # None
    /\ registry' = [registry EXCEPT ![n] = None]
    /\ kept' = [kept EXCEPT ![t] = @ \cup {registry[n][1]}]
    /\ UNCHANGED <<tx, pc, handles, next_seq, dying, enabled, active, spent, base,
                   taken, txLock, codeLock, regLock>>

(* A toggle keeps the registry locked while it waits for the code lock. *)
Toggle(t, n, on) ==
    /\ pc[t] = "idle" /\ regLock = None /\ registry[n] # None
    /\ enabled[registry[n][1]] # on
    /\ regLock' = t
    /\ pc' = [pc EXCEPT ![t] = n]
    /\ UNCHANGED <<tx, handles, kept, registry, next_seq, dying, enabled, active,
                   spent, base, taken, txLock, codeLock>>

enable(t, n) == Toggle(t, n, TRUE)
disable(t, n) == Toggle(t, n, FALSE)

toggle_write(t, n) ==
    /\ pc[t] = n /\ codeLock = None
    /\ \E written \in BOOLEAN :
          enabled' = [enabled EXCEPT ![registry[n][1]] = (@ # written)]
    /\ regLock' = None
    /\ pc' = [pc EXCEPT ![t] = "idle"]
    /\ UNCHANGED <<tx, handles, kept, registry, next_seq, dying, active, spent,
                   base, taken, txLock, codeLock>>

unhook(t, n) ==
    /\ pc[t] = "idle" /\ regLock = None /\ registry[n] # None
    /\ registry' = [registry EXCEPT ![n] = None]
    /\ dying' = [dying EXCEPT ![t] = <<registry[n][1]>>]
    /\ pc' = [pc EXCEPT ![t] = "drop"]
    /\ UNCHANGED <<tx, handles, kept, next_seq, enabled, active, spent, base, taken,
                   txLock, codeLock, regLock>>

Entries == {registry[n] : n \in Names} \ {None}

Newest_Oldest(S) == {s \in Bijection(1 .. Cardinality(S), S) :
                         \A i, j \in DOMAIN s : i < j => s[i][2] < s[j][2]}

(* The entries sorted by descending sequence number. *)
Newest(S) == {s \in Bijection(1 .. Cardinality(S), S) :
                  \A i, j \in DOMAIN s : i < j => s[i][2] > s[j][2]}

unhook_all(t) ==
    /\ pc[t] = "idle" /\ regLock = None /\ Entries # {}
    /\ registry' = [n \in Names |-> None]
    /\ \E s \in Newest(Entries) :
          dying' = [dying EXCEPT ![t] = [k \in 1 .. Cardinality(Entries) |-> s[k][1]]]
    /\ taken' = [taken EXCEPT ![t] = Entries]
    /\ pc' = [pc EXCEPT ![t] = "drop"]
    /\ UNCHANGED <<tx, handles, kept, next_seq, enabled, active, spent, base,
                   txLock, codeLock, regLock>>

(* Dropping a hook restores its target under the code lock; an emptied     *)
(* slot has nothing to drop.                                               *)
drop_hook(t) ==
    /\ pc[t] = "drop" /\ dying[t] # <<>>
    /\ LET h == Head(dying[t])
       IN  \/ h = None /\ UNCHANGED <<enabled, active, spent>>
           \/ /\ h # None /\ codeLock = None
              /\ enabled' = [enabled EXCEPT ![h] = FALSE]
              /\ active' = [active EXCEPT ![h] = FALSE]
              /\ spent' = spent \cup {h}
    /\ dying' = [dying EXCEPT ![t] = Tail(@)]
    /\ UNCHANGED <<tx, pc, handles, kept, registry, next_seq, base, taken, txLock,
                   codeLock, regLock>>

drop_end(t) ==
    /\ pc[t] = "drop" /\ dying[t] = <<>>
    /\ pc' = [pc EXCEPT ![t] = "idle"]
    /\ taken' = [taken EXCEPT ![t] = {}]
    /\ UNCHANGED <<tx, handles, kept, registry, next_seq, dying, enabled, active,
                   spent, base, txLock, codeLock, regLock>>

-----------------------------------------------------------------------------
Transaction(t) ==
    \/ begin(t) \/ detours_transaction_begin(t) \/ update_threads(t)
    \/ abort(t) \/ detours_transaction_abort(t) \/ commit(t) \/ commit_lock(t)
    \/ commit_install(t) \/ rollback_detaches(t) \/ rollback(t) \/ commit_done(t)
    \/ \E h \in Hooks : attach(t, h) \/ detours_transaction_attach(t, h) \/ detach(t, h)
    \/ \E hd \in LiveHandles, i \in Slots : detach_handle_index(t, hd, i)

Handle(t) ==
    \E hd \in LiveHandles :
        \/ detours_handle_unhook_and_free(t, hd)
        \/ \E i \in Slots, on \in BOOLEAN : detours_handle_set_enabled(t, hd, i, on)

Registry(t) ==
    \/ unhook_all(t)
    \/ \E n \in Names : \/ take(t, n) \/ enable(t, n) \/ disable(t, n)
                        \/ toggle_write(t, n) \/ unhook(t, n)
                        \/ \E h \in Hooks : register(t, n, h)

Dropping(t) == drop_hook(t) \/ drop_end(t) \/ \E h \in Hooks : drop_kept(t, h)

Next == \E t \in Threads : Transaction(t) \/ Handle(t) \/ Registry(t) \/ Dropping(t)

Spec == Init /\ [][Next]_vars

-----------------------------------------------------------------------------
TypeOK ==
    /\ tx \in [Threads ->
            [phase : {"none", "rust", "c"}, queue : Seq(Ops), installed : Seq(Hooks),
             detached : Seq(AppliedDetach)]]
    /\ pc \in [Threads -> Pcs \cup Names]
    /\ handles \in Seq([slots : Seq(Hooks \cup {None}), freed : BOOLEAN])
    /\ kept \in [Threads -> SUBSET Hooks]
    /\ registry \in [Names -> {None} \cup Hooks \X (0 .. MaxSeq)]
    /\ next_seq \in 0 .. MaxSeq
    /\ dying \in [Threads -> Seq(Hooks \cup {None})]
    /\ enabled \in [Hooks -> BOOLEAN] /\ active \in [Hooks -> BOOLEAN]
    /\ spent \subseteq Hooks
    /\ taken \in [Threads -> SUBSET (Hooks \X (0 .. MaxSeq))]
    /\ base \in [Hooks -> Hooks \cup {None}]
    /\ {txLock, codeLock, regLock} \subseteq Threads \cup {None}

(* The claims on a hook: slots, registry entries, Rust values, hooks a     *)
(* call is dropping.                                                       *)
SlotClaims(h) == UNION {{<<"slot", hd, i>> : i \in {k \in DOMAIN handles[hd].slots :
                                                     handles[hd].slots[k] = h}}
                            : hd \in DOMAIN handles}
NameClaims(h) == {<<"name", n, 0>> : n \in {m \in Names : registry[m] # None
                                                        /\ registry[m][1] = h}}
KeptClaims(h) == {<<"kept", t, 0>> : t \in {u \in Threads : h \in kept[u]}}
DyingClaims(h) == {<<"dying", t, 0>> : t \in {u \in Threads : h \in Range(dying[u])}}

Claims(h) == SlotClaims(h) \cup NameClaims(h) \cup KeptClaims(h) \cup DyingClaims(h)

Pending(h) == \E t \in Threads : h \in Installed(t)

(* A hook that is installed has exactly one owner, whatever detaches,      *)
(* takes, replacements and teardowns of several threads crossed: none is   *)
(* lost (never removable again) and none is dropped twice.                 *)
OneOwner == \A h \in Hooks : active[h] /\ ~Pending(h) => Cardinality(Claims(h)) = 1

(* A slot of a C handle names the hook it was committed with until that    *)
(* hook is detached, and the handle keeps its length, until it is freed.   *)
StableIndices ==
    [][\A hd \in LiveHandles :
          \/ handles'[hd].freed
          \/ /\ Len(handles'[hd].slots) = Len(handles[hd].slots)
             /\ \A i \in DOMAIN handles[hd].slots :
                   \/ handles'[hd].slots[i] = handles[hd].slots[i]
                   \/ /\ handles'[hd].slots[i] = None
                      /\ handles[hd].slots[i] \in spent']_vars

(* unhook_all never removes a hook under one that it took too, that is     *)
(* chained on it, was registered after it and is still installed: calls    *)
(* would bypass the chained hook, which is why registry.rs tears down the  *)
(* newest registration first.                                              *)
ChainsComeDownFromTheTop ==
    \A t \in Threads : \A a, b \in taken[t] :
        base[b[1]] = a[1] /\ b[2] > a[2] /\ active[b[1]] => active[a[1]]

(* The ledger's view: a commit in its window has not happened yet. *)
LedgerMode(h) ==
    LET On(b) == IF b THEN "on" ELSE "off"
    IN  IF Pending(h) THEN "none"
        ELSE IF h \in spent /\ ~enabled[h] THEN "gone"
        ELSE IF \E t \in Threads : h \in Detached(t)
               THEN On(\E t \in Threads : WasEnabled(t, h))
        ELSE IF active[h] \/ enabled[h] THEN On(enabled[h])
        ELSE "none"

LedgerOwner(h) ==
    LET claim == CHOOSE c \in Claims(h) : TRUE
    IN  IF Pending(h) \/ ~active[h] \/ Claims(h) = {} THEN "nobody"
        ELSE [slot |-> "handle", name |-> "registry", kept |-> "client",
              dying |-> "teardown"][claim[1]]

Ledger == INSTANCE HookLedger WITH mode <- [h \in Hooks |-> LedgerMode(h)],
                                   owner <- [h \in Hooks |-> LedgerOwner(h)]

(* Commits that install and detach, toggles, moves and teardowns of        *)
(* several threads implement the ledger: every client sees each commit     *)
(* whole or not at all, and no hook outlives its removal.                  *)
ImplementsLedger == Ledger!Spec
=============================================================================
