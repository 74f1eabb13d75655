--------------------------- MODULE Handles_proofs ---------------------------
(***************************************************************************)
(* Theorems about Handles, for any number of threads, hooks, handles and   *)
(* names: type correctness, one owner per installed hook, stable indices,  *)
(* the order in which unhook_all removes chained hooks, and that the whole *)
(* implements HookLedger.                                                  *)
(***************************************************************************)
EXTENDS Handles, FiniteSetTheorems, TLAPS

-----------------------------------------------------------------------------
(***************************************************************************)
(* The inductive invariant                                                 *)
(***************************************************************************)

Attaching(h) == [op |-> "attach", hook |-> h]

\* How many of its operations a commit has applied.
Done(t) == Len(tx[t].installed) + Len(tx[t].detached)

\* A commit in its window has the code lock, a toggle the registry's.
LockOK == \A t \in Threads : /\ pc[t] \in WindowPcs <=> codeLock = t
                             /\ pc[t] \in Names <=> regLock = t

\* A transaction has applied operations only in its window.
PhaseOK ==
    \A t \in Threads :
        /\ pc[t] \notin WindowPcs => tx[t].installed = <<>> /\ tx[t].detached = <<>>
        /\ pc[t] \in WindowPcs \cup {"commit_lock"} => tx[t].phase # "none"
        /\ tx[t].phase = "none" => tx[t].queue = <<>>

\* No operation is queued twice, no hook is attached twice.
QueueOK ==
    /\ \A t \in Threads : \A j, k \in DOMAIN tx[t].queue :
          tx[t].queue[j] = tx[t].queue[k] => j = k
    /\ \A t, u \in Threads, h \in Hooks :
          Attaching(h) \in Queued(t) /\ Attaching(h) \in Queued(u) => t = u

\* A hook that waits to be installed belongs to nobody.
WaitingOf(t) ==
    \A k \in DOMAIN tx[t].queue : \A h \in Hooks :
        tx[t].queue[k] = Attaching(h) =>
            /\ h \notin spent /\ Claims(h) = {}
            /\ Done(t) < k => ~active[h]
            /\ k <= Done(t) => h \in Installed(t)
WaitingOK == \A t \in Threads : WaitingOf(t)

\* Nor does one whose commit is still under way.
InstalledOf(t) ==
    /\ \A h \in Installed(t) : Attaching(h) \in Queued(t) /\ active[h] /\ enabled[h]
    /\ \A j, k \in DOMAIN tx[t].installed : tx[t].installed[j] = tx[t].installed[k] => j = k
InstalledOK == \A t \in Threads : InstalledOf(t)

\* The operations a detach was queued for are still valid.
TargetsOK ==
    \A t \in Threads : \A o \in Queued(t) :
        /\ o.op = "slot" => o.handle \in DOMAIN handles /\ ~handles[o.handle].freed
        /\ o.op = "detach" => o.hook \in kept[t]

\* A detach that was applied has disabled its hook, which still has its owner.
DetachedOf(t) ==
    /\ \A d \in Range(tx[t].detached) :
          /\ d.target.op # "attach"
          /\ \E k \in 1 .. Done(t) : k \in DOMAIN tx[t].queue /\ tx[t].queue[k] = d.target
          /\ d.target.op = "slot" =>
                <<"slot", d.target.handle, d.target.idx>> \in Claims(d.hook)
          /\ d.target.op = "detach" =>
                d.target.hook = d.hook /\ <<"kept", t, 0>> \in Claims(d.hook)
          /\ d.was => active[d.hook]
          /\ enabled[d.hook] <=> pc[t] = "rollback" /\ d.was
    /\ \A j, k \in DOMAIN tx[t].detached :
          tx[t].detached[j].hook = tx[t].detached[k].hook => j = k
DetachedOK == \A t \in Threads : DetachedOf(t)

ModesOK == \A h \in Hooks : /\ enabled[h] => active[h]
                            /\ active[h] => h \notin spent

\* At most one claim on a hook; only a Rust value may outlast its hook.
ClaimsOK ==
    \A h \in Hooks :
        /\ \A c, d \in Claims(h) : c = d
        /\ \A c \in Claims(h) : active[h] \/ (h \in spent /\ c[1] = "kept")
        /\ active[h] => Claims(h) # {} \/ Pending(h)

HandlesOK == \A hd \in DOMAIN handles : handles[hd].freed => handles[hd].slots = <<>>

ToggleOK == \A t \in Threads : pc[t] \in Names => registry[pc[t]] # None

DyingOK ==
    \A t \in Threads :
        /\ pc[t] # "drop" => dying[t] = <<>> /\ taken[t] = {}
        /\ \A j, k \in DOMAIN dying[t] :
              dying[t][j] = dying[t][k] /\ dying[t][j] # None => j = k

\* What unhook_all took is removed in the order of the registrations.
TakenOK ==
    \A t \in Threads : \A a \in taken[t] :
        /\ a[1] \in spent \/ a[1] \in Range(dying[t])
        /\ \A b \in taken[t], j \in DOMAIN dying[t] :
              b[2] > a[2] /\ dying[t][j] = b[1] =>
                  \E k \in DOMAIN dying[t] : k > j /\ dying[t][k] = a[1]

HInv ==
    /\ TypeOK /\ LockOK /\ PhaseOK /\ QueueOK /\ WaitingOK /\ InstalledOK /\ TargetsOK
    /\ DetachedOK /\ ModesOK /\ ClaimsOK /\ HandlesOK /\ ToggleOK /\ DyingOK /\ TakenOK

-----------------------------------------------------------------------------
(***************************************************************************)
(* Facts about the helpers                                                 *)
(***************************************************************************)

Step(t) == Transaction(t) \/ Handle(t) \/ Registry(t) \/ Dropping(t)

LEMMA Constants ==
    /\ None \notin Threads /\ None \notin Hooks /\ None \notin Hooks \X Nat
    /\ Pcs \cap Names = {} /\ MaxSeq \in Nat
    /\ WindowPcs \subseteq Pcs /\ {"idle", "drop", "commit_lock"} \subseteq Pcs
  BY HandlesAssumption DEF Pcs

\* Who claims a hook.
LEMMA ClaimCases ==
    ASSUME NEW h, NEW c
    PROVE  c \in Claims(h) <=>
             \/ \E hd \in DOMAIN handles : \E i \in DOMAIN handles[hd].slots :
                    handles[hd].slots[i] = h /\ c = <<"slot", hd, i>>
             \/ \E n \in Names : registry[n] # None /\ registry[n][1] = h /\ c = <<"name", n, 0>>
             \/ \E t \in Threads : h \in kept[t] /\ c = <<"kept", t, 0>>
             \/ \E t \in Threads : h \in Range(dying[t]) /\ c = <<"dying", t, 0>>
  <1>1. Claims(h) = SlotClaims(h) \cup NameClaims(h) \cup KeptClaims(h)
                                \cup DyingClaims(h)
    BY DEF Claims
  <1>2. c \in SlotClaims(h) <=>
          \E hd \in DOMAIN handles : \E i \in DOMAIN handles[hd].slots :
              handles[hd].slots[i] = h /\ c = <<"slot", hd, i>>
    BY DEF SlotClaims
  <1>3. c \in NameClaims(h) <=>
          \E n \in Names : registry[n] # None /\ registry[n][1] = h /\ c = <<"name", n, 0>>
    BY DEF NameClaims
  <1>4. c \in KeptClaims(h) <=> \E t \in Threads : h \in kept[t] /\ c = <<"kept", t, 0>>
    BY DEF KeptClaims
  <1>5. c \in DyingClaims(h) <=> \E t \in Threads : h \in Range(dying[t]) /\ c = <<"dying", t, 0>>
    BY DEF DyingClaims
  <1> QED
    BY <1>1, <1>2, <1>3, <1>4, <1>5

LEMMA ClaimCasesNext ==
    ASSUME NEW h, NEW c
    PROVE  c \in Claims(h)' <=>
             \/ \E hd \in DOMAIN handles' : \E i \in DOMAIN handles'[hd].slots :
                    handles'[hd].slots[i] = h /\ c = <<"slot", hd, i>>
             \/ \E n \in Names :
                    registry'[n] # None /\ registry'[n][1] = h /\ c = <<"name", n, 0>>
             \/ \E t \in Threads : h \in kept'[t] /\ c = <<"kept", t, 0>>
             \/ \E t \in Threads : h \in Range(dying'[t]) /\ c = <<"dying", t, 0>>
  <1>1. Claims(h)' = SlotClaims(h)' \cup NameClaims(h)' \cup KeptClaims(h)'
                                \cup DyingClaims(h)'
    BY DEF Claims
  <1>2. c \in SlotClaims(h)' <=>
          \E hd \in DOMAIN handles' : \E i \in DOMAIN handles'[hd].slots :
              handles'[hd].slots[i] = h /\ c = <<"slot", hd, i>>
    BY DEF SlotClaims
  <1>3. c \in NameClaims(h)' <=>
          \E n \in Names : registry'[n] # None /\ registry'[n][1] = h /\ c = <<"name", n, 0>>
    BY DEF NameClaims
  <1>4. c \in KeptClaims(h)' <=> \E t \in Threads : h \in kept'[t] /\ c = <<"kept", t, 0>>
    BY DEF KeptClaims
  <1>5. c \in DyingClaims(h)' <=> \E t \in Threads : h \in Range(dying'[t]) /\ c = <<"dying", t, 0>>
    BY DEF DyingClaims
  <1> QED
    BY <1>1, <1>2, <1>3, <1>4, <1>5

LEMMA ClaimsKept ==
    ASSUME UNCHANGED <<handles, registry, kept, dying>>, NEW h
    PROVE  Claims(h)' = Claims(h)
  BY DEF Claims, SlotClaims, NameClaims, KeptClaims, DyingClaims

LEMMA RangeOfSeq ==
    ASSUME NEW S, NEW s \in Seq(S)
    PROVE  /\ Range(s) \subseteq S
           /\ \A x : x \in Range(s) <=> \E k \in 1 .. Len(s) : s[k] = x
           /\ DOMAIN s = 1 .. Len(s) /\ Len(s) \in Nat
           /\ \A k \in DOMAIN s : s[k] \in S /\ s[k] \in Range(s)
  BY DEF Range

LEMMA EmptySeq == Len(<<>>) + Len(<<>>) = 0 /\ Range(<<>>) = {}
  <1>1. Len(<<>>) = 0
    OBVIOUS
  <1>2. Range(<<>>) = {}
    BY DEF Range
  <1> QED
    BY <1>1, <1>2

LEMMA RangeOfAppend ==
    ASSUME NEW S, NEW s \in Seq(S), NEW x \in S
    PROVE  /\ Append(s, x) \in Seq(S)
           /\ Len(Append(s, x)) = Len(s) + 1
           /\ DOMAIN Append(s, x) = 1 .. Len(s) + 1
           /\ \A k \in 1 .. Len(s) : Append(s, x)[k] = s[k]
           /\ Append(s, x)[Len(s) + 1] = x
           /\ Range(Append(s, x)) = Range(s) \cup {x}
  <1>1. /\ Append(s, x) \in Seq(S)
        /\ Len(Append(s, x)) = Len(s) + 1
        /\ DOMAIN Append(s, x) = 1 .. Len(s) + 1
        /\ \A k \in 1 .. Len(s) : Append(s, x)[k] = s[k]
        /\ Append(s, x)[Len(s) + 1] = x
    OBVIOUS
  <1>2. Range(Append(s, x)) = Range(s) \cup {x}
    BY <1>1 DEF Range
  <1> QED
    BY <1>1, <1>2

LEMMA HandleType ==
    ASSUME TypeOK, NEW hd \in DOMAIN handles
    PROVE  /\ handles[hd] \in [slots : Seq(Hooks \cup {None}), freed : BOOLEAN]
           /\ handles[hd].slots \in Seq(Hooks \cup {None})
           /\ hd \in Nat /\ DOMAIN handles = 1 .. Len(handles) /\ Len(handles) \in Nat
  <1> DEFINE R == [slots : Seq(Hooks \cup {None}), freed : BOOLEAN]
  <1>1. handles \in Seq(R)
    BY DEF TypeOK
  <1>2. /\ handles[hd] \in R /\ hd \in Nat
        /\ DOMAIN handles = 1 .. Len(handles) /\ Len(handles) \in Nat
    <2> HIDE DEF R
    <2> QED
      BY <1>1
  <1> QED
    BY <1>2

\* The hook an operation is about.
LEMMA OpHook ==
    ASSUME TypeOK
    PROVE  /\ \A hd \in DOMAIN handles : \A i : Slot(hd, i) # None => Slot(hd, i) \in Hooks
           /\ \A o \in Ops : o.op # "slot" => o.hook \in Hooks /\ o \in [op : {"attach", "detach"}, hook : Hooks]
           /\ \A o \in Ops : o.op = "slot" => o \in [op : {"slot"}, handle : Nat, idx : Slots]
  <1>1. ASSUME NEW hd \in DOMAIN handles, NEW i, Slot(hd, i) # None
        PROVE  Slot(hd, i) \in Hooks
    <2>1. handles[hd].slots \in Seq(Hooks \cup {None})
      BY HandleType
    <2> QED
      BY <1>1, <2>1 DEF Slot
  <1>2. \A o \in Ops : o.op # "slot" => o.hook \in Hooks /\ o \in [op : {"attach", "detach"}, hook : Hooks]
    BY DEF Ops
  <1>3. \A o \in Ops : o.op = "slot" => o \in [op : {"slot"}, handle : Nat, idx : Slots]
    BY DEF Ops
  <1> QED
    BY <1>1, <1>2, <1>3

TxRecord == [phase : {"none", "rust", "c"}, queue : Seq(Ops), installed : Seq(Hooks),
             detached : Seq(AppliedDetach)]

\* What a transaction is made of.
LEMMA TxParts ==
    ASSUME TypeOK, NEW t \in Threads
    PROVE  /\ tx[t] \in TxRecord
           /\ tx[t].phase \in {"none", "rust", "c"} /\ tx[t].queue \in Seq(Ops)
           /\ tx[t].installed \in Seq(Hooks) /\ tx[t].detached \in Seq(AppliedDetach)
           /\ Len(tx[t].queue) \in Nat /\ Done(t) \in Nat
  <1>1. /\ tx[t] \in TxRecord
        /\ tx[t].phase \in {"none", "rust", "c"} /\ tx[t].queue \in Seq(Ops)
        /\ tx[t].installed \in Seq(Hooks) /\ tx[t].detached \in Seq(AppliedDetach)
    BY DEF TypeOK, TxRecord
  <1>2. ASSUME NEW q \in Seq(Ops), NEW i \in Seq(Hooks), NEW d \in Seq(AppliedDetach)
        PROVE  Len(q) \in Nat /\ Len(i) + Len(d) \in Nat
    OBVIOUS
  <1> QED
    BY <1>1, <1>2 DEF Done

LEMMA NoTxType == NoTx \in TxRecord
  BY DEF NoTx, TxRecord

\* The three ways in which a transaction grows.
LEMMA TxQueued ==
    ASSUME TypeOK, NEW t \in Threads, NEW o \in Ops,
           tx' = [tx EXCEPT ![t].queue = Append(@, o)]
    PROVE  /\ tx' \in [Threads -> TxRecord]
           /\ tx'[t] = [tx[t] EXCEPT !.queue = Append(tx[t].queue, o)]
           /\ \A u \in Threads \ {t} : tx'[u] = tx[u]
  <1>1. tx \in [Threads -> TxRecord]
    BY DEF TypeOK, TxRecord
  <1>2. Append(tx[t].queue, o) \in Seq(Ops)
    BY TxParts, RangeOfAppend
  <1>3. tx' = [tx EXCEPT ![t] = [tx[t] EXCEPT !.queue = Append(tx[t].queue, o)]]
    BY <1>1
  <1>4. [tx[t] EXCEPT !.queue = Append(tx[t].queue, o)] \in TxRecord
    BY <1>1, <1>2 DEF TxRecord
  <1> QED
    BY <1>1, <1>3, <1>4

LEMMA TxInstalled ==
    ASSUME TypeOK, NEW t \in Threads, NEW h \in Hooks,
           tx' = [tx EXCEPT ![t].installed = Append(@, h)]
    PROVE  /\ tx' \in [Threads -> TxRecord]
           /\ tx'[t] = [tx[t] EXCEPT !.installed = Append(tx[t].installed, h)]
           /\ \A u \in Threads \ {t} : tx'[u] = tx[u]
  <1>1. tx \in [Threads -> TxRecord]
    BY DEF TypeOK, TxRecord
  <1>2. Append(tx[t].installed, h) \in Seq(Hooks)
    BY TxParts, RangeOfAppend
  <1>3. tx' = [tx EXCEPT ![t] = [tx[t] EXCEPT !.installed = Append(tx[t].installed, h)]]
    BY <1>1
  <1>4. [tx[t] EXCEPT !.installed = Append(tx[t].installed, h)] \in TxRecord
    BY <1>1, <1>2 DEF TxRecord
  <1> QED
    BY <1>1, <1>3, <1>4

LEMMA TxDetached ==
    ASSUME TypeOK, NEW t \in Threads, NEW d \in AppliedDetach,
           tx' = [tx EXCEPT ![t].detached = Append(@, d)]
    PROVE  /\ tx' \in [Threads -> TxRecord]
           /\ tx'[t] = [tx[t] EXCEPT !.detached = Append(tx[t].detached, d)]
           /\ \A u \in Threads \ {t} : tx'[u] = tx[u]
  <1>1. tx \in [Threads -> TxRecord]
    BY DEF TypeOK, TxRecord
  <1>2. Append(tx[t].detached, d) \in Seq(AppliedDetach)
    BY TxParts, RangeOfAppend
  <1>3. tx' = [tx EXCEPT ![t] = [tx[t] EXCEPT !.detached = Append(tx[t].detached, d)]]
    BY <1>1
  <1>4. [tx[t] EXCEPT !.detached = Append(tx[t].detached, d)] \in TxRecord
    BY <1>1, <1>2 DEF TxRecord
  <1> QED
    BY <1>1, <1>3, <1>4

\* The next operation of a commit.
LEMMA NextOp ==
    ASSUME HInv, NEW t \in Threads, pc[t] = "commit_install", Done(t) < Len(tx[t].queue)
    PROVE  LET o == tx[t].queue[Done(t) + 1]
           IN  /\ Done(t) \in Nat /\ Done(t) + 1 \in DOMAIN tx[t].queue
               /\ o \in Queued(t) /\ o \in Ops
               /\ o.op = "attach" => o = Attaching(o.hook) /\ o.hook \in Hooks
                                       /\ hook_from_detach_target(o) = o.hook
               /\ hook_from_detach_target(o) # None => hook_from_detach_target(o) \in Hooks
               /\ o.op = "detach" => o.hook \in Hooks /\ hook_from_detach_target(o) = o.hook
                                       /\ o.hook \in kept[t]
               /\ o.op = "slot" =>
                    /\ o = [op |-> "slot", handle |-> o.handle, idx |-> o.idx]
                    /\ o.handle \in DOMAIN handles
                    /\ hook_from_detach_target(o) = Slot(o.handle, o.idx)
               /\ o.op \in {"attach", "detach", "slot"}
  <1> DEFINE o == tx[t].queue[Done(t) + 1]
  <1>1. /\ tx[t].queue \in Seq(Ops) /\ tx[t].installed \in Seq(Hooks)
        /\ tx[t].detached \in Seq(AppliedDetach)
    BY TxParts DEF HInv
  <1>2. Done(t) \in Nat /\ Done(t) + 1 \in 1 .. Len(tx[t].queue)
    BY TxParts DEF HInv
  <1>3. o \in Ops /\ o \in Queued(t) /\ Done(t) + 1 \in DOMAIN tx[t].queue
    BY <1>1, <1>2, RangeOfSeq DEF Queued
  <1>4. /\ o.op = "detach" => o.hook \in kept[t]
        /\ o.op = "slot" => o.handle \in DOMAIN handles
    <2> HIDE DEF o
    <2> QED
      BY <1>3 DEF HInv, TargetsOK
  <1>5. /\ o.op # "slot" => o.hook \in Hooks /\ o = [op |-> o.op, hook |-> o.hook]
        /\ o.op = "slot" => o = [op |-> "slot", handle |-> o.handle, idx |-> o.idx]
        /\ o.op \in {"attach", "detach", "slot"}
    BY <1>3 DEF Ops
  <1>6. o.op = "slot" /\ Slot(o.handle, o.idx) # None => Slot(o.handle, o.idx) \in Hooks
    BY <1>4, OpHook DEF HInv
  <1> HIDE DEF o
  <1>7. /\ o.op = "slot" => hook_from_detach_target(o) = Slot(o.handle, o.idx)
        /\ o.op # "slot" => hook_from_detach_target(o) = o.hook
    BY DEF hook_from_detach_target
  <1> QED
    BY <1>2, <1>3, <1>4, <1>5, <1>6, <1>7 DEF o, Attaching

-----------------------------------------------------------------------------
(***************************************************************************)
(* Type correctness                                                        *)
(***************************************************************************)

LEMMA TransactionTypes ==
    ASSUME HInv, NEW t \in Threads, Transaction(t)
    PROVE  TypeOK'
  <1> USE DEF TypeOK
  <1>0. TypeOK /\ NoTx \in TxRecord /\ tx \in [Threads -> TxRecord]
    BY NoTxType DEF HInv, TxRecord
  <1>1. CASE begin(t) \/ detours_transaction_begin(t)
    <2>1. PICK i \in {"rust", "c"} : Begin(t, i)
      BY <1>1 DEF begin, detours_transaction_begin
    <2>2. tx' \in [Threads -> TxRecord]
      BY <1>0, <2>1 DEF Begin, TxRecord
    <2> QED
      BY <1>0, <2>1, <2>2 DEF Begin, TxRecord
  <1>2. CASE update_threads(t)
    BY <1>0, <1>2 DEF update_threads
  <1>3. CASE abort(t) \/ detours_transaction_abort(t)
    <2>1. Abort(t)
      BY <1>3 DEF abort, detours_transaction_abort
    <2>2. tx' \in [Threads -> TxRecord]
      BY <1>0, <2>1 DEF Abort
    <2>3. base' \in [Hooks -> Hooks \cup {None}] /\ txLock' \in Threads \cup {None}
      BY <1>0, <2>1 DEF Abort, Forget, ReleaseTx
    <2> QED
      BY <1>0, <2>1, <2>2, <2>3 DEF Abort, TxRecord
  <1>4. CASE commit(t)
    BY <1>0, <1>4, Constants DEF commit
  <1>5. CASE commit_lock(t)
    BY <1>0, <1>5, Constants DEF commit_lock, WindowPcs
  <1>6. CASE commit_install(t)
    <2> DEFINE o == tx[t].queue[Done(t) + 1]
               h == hook_from_detach_target(o)
    <2>1. /\ pc[t] = "commit_install" /\ Done(t) < Len(tx[t].queue)
          /\ UNCHANGED <<handles, kept, registry, next_seq, dying, spent, base,
                         taken, txLock, codeLock, regLock>>
          /\ \/ Fail(t)
             \/ /\ o.op = "attach"
                /\ tx' = [tx EXCEPT ![t].installed = Append(@, h)]
                /\ enabled' = [enabled EXCEPT ![h] = TRUE]
                /\ active' = [active EXCEPT ![h] = TRUE]
                /\ UNCHANGED pc
             \/ /\ o.op # "attach" /\ h # None
                /\ tx' = [tx EXCEPT ![t].detached =
                              Append(@, [target |-> o, hook |-> h, was |-> enabled[h]])]
                /\ enabled' = [enabled EXCEPT ![h] = FALSE]
                /\ UNCHANGED <<pc, active>>
      BY <1>6 DEF commit_install, Done
    <2>2. /\ o \in Ops
          /\ h # None => h \in Hooks
          /\ o.op = "attach" => h \in Hooks
      BY <2>1, NextOp
    <2> HIDE DEF o, h
    <2>3. CASE Fail(t)
      BY <1>0, <2>1, <2>3, Constants DEF Fail, WindowPcs
    <2>4. CASE /\ o.op = "attach"
               /\ tx' = [tx EXCEPT ![t].installed = Append(@, h)]
               /\ enabled' = [enabled EXCEPT ![h] = TRUE]
               /\ active' = [active EXCEPT ![h] = TRUE]
               /\ UNCHANGED pc
      <3>1. tx' \in [Threads -> TxRecord]
        BY <1>0, <2>2, <2>4, TxInstalled
      <3> QED
        BY <1>0, <2>1, <2>2, <2>4, <3>1 DEF TxRecord
    <2>5. CASE /\ o.op # "attach" /\ h # None
               /\ tx' = [tx EXCEPT ![t].detached =
                             Append(@, [target |-> o, hook |-> h, was |-> enabled[h]])]
               /\ enabled' = [enabled EXCEPT ![h] = FALSE]
               /\ UNCHANGED <<pc, active>>
      <3>1. [target |-> o, hook |-> h, was |-> enabled[h]] \in AppliedDetach
        <4>1. enabled[h] \in BOOLEAN
          BY <1>0, <2>2, <2>5
        <4> QED
          BY <2>2, <2>5, <4>1 DEF AppliedDetach
      <3>2. tx' \in [Threads -> TxRecord]
        BY <1>0, <2>5, <3>1, TxDetached
      <3> QED
        BY <1>0, <2>1, <2>2, <2>5, <3>2 DEF TxRecord
    <2> QED
      BY <2>1, <2>3, <2>4, <2>5
  <1>7. CASE rollback_detaches(t)
    <2>1. enabled' \in [Hooks -> BOOLEAN]
      BY <1>0, <1>7 DEF rollback_detaches, WasEnabled
    <2> QED
      BY <1>0, <1>7, <2>1, Constants DEF rollback_detaches, WindowPcs
  <1>8. CASE rollback(t)
    <2>1. tx' \in [Threads -> TxRecord]
      BY <1>0, <1>8 DEF rollback
    <2>2. base' \in [Hooks -> Hooks \cup {None}] /\ txLock' \in Threads \cup {None}
      BY <1>0, <1>8 DEF rollback, Forget, ReleaseTx
    <2>3. enabled' \in [Hooks -> BOOLEAN] /\ active' \in [Hooks -> BOOLEAN]
      BY <1>0, <1>8 DEF rollback
    <2> QED
      BY <1>0, <1>8, <2>1, <2>2, <2>3, Constants DEF rollback, TxRecord
  <1>9. CASE commit_done(t)
    <2> DEFINE R == [slots : Seq(Hooks \cup {None}), freed : BOOLEAN]
               F == [hd \in DOMAIN handles |->
                        [handles[hd] EXCEPT !.slots = finalize_detaches(t, hd)]]
    <2>1. tx' \in [Threads -> TxRecord]
      BY <1>0, <1>9 DEF commit_done
    <2>2. F \in Seq(R)
      <3>1. ASSUME NEW hd \in DOMAIN handles
            PROVE  F[hd] \in R
        <4>1. handles[hd] \in R /\ handles[hd].slots \in Seq(Hooks \cup {None})
          BY <1>0, HandleType
        <4>2. finalize_detaches(t, hd) \in Seq(Hooks \cup {None})
          <5> DEFINE s == handles[hd].slots
          <5>1. DOMAIN s = 1 .. Len(s) /\ Len(s) \in Nat /\ \A i \in DOMAIN s : s[i] \in Hooks \cup {None}
            BY <4>1, RangeOfSeq
          <5>2. /\ finalize_detaches(t, hd) = [i \in 1 .. Len(s) |-> finalize_detaches(t, hd)[i]]
                /\ \A i \in 1 .. Len(s) : finalize_detaches(t, hd)[i] \in Hooks \cup {None}
            BY <5>1 DEF finalize_detaches
          <5> HIDE DEF s
          <5> QED
            BY <5>1, <5>2
        <4> QED
          BY <4>1, <4>2
      <3>2. handles \in Seq(R)
        BY <1>0
      <3>3. DOMAIN handles = 1 .. Len(handles) /\ Len(handles) \in Nat
        BY <3>2
      <3> HIDE DEF R
      <3>4. F = [hd \in 1 .. Len(handles) |-> F[hd]]
        BY <3>3
      <3> HIDE DEF F
      <3> QED
        BY <3>1, <3>3, <3>4
    <2>3. \/ handles' = Append(F, [slots |-> tx[t].installed, freed |-> FALSE])
          \/ handles' = F
      BY <1>9 DEF commit_done
    <2>4. [slots |-> tx[t].installed, freed |-> FALSE] \in R
      <3>1. tx[t].installed \in Seq(Hooks)
        BY <1>0, TxParts
      <3>2. tx[t].installed \in Seq(Hooks \cup {None})
        BY <3>1
      <3> QED
        BY <3>2
    <2>5. handles' \in Seq(R)
      <3> HIDE DEF R, F
      <3> QED
        BY <2>2, <2>3, <2>4
    <2>6. kept' \in [Threads -> SUBSET Hooks] /\ spent' \subseteq Hooks
      <3>1. Installed(t) \subseteq Hooks
        BY <1>0, TxParts, RangeOfSeq DEF Installed
      <3>2. Detached(t) \subseteq Hooks
        <4>1. Range(tx[t].detached) \subseteq AppliedDetach
          BY <1>0, TxParts, RangeOfSeq
        <4> QED
          BY <4>1 DEF Detached, AppliedDetach
      <3> QED
        BY <1>0, <1>9, <3>1, <3>2 DEF commit_done
    <2>7. active' \in [Hooks -> BOOLEAN] /\ txLock' \in Threads \cup {None}
      BY <1>0, <1>9 DEF commit_done, ReleaseTx
    <2>8. /\ pc' \in [Threads -> Pcs \cup Names] /\ codeLock' = None
          /\ UNCHANGED <<registry, next_seq, dying, enabled, base, taken, regLock>>
      BY <1>0, <1>9, Constants DEF commit_done
    <2> QED
      BY <1>0, <2>1, <2>5, <2>6, <2>7, <2>8 DEF TxRecord
  <1>10. ASSUME NEW h \in Hooks, attach(t, h) \/ detours_transaction_attach(t, h)
         PROVE  TypeOK'
    <2>1. QueueAttach(t, h)
      BY <1>10 DEF attach, detours_transaction_attach
    <2>2. [op |-> "attach", hook |-> h] \in Ops
      BY DEF Ops
    <2>3. tx' \in [Threads -> TxRecord]
      BY <1>0, <2>1, <2>2, TxQueued DEF QueueAttach
    <2>4. base' \in [Hooks -> Hooks \cup {None}]
      BY <1>0, <2>1 DEF QueueAttach, Top
    <2> QED
      BY <1>0, <2>1, <2>3, <2>4 DEF QueueAttach, TxRecord
  <1>11. ASSUME NEW h \in Hooks, detach(t, h)
         PROVE  TypeOK'
    <2>1. [op |-> "detach", hook |-> h] \in Ops
      BY DEF Ops
    <2>2. tx' \in [Threads -> TxRecord]
      BY <1>0, <1>11, <2>1, TxQueued DEF detach
    <2> QED
      BY <1>0, <1>11, <2>2 DEF detach, TxRecord
  <1>12. ASSUME NEW hd \in LiveHandles, NEW i \in Slots, detach_handle_index(t, hd, i)
         PROVE  TypeOK'
    <2>1. [op |-> "slot", handle |-> hd, idx |-> i] \in Ops
      <3>1. hd \in Nat
        BY <1>0, HandleType DEF LiveHandles
      <3> QED
        BY <3>1 DEF Ops
    <2>2. tx' \in [Threads -> TxRecord]
      BY <1>0, <1>12, <2>1, TxQueued DEF detach_handle_index
    <2> QED
      BY <1>0, <1>12, <2>2 DEF detach_handle_index, TxRecord
  <1> QED
    BY <1>1, <1>2, <1>3, <1>4, <1>5, <1>6, <1>7, <1>8, <1>9, <1>10, <1>11, <1>12 DEF Transaction

\* The hook and the number of an entry.
LEMMA EntryType ==
    ASSUME TypeOK, NEW n \in Names, registry[n] # None
    PROVE  /\ registry[n] \in Hooks \X (0 .. MaxSeq)
           /\ registry[n][1] \in Hooks /\ registry[n][2] \in 0 .. MaxSeq
  <1>1. registry[n] \in Hooks \X (0 .. MaxSeq)
    BY DEF TypeOK
  <1> QED
    BY <1>1

\* The order in which unhook_all drops the entries.
LEMMA NewestOrder ==
    ASSUME TypeOK, NEW s \in Newest(Entries)
    PROVE  /\ IsFiniteSet(Entries) /\ Cardinality(Entries) \in Nat
           /\ Entries \subseteq Hooks \X (0 .. MaxSeq)
           /\ DOMAIN s = 1 .. Cardinality(Entries)
           /\ \A k \in 1 .. Cardinality(Entries) :
                 s[k] \in Entries /\ s[k][1] \in Hooks /\ s[k][2] \in Nat
           /\ \A e \in Entries : \E k \in 1 .. Cardinality(Entries) : s[k] = e
           /\ \A j, k \in 1 .. Cardinality(Entries) : j < k => s[j][2] > s[k][2]
  <1>1. IsFiniteSet({registry[n] : n \in Names})
    <2> DEFINE T == {registry[n] : n \in Names}
    <2>1. registry \in Surjection(Names, T)
      BY DEF TypeOK, Surjection
    <2> QED
      BY <2>1, HandlesAssumption, FS_Surjection
  <1>2. IsFiniteSet(Entries)
    BY <1>1, FS_Subset DEF Entries
  <1>3. Cardinality(Entries) \in Nat
    BY <1>2, FS_CardinalityType
  <1>4. Entries \subseteq Hooks \X (0 .. MaxSeq)
    BY EntryType DEF Entries
  <1>5. /\ s \in [1 .. Cardinality(Entries) -> Entries]
        /\ \A e \in Entries : \E k \in 1 .. Cardinality(Entries) : s[k] = e
    BY DEF Newest, Bijection, Surjection
  <1>6. \A j, k \in 1 .. Cardinality(Entries) : j < k => s[j][2] > s[k][2]
    BY <1>5 DEF Newest
  <1> QED
    BY <1>2, <1>3, <1>4, <1>5, <1>6, Constants

LEMMA CallTypes ==
    ASSUME HInv, NEW t \in Threads, Handle(t) \/ Registry(t) \/ Dropping(t)
    PROVE  TypeOK'
  <1> USE DEF TypeOK
  <1>0. TypeOK
    BY DEF HInv
  <1> DEFINE R == [slots : Seq(Hooks \cup {None}), freed : BOOLEAN]
  <1>1. ASSUME NEW hd \in LiveHandles, detours_handle_unhook_and_free(t, hd)
        PROVE  TypeOK'
    <2>1. hd \in DOMAIN handles /\ handles[hd].slots \in Seq(Hooks \cup {None})
      BY <1>0, HandleType DEF LiveHandles
    <2>2. dying' \in [Threads -> Seq(Hooks \cup {None})]
      BY <1>0, <1>1, <2>1 DEF detours_handle_unhook_and_free
    <2>3. handles' \in Seq(R)
      <3>1. [slots |-> <<>>, freed |-> TRUE] \in R
        OBVIOUS
      <3>2. handles \in Seq(R)
        BY <1>0
      <3> HIDE DEF R
      <3> QED
        BY <1>1, <2>1, <3>1, <3>2 DEF detours_handle_unhook_and_free
    <2> QED
      BY <1>0, <1>1, <2>2, <2>3, Constants DEF detours_handle_unhook_and_free
  <1>2. ASSUME NEW hd \in LiveHandles, NEW i \in Slots, NEW on \in BOOLEAN,
               detours_handle_set_enabled(t, hd, i, on)
        PROVE  TypeOK'
    BY <1>0, <1>2 DEF detours_handle_set_enabled
  <1>3. CASE unhook_all(t)
    <2>1. PICK s \in Newest(Entries) :
             dying' = [dying EXCEPT ![t] = [k \in 1 .. Cardinality(Entries) |-> s[k][1]]]
      BY <1>3 DEF unhook_all
    <2>2. [k \in 1 .. Cardinality(Entries) |-> s[k][1]] \in Seq(Hooks \cup {None})
      <3>1. /\ Cardinality(Entries) \in Nat
            /\ \A k \in 1 .. Cardinality(Entries) : s[k][1] \in Hooks \cup {None}
        BY <1>0, NewestOrder
      <3> QED
        BY <3>1
    <2>3. dying' \in [Threads -> Seq(Hooks \cup {None})]
      BY <1>0, <2>1, <2>2
    <2>4. taken' \in [Threads -> SUBSET (Hooks \X (0 .. MaxSeq))]
      BY <1>0, <1>3, NewestOrder DEF unhook_all
    <2> QED
      BY <1>0, <1>3, <2>3, <2>4, Constants DEF unhook_all
  <1>4. ASSUME NEW n \in Names, take(t, n)
        PROVE  TypeOK'
    BY <1>0, <1>4, EntryType DEF take
  <1>5. ASSUME NEW n \in Names, enable(t, n) \/ disable(t, n)
        PROVE  TypeOK'
    <2>1. /\ pc' = [pc EXCEPT ![t] = n] /\ regLock' = t
          /\ UNCHANGED <<tx, handles, kept, registry, next_seq, dying, enabled, active,
                         spent, base, taken, txLock, codeLock>>
      BY <1>5 DEF enable, disable, Toggle
    <2>2. pc' \in [Threads -> Pcs \cup Names]
      BY <1>0, <2>1
    <2> QED
      BY <1>0, <2>1, <2>2
  <1>6. ASSUME NEW n \in Names, toggle_write(t, n)
        PROVE  TypeOK'
    <2>1. enabled' \in [Hooks -> BOOLEAN]
      BY <1>0, <1>6 DEF toggle_write
    <2> QED
      BY <1>0, <1>6, <2>1, Constants DEF toggle_write
  <1>7. ASSUME NEW n \in Names, unhook(t, n)
        PROVE  TypeOK'
    <2>1. <<registry[n][1]>> \in Seq(Hooks \cup {None})
      BY <1>0, <1>7, EntryType DEF unhook
    <2>2. dying' \in [Threads -> Seq(Hooks \cup {None})]
      BY <1>0, <1>7, <2>1 DEF unhook
    <2> QED
      BY <1>0, <1>7, <2>2, Constants DEF unhook
  <1>8. ASSUME NEW n \in Names, NEW h \in Hooks, register(t, n, h)
        PROVE  TypeOK'
    <2>1. <<h, next_seq>> \in Hooks \X (0 .. MaxSeq) /\ next_seq' \in 0 .. MaxSeq
      BY <1>0, <1>8, Constants DEF register
    <2>2. registry' \in [Names -> {None} \cup Hooks \X (0 .. MaxSeq)]
      BY <1>0, <1>8, <2>1 DEF register, Entry
    <2>3. kept' \in [Threads -> SUBSET Hooks]
      BY <1>0, <1>8, EntryType DEF register, Previous
    <2> QED
      BY <1>0, <1>8, <2>1, <2>2, <2>3 DEF register
  <1>9. CASE drop_hook(t)
    <2>1. dying[t] \in Seq(Hooks \cup {None}) /\ dying[t] # <<>>
      BY <1>0, <1>9 DEF drop_hook
    <2>2. Head(dying[t]) \in Hooks \cup {None} /\ Tail(dying[t]) \in Seq(Hooks \cup {None})
      BY <2>1
    <2>3. dying' \in [Threads -> Seq(Hooks \cup {None})]
      BY <1>0, <1>9, <2>2 DEF drop_hook
    <2>4. /\ enabled' \in [Hooks -> BOOLEAN] /\ active' \in [Hooks -> BOOLEAN]
          /\ spent' \subseteq Hooks
      BY <1>0, <1>9, <2>2 DEF drop_hook
    <2> QED
      BY <1>0, <1>9, <2>3, <2>4 DEF drop_hook
  <1>10. CASE drop_end(t)
    BY <1>0, <1>10, Constants DEF drop_end
  <1>11. ASSUME NEW h \in Hooks, drop_kept(t, h)
         PROVE  TypeOK'
    <2>1. <<>> \in Seq(Hooks \cup {None}) /\ <<h>> \in Seq(Hooks \cup {None})
      OBVIOUS
    <2>2. dying' \in [Threads -> Seq(Hooks \cup {None})]
      BY <1>0, <1>11, <2>1 DEF drop_kept
    <2> QED
      BY <1>0, <1>11, <2>2, Constants DEF drop_kept
  <1> QED
    BY <1>1, <1>2, <1>3, <1>4, <1>5, <1>6, <1>7, <1>8, <1>9, <1>10, <1>11
       DEF Handle, Registry, Dropping

LEMMA StepTypes ==
    ASSUME HInv, NEW t \in Threads, Step(t)
    PROVE  TypeOK'
  BY TransactionTypes, CallTypes DEF Step

-----------------------------------------------------------------------------
(***************************************************************************)
(* What leaves the operations and the hooks alone                          *)
(***************************************************************************)

Core == /\ QueueOK /\ WaitingOK /\ InstalledOK /\ TargetsOK /\ DetachedOK
        /\ ModesOK /\ ClaimsOK /\ HandlesOK

SameOps == \A u \in Threads : /\ tx'[u].queue = tx[u].queue
                              /\ tx'[u].installed = tx[u].installed
                              /\ tx'[u].detached = tx[u].detached

LEMMA OpsKept ==
    ASSUME SameOps
    PROVE  /\ \A u \in Threads : /\ Queued(u)' = Queued(u) /\ Done(u)' = Done(u)
                                 /\ Installed(u)' = Installed(u) /\ Detached(u)' = Detached(u)
           /\ \A h : Pending(h)' <=> Pending(h)
  <1>1. \A u \in Threads : /\ Queued(u)' = Queued(u) /\ Done(u)' = Done(u)
                           /\ Installed(u)' = Installed(u) /\ Detached(u)' = Detached(u)
    BY DEF SameOps, Queued, Done, Installed, Detached
  <1>2. \A h : Pending(h)' <=> Pending(h)
    BY <1>1 DEF Pending
  <1> QED
    BY <1>1, <1>2

\* Steps of calls that change neither operations nor hooks nor owners.
LEMMA CallStep ==
    ASSUME HInv, SameOps, \A u \in Threads : pc'[u] = "rollback" <=> pc[u] = "rollback",
           UNCHANGED <<handles, kept, registry, dying, enabled, active, spent>>
    PROVE  Core'
  <1>1. \A h : Claims(h)' = Claims(h)
    BY ClaimsKept
  <1>2. Core
    BY DEF HInv, Core
  <1>3. QueueOK'
    BY <1>2, OpsKept DEF Core, QueueOK, SameOps
  <1>4. WaitingOK'
    BY <1>1, <1>2, OpsKept DEF Core, WaitingOK, WaitingOf, SameOps
  <1>5. InstalledOK'
    BY <1>2, OpsKept DEF Core, InstalledOK, InstalledOf, SameOps
  <1>6. TargetsOK'
    BY <1>2, OpsKept DEF Core, TargetsOK
  <1>7. DetachedOK'
    BY <1>1, <1>2, OpsKept DEF Core, DetachedOK, DetachedOf, SameOps
  <1>8. ModesOK' /\ HandlesOK'
    BY <1>2 DEF Core, ModesOK, HandlesOK
  <1>9. ClaimsOK'
    BY <1>1, <1>2, OpsKept DEF Core, ClaimsOK
  <1> QED
    BY <1>3, <1>4, <1>5, <1>6, <1>7, <1>8, <1>9 DEF Core

\* A hook whose owner may hand it on.
Movable(h) == \E b : Claims(h) = {b} /\ b[1] # "dying"

LEMMA MovableKinds ==
    ASSUME NEW h, NEW k \in {"slot", "name", "kept"}, NEW x, NEW y, Claims(h) = {<<k, x, y>>}
    PROVE  Movable(h)
  <1>1. <<k, x, y>>[1] # "dying"
    OBVIOUS
  <1> QED
    BY <1>1 DEF Movable

\* Owners hand hooks on that nobody is detaching, or let go of spent ones.
Moved ==
    \A h \in Hooks :
        \/ Claims(h)' = Claims(h)
        \/ /\ \A u \in Threads : h \notin Detached(u)
           /\ \/ /\ active[h] /\ \E c : Claims(h)' = {c}
                 /\ Movable(h)
              \/ h \in spent /\ Claims(h)' = {}

LEMMA MoveStep ==
    ASSUME HInv, UNCHANGED <<tx, enabled, active, spent>>,
           \A u \in Threads : pc'[u] = "rollback" <=> pc[u] = "rollback",
           TargetsOK', HandlesOK', Moved
    PROVE  Core'
  <1>0. \A h \in Hooks :
           \/ Claims(h)' = Claims(h)
           \/ /\ \A u \in Threads : h \notin Detached(u)
              /\ \/ active[h] /\ Claims(h) # {} /\ \E c : Claims(h)' = {c}
                 \/ h \in spent /\ Claims(h)' = {}
    BY DEF Moved, Movable
  <1>1. SameOps
    BY DEF SameOps
  <1>2. Core
    BY DEF HInv, Core
  <1>3. QueueOK' /\ ModesOK'
    BY <1>1, <1>2, OpsKept DEF Core, QueueOK, SameOps, ModesOK
  <1>4. WaitingOK'
    BY <1>0, <1>1, <1>2, OpsKept DEF Core, WaitingOK, WaitingOf, SameOps
  <1>5. InstalledOK'
    BY <1>1, <1>2, OpsKept DEF Core, InstalledOK, InstalledOf, SameOps
  <1>6. DetachedOK'
    <2>1. \A u \in Threads : \A d \in Range(tx[u].detached) :
             d.hook \in Hooks /\ Claims(d.hook)' = Claims(d.hook)
      <3>1. ASSUME NEW u \in Threads, NEW d \in Range(tx[u].detached)
            PROVE  d.hook \in Hooks /\ d.hook \in Detached(u)
        <4>1. d \in AppliedDetach
          BY TxParts, RangeOfSeq DEF HInv
        <4> QED
          BY <4>1 DEF AppliedDetach, Detached
      <3>2. ASSUME NEW u \in Threads, NEW d \in Range(tx[u].detached)
            PROVE  d.hook \in Hooks /\ Claims(d.hook)' = Claims(d.hook)
        BY <1>0, <3>1
      <3> QED
        BY <3>2
    <2> QED
      BY <1>1, <1>2, <2>1, OpsKept DEF Core, DetachedOK, DetachedOf
  <1>7. ClaimsOK'
    <2>1. ASSUME NEW h \in Hooks
          PROVE  /\ \A c, d \in Claims(h)' : c = d
                 /\ \A c \in Claims(h)' : active[h] \/ (h \in spent /\ c[1] = "kept")
                 /\ active[h] => Claims(h)' # {} \/ Pending(h)
      BY <1>0, <1>2 DEF Core, ClaimsOK, ModesOK
    <2> QED
      BY <1>1, <2>1, OpsKept DEF ClaimsOK
  <1> QED
    BY <1>3, <1>4, <1>5, <1>6, <1>7 DEF Core

LEMMA BeginOps ==
    ASSUME HInv, NEW t \in Threads,
           begin(t) \/ detours_transaction_begin(t) \/ update_threads(t)
    PROVE  /\ SameOps
           /\ UNCHANGED <<pc, handles, kept, registry, next_seq, dying, enabled, active, spent,
                          taken, codeLock, regLock>>
  <1>1. \/ UNCHANGED tx
        \/ \E i \in {"rust", "c"} : tx' = [tx EXCEPT ![t].phase = i]
    BY DEF begin, detours_transaction_begin, Begin, update_threads
  <1>2. tx \in [Threads -> TxRecord]
    BY DEF HInv, TypeOK, TxRecord
  <1>3. ASSUME NEW r \in TxRecord, NEW i
        PROVE  LET e == [r EXCEPT !.phase = i]
               IN  e.queue = r.queue /\ e.installed = r.installed /\ e.detached = r.detached
    BY DEF TxRecord
  <1>4. \A u \in Threads : tx'[u] = tx[u] \/ \E i : tx'[u] = [tx[u] EXCEPT !.phase = i]
    BY <1>1, <1>2
  <1>5. SameOps
    <2>1. ASSUME NEW u \in Threads
          PROVE  /\ tx'[u].queue = tx[u].queue /\ tx'[u].installed = tx[u].installed
                 /\ tx'[u].detached = tx[u].detached
      <3>1. tx[u] \in TxRecord
        BY <1>2
      <3>2. CASE tx'[u] = tx[u]
        BY <3>2
      <3>3. ASSUME NEW i, tx'[u] = [tx[u] EXCEPT !.phase = i]
            PROVE  /\ tx'[u].queue = tx[u].queue /\ tx'[u].installed = tx[u].installed
                   /\ tx'[u].detached = tx[u].detached
        BY <1>3, <3>1, <3>3
      <3> QED
        BY <1>4, <3>2, <3>3
    <2> QED
      BY <2>1 DEF SameOps
  <1> QED
    BY <1>5 DEF begin, detours_transaction_begin, Begin, update_threads

LEMMA BeginStep ==
    ASSUME HInv, TypeOK', NEW t \in Threads,
           begin(t) \/ detours_transaction_begin(t) \/ update_threads(t)
    PROVE  HInv'
  <1>1. /\ SameOps
        /\ UNCHANGED <<pc, handles, kept, registry, next_seq, dying, enabled, active, spent,
                       taken, codeLock, regLock>>
    BY BeginOps
  <1>2. Core'
    BY <1>1, CallStep
  <1>3. /\ pc[t] = "idle"
        /\ \A u \in Threads : tx'[u] = tx[u] \/ (u = t /\ tx'[u].phase # "none")
    BY DEF begin, detours_transaction_begin, Begin, update_threads, HInv, TypeOK
  <1>4. PhaseOK'
    BY <1>1, <1>3 DEF HInv, PhaseOK, SameOps, WindowPcs
  <1>5. LockOK' /\ ToggleOK' /\ DyingOK' /\ TakenOK'
    BY <1>1 DEF HInv, LockOK, ToggleOK, DyingOK, TakenOK
  <1> QED
    BY <1>2, <1>4, <1>5 DEF HInv, Core

LEMMA LockStep ==
    ASSUME HInv, TypeOK', NEW t \in Threads, commit(t) \/ commit_lock(t)
    PROVE  HInv'
  <1>1. /\ UNCHANGED <<tx, handles, kept, registry, next_seq, dying, enabled, active, spent,
                       taken, regLock>>
        /\ \A u \in Threads \ {t} : pc'[u] = pc[u]
        /\ \/ pc[t] = "idle" /\ pc'[t] = "commit_lock" /\ UNCHANGED codeLock /\ tx[t].phase # "none"
           \/ /\ pc[t] = "commit_lock" /\ pc'[t] = "commit_install"
              /\ codeLock = None /\ codeLock' = t
    BY DEF commit, commit_lock, HInv, TypeOK
  <1>2. Core'
    BY <1>1, CallStep DEF SameOps
  <1>3. "commit_lock" \notin Names /\ "commit_install" \notin Names /\ "idle" \notin Names
    BY Constants DEF WindowPcs
  <1>4. LockOK'
    BY <1>1, <1>3, Constants DEF HInv, LockOK, WindowPcs
  <1>5. PhaseOK'
    BY <1>1 DEF HInv, PhaseOK, WindowPcs
  <1>6. ToggleOK'
    BY <1>1, <1>3 DEF HInv, ToggleOK
  <1>7. DyingOK' /\ TakenOK'
    BY <1>1 DEF HInv, DyingOK, TakenOK
  <1> QED
    BY <1>2, <1>4, <1>5, <1>6, <1>7 DEF HInv, Core

LEMMA ToggleStep ==
    ASSUME HInv, TypeOK', NEW t \in Threads, NEW n \in Names, NEW on \in BOOLEAN, Toggle(t, n, on)
    PROVE  HInv'
  <1>1. /\ UNCHANGED <<tx, handles, kept, registry, next_seq, dying, enabled, active, spent,
                       taken, codeLock>>
        /\ pc[t] = "idle" /\ regLock = None /\ regLock' = t /\ registry[n] # None
        /\ pc'[t] = n /\ \A u \in Threads \ {t} : pc'[u] = pc[u]
    BY DEF Toggle, HInv, TypeOK
  <1>2. n \notin WindowPcs \cup {"commit_lock", "idle", "drop"} /\ "idle" \notin Names
    BY Constants
  <1>3. Core'
    BY <1>1, <1>2, CallStep DEF SameOps, WindowPcs
  <1>4. LockOK'
    BY <1>1, <1>2, Constants DEF HInv, LockOK, WindowPcs
  <1>5. PhaseOK'
    BY <1>1, <1>2 DEF HInv, PhaseOK, WindowPcs
  <1>6. ToggleOK'
    BY <1>1 DEF HInv, ToggleOK
  <1>7. DyingOK' /\ TakenOK'
    BY <1>1, <1>2 DEF HInv, DyingOK, TakenOK
  <1> QED
    BY <1>3, <1>4, <1>5, <1>6, <1>7 DEF HInv, Core

LEMMA DropEndStep ==
    ASSUME HInv, TypeOK', NEW t \in Threads, drop_end(t)
    PROVE  HInv'
  <1>1. /\ UNCHANGED <<tx, handles, kept, registry, next_seq, dying, enabled, active, spent,
                       codeLock, regLock>>
        /\ pc[t] = "drop" /\ pc'[t] = "idle" /\ \A u \in Threads \ {t} : pc'[u] = pc[u]
        /\ dying[t] = <<>>
        /\ taken'[t] = {} /\ \A u \in Threads \ {t} : taken'[u] = taken[u]
    BY DEF drop_end, HInv, TypeOK
  <1>2. "idle" \notin Names /\ "drop" \notin Names
    BY Constants
  <1>3. Core'
    BY <1>1, CallStep DEF SameOps
  <1>4. LockOK'
    BY <1>1, <1>2, Constants DEF HInv, LockOK, WindowPcs
  <1>5. PhaseOK'
    BY <1>1 DEF HInv, PhaseOK, WindowPcs
  <1>6. ToggleOK'
    BY <1>1, <1>2 DEF HInv, ToggleOK
  <1>7. DyingOK' /\ TakenOK'
    BY <1>1 DEF HInv, DyingOK, TakenOK
  <1> QED
    BY <1>3, <1>4, <1>5, <1>6, <1>7 DEF HInv, Core

LEMMA FailStep ==
    ASSUME HInv, TypeOK', NEW t \in Threads, commit_install(t), Fail(t)
    PROVE  HInv'
  <1>1. /\ UNCHANGED <<tx, handles, kept, registry, next_seq, dying, enabled, active, spent,
                       taken, codeLock, regLock>>
        /\ pc[t] = "commit_install" /\ pc'[t] = "rollback_detaches"
        /\ \A u \in Threads \ {t} : pc'[u] = pc[u]
    BY DEF commit_install, Fail, HInv, TypeOK
  <1>2. "commit_install" \notin Names /\ "rollback_detaches" \notin Names
    BY Constants DEF WindowPcs
  <1>3. Core'
    BY <1>1, CallStep DEF SameOps
  <1>4. LockOK'
    BY <1>1, <1>2, Constants DEF HInv, LockOK, WindowPcs
  <1>5. PhaseOK'
    BY <1>1 DEF HInv, PhaseOK, WindowPcs
  <1>6. ToggleOK'
    BY <1>1, <1>2 DEF HInv, ToggleOK
  <1>7. DyingOK' /\ TakenOK'
    BY <1>1 DEF HInv, DyingOK, TakenOK
  <1> QED
    BY <1>3, <1>4, <1>5, <1>6, <1>7 DEF HInv, Core

-----------------------------------------------------------------------------
(***************************************************************************)
(* Queueing and dropping operations                                        *)
(***************************************************************************)

LEMMA QueueStep ==
    ASSUME HInv, TypeOK', NEW t \in Threads, NEW o \in Ops,
           pc[t] = "idle", tx[t].phase # "none", o \notin Queued(t),
           tx' = [tx EXCEPT ![t].queue = Append(@, o)],
           UNCHANGED <<pc, handles, kept, registry, dying, enabled, active, spent, taken,
                       codeLock, regLock>>,
           \A h \in Hooks : o = Attaching(h) =>
               ~active[h] /\ h \notin spent /\ \A u \in Threads : o \notin Queued(u),
           o.op = "slot" => o.handle \in DOMAIN handles /\ ~handles[o.handle].freed,
           o.op = "detach" => o.hook \in kept[t]
    PROVE  HInv'
  <1> DEFINE q == tx[t].queue
             n == Len(q) + 1
  <1>1. /\ q \in Seq(Ops) /\ Len(q) \in Nat
        /\ tx[t].installed = <<>> /\ tx[t].detached = <<>>
        /\ \A u \in Threads : pc[u] # "idle" => u # t
    BY TxParts, TxParts DEF HInv, PhaseOK, WindowPcs
  <1>2. /\ \A u \in Threads \ {t} : tx'[u] = tx[u]
        /\ tx'[t].phase = tx[t].phase
        /\ tx'[t].installed = <<>> /\ tx'[t].detached = <<>> /\ tx'[t].queue = Append(q, o)
    <2>1. tx[t] \in TxRecord /\ TypeOK
      BY TxParts DEF HInv
    <2>2. tx'[t] = [tx[t] EXCEPT !.queue = Append(q, o)] /\ \A u \in Threads \ {t} : tx'[u] = tx[u]
      BY <2>1, TxQueued
    <2>3. /\ tx'[t].phase = tx[t].phase /\ tx'[t].installed = tx[t].installed
          /\ tx'[t].detached = tx[t].detached /\ tx'[t].queue = Append(q, o)
      BY <2>1, <2>2 DEF TxRecord
    <2> QED
      BY <1>1, <2>2, <2>3
  <1>3. /\ DOMAIN q = 1 .. Len(q) /\ DOMAIN tx'[t].queue = 1 .. n
        /\ \A k \in 1 .. Len(q) : tx'[t].queue[k] = q[k]
        /\ tx'[t].queue[n] = o
        /\ Queued(t)' = Queued(t) \cup {o}
        /\ \A u \in Threads \ {t} : Queued(u)' = Queued(u)
    BY <1>1, <1>2, RangeOfAppend, RangeOfSeq DEF Queued
  <1>4. /\ Done(t) = 0 /\ Done(t)' = 0 /\ Installed(t) = {} /\ Installed(t)' = {}
        /\ \A u \in Threads \ {t} : Done(u)' = Done(u) /\ Installed(u)' = Installed(u)
        /\ Range(tx[t].detached) = {} /\ Range(tx'[t].detached) = {}
    <2>1. Len(<<>>) + Len(<<>>) = 0 /\ Range(<<>>) = {}
      BY EmptySeq
    <2>2. Done(t) = 0 /\ Done(t)' = 0 /\ Installed(t) = {} /\ Installed(t)' = {}
      <3>1. /\ Done(t) = Len(<<>>) + Len(<<>>) /\ Done(t)' = Len(<<>>) + Len(<<>>)
            /\ Installed(t) = Range(<<>>) /\ Installed(t)' = Range(<<>>)
        BY <1>1, <1>2, Zenon DEF Done, Installed
      <3> QED
        BY <2>1, <3>1
    <2>3. \A u \in Threads \ {t} : Done(u)' = Done(u) /\ Installed(u)' = Installed(u)
      BY <1>2 DEF Done, Installed
    <2> QED
      BY <1>1, <1>2, <2>1, <2>2, <2>3
  <1>5. \A h : (Pending(h)' <=> Pending(h)) /\ Claims(h)' = Claims(h)
    <2>1. \A u \in Threads : Installed(u)' = Installed(u)
      BY <1>4
    <2> QED
      BY <2>1, ClaimsKept DEF Pending
  <1> HIDE DEF q
  <1>6. \A j, k \in 1 .. n : (j = n \/ j \in 1 .. Len(q)) /\ (k = n \/ k \in 1 .. Len(q))
    BY <1>1
  <1>7. \A k \in 1 .. Len(q) : q[k] \in Queued(t) /\ q[k] # o
    BY <1>1, <1>3 DEF Queued, Range, q
  <1>8. QueueOK'
    <2>1. \A u \in Threads : \A j, k \in DOMAIN tx'[u].queue :
             tx'[u].queue[j] = tx'[u].queue[k] => j = k
      <3>1. \A j, k \in 1 .. n : tx'[t].queue[j] = tx'[t].queue[k] => j = k
        <4>1. \A j, k \in 1 .. Len(q) : q[j] = q[k] => j = k
          BY <1>3 DEF HInv, QueueOK, q
        <4> QED
          BY <1>3, <1>6, <1>7, <4>1
      <3> QED
        BY <1>2, <1>3, <3>1 DEF HInv, QueueOK
    <2>2. \A u, v \in Threads, h \in Hooks :
             Attaching(h) \in Queued(u)' /\ Attaching(h) \in Queued(v)' => u = v
      BY <1>3 DEF HInv, QueueOK
    <2> QED
      BY <2>1, <2>2 DEF QueueOK, Attaching
  <1>9. WaitingOK'
    <2>1. ASSUME NEW u \in Threads, NEW k \in DOMAIN tx'[u].queue, NEW h \in Hooks,
                 tx'[u].queue[k] = Attaching(h)
          PROVE  /\ h \notin spent' /\ Claims(h)' = {}
                 /\ Done(u)' < k => ~active'[h]
                 /\ k <= Done(u)' => h \in Installed(u)'
      <3>1. CASE u # t
        BY <1>2, <1>4, <1>5, <2>1, <3>1 DEF HInv, WaitingOK, WaitingOf
      <3>2. CASE u = t /\ k \in 1 .. Len(q)
        BY <1>3, <1>4, <1>5, <2>1, <3>2 DEF HInv, WaitingOK, WaitingOf, q
      <3>3. CASE u = t /\ k = n
        <4>1. ~active[h] /\ h \notin spent /\ Claims(h) = {}
          BY <1>3, <2>1, <3>3 DEF HInv, ClaimsOK
        <4> QED
          BY <1>1, <1>4, <1>5, <3>3, <4>1
      <3> QED
        BY <1>3, <1>6, <3>1, <3>2, <3>3
    <2> QED
      BY <2>1 DEF WaitingOK, WaitingOf, Attaching
  <1>10. InstalledOK'
    <2>1. ASSUME NEW u \in Threads
          PROVE  /\ \A h \in Installed(u)' : Attaching(h) \in Queued(u)' /\ active'[h] /\ enabled'[h]
                 /\ \A j, k \in DOMAIN tx'[u].installed :
                       tx'[u].installed[j] = tx'[u].installed[k] => j = k
      <3>1. CASE u = t
        BY <1>2, <1>4, <3>1
      <3>2. CASE u # t
        BY <1>2, <1>3, <1>4, <3>2 DEF HInv, InstalledOK, InstalledOf
      <3> QED
        BY <3>1, <3>2
    <2> QED
      BY <2>1 DEF InstalledOK, InstalledOf, Attaching
  <1>11. TargetsOK'
    BY <1>3 DEF HInv, TargetsOK
  <1>12. DetachedOK'
    <2>1. ASSUME NEW u \in Threads \ {t}
          PROVE  tx'[u].detached = tx[u].detached /\ tx'[u].queue = tx[u].queue /\ Done(u)' = Done(u)
      BY <1>2, <1>4
    <2>2. Range(tx'[t].detached) = {} /\ DOMAIN tx'[t].detached = {}
      BY <1>2, <1>4
    <2> QED
      BY <1>5, <2>1, <2>2 DEF HInv, DetachedOK, DetachedOf
  <1>13. ModesOK' /\ HandlesOK' /\ ClaimsOK'
    BY <1>5 DEF HInv, ModesOK, HandlesOK, ClaimsOK
  <1>14. LockOK' /\ ToggleOK' /\ DyingOK' /\ TakenOK'
    BY DEF HInv, LockOK, ToggleOK, DyingOK, TakenOK
  <1>15. PhaseOK'
    BY <1>2 DEF HInv, PhaseOK
  <1> QED
    BY <1>8, <1>9, <1>10, <1>11, <1>12, <1>13, <1>14, <1>15 DEF HInv

LEMMA AttachStep ==
    ASSUME HInv, TypeOK', NEW t \in Threads, NEW h \in Hooks, tx[t].phase # "none",
           QueueAttach(t, h)
    PROVE  HInv'
  <1> DEFINE o == Attaching(h)
  <1>1. o \in Ops /\ o.op = "attach" /\ \A g : o = Attaching(g) => g = h
    BY DEF Ops, Attaching
  <1> QED
    BY <1>1, QueueStep DEF QueueAttach, Attaching

LEMMA DetachStep ==
    ASSUME HInv, TypeOK', NEW t \in Threads, NEW h \in Hooks, detach(t, h)
    PROVE  HInv'
  <1> DEFINE o == [op |-> "detach", hook |-> h]
  <1>1. o \in Ops /\ o.op = "detach" /\ o.hook = h /\ \A g : o # Attaching(g)
    BY DEF Ops, Attaching
  <1>2. o \notin Queued(t)
    BY DEF detach, Borrowed
  <1>3. /\ pc[t] = "idle" /\ tx[t].phase # "none" /\ h \in kept[t]
        /\ tx' = [tx EXCEPT ![t].queue = Append(@, o)]
        /\ UNCHANGED <<pc, handles, kept, registry, dying, enabled, active, spent, taken,
                       codeLock, regLock>>
    BY DEF detach
  <1> HIDE DEF o
  <1> QED
    BY <1>1, <1>2, <1>3, QueueStep

LEMMA DetachIndexStep ==
    ASSUME HInv, TypeOK', NEW t \in Threads, NEW hd \in LiveHandles, NEW i \in Slots,
           detach_handle_index(t, hd, i)
    PROVE  HInv'
  <1> DEFINE o == [op |-> "slot", handle |-> hd, idx |-> i]
  <1>1. hd \in DOMAIN handles /\ ~handles[hd].freed /\ hd \in Nat
    BY HandleType DEF LiveHandles, HInv
  <1>2. o \in Ops /\ o.op = "slot" /\ o.handle = hd /\ \A g : o # Attaching(g)
    BY <1>1 DEF Ops, Attaching
  <1>3. /\ pc[t] = "idle" /\ tx[t].phase # "none" /\ o \notin Queued(t)
        /\ tx' = [tx EXCEPT ![t].queue = Append(@, o)]
        /\ UNCHANGED <<pc, handles, kept, registry, dying, enabled, active, spent, taken,
                       codeLock, regLock>>
    BY DEF detach_handle_index
  <1> HIDE DEF o
  <1> QED
    BY <1>1, <1>2, <1>3, QueueStep

\* A transaction ends.
LEMMA TxEnds ==
    ASSUME HInv, NEW t \in Threads, tx' = [tx EXCEPT ![t] = NoTx]
    PROVE  /\ tx'[t] = NoTx /\ tx'[t].phase = "none"
           /\ tx'[t].queue = <<>> /\ tx'[t].installed = <<>> /\ tx'[t].detached = <<>>
           /\ Queued(t)' = {} /\ Installed(t)' = {} /\ Range(tx'[t].detached) = {}
           /\ DOMAIN tx'[t].queue = {} /\ DOMAIN tx'[t].installed = {}
           /\ DOMAIN tx'[t].detached = {}
           /\ \A u \in Threads \ {t} :
                 /\ tx'[u] = tx[u] /\ Queued(u)' = Queued(u) /\ Done(u)' = Done(u)
                 /\ Installed(u)' = Installed(u)
           /\ QueueOK'
  <1>1. /\ tx'[t] = NoTx /\ tx'[t].phase = "none"
        /\ tx'[t].queue = <<>> /\ tx'[t].installed = <<>> /\ tx'[t].detached = <<>>
        /\ \A u \in Threads \ {t} : tx'[u] = tx[u]
    BY DEF NoTx, HInv, TypeOK
  <1>2. Range(<<>>) = {} /\ DOMAIN <<>> = {}
    BY EmptySeq
  <1>3. /\ Queued(t)' = {} /\ Installed(t)' = {} /\ Range(tx'[t].detached) = {}
        /\ DOMAIN tx'[t].queue = {} /\ DOMAIN tx'[t].installed = {}
        /\ DOMAIN tx'[t].detached = {}
    BY <1>1, <1>2 DEF Queued, Installed
  <1>4. \A u \in Threads \ {t} : /\ Queued(u)' = Queued(u) /\ Done(u)' = Done(u)
                                 /\ Installed(u)' = Installed(u)
    BY <1>1 DEF Queued, Done, Installed
  <1>5. QueueOK'
    BY <1>1, <1>3, <1>4 DEF HInv, QueueOK
  <1> QED
    BY <1>1, <1>3, <1>4, <1>5

LEMMA AbortStep ==
    ASSUME HInv, TypeOK', NEW t \in Threads, Abort(t)
    PROVE  HInv'
  <1>1. /\ pc[t] = "idle" /\ tx' = [tx EXCEPT ![t] = NoTx]
        /\ UNCHANGED <<pc, handles, kept, registry, dying, enabled, active, spent, taken,
                       codeLock, regLock>>
    BY DEF Abort
  <1>2. tx[t].installed = <<>> /\ tx[t].detached = <<>> /\ Installed(t) = {}
    BY <1>1, EmptySeq DEF HInv, PhaseOK, WindowPcs, Installed
  <1>3. \A h : (Pending(h)' <=> Pending(h)) /\ Claims(h)' = Claims(h)
    <2>1. \A u \in Threads : Installed(u)' = Installed(u)
      BY <1>1, <1>2, TxEnds
    <2> QED
      BY <1>1, <2>1, ClaimsKept DEF Pending
  <1> DEFINE Rest == Threads \ {t}
  <1>0. /\ \A u \in Rest : /\ tx'[u] = tx[u] /\ Queued(u)' = Queued(u) /\ Done(u)' = Done(u)
                           /\ Installed(u)' = Installed(u)
        /\ DOMAIN tx'[t].queue = {} /\ DOMAIN tx'[t].installed = {} /\ DOMAIN tx'[t].detached = {}
        /\ Queued(t)' = {} /\ Installed(t)' = {} /\ Range(tx'[t].detached) = {}
    BY <1>1, TxEnds
  <1>4. WaitingOK'
    <2>1. WaitingOf(t)'
      BY <1>0 DEF WaitingOf
    <2>2. \A u \in Rest : WaitingOf(u)'
      BY <1>0, <1>1, <1>3 DEF HInv, WaitingOK, WaitingOf
    <2> QED
      BY <2>1, <2>2 DEF WaitingOK
  <1>5. InstalledOK'
    <2>1. InstalledOf(t)'
      BY <1>0 DEF InstalledOf
    <2>2. \A u \in Rest : InstalledOf(u)'
      BY <1>0, <1>1 DEF HInv, InstalledOK, InstalledOf
    <2> QED
      BY <2>1, <2>2 DEF InstalledOK
  <1>6. TargetsOK'
    BY <1>1, TxEnds DEF HInv, TargetsOK
  <1>7. DetachedOK'
    <2>1. DetachedOf(t)'
      BY <1>0 DEF DetachedOf
    <2>2. \A u \in Rest : DetachedOf(u)'
      BY <1>0, <1>1, <1>3 DEF HInv, DetachedOK, DetachedOf
    <2> QED
      BY <2>1, <2>2 DEF DetachedOK
  <1>8. ModesOK' /\ HandlesOK' /\ ClaimsOK'
    BY <1>1, <1>3 DEF HInv, ModesOK, HandlesOK, ClaimsOK
  <1>9. LockOK' /\ ToggleOK' /\ DyingOK' /\ TakenOK'
    BY <1>1 DEF HInv, LockOK, ToggleOK, DyingOK, TakenOK
  <1>10. PhaseOK'
    BY <1>1, TxEnds DEF HInv, PhaseOK, WindowPcs
  <1>11. QueueOK'
    BY <1>1, TxEnds
  <1> QED
    BY <1>4, <1>5, <1>6, <1>7, <1>8, <1>9, <1>10, <1>11 DEF HInv

-----------------------------------------------------------------------------
(***************************************************************************)
(* The window of a commit                                                  *)
(***************************************************************************)

\* One commit at a time is in its window.
LEMMA Alone ==
    ASSUME HInv, NEW t \in Threads, pc[t] \in WindowPcs
    PROVE  \A u \in Threads \ {t} :
              /\ pc[u] \notin WindowPcs /\ tx[u].installed = <<>> /\ tx[u].detached = <<>>
              /\ Installed(u) = {} /\ Range(tx[u].detached) = {} /\ Done(u) = 0
              /\ DOMAIN tx[u].installed = {} /\ DOMAIN tx[u].detached = {}
  <1>1. \A u \in Threads \ {t} :
           pc[u] \notin WindowPcs /\ tx[u].installed = <<>> /\ tx[u].detached = <<>>
    BY DEF HInv, LockOK, PhaseOK
  <1>2. \A u \in Threads \ {t} : /\ Installed(u) = Range(<<>>) /\ Range(tx[u].detached) = Range(<<>>)
                                 /\ Done(u) = Len(<<>>) + Len(<<>>)
    BY <1>1, Zenon DEF Installed, Done
  <1> QED
    BY <1>1, <1>2, EmptySeq

\* Without one nothing is half done.
LEMMA NoWindow ==
    ASSUME HInv, codeLock = None
    PROVE  \A u \in Threads :
              /\ pc[u] \notin WindowPcs /\ tx[u].installed = <<>> /\ tx[u].detached = <<>>
              /\ Installed(u) = {} /\ Range(tx[u].detached) = {} /\ Detached(u) = {}
  <1>1. \A u \in Threads :
           pc[u] \notin WindowPcs /\ tx[u].installed = <<>> /\ tx[u].detached = <<>>
    BY Constants DEF HInv, LockOK, PhaseOK
  <1>2. \A u \in Threads : Installed(u) = Range(<<>>) /\ Range(tx[u].detached) = Range(<<>>)
    BY <1>1, Zenon DEF Installed
  <1> QED
    BY <1>1, <1>2, EmptySeq DEF Detached

\* What a commit has installed so far has no owner; what it has detached has.
LEMMA InWindow ==
    ASSUME HInv, NEW t \in Threads
    PROVE  /\ \A h \in Installed(t) : /\ h \in Hooks /\ Claims(h) = {} /\ h \notin spent
                                      /\ active[h] /\ enabled[h]
           /\ \A d \in Range(tx[t].detached) : /\ d \in AppliedDetach /\ d.hook \in Hooks
                                               /\ d.target \in Ops /\ Claims(d.hook) # {}
                                               /\ d.was \in BOOLEAN
           /\ \A h \in Detached(t) : h \in Hooks /\ Claims(h) # {} /\ h \notin Installed(t)
  <1>1. Installed(t) \subseteq Hooks /\ Range(tx[t].detached) \subseteq AppliedDetach
    BY TxParts, RangeOfSeq DEF HInv, Installed
  <1>2. ASSUME NEW h \in Installed(t)
        PROVE  /\ h \in Hooks /\ Claims(h) = {} /\ h \notin spent
               /\ active[h] /\ enabled[h]
    <2>1. h \in Hooks /\ Attaching(h) \in Queued(t) /\ active[h] /\ enabled[h]
      BY <1>1 DEF HInv, InstalledOK, InstalledOf
    <2>2. PICK k \in DOMAIN tx[t].queue : tx[t].queue[k] = Attaching(h)
      BY <2>1 DEF Queued, Range
    <2> QED
      BY <2>1, <2>2 DEF HInv, WaitingOK, WaitingOf
  <1>3. ASSUME NEW d \in Range(tx[t].detached)
        PROVE  /\ d \in AppliedDetach /\ d.hook \in Hooks /\ d.target \in Ops
               /\ Claims(d.hook) # {} /\ d.was \in BOOLEAN
    <2>1. d \in AppliedDetach /\ d.hook \in Hooks /\ d.target \in Ops /\ d.was \in BOOLEAN
      BY <1>1 DEF AppliedDetach
    <2>2. d.target.op \in {"attach", "detach", "slot"}
      BY <2>1 DEF Ops
    <2>3. Claims(d.hook) # {}
      BY <2>2 DEF HInv, DetachedOK, DetachedOf
    <2> QED
      BY <2>1, <2>3
  <1>4. \A h \in Detached(t) : h \in Hooks /\ Claims(h) # {} /\ h \notin Installed(t)
    BY <1>2, <1>3 DEF Detached
  <1> QED
    BY <1>2, <1>3, <1>4

LEMMA RollbackDetachesStep ==
    ASSUME HInv, TypeOK', NEW t \in Threads, rollback_detaches(t)
    PROVE  HInv'
  <1>1. /\ UNCHANGED <<tx, handles, kept, registry, dying, active, spent, taken, codeLock, regLock>>
        /\ pc[t] = "rollback_detaches" /\ pc'[t] = "rollback"
        /\ \A u \in Threads \ {t} : pc'[u] = pc[u]
        /\ \A h \in Hooks : enabled'[h] <=> enabled[h] \/ WasEnabled(t, h)
    BY DEF rollback_detaches, HInv, TypeOK
  <1>2. SameOps /\ \A h : Claims(h)' = Claims(h)
    BY <1>1, ClaimsKept DEF SameOps
  <1>3. "rollback" \in WindowPcs /\ "rollback_detaches" \in WindowPcs
        /\ "rollback" \notin Names /\ "rollback_detaches" \notin Names
    BY Constants DEF WindowPcs
  <1>4. QueueOK' /\ WaitingOK' /\ TargetsOK' /\ HandlesOK' /\ ClaimsOK'
    <2>1. QueueOK' /\ TargetsOK' /\ HandlesOK'
      BY <1>1, <1>2, OpsKept DEF HInv, QueueOK, TargetsOK, HandlesOK, SameOps
    <2>2. WaitingOK'
      BY <1>1, <1>2, OpsKept DEF HInv, WaitingOK, WaitingOf, SameOps
    <2>3. ClaimsOK'
      BY <1>1, <1>2, OpsKept DEF HInv, ClaimsOK
    <2> QED
      BY <2>1, <2>2, <2>3
  <1>5. InstalledOK'
    <2>1. ASSUME NEW u \in Threads
          PROVE  InstalledOf(u)'
      <3>1. \A h \in Installed(u) : h \in Hooks /\ active[h] /\ enabled[h]
        BY InWindow
      <3>2. /\ \A h \in Installed(u) : Attaching(h) \in Queued(u)
            /\ \A j, k \in DOMAIN tx[u].installed :
                  tx[u].installed[j] = tx[u].installed[k] => j = k
        BY DEF HInv, InstalledOK, InstalledOf
      <3>3. Queued(u)' = Queued(u) /\ Installed(u)' = Installed(u)
        BY <1>2, OpsKept
      <3> QED
        BY <1>1, <3>1, <3>2, <3>3 DEF InstalledOf, Attaching
    <2> QED
      BY <2>1 DEF InstalledOK
  <1>6. \A h \in Hooks : WasEnabled(t, h) => active[h]
    <2>1. \A d \in Range(tx[t].detached) : d.was => active[d.hook]
      BY DEF HInv, DetachedOK, DetachedOf
    <2> QED
      BY <2>1 DEF WasEnabled
  <1>7. ModesOK'
    BY <1>1, <1>6 DEF HInv, ModesOK
  <1>8. DetachedOK'
    <2>1. \A u \in Threads \ {t} : DetachedOf(u)'
      BY <1>1, <1>3, Alone DEF DetachedOf
    <2>2. ASSUME NEW d \in Range(tx[t].detached)
          PROVE  enabled'[d.hook] <=> d.was
      <3>1. d.hook \in Hooks /\ ~enabled[d.hook]
        BY <1>1, InWindow DEF HInv, DetachedOK, DetachedOf
      <3>2. \A e \in Range(tx[t].detached) : e.hook = d.hook => e = d
        BY DEF HInv, DetachedOK, DetachedOf, Range
      <3>3. WasEnabled(t, d.hook) <=> d.was
        BY <3>2 DEF WasEnabled
      <3> QED
        BY <1>1, <3>1, <3>3
    <2>3. DetachedOf(t)'
      BY <1>1, <1>2, <2>2, OpsKept DEF HInv, DetachedOK, DetachedOf
    <2> QED
      BY <2>1, <2>3 DEF DetachedOK
  <1>9. LockOK' /\ PhaseOK' /\ ToggleOK' /\ DyingOK' /\ TakenOK'
    <2>1. LockOK'
      BY <1>1, <1>3 DEF HInv, LockOK
    <2>2. PhaseOK'
      BY <1>1, <1>3 DEF HInv, PhaseOK
    <2>3. ToggleOK' /\ DyingOK' /\ TakenOK'
      BY <1>1, <1>3 DEF HInv, ToggleOK, DyingOK, TakenOK
    <2> QED
      BY <2>1, <2>2, <2>3
  <1> QED
    BY <1>4, <1>5, <1>7, <1>8, <1>9 DEF HInv

\* The end of a commit releases the code lock.
LEMMA WindowEnds ==
    ASSUME HInv, NEW t \in Threads, pc[t] \in WindowPcs, pc'[t] = "idle",
           tx' = [tx EXCEPT ![t] = NoTx], codeLock' = None,
           \A u \in Threads \ {t} : pc'[u] = pc[u],
           UNCHANGED <<registry, dying, taken, regLock>>
    PROVE  LockOK' /\ PhaseOK' /\ ToggleOK' /\ DyingOK'
  <1>1. "idle" \notin Names /\ "idle" \notin WindowPcs /\ "drop" \notin WindowPcs
        /\ WindowPcs \cap Names = {} /\ None \notin Threads
    BY Constants DEF WindowPcs
  <1>2. LockOK'
    BY <1>1 DEF HInv, LockOK
  <1>3. PhaseOK'
    <2>1. /\ tx'[t].phase = "none" /\ tx'[t].queue = <<>>
          /\ tx'[t].installed = <<>> /\ tx'[t].detached = <<>>
          /\ \A u \in Threads \ {t} : tx'[u] = tx[u]
      BY TxEnds
    <2>2. pc'[t] \notin WindowPcs \cup {"commit_lock"}
      BY <1>1
    <2> QED
      BY <2>1, <2>2 DEF HInv, PhaseOK
  <1>4. ToggleOK' /\ DyingOK'
    BY <1>1 DEF HInv, ToggleOK, DyingOK
  <1> QED
    BY <1>2, <1>3, <1>4

LEMMA RollbackStep ==
    ASSUME HInv, TypeOK', NEW t \in Threads, rollback(t)
    PROVE  HInv'
  <1>1. /\ UNCHANGED <<handles, kept, registry, dying, spent, taken, regLock>>
        /\ pc[t] = "rollback" /\ pc'[t] = "idle" /\ codeLock' = None
        /\ \A u \in Threads \ {t} : pc'[u] = pc[u]
        /\ tx' = [tx EXCEPT ![t] = NoTx]
        /\ \A h \in Hooks : /\ enabled'[h] <=> enabled[h] /\ h \notin Installed(t)
                            /\ active'[h] <=> active[h] /\ h \notin Installed(t)
    BY DEF rollback, HInv, TypeOK
  <1>2. pc[t] \in WindowPcs
    BY <1>1 DEF WindowPcs
  <1>3. \A h : Claims(h)' = Claims(h)
    BY <1>1, ClaimsKept
  <1>4. \A u \in Threads : /\ Installed(u)' = {} /\ Range(tx'[u].detached) = {}
                           /\ DOMAIN tx'[u].installed = {} /\ DOMAIN tx'[u].detached = {}
    <2>1. /\ Installed(t)' = {} /\ Range(tx'[t].detached) = {}
          /\ DOMAIN tx'[t].installed = {} /\ DOMAIN tx'[t].detached = {}
          /\ \A u \in Threads \ {t} : tx'[u] = tx[u] /\ Installed(u)' = Installed(u)
      BY <1>1, TxEnds
    <2>2. \A u \in Threads \ {t} :
             /\ Installed(u) = {} /\ Range(tx[u].detached) = {}
             /\ DOMAIN tx[u].installed = {} /\ DOMAIN tx[u].detached = {}
      BY <1>2, Alone
    <2> QED
      BY <2>1, <2>2
  <1>5. InstalledOK' /\ DetachedOK'
    BY <1>4 DEF InstalledOK, InstalledOf, DetachedOK, DetachedOf
  <1>6. WaitingOK'
    <2>1. WaitingOf(t)'
      BY <1>1, TxEnds DEF WaitingOf
    <2>2. ASSUME NEW u \in Threads \ {t}
          PROVE  WaitingOf(u)'
      <3>1. tx'[u] = tx[u] /\ Done(u)' = Done(u) /\ Installed(u)' = Installed(u)
        BY <1>1, TxEnds
      <3> QED
        BY <1>1, <1>3, <3>1 DEF HInv, WaitingOK, WaitingOf
    <2> QED
      BY <2>1, <2>2 DEF WaitingOK
  <1>7. TargetsOK'
    <2>1. Queued(t)' = {} /\ \A u \in Threads \ {t} : Queued(u)' = Queued(u)
      BY <1>1, TxEnds
    <2> QED
      BY <1>1, <2>1 DEF HInv, TargetsOK
  <1>8. ModesOK' /\ HandlesOK' /\ TakenOK'
    BY <1>1 DEF HInv, ModesOK, HandlesOK, TakenOK
  <1>9. ClaimsOK'
    <2>1. ASSUME NEW h \in Hooks
          PROVE  /\ \A c, d \in Claims(h) : c = d
                 /\ \A c \in Claims(h) : active'[h] \/ (h \in spent /\ c[1] = "kept")
                 /\ active'[h] => Claims(h) # {}
      <3>1. h \in Installed(t) => Claims(h) = {}
        BY InWindow
      <3>2. Pending(h) => h \in Installed(t)
        BY <1>2, Alone DEF Pending
      <3> QED
        BY <1>1, <3>1, <3>2 DEF HInv, ClaimsOK
    <2> QED
      BY <1>1, <1>3, <2>1 DEF ClaimsOK
  <1>10. QueueOK'
    BY <1>1, TxEnds
  <1>11. LockOK' /\ PhaseOK' /\ ToggleOK' /\ DyingOK'
    BY <1>1, <1>2, WindowEnds
  <1> QED
    BY <1>5, <1>6, <1>7, <1>8, <1>9, <1>10, <1>11 DEF HInv

LEMMA InstallStep ==
    ASSUME HInv, TypeOK', NEW t \in Threads, commit_install(t),
           NEW h \in Hooks, tx[t].queue[Done(t) + 1] = Attaching(h),
           tx' = [tx EXCEPT ![t].installed = Append(@, h)],
           enabled' = [enabled EXCEPT ![h] = TRUE], active' = [active EXCEPT ![h] = TRUE],
           UNCHANGED pc
    PROVE  HInv'
  <1> DEFINE n == Done(t) + 1
  <1>1. /\ pc[t] = "commit_install" /\ Done(t) < Len(tx[t].queue)
        /\ UNCHANGED <<pc, handles, kept, registry, dying, spent, taken, codeLock, regLock>>
    BY DEF commit_install, Done
  <1>2. /\ TypeOK /\ pc[t] \in WindowPcs /\ Done(t) \in Nat /\ n \in DOMAIN tx[t].queue
        /\ Attaching(h) \in Queued(t)
    BY <1>1, NextOp DEF HInv, WindowPcs
  <1>3. /\ \A u \in Threads \ {t} : tx'[u] = tx[u]
        /\ tx'[t].queue = tx[t].queue /\ tx'[t].detached = tx[t].detached
        /\ tx'[t].phase = tx[t].phase /\ tx'[t].installed = Append(tx[t].installed, h)
    <2>1. tx[t] \in TxRecord
      BY <1>2, TxParts
    <2>2. /\ tx'[t] = [tx[t] EXCEPT !.installed = Append(tx[t].installed, h)]
          /\ \A u \in Threads \ {t} : tx'[u] = tx[u]
      BY <1>2, TxInstalled
    <2> QED
      BY <2>1, <2>2 DEF TxRecord
  <1>4. /\ Len(tx[t].installed) \in Nat /\ DOMAIN tx[t].installed = 1 .. Len(tx[t].installed)
        /\ DOMAIN tx'[t].installed = 1 .. Len(tx[t].installed) + 1
        /\ \A k \in 1 .. Len(tx[t].installed) :
              tx'[t].installed[k] = tx[t].installed[k] /\ tx[t].installed[k] \in Installed(t)
        /\ tx'[t].installed[Len(tx[t].installed) + 1] = h
        /\ Installed(t)' = Installed(t) \cup {h}
        /\ Done(t)' = n
    <2>1. tx[t].installed \in Seq(Hooks) /\ tx[t].detached \in Seq(AppliedDetach)
      BY <1>2, TxParts
    <2>2. Len(tx[t].detached) \in Nat
      BY <2>1, RangeOfSeq
    <2>3. Len(tx'[t].installed) = Len(tx[t].installed) + 1 /\ Len(tx[t].installed) \in Nat
      BY <1>3, <2>1, RangeOfAppend, RangeOfSeq
    <2>4. Done(t)' = n
      <3>1. ASSUME NEW a \in Nat, NEW b \in Nat
            PROVE  (a + 1) + b = (a + b) + 1
        OBVIOUS
      <3>2. /\ Done(t)' = Len(tx'[t].installed) + Len(tx'[t].detached)
            /\ Done(t) = Len(tx[t].installed) + Len(tx[t].detached)
        BY DEF Done
      <3> QED
        BY <1>3, <2>2, <2>3, <3>1, <3>2
    <2> QED
      BY <1>3, <2>1, <2>4, RangeOfAppend, RangeOfSeq DEF Installed
  <1>5. /\ \A u \in Threads : Queued(u)' = Queued(u)
        /\ \A u \in Threads \ {t} : Done(u)' = Done(u) /\ Installed(u)' = Installed(u)
    BY <1>3 DEF Queued, Done, Installed
  <1>6. ~active[h] /\ h \notin spent /\ Claims(h) = {} /\ h \notin Installed(t)
    <2>1. ~active[h] /\ h \notin spent /\ Claims(h) = {}
      BY <1>2 DEF HInv, WaitingOK, WaitingOf
    <2> QED
      BY <2>1, InWindow
  <1>7. /\ \A g : Claims(g)' = Claims(g)
        /\ \A g : Pending(g)' <=> Pending(g) \/ g = h
        /\ active'[h] /\ enabled'[h]
        /\ \A g \in Hooks \ {h} : active'[g] = active[g] /\ enabled'[g] = enabled[g]
    <2>1. \A g : Claims(g)' = Claims(g)
      BY <1>1, ClaimsKept
    <2>2. \A g : Pending(g)' <=> Pending(g) \/ g = h
      BY <1>4, <1>5 DEF Pending
    <2> QED
      BY <2>1, <2>2 DEF HInv, TypeOK
  <1>8. QueueOK' /\ TargetsOK' /\ HandlesOK'
    <2>1. \A u \in Threads : tx'[u].queue = tx[u].queue
      BY <1>3
    <2> QED
      BY <1>1, <1>5, <2>1 DEF HInv, QueueOK, TargetsOK, HandlesOK
  <1>9. WaitingOK'
    <2>1. ASSUME NEW u \in Threads \ {t}
          PROVE  WaitingOf(u)'
      <3>1. tx'[u] = tx[u] /\ Done(u)' = Done(u) /\ Installed(u)' = Installed(u) /\ WaitingOf(u)
        BY <1>3, <1>5 DEF HInv, WaitingOK
      <3>2. \A k \in DOMAIN tx[u].queue : tx[u].queue[k] # Attaching(h)
        BY <1>2 DEF HInv, QueueOK, Queued, Range
      <3>3. ASSUME NEW k \in DOMAIN tx[u].queue, NEW g \in Hooks, tx[u].queue[k] = Attaching(g)
            PROVE  /\ g \notin spent' /\ Claims(g)' = {}
                   /\ Done(u) < k => ~active'[g]
                   /\ k <= Done(u) => g \in Installed(u)
        <4>1. g # h
          BY <3>2, <3>3
        <4> QED
          BY <1>1, <1>7, <3>1, <3>3, <4>1 DEF WaitingOf
      <3> QED
        BY <3>1, <3>3 DEF WaitingOf, Attaching
    <2>2. ASSUME NEW k \in DOMAIN tx[t].queue, NEW g \in Hooks, tx[t].queue[k] = Attaching(g)
          PROVE  /\ g \notin spent /\ Claims(g) = {}
                 /\ n < k => ~active'[g]
                 /\ k <= n => g \in Installed(t)'
      <3>1. /\ g \notin spent /\ Claims(g) = {}
            /\ Done(t) < k => ~active[g]
            /\ k <= Done(t) => g \in Installed(t)
        BY <2>2 DEF HInv, WaitingOK, WaitingOf
      <3>2. g = h => k = n
        BY <1>2, <2>2 DEF HInv, QueueOK
      <3>3. k = n => g = h
        BY <2>2 DEF Attaching
      <3>4. k \in Nat
        BY <1>2, TxParts, RangeOfSeq
      <3> QED
        BY <1>2, <1>4, <1>7, <3>1, <3>2, <3>3, <3>4
    <2>3. WaitingOf(t)'
      <3>1. tx'[t].queue = tx[t].queue /\ Done(t)' = n /\ spent' = spent
        BY <1>1, <1>3, <1>4
      <3> HIDE DEF n
      <3> QED
        BY <1>7, <2>2, <3>1 DEF WaitingOf, Attaching
    <2> QED
      BY <2>1, <2>3 DEF WaitingOK
  <1>10. InstalledOK'
    <2>1. ASSUME NEW u \in Threads \ {t}
          PROVE  InstalledOf(u)'
      <3>1. Installed(u)' = {} /\ DOMAIN tx'[u].installed = {}
        BY <1>2, <1>3, <1>5, Alone
      <3> QED
        BY <3>1 DEF InstalledOf
    <2>2. \A g \in Installed(t)' : Attaching(g) \in Queued(t)' /\ active'[g] /\ enabled'[g]
      <3>1. \A g \in Installed(t) : g \in Hooks /\ Attaching(g) \in Queued(t) /\ active[g] /\ enabled[g]
        BY InWindow DEF HInv, InstalledOK, InstalledOf
      <3> QED
        BY <1>2, <1>4, <1>5, <1>7, <3>1
    <2>3. \A j, k \in DOMAIN tx'[t].installed : tx'[t].installed[j] = tx'[t].installed[k] => j = k
      <3>1. \A j, k \in DOMAIN tx[t].installed : tx[t].installed[j] = tx[t].installed[k] => j = k
        BY DEF HInv, InstalledOK, InstalledOf
      <3> QED
        BY <1>4, <1>6, <3>1
    <2>4. InstalledOf(t)'
      BY <2>2, <2>3 DEF InstalledOf, Attaching
    <2> QED
      BY <2>1, <2>4 DEF InstalledOK
  <1>11. DetachedOK'
    <2>1. ASSUME NEW u \in Threads \ {t}
          PROVE  DetachedOf(u)'
      <3>1. Range(tx'[u].detached) = {} /\ DOMAIN tx'[u].detached = {}
        BY <1>2, <1>3, Alone
      <3> QED
        BY <3>1 DEF DetachedOf
    <2>2. \A d \in Range(tx[t].detached) : d.hook \in Hooks /\ d.hook # h
      BY <1>6, InWindow
    <2>3. 1 .. Done(t) \subseteq 1 .. n
      BY <1>2
    <2>4. DetachedOf(t)'
      <3>1. /\ tx'[t].queue = tx[t].queue /\ tx'[t].detached = tx[t].detached
            /\ 1 .. Done(t) \subseteq 1 .. Done(t)' /\ pc'[t] = pc[t]
        BY <1>1, <1>3, <1>4, <2>3
      <3>2. \A d \in Range(tx[t].detached) :
               active'[d.hook] = active[d.hook] /\ enabled'[d.hook] = enabled[d.hook]
        BY <1>7, <2>2
      <3>3. DetachedOf(t)
        BY DEF HInv, DetachedOK
      <3>4. ASSUME NEW d \in Range(tx[t].detached)
            PROVE  \E k \in 1 .. Done(t)' : k \in DOMAIN tx[t].queue /\ tx[t].queue[k] = d.target
        BY <3>1, <3>3 DEF DetachedOf
      <3>5. ASSUME NEW d \in Range(tx[t].detached)
            PROVE  /\ d.target.op # "attach"
                   /\ d.target.op = "slot" =>
                         <<"slot", d.target.handle, d.target.idx>> \in Claims(d.hook)'
                   /\ d.target.op = "detach" =>
                         d.target.hook = d.hook /\ <<"kept", t, 0>> \in Claims(d.hook)'
                   /\ d.was => active'[d.hook]
                   /\ enabled'[d.hook] <=> pc'[t] = "rollback" /\ d.was
        <4>1. Claims(d.hook)' = Claims(d.hook)
          BY <1>7
        <4>2. /\ d.target.op # "attach"
              /\ d.target.op = "slot" =>
                    <<"slot", d.target.handle, d.target.idx>> \in Claims(d.hook)
              /\ d.target.op = "detach" =>
                    d.target.hook = d.hook /\ <<"kept", t, 0>> \in Claims(d.hook)
              /\ d.was => active[d.hook]
              /\ enabled[d.hook] <=> pc[t] = "rollback" /\ d.was
          BY <3>3 DEF DetachedOf
        <4>3. active'[d.hook] = active[d.hook] /\ enabled'[d.hook] = enabled[d.hook]
          BY <3>2
        <4> QED
          BY <3>1, <4>1, <4>2, <4>3
      <3>6. \A j, k \in DOMAIN tx[t].detached :
               tx[t].detached[j].hook = tx[t].detached[k].hook => j = k
        BY <3>3 DEF DetachedOf
      <3> QED
        BY <3>1, <3>4, <3>5, <3>6 DEF DetachedOf
    <2> QED
      BY <2>1, <2>4 DEF DetachedOK
  <1>12. ModesOK' /\ ClaimsOK'
    <2>1. ModesOK'
      BY <1>1, <1>6, <1>7 DEF HInv, ModesOK
    <2>2. ClaimsOK'
      BY <1>1, <1>6, <1>7 DEF HInv, ClaimsOK
    <2> QED
      BY <2>1, <2>2
  <1>13. PhaseOK'
    BY <1>1, <1>2, <1>3 DEF HInv, PhaseOK
  <1>14. LockOK' /\ ToggleOK' /\ DyingOK' /\ TakenOK'
    BY <1>1 DEF HInv, LockOK, ToggleOK, DyingOK, TakenOK
  <1> QED
    BY <1>8, <1>9, <1>10, <1>11, <1>12, <1>13, <1>14 DEF HInv

\* The claims on a hook that has one.
LEMMA OneClaim ==
    ASSUME HInv, NEW h \in Hooks, NEW c \in Claims(h)
    PROVE  /\ Claims(h) = {c}
           /\ active[h] \/ (h \in spent /\ c[1] = "kept")
           /\ \A hd \in DOMAIN handles : \A i \in DOMAIN handles[hd].slots :
                 handles[hd].slots[i] = h => c = <<"slot", hd, i>>
           /\ \A n \in Names : registry[n] # None /\ registry[n][1] = h => c = <<"name", n, 0>>
           /\ \A u \in Threads : h \in kept[u] => c = <<"kept", u, 0>>
           /\ \A u \in Threads : h \in Range(dying[u]) => c = <<"dying", u, 0>>
  <1>1. /\ \A d \in Claims(h) : c = d
        /\ active[h] \/ (h \in spent /\ c[1] = "kept")
    BY DEF HInv, ClaimsOK
  <1>2. ASSUME NEW hd \in DOMAIN handles, NEW i \in DOMAIN handles[hd].slots,
               handles[hd].slots[i] = h
        PROVE  c = <<"slot", hd, i>>
    <2>1. <<"slot", hd, i>> \in Claims(h)
      BY <1>2, ClaimCases
    <2> QED
      BY <1>1, <2>1
  <1>3. ASSUME NEW n \in Names, registry[n] # None, registry[n][1] = h
        PROVE  c = <<"name", n, 0>>
    <2>1. <<"name", n, 0>> \in Claims(h)
      BY <1>3, ClaimCases
    <2> QED
      BY <1>1, <2>1
  <1>4. ASSUME NEW u \in Threads, h \in kept[u]
        PROVE  c = <<"kept", u, 0>>
    <2>1. <<"kept", u, 0>> \in Claims(h)
      BY <1>4, ClaimCases
    <2> QED
      BY <1>1, <2>1
  <1>5. ASSUME NEW u \in Threads, h \in Range(dying[u])
        PROVE  c = <<"dying", u, 0>>
    <2>1. <<"dying", u, 0>> \in Claims(h)
      BY <1>5, ClaimCases
    <2> QED
      BY <1>1, <2>1
  <1> QED
    BY <1>1, <1>2, <1>3, <1>4, <1>5

LEMMA UninstallStep ==
    ASSUME HInv, TypeOK', NEW t \in Threads, commit_install(t),
           NEW o, o = tx[t].queue[Done(t) + 1], o.op # "attach",
           NEW h, h = hook_from_detach_target(o), h # None,
           tx' = [tx EXCEPT ![t].detached =
                      Append(@, [target |-> o, hook |-> h, was |-> enabled[h]])],
           enabled' = [enabled EXCEPT ![h] = FALSE],
           UNCHANGED <<pc, active>>
    PROVE  HInv'
  <1> DEFINE n == Done(t) + 1
             e == [target |-> o, hook |-> h, was |-> enabled[h]]
  <1>1. /\ pc[t] = "commit_install" /\ Done(t) < Len(tx[t].queue)
        /\ UNCHANGED <<pc, handles, kept, registry, dying, active, spent, taken, codeLock, regLock>>
    BY DEF commit_install, Done
  <1>2. /\ TypeOK /\ pc[t] \in WindowPcs /\ Done(t) \in Nat /\ n \in DOMAIN tx[t].queue
        /\ o \in Queued(t) /\ o \in Ops /\ h \in Hooks /\ o.op \in {"detach", "slot"}
        /\ o.op = "detach" => o.hook = h /\ h \in kept[t]
        /\ o.op = "slot" => o.handle \in DOMAIN handles /\ h = Slot(o.handle, o.idx)
    BY <1>1, NextOp DEF HInv, WindowPcs
  <1>3. /\ \A u \in Threads \ {t} : tx'[u] = tx[u]
        /\ tx'[t].queue = tx[t].queue /\ tx'[t].installed = tx[t].installed
        /\ tx'[t].phase = tx[t].phase /\ tx'[t].detached = Append(tx[t].detached, e)
        /\ e \in AppliedDetach
    <2>1. tx[t] \in TxRecord
      BY <1>2, TxParts
    <2>2. e \in AppliedDetach
      BY <1>2 DEF AppliedDetach, TypeOK
    <2>3. /\ tx'[t] = [tx[t] EXCEPT !.detached = Append(tx[t].detached, e)]
          /\ \A u \in Threads \ {t} : tx'[u] = tx[u]
      BY <1>2, <2>2, TxDetached
    <2> QED
      BY <2>1, <2>2, <2>3 DEF TxRecord
  <1>4. e.target = o /\ e.hook = h /\ e.was = enabled[h]
    OBVIOUS
  <1> HIDE DEF e
  <1>5. /\ Len(tx[t].detached) \in Nat /\ DOMAIN tx[t].detached = 1 .. Len(tx[t].detached)
        /\ DOMAIN tx'[t].detached = 1 .. Len(tx[t].detached) + 1
        /\ \A k \in 1 .. Len(tx[t].detached) :
              /\ tx'[t].detached[k] = tx[t].detached[k]
              /\ tx[t].detached[k] \in Range(tx[t].detached)
        /\ tx'[t].detached[Len(tx[t].detached) + 1] = e
        /\ Range(tx'[t].detached) = Range(tx[t].detached) \cup {e}
        /\ Done(t)' = n
    <2>1. tx[t].installed \in Seq(Hooks) /\ tx[t].detached \in Seq(AppliedDetach)
      BY <1>2, TxParts
    <2>2. Len(tx[t].installed) \in Nat
      BY <2>1, RangeOfSeq
    <2>3. Len(tx'[t].detached) = Len(tx[t].detached) + 1 /\ Len(tx[t].detached) \in Nat
      BY <1>3, <2>1, RangeOfAppend, RangeOfSeq
    <2>4. Done(t)' = n
      <3>1. ASSUME NEW a \in Nat, NEW b \in Nat
            PROVE  a + (b + 1) = (a + b) + 1
        OBVIOUS
      <3>2. /\ Done(t)' = Len(tx'[t].installed) + Len(tx'[t].detached)
            /\ Done(t) = Len(tx[t].installed) + Len(tx[t].detached)
        BY DEF Done
      <3> QED
        BY <1>3, <2>2, <2>3, <3>1, <3>2
    <2> QED
      BY <1>3, <2>1, <2>4, RangeOfAppend, RangeOfSeq
  <1>6. /\ \A u \in Threads : Queued(u)' = Queued(u) /\ Installed(u)' = Installed(u)
        /\ \A u \in Threads \ {t} : Done(u)' = Done(u)
    BY <1>3 DEF Queued, Done, Installed
  <1>7. /\ \A g : Claims(g)' = Claims(g)
        /\ \A g : Pending(g)' <=> Pending(g)
        /\ ~enabled'[h]
        /\ \A g \in Hooks \ {h} : enabled'[g] = enabled[g]
    <2>1. \A g : Claims(g)' = Claims(g)
      BY <1>1, ClaimsKept
    <2>2. \A g : Pending(g)' <=> Pending(g)
      BY <1>6 DEF Pending
    <2> QED
      BY <1>2, <2>1, <2>2 DEF TypeOK
  <1>8. /\ o.op = "slot" => <<"slot", o.handle, o.idx>> \in Claims(h)
        /\ o.op = "detach" => <<"kept", t, 0>> \in Claims(h)
        /\ Claims(h) # {} /\ h \notin Installed(t)
    <2>1. o.op = "slot" => <<"slot", o.handle, o.idx>> \in Claims(h)
      BY <1>2, ClaimCases DEF Slot
    <2>2. o.op = "detach" => <<"kept", t, 0>> \in Claims(h)
      BY <1>2, ClaimCases
    <2>3. Claims(h) # {}
      BY <1>2, <2>1, <2>2
    <2> QED
      BY <2>1, <2>2, <2>3, InWindow
  <1>9. \A d \in Range(tx[t].detached) : d.hook \in Hooks /\ d.hook # h
    <2>1. ASSUME NEW d \in Range(tx[t].detached), d.hook = h
          PROVE  FALSE
      <3>1. /\ d.target \in Ops /\ d.target.op \in {"detach", "slot"}
            /\ d.target.op = "slot" => <<"slot", d.target.handle, d.target.idx>> \in Claims(h)
            /\ d.target.op = "detach" => d.target.hook = h /\ <<"kept", t, 0>> \in Claims(h)
        <4>1. d.target \in Ops /\ d.target.op # "attach"
          BY InWindow DEF HInv, DetachedOK, DetachedOf
        <4>2. d.target.op \in {"detach", "slot"}
          BY <4>1 DEF Ops
        <4> QED
          BY <2>1, <4>1, <4>2 DEF HInv, DetachedOK, DetachedOf
      <3>2. PICK k \in 1 .. Done(t) : k \in DOMAIN tx[t].queue /\ tx[t].queue[k] = d.target
        BY DEF HInv, DetachedOK, DetachedOf
      <3>3. \A c1, c2 \in Claims(h) : c1 = c2
        BY <1>2 DEF HInv, ClaimsOK
      <3>4. d.target = o
        <4>1. CASE o.op = "slot" /\ d.target.op = "slot"
          <5>1. <<"slot", d.target.handle, d.target.idx>> = <<"slot", o.handle, o.idx>>
            BY <1>8, <3>1, <3>3, <4>1
          <5>2. /\ o \in [op : {"slot"}, handle : Nat, idx : Slots]
                /\ d.target \in [op : {"slot"}, handle : Nat, idx : Slots]
            BY <1>2, <3>1, <4>1, OpHook
          <5> QED
            BY <5>1, <5>2
        <4>2. CASE o.op = "detach" /\ d.target.op = "detach"
          <5>1. /\ o \in [op : {"attach", "detach"}, hook : Hooks]
                /\ d.target \in [op : {"attach", "detach"}, hook : Hooks]
            BY <1>2, <3>1, <4>2, OpHook
          <5> QED
            BY <1>2, <3>1, <4>2, <5>1
        <4>3. CASE o.op = "slot" /\ d.target.op = "detach"
          <5>1. <<"slot", o.handle, o.idx>> = <<"kept", t, 0>>
            BY <1>8, <3>1, <3>3, <4>3
          <5> QED
            BY <5>1
        <4>4. CASE o.op = "detach" /\ d.target.op = "slot"
          <5>1. <<"slot", d.target.handle, d.target.idx>> = <<"kept", t, 0>>
            BY <1>8, <3>1, <3>3, <4>4
          <5> QED
            BY <5>1
        <4> QED
          BY <1>2, <3>1, <4>1, <4>2, <4>3, <4>4
      <3>5. k = n
        BY <1>2, <3>2, <3>4 DEF HInv, QueueOK
      <3> QED
        BY <1>2, <3>2, <3>5
    <2> QED
      BY <2>1, InWindow
  <1>10. QueueOK' /\ TargetsOK' /\ HandlesOK'
    <2>1. \A u \in Threads : tx'[u].queue = tx[u].queue
      BY <1>3
    <2> QED
      BY <1>1, <1>6, <2>1 DEF HInv, QueueOK, TargetsOK, HandlesOK
  <1>11. WaitingOK'
    <2>1. ASSUME NEW u \in Threads, NEW k \in DOMAIN tx[u].queue, NEW g \in Hooks,
                 tx[u].queue[k] = Attaching(g)
          PROVE  /\ g \notin spent /\ Claims(g) = {}
                 /\ Done(u)' < k => ~active[g]
                 /\ k <= Done(u)' => g \in Installed(u)
      <3>1. /\ g \notin spent /\ Claims(g) = {}
            /\ Done(u) < k => ~active[g]
            /\ k <= Done(u) => g \in Installed(u)
        BY <2>1 DEF HInv, WaitingOK, WaitingOf
      <3>2. u = t => k # n
        <4>1. Attaching(g).op = "attach"
          BY DEF Attaching
        <4> QED
          BY <2>1, <4>1
      <3>3. k \in Nat
        BY <1>2, TxParts, RangeOfSeq
      <3>4. u # t => Done(u)' = Done(u)
        BY <1>6
      <3> HIDE DEF n
      <3>5. n = Done(t) + 1
        BY DEF n
      <3> QED
        BY <1>2, <1>5, <3>1, <3>2, <3>3, <3>4, <3>5
    <2>2. \A u \in Threads : tx'[u].queue = tx[u].queue /\ Installed(u)' = Installed(u)
      BY <1>3, <1>6
    <2>3. \A u \in Threads : WaitingOf(u)'
      BY <1>1, <1>7, <2>1, <2>2 DEF WaitingOf, Attaching
    <2> QED
      BY <2>3 DEF WaitingOK
  <1>12. InstalledOK'
    <2>1. ASSUME NEW u \in Threads
          PROVE  InstalledOf(u)'
      <3>1. \A g \in Installed(u) : g \in Hooks /\ g # h /\ active[g] /\ enabled[g]
        BY <1>8, InWindow
      <3>2. /\ \A g \in Installed(u) : Attaching(g) \in Queued(u)
            /\ \A j, k \in DOMAIN tx[u].installed :
                  tx[u].installed[j] = tx[u].installed[k] => j = k
        BY DEF HInv, InstalledOK, InstalledOf
      <3>3. tx'[u].installed = tx[u].installed
        BY <1>3
      <3> QED
        BY <1>1, <1>6, <1>7, <3>1, <3>2, <3>3 DEF InstalledOf, Attaching
    <2> QED
      BY <2>1 DEF InstalledOK
  <1>13. DetachedOK'
    <2>1. ASSUME NEW u \in Threads \ {t}
          PROVE  DetachedOf(u)'
      <3>1. Range(tx'[u].detached) = {} /\ DOMAIN tx'[u].detached = {}
        BY <1>2, <1>3, Alone
      <3> QED
        BY <3>1 DEF DetachedOf
    <2>2. ASSUME NEW d \in Range(tx'[t].detached)
          PROVE  \E k \in 1 .. n : k \in DOMAIN tx[t].queue /\ tx[t].queue[k] = d.target
      <3>1. CASE d = e
        <4>1. n \in 1 .. n
          BY <1>2
        <4> QED
          BY <1>2, <1>4, <3>1, <4>1
      <3>2. CASE d \in Range(tx[t].detached)
        <4>1. \E k \in 1 .. Done(t) : k \in DOMAIN tx[t].queue /\ tx[t].queue[k] = d.target
          BY <3>2 DEF HInv, DetachedOK, DetachedOf
        <4>2. 1 .. Done(t) \subseteq 1 .. n
          BY <1>2
        <4> QED
          BY <4>1, <4>2
      <3> QED
        BY <1>5, <3>1, <3>2
    <2>3. ASSUME NEW d \in Range(tx'[t].detached)
          PROVE  /\ d.target.op # "attach"
                 /\ d.target.op = "slot" =>
                       <<"slot", d.target.handle, d.target.idx>> \in Claims(d.hook)'
                 /\ d.target.op = "detach" =>
                       d.target.hook = d.hook /\ <<"kept", t, 0>> \in Claims(d.hook)'
                 /\ d.was => active'[d.hook]
                 /\ enabled'[d.hook] <=> pc'[t] = "rollback" /\ d.was
      <3>0. Claims(d.hook)' = Claims(d.hook) /\ pc'[t] # "rollback" /\ pc[t] # "rollback"
        BY <1>1, <1>7
      <3>1. CASE d = e
        <4>1. enabled[h] => active[h]
          BY <1>2 DEF HInv, ModesOK
        <4> QED
          BY <1>1, <1>2, <1>4, <1>7, <1>8, <3>0, <3>1, <4>1
      <3>2. CASE d \in Range(tx[t].detached)
        <4>1. /\ d.target.op # "attach"
              /\ d.target.op = "slot" =>
                    <<"slot", d.target.handle, d.target.idx>> \in Claims(d.hook)
              /\ d.target.op = "detach" =>
                    d.target.hook = d.hook /\ <<"kept", t, 0>> \in Claims(d.hook)
              /\ d.was => active[d.hook]
              /\ enabled[d.hook] <=> pc[t] = "rollback" /\ d.was
          BY <3>2 DEF HInv, DetachedOK, DetachedOf
        <4>2. active'[d.hook] = active[d.hook] /\ enabled'[d.hook] = enabled[d.hook]
          BY <1>1, <1>7, <1>9, <3>2
        <4> QED
          BY <3>0, <4>1, <4>2
      <3> QED
        BY <1>5, <3>1, <3>2
    <2>4. \A j, k \in DOMAIN tx'[t].detached :
             tx'[t].detached[j].hook = tx'[t].detached[k].hook => j = k
      <3>1. \A j, k \in DOMAIN tx[t].detached :
               tx[t].detached[j].hook = tx[t].detached[k].hook => j = k
        BY DEF HInv, DetachedOK, DetachedOf
      <3>2. \A k \in DOMAIN tx[t].detached : tx[t].detached[k].hook # h
        BY <1>5, <1>9
      <3> QED
        BY <1>4, <1>5, <3>1, <3>2
    <2>5. DetachedOf(t)'
      <3>1. tx'[t].queue = tx[t].queue /\ Done(t)' = n
        BY <1>3, <1>5
      <3>2. \A d \in Range(tx'[t].detached) :
               \E k \in 1 .. Done(t)' : k \in DOMAIN tx'[t].queue /\ tx'[t].queue[k] = d.target
        BY <2>2, <3>1
      <3> QED
        BY <2>3, <2>4, <3>2 DEF DetachedOf
    <2> QED
      BY <2>1, <2>5 DEF DetachedOK
  <1>14. ModesOK' /\ ClaimsOK'
    <2>1. ModesOK'
      BY <1>1, <1>2, <1>7 DEF HInv, ModesOK
    <2>2. ClaimsOK'
      BY <1>1, <1>7 DEF HInv, ClaimsOK
    <2> QED
      BY <2>1, <2>2
  <1>15. PhaseOK'
    BY <1>1, <1>2, <1>3 DEF HInv, PhaseOK
  <1>16. LockOK' /\ ToggleOK' /\ DyingOK' /\ TakenOK'
    BY <1>1 DEF HInv, LockOK, ToggleOK, DyingOK, TakenOK
  <1> QED
    BY <1>10, <1>11, <1>12, <1>13, <1>14, <1>15, <1>16 DEF HInv

LEMMA CommitInstallStep ==
    ASSUME HInv, TypeOK', NEW t \in Threads, commit_install(t)
    PROVE  HInv'
  <1> DEFINE o == tx[t].queue[Done(t) + 1]
             h == hook_from_detach_target(o)
  <1>1. /\ pc[t] = "commit_install" /\ Done(t) < Len(tx[t].queue)
        /\ \/ Fail(t)
           \/ /\ o.op = "attach"
              /\ tx' = [tx EXCEPT ![t].installed = Append(@, h)]
              /\ enabled' = [enabled EXCEPT ![h] = TRUE]
              /\ active' = [active EXCEPT ![h] = TRUE]
              /\ UNCHANGED pc
           \/ /\ o.op # "attach" /\ h # None
              /\ tx' = [tx EXCEPT ![t].detached =
                            Append(@, [target |-> o, hook |-> h, was |-> enabled[h]])]
              /\ enabled' = [enabled EXCEPT ![h] = FALSE]
              /\ UNCHANGED <<pc, active>>
    BY DEF commit_install, Done
  <1>2. o.op = "attach" => o = Attaching(h) /\ h \in Hooks
    BY <1>1, NextOp
  <1> HIDE DEF h, o
  <1>3. o = tx[t].queue[Done(t) + 1] /\ h = hook_from_detach_target(o)
    BY DEF h, o
  <1> QED
    BY <1>1, <1>2, <1>3, FailStep, InstallStep, UninstallStep

\* What a finished commit leaves behind: its new hooks get one owner, the
\* slots it detached are empty.
Finished(t) ==
    \/ /\ tx[t].phase = "c"
       /\ handles' = Append([hd \in DOMAIN handles |->
                                [handles[hd] EXCEPT !.slots = finalize_detaches(t, hd)]],
                            [slots |-> tx[t].installed, freed |-> FALSE])
       /\ UNCHANGED kept
    \/ /\ tx[t].phase = "rust"
       /\ handles' = [hd \in DOMAIN handles |->
                         [handles[hd] EXCEPT !.slots = finalize_detaches(t, hd)]]
       /\ kept' = [kept EXCEPT ![t] = @ \cup Installed(t)]

LEMMA FinishedHandles ==
    ASSUME HInv, NEW t \in Threads, Finished(t)
    PROVE  /\ \A hd \in DOMAIN handles :
                 /\ hd \in DOMAIN handles' /\ handles'[hd].freed = handles[hd].freed
                 /\ DOMAIN handles'[hd].slots = DOMAIN handles[hd].slots
                 /\ handles'[hd].slots = finalize_detaches(t, hd)
                 /\ \A i \in DOMAIN handles[hd].slots :
                       handles'[hd].slots[i] =
                           IF \E d \in Range(tx[t].detached) :
                                  d.target = [op |-> "slot", handle |-> hd, idx |-> i]
                           THEN None ELSE handles[hd].slots[i]
           /\ \/ /\ tx[t].phase = "c" /\ kept' = kept
                 /\ DOMAIN handles' = DOMAIN handles \cup {Len(handles) + 1}
                 /\ Len(handles) + 1 \notin DOMAIN handles
                 /\ handles'[Len(handles) + 1] = [slots |-> tx[t].installed, freed |-> FALSE]
              \/ /\ tx[t].phase = "rust" /\ DOMAIN handles' = DOMAIN handles
                 /\ kept'[t] = kept[t] \cup Installed(t)
                 /\ \A u \in Threads \ {t} : kept'[u] = kept[u]
  <1> DEFINE R == [slots : Seq(Hooks \cup {None}), freed : BOOLEAN]
             fin == [hd \in DOMAIN handles |->
                        [handles[hd] EXCEPT !.slots = finalize_detaches(t, hd)]]
  <1>1. /\ TypeOK /\ DOMAIN handles = 1 .. Len(handles) /\ Len(handles) \in Nat
        /\ kept \in [Threads -> SUBSET Hooks]
    <2>1. TypeOK /\ handles \in Seq(R) /\ kept \in [Threads -> SUBSET Hooks]
      BY DEF HInv, TypeOK
    <2> HIDE DEF R
    <2> QED
      BY <2>1
  <1>2. ASSUME NEW hd \in DOMAIN handles
        PROVE  /\ fin[hd].freed = handles[hd].freed
               /\ fin[hd].slots = finalize_detaches(t, hd)
    <2>1. handles[hd] \in R
      BY <1>1, HandleType
    <2> QED
      BY <2>1
  <1>3. ASSUME NEW hd \in DOMAIN handles
        PROVE  /\ DOMAIN finalize_detaches(t, hd) = DOMAIN handles[hd].slots
               /\ \A i \in DOMAIN handles[hd].slots :
                     finalize_detaches(t, hd)[i] =
                         IF \E d \in Range(tx[t].detached) :
                                d.target = [op |-> "slot", handle |-> hd, idx |-> i]
                         THEN None ELSE handles[hd].slots[i]
    BY DEF finalize_detaches
  <1>4. CASE tx[t].phase = "rust"
    <2>1. handles' = fin /\ kept' = [kept EXCEPT ![t] = @ \cup Installed(t)]
      BY <1>4 DEF Finished
    <2>2. DOMAIN handles' = DOMAIN handles /\ \A hd \in DOMAIN handles : handles'[hd] = fin[hd]
      BY <2>1
    <2>3. /\ kept'[t] = kept[t] \cup Installed(t)
          /\ \A u \in Threads \ {t} : kept'[u] = kept[u]
      BY <1>1, <2>1
    <2> HIDE DEF fin
    <2> QED
      BY <1>2, <1>3, <1>4, <2>2, <2>3
  <1>5. CASE tx[t].phase = "c"
    <2> DEFINE new == [slots |-> tx[t].installed, freed |-> FALSE]
               Any == {fin[hd] : hd \in DOMAIN handles} \cup {new}
    <2>1. handles' = Append(fin, new) /\ kept' = kept
      BY <1>5 DEF Finished
    <2>2. fin \in [1 .. Len(handles) -> Any]
      BY <1>1
    <2>3. new \in Any
      OBVIOUS
    <2> HIDE DEF fin, new, Any
    <2>4. fin \in Seq(Any) /\ Len(fin) = Len(handles)
      BY <1>1, <2>2
    <2>5. /\ DOMAIN handles' = 1 .. Len(handles) + 1
          /\ \A hd \in 1 .. Len(handles) : handles'[hd] = fin[hd]
          /\ handles'[Len(handles) + 1] = new
      BY <2>1, <2>3, <2>4, RangeOfAppend
    <2>6. /\ DOMAIN handles' = DOMAIN handles \cup {Len(handles) + 1}
          /\ Len(handles) + 1 \notin DOMAIN handles
      BY <1>1, <2>5
    <2>7. handles'[Len(handles) + 1] = [slots |-> tx[t].installed, freed |-> FALSE]
      BY <2>5 DEF new
    <2>8. \A hd \in DOMAIN handles : hd \in DOMAIN handles' /\ handles'[hd] = fin[hd]
      BY <1>1, <2>5, <2>6
    <2>9. ASSUME NEW hd \in DOMAIN handles
          PROVE  /\ hd \in DOMAIN handles' /\ handles'[hd].freed = handles[hd].freed
                 /\ handles'[hd].slots = finalize_detaches(t, hd)
      BY <1>2, <2>8
    <2> QED
      BY <1>3, <1>5, <2>1, <2>6, <2>7, <2>9
  <1> QED
    BY <1>4, <1>5 DEF Finished

LEMMA FinishedClaims ==
    ASSUME HInv, NEW t \in Threads, Finished(t), UNCHANGED <<registry, dying>>,
           NEW h \in Hooks, NEW c
    PROVE  c \in Claims(h)' <=>
             \/ /\ c \in Claims(h)
                /\ \A d \in Range(tx[t].detached) : d.target.op = "slot" =>
                      c # <<"slot", d.target.handle, d.target.idx>>
             \/ /\ tx[t].phase = "c"
                /\ \E i \in DOMAIN tx[t].installed :
                      tx[t].installed[i] = h /\ c = <<"slot", Len(handles) + 1, i>>
             \/ tx[t].phase = "rust" /\ h \in Installed(t) /\ c = <<"kept", t, 0>>
  <1> DEFINE Emptied(hd, i) == \E d \in Range(tx[t].detached) :
                                  d.target = [op |-> "slot", handle |-> hd, idx |-> i]
             InSlot(x) == \E hd \in DOMAIN handles : \E i \in DOMAIN handles[hd].slots :
                             handles[hd].slots[i] = h /\ x = <<"slot", hd, i>>
             Cleared == \E d \in Range(tx[t].detached) :
                           d.target.op = "slot" /\ c = <<"slot", d.target.handle, d.target.idx>>
             Boxed == tx[t].phase = "c" /\ \E i \in DOMAIN tx[t].installed :
                         tx[t].installed[i] = h /\ c = <<"slot", Len(handles) + 1, i>>
             Held == tx[t].phase = "rust" /\ h \in Installed(t) /\ c = <<"kept", t, 0>>
             Named == \E n \in Names : registry[n] # None /\ registry[n][1] = h /\ c = <<"name", n, 0>>
             Kept == \E u \in Threads : h \in kept[u] /\ c = <<"kept", u, 0>>
             Dropped == \E u \in Threads : h \in Range(dying[u]) /\ c = <<"dying", u, 0>>
  <1>1. h # None
    BY Constants
  <1>2. \A hd, i : Emptied(hd, i) <=>
           \E d \in Range(tx[t].detached) :
               d.target.op = "slot" /\ <<"slot", hd, i>> = <<"slot", d.target.handle, d.target.idx>>
    <2>1. ASSUME NEW d \in Range(tx[t].detached), NEW hd, NEW i
          PROVE  d.target = [op |-> "slot", handle |-> hd, idx |-> i] <=>
                    /\ d.target.op = "slot"
                    /\ <<"slot", hd, i>> = <<"slot", d.target.handle, d.target.idx>>
      <3>1. d.target.op = "slot" => d.target \in [op : {"slot"}, handle : Nat, idx : Slots]
        BY InWindow, OpHook DEF HInv
      <3> QED
        BY <3>1
    <2>2. ASSUME NEW hd, NEW i, NEW d \in Range(tx[t].detached),
                 d.target = [op |-> "slot", handle |-> hd, idx |-> i]
          PROVE  \E x \in Range(tx[t].detached) :
                    x.target.op = "slot" /\ <<"slot", hd, i>> = <<"slot", x.target.handle, x.target.idx>>
      BY <2>1, <2>2
    <2>3. ASSUME NEW hd, NEW i, NEW d \in Range(tx[t].detached), d.target.op = "slot",
                 <<"slot", hd, i>> = <<"slot", d.target.handle, d.target.idx>>
          PROVE  Emptied(hd, i)
      <3>1. d.target = [op |-> "slot", handle |-> hd, idx |-> i]
        BY <2>1, <2>3
      <3> QED
        BY <3>1, Zenon
    <2>4. ASSUME NEW hd, NEW i
          PROVE  Emptied(hd, i) <=>
                   \E x \in Range(tx[t].detached) :
                      x.target.op = "slot" /\ <<"slot", hd, i>> = <<"slot", x.target.handle, x.target.idx>>
      BY <2>2, <2>3
    <2> QED
      BY <2>4
  <1>3. /\ Cleared => \E hd, i : c = <<"slot", hd, i>>
        /\ \A hd, i : c = <<"slot", hd, i>> => (Cleared <=> Emptied(hd, i))
    BY <1>2
  <1> HIDE DEF Emptied
  <1>4. \A hd \in DOMAIN handles :
           /\ hd \in DOMAIN handles' /\ DOMAIN handles'[hd].slots = DOMAIN handles[hd].slots
           /\ \A i \in DOMAIN handles[hd].slots :
                 handles'[hd].slots[i] = IF Emptied(hd, i) THEN None ELSE handles[hd].slots[i]
    BY FinishedHandles DEF Emptied
  <1>5. \/ /\ tx[t].phase = "c" /\ kept' = kept
           /\ DOMAIN handles' = DOMAIN handles \cup {Len(handles) + 1}
           /\ Len(handles) + 1 \notin DOMAIN handles
           /\ handles'[Len(handles) + 1].slots = tx[t].installed
        \/ /\ tx[t].phase = "rust" /\ DOMAIN handles' = DOMAIN handles
           /\ kept'[t] = kept[t] \cup Installed(t)
           /\ \A u \in Threads \ {t} : kept'[u] = kept[u]
    <2>1. ASSUME NEW hd, handles'[hd] = [slots |-> tx[t].installed, freed |-> FALSE]
          PROVE  handles'[hd].slots = tx[t].installed
      BY <2>1
    <2> QED
      BY <2>1, FinishedHandles, Zenon
  <1>6. (\E hd \in DOMAIN handles' : \E i \in DOMAIN handles'[hd].slots :
            handles'[hd].slots[i] = h /\ c = <<"slot", hd, i>>)
        <=> (InSlot(c) /\ ~Cleared) \/ Boxed
    <2>1. \A hd \in DOMAIN handles : \A i \in DOMAIN handles[hd].slots :
             handles'[hd].slots[i] = h <=> handles[hd].slots[i] = h /\ ~Emptied(hd, i)
      BY <1>1, <1>4
    <2>2. (\E hd \in DOMAIN handles : \E i \in DOMAIN handles'[hd].slots :
              handles'[hd].slots[i] = h /\ c = <<"slot", hd, i>>)
          <=> InSlot(c) /\ ~Cleared
      <3> HIDE DEF Cleared
      <3> QED
        BY <1>3, <1>4, <2>1
    <2>3. CASE tx[t].phase = "c"
      <3> HIDE DEF InSlot, Cleared
      <3> QED
        BY <1>5, <2>2, <2>3
    <2>4. CASE tx[t].phase = "rust"
      <3> HIDE DEF InSlot, Cleared
      <3> QED
        BY <1>5, <2>2, <2>4
    <2> HIDE DEF InSlot, Cleared, Boxed
    <2> QED
      BY <1>5, <2>3, <2>4
  <1>7. (\E u \in Threads : h \in kept'[u] /\ c = <<"kept", u, 0>>) <=> Kept \/ Held
    BY <1>5
  <1>8. c \in Claims(h)' <=> (InSlot(c) /\ ~Cleared) \/ Boxed \/ Named \/ Kept \/ Held \/ Dropped
    <2>1. Claims(h)' = Claims(h)'
      OBVIOUS
    <2>2. c \in Claims(h)' <=>
             \/ \E hd \in DOMAIN handles' : \E i \in DOMAIN handles'[hd].slots :
                    handles'[hd].slots[i] = h /\ c = <<"slot", hd, i>>
             \/ \E n \in Names :
                    registry'[n] # None /\ registry'[n][1] = h /\ c = <<"name", n, 0>>
             \/ \E u \in Threads : h \in kept'[u] /\ c = <<"kept", u, 0>>
             \/ \E u \in Threads : h \in Range(dying'[u]) /\ c = <<"dying", u, 0>>
      BY ClaimCasesNext
    <2>3. /\ (\E n \in Names :
                 registry'[n] # None /\ registry'[n][1] = h /\ c = <<"name", n, 0>>) <=> Named
          /\ (\E u \in Threads : h \in Range(dying'[u]) /\ c = <<"dying", u, 0>>) <=> Dropped
      OBVIOUS
    <2> HIDE DEF InSlot, Cleared, Boxed, Named, Kept, Held, Dropped
    <2> QED
      BY <1>6, <1>7, <2>2, <2>3
  <1>9. c \in Claims(h) <=> InSlot(c) \/ Named \/ Kept \/ Dropped
    BY ClaimCases
  <1>10. Named \/ Kept \/ Dropped => ~Cleared
    <2>1. Named => \E n : c = <<"name", n, 0>>
      OBVIOUS
    <2>2. Kept => \E u : c = <<"kept", u, 0>>
      OBVIOUS
    <2>3. Dropped => \E u : c = <<"dying", u, 0>>
      OBVIOUS
    <2> HIDE DEF Named, Kept, Dropped, Cleared
    <2> QED
      BY <1>3, <2>1, <2>2, <2>3
  <1>11. c \in Claims(h)' <=> (c \in Claims(h) /\ ~Cleared) \/ Boxed \/ Held
    <2> HIDE DEF InSlot, Cleared, Boxed, Named, Kept, Held, Dropped
    <2> QED
      BY <1>8, <1>9, <1>10
  <1>12. Cleared <=> ~\A d \in Range(tx[t].detached) : d.target.op = "slot" =>
                        c # <<"slot", d.target.handle, d.target.idx>>
    OBVIOUS
  <1> HIDE DEF Cleared
  <1> QED
    BY <1>11, <1>12

\* The owners after a commit.
LEMMA FinishedOwners ==
    ASSUME HInv, NEW t \in Threads, pc[t] = "commit_install", Finished(t),
           UNCHANGED <<registry, dying>>, NEW h \in Hooks
    PROVE  /\ h \in Installed(t) => \E c : Claims(h)' = {c}
           /\ h \in Detached(t) => \/ Claims(h)' = {}
                                   \/ Claims(h)' = Claims(h) /\ Claims(h) = {<<"kept", t, 0>>}
           /\ h \notin Installed(t) \cup Detached(t) => Claims(h)' = Claims(h)
  <1> DEFINE Cleared(c) == \E d \in Range(tx[t].detached) :
                              d.target.op = "slot" /\ c = <<"slot", d.target.handle, d.target.idx>>
             Boxed(c) == tx[t].phase = "c" /\ \E i \in DOMAIN tx[t].installed :
                            tx[t].installed[i] = h /\ c = <<"slot", Len(handles) + 1, i>>
             Held(c) == tx[t].phase = "rust" /\ h \in Installed(t) /\ c = <<"kept", t, 0>>
  <1>1. \A c : c \in Claims(h)' <=> (c \in Claims(h) /\ ~Cleared(c)) \/ Boxed(c) \/ Held(c)
    <2>1. ASSUME NEW c
          PROVE  c \in Claims(h)' <=> (c \in Claims(h) /\ ~Cleared(c)) \/ Boxed(c) \/ Held(c)
      BY FinishedClaims
    <2> QED
      BY <2>1
  <1>2. \A c : Boxed(c) \/ Held(c) => h \in Installed(t)
    BY DEF Installed, Range
  <1>3. ASSUME h \in Installed(t)
        PROVE  \E c : Claims(h)' = {c}
    <2>1. Claims(h) = {}
      BY <1>3, InWindow
    <2>2. \A c : c \in Claims(h)' <=> Boxed(c) \/ Held(c)
      BY <1>1, <2>1
    <2>3. CASE tx[t].phase = "rust"
      <3>1. \A c : c \in Claims(h)' <=> c = <<"kept", t, 0>>
        BY <1>3, <2>2, <2>3
      <3>2. Claims(h)' = {<<"kept", t, 0>>}
        BY <3>1
      <3> QED
        BY <3>2, Zenon
    <2>4. CASE tx[t].phase = "c"
      <3>1. PICK i \in DOMAIN tx[t].installed : tx[t].installed[i] = h
        BY <1>3 DEF Installed, Range
      <3>2. \A j \in DOMAIN tx[t].installed : tx[t].installed[j] = h => j = i
        BY <3>1 DEF HInv, InstalledOK, InstalledOf
      <3>3. \A c : c \in Claims(h)' <=> c = <<"slot", Len(handles) + 1, i>>
        BY <2>2, <2>4, <3>1, <3>2
      <3>4. Claims(h)' = {<<"slot", Len(handles) + 1, i>>}
        BY <3>3
      <3> QED
        BY <3>4, Zenon
    <2> QED
      BY <2>3, <2>4 DEF Finished
  <1>4. ASSUME h \notin Installed(t)
        PROVE  \A c : c \in Claims(h)' <=> c \in Claims(h) /\ ~Cleared(c)
    BY <1>1, <1>2, <1>4
  <1>5. ASSUME h \in Detached(t)
        PROVE  \/ Claims(h)' = {}
               \/ Claims(h)' = Claims(h) /\ Claims(h) = {<<"kept", t, 0>>}
    <2>1. PICK d \in Range(tx[t].detached) : d.hook = h
      BY <1>5 DEF Detached
    <2>2. h \notin Installed(t)
      BY <1>5, InWindow
    <2>3. /\ d.target.op \in {"detach", "slot"}
          /\ d.target.op = "slot" => <<"slot", d.target.handle, d.target.idx>> \in Claims(h)
          /\ d.target.op = "detach" => <<"kept", t, 0>> \in Claims(h)
      <3>1. d.target \in Ops /\ d.target.op # "attach"
        BY InWindow DEF HInv, DetachedOK, DetachedOf
      <3>2. d.target.op \in {"detach", "slot"}
        BY <3>1 DEF Ops
      <3> QED
        BY <2>1, <3>2 DEF HInv, DetachedOK, DetachedOf
    <2>4. CASE d.target.op = "slot"
      <3>1. Claims(h) = {<<"slot", d.target.handle, d.target.idx>>}
        BY <2>3, <2>4, OneClaim
      <3>2. Cleared(<<"slot", d.target.handle, d.target.idx>>)
        BY <2>4
      <3> HIDE DEF Cleared
      <3> QED
        BY <1>4, <2>2, <3>1, <3>2
    <2>5. CASE d.target.op = "detach"
      <3>1. Claims(h) = {<<"kept", t, 0>>}
        BY <2>3, <2>5, OneClaim
      <3>2. ~Cleared(<<"kept", t, 0>>)
        OBVIOUS
      <3> HIDE DEF Cleared
      <3> QED
        BY <1>4, <2>2, <3>1, <3>2
    <2> QED
      BY <2>3, <2>4, <2>5
  <1>6. ASSUME h \notin Installed(t) \cup Detached(t)
        PROVE  Claims(h)' = Claims(h)
    <2>1. ASSUME NEW c \in Claims(h), Cleared(c)
          PROVE  FALSE
      <3>1. PICK d \in Range(tx[t].detached) :
               d.target.op = "slot" /\ c = <<"slot", d.target.handle, d.target.idx>>
        BY <2>1
      <3>2. c \in Claims(d.hook)
        BY <3>1 DEF HInv, DetachedOK, DetachedOf
      <3>3. PICK hd \in DOMAIN handles : \E i \in DOMAIN handles[hd].slots :
               handles[hd].slots[i] = h /\ c = <<"slot", hd, i>>
        BY <2>1, <3>1, ClaimCases
      <3>4. PICK hd2 \in DOMAIN handles : \E i2 \in DOMAIN handles[hd2].slots :
               handles[hd2].slots[i2] = d.hook /\ c = <<"slot", hd2, i2>>
        BY <3>1, <3>2, ClaimCases
      <3>5. d.hook = h
        BY <3>3, <3>4
      <3> QED
        BY <1>6, <3>5 DEF Detached
    <2> HIDE DEF Cleared
    <2> QED
      BY <1>4, <1>6, <2>1
  <1> QED
    BY <1>3, <1>5, <1>6

LEMMA CommitDoneStep ==
    ASSUME HInv, TypeOK', NEW t \in Threads, commit_done(t)
    PROVE  HInv'
  <1>1. /\ UNCHANGED <<registry, dying, enabled, taken, regLock>>
        /\ pc[t] = "commit_install" /\ pc'[t] = "idle" /\ codeLock' = None
        /\ \A u \in Threads \ {t} : pc'[u] = pc[u]
        /\ tx' = [tx EXCEPT ![t] = NoTx]
        /\ \A h \in Hooks : active'[h] <=> active[h] /\ h \notin Detached(t)
        /\ spent' = spent \cup Detached(t)
    BY DEF commit_done, HInv, TypeOK
  <1>2. pc[t] \in WindowPcs /\ Finished(t)
    BY <1>1 DEF WindowPcs, commit_done, Finished
  <1>3. \A u \in Threads : /\ Installed(u)' = {} /\ Range(tx'[u].detached) = {}
                           /\ DOMAIN tx'[u].installed = {} /\ DOMAIN tx'[u].detached = {}
    <2>1. /\ Installed(t)' = {} /\ Range(tx'[t].detached) = {}
          /\ DOMAIN tx'[t].installed = {} /\ DOMAIN tx'[t].detached = {}
          /\ \A u \in Threads \ {t} : tx'[u] = tx[u] /\ Installed(u)' = Installed(u)
      BY <1>1, TxEnds
    <2>2. \A u \in Threads \ {t} :
             /\ Installed(u) = {} /\ Range(tx[u].detached) = {}
             /\ DOMAIN tx[u].installed = {} /\ DOMAIN tx[u].detached = {}
      BY <1>2, Alone
    <2> QED
      BY <2>1, <2>2
  <1>4. InstalledOK' /\ DetachedOK'
    BY <1>3 DEF InstalledOK, InstalledOf, DetachedOK, DetachedOf
  <1>5. \A h \in Hooks : Pending(h) => h \in Installed(t)
    BY <1>2, Alone DEF Pending
  <1>6. \A h \in Hooks : ~Pending(h)'
    BY <1>3 DEF Pending
  <1>7. WaitingOK'
    <2>1. WaitingOf(t)'
      BY <1>1, TxEnds DEF WaitingOf
    <2>2. ASSUME NEW u \in Threads \ {t}
          PROVE  WaitingOf(u)'
      <3>1. tx'[u] = tx[u] /\ Done(u)' = Done(u) /\ Installed(u)' = Installed(u)
        BY <1>1, TxEnds
      <3>2. ASSUME NEW k \in DOMAIN tx[u].queue, NEW h \in Hooks, tx[u].queue[k] = Attaching(h)
            PROVE  /\ h \notin spent' /\ Claims(h)' = {}
                   /\ Done(u) < k => ~active'[h]
                   /\ k <= Done(u) => h \in Installed(u)
        <4>1. /\ h \notin spent /\ Claims(h) = {}
              /\ Done(u) < k => ~active[h]
              /\ k <= Done(u) => h \in Installed(u)
          BY <3>2 DEF HInv, WaitingOK, WaitingOf
        <4>2. h \notin Detached(t)
          BY <4>1, InWindow
        <4>3. h \notin Installed(t)
          BY <3>2 DEF HInv, InstalledOK, InstalledOf, QueueOK, Queued, Range
        <4>4. Claims(h)' = Claims(h)
          BY <1>1, <1>2, <4>2, <4>3, FinishedOwners
        <4> QED
          BY <1>1, <4>1, <4>2, <4>4
      <3> QED
        BY <3>1, <3>2 DEF WaitingOf, Attaching
    <2> QED
      BY <2>1, <2>2 DEF WaitingOK
  <1>8. TargetsOK'
    <2>1. Queued(t)' = {} /\ \A u \in Threads \ {t} : Queued(u)' = Queued(u)
      BY <1>1, TxEnds
    <2>2. \A hd \in DOMAIN handles : hd \in DOMAIN handles' /\ handles'[hd].freed = handles[hd].freed
      BY <1>2, FinishedHandles
    <2>3. \A u \in Threads \ {t} : kept'[u] = kept[u]
      BY <1>2, FinishedHandles
    <2> QED
      BY <2>1, <2>2, <2>3 DEF HInv, TargetsOK
  <1>9. HandlesOK'
    <2>1. ASSUME NEW hd \in DOMAIN handles', handles'[hd].freed
          PROVE  handles'[hd].slots = <<>>
      <3>1. CASE hd \in DOMAIN handles
        <4>1. handles[hd].slots = <<>>
          BY <1>2, <2>1, <3>1, FinishedHandles DEF HInv, HandlesOK
        <4>2. DOMAIN handles[hd].slots = {}
          BY <4>1
        <4>3. handles'[hd].slots = finalize_detaches(t, hd)
          BY <1>2, <3>1, FinishedHandles
        <4> QED
          BY <4>2, <4>3 DEF finalize_detaches
      <3>2. CASE hd \notin DOMAIN handles
        <4>0. \/ /\ DOMAIN handles' = DOMAIN handles \cup {Len(handles) + 1}
                 /\ handles'[Len(handles) + 1] = [slots |-> tx[t].installed, freed |-> FALSE]
              \/ DOMAIN handles' = DOMAIN handles
          BY <1>2, FinishedHandles, Zenon
        <4>1. handles'[hd] = [slots |-> tx[t].installed, freed |-> FALSE]
          BY <2>1, <3>2, <4>0, Zenon
        <4> QED
          BY <2>1, <4>1
      <3> QED
        BY <3>1, <3>2
    <2> QED
      BY <2>1 DEF HandlesOK
  <1>10. ModesOK'
    <2>1. \A h \in Detached(t) : ~enabled[h]
      <3>1. \A d \in Range(tx[t].detached) : ~enabled[d.hook]
        BY <1>1 DEF HInv, DetachedOK, DetachedOf
      <3> QED
        BY <3>1 DEF Detached
    <2> QED
      BY <1>1, <2>1 DEF HInv, ModesOK
  <1>11. TakenOK'
    BY <1>1 DEF HInv, TakenOK
  <1>12. ClaimsOK'
    <2>1. ASSUME NEW h \in Hooks
          PROVE  /\ \A c, d \in Claims(h)' : c = d
                 /\ \A c \in Claims(h)' : active'[h] \/ (h \in spent' /\ c[1] = "kept")
                 /\ active'[h] => Claims(h)' # {}
      <3>0. /\ \A c, d \in Claims(h) : c = d
            /\ \A c \in Claims(h) : active[h] \/ (h \in spent /\ c[1] = "kept")
            /\ active[h] => Claims(h) # {} \/ Pending(h)
        BY DEF HInv, ClaimsOK
      <3>1. CASE h \in Installed(t)
        <4>1. active[h] /\ h \notin Detached(t)
          BY <3>1, InWindow
        <4>2. PICK c : Claims(h)' = {c}
          BY <1>1, <1>2, <3>1, FinishedOwners
        <4> QED
          BY <1>1, <4>1, <4>2
      <3>2. CASE h \in Detached(t)
        <4>1. \/ Claims(h)' = {}
              \/ Claims(h)' = {<<"kept", t, 0>>}
          BY <1>1, <1>2, <3>2, FinishedOwners
        <4> QED
          BY <1>1, <3>2, <4>1
      <3>3. CASE h \notin Installed(t) \cup Detached(t)
        <4>1. Claims(h)' = Claims(h)
          BY <1>1, <1>2, <3>3, FinishedOwners
        <4> QED
          BY <1>1, <1>5, <3>0, <3>3, <4>1
      <3> QED
        BY <3>1, <3>2, <3>3
    <2> QED
      BY <2>1 DEF ClaimsOK
  <1>13. QueueOK'
    BY <1>1, TxEnds
  <1>14. LockOK' /\ PhaseOK' /\ ToggleOK' /\ DyingOK'
    BY <1>1, <1>2, WindowEnds
  <1> QED
    BY <1>4, <1>7, <1>8, <1>9, <1>10, <1>11, <1>12, <1>13, <1>14 DEF HInv

-----------------------------------------------------------------------------
(***************************************************************************)
(* Toggling hooks                                                          *)
(***************************************************************************)

\* A hook is switched on or off while no commit is in its window.
LEMMA EnableStep ==
    ASSUME HInv, TypeOK', codeLock = None, NEW h \in Hooks, active[h],
           \A g \in Hooks \ {h} : enabled'[g] = enabled[g],
           UNCHANGED <<tx, handles, kept, registry, dying, active, spent>>
    PROVE  Core'
  <1>1. SameOps /\ \A g : Claims(g)' = Claims(g)
    BY ClaimsKept DEF SameOps
  <1>2. Core
    BY DEF HInv, Core
  <1>3. QueueOK' /\ TargetsOK' /\ HandlesOK'
    BY <1>1, <1>2, OpsKept DEF Core, QueueOK, SameOps, TargetsOK, HandlesOK
  <1>4. WaitingOK'
    BY <1>1, <1>2, OpsKept DEF Core, WaitingOK, WaitingOf, SameOps
  <1>5. ClaimsOK'
    BY <1>1, <1>2, OpsKept DEF Core, ClaimsOK
  <1>6. InstalledOK' /\ DetachedOK'
    <2>1. \A u \in Threads : /\ Installed(u)' = {} /\ Range(tx'[u].detached) = {}
                             /\ tx'[u].installed = <<>> /\ tx'[u].detached = <<>>
      BY <1>1, NoWindow, OpsKept
    <2>2. \A u \in Threads : DOMAIN tx'[u].installed = {} /\ DOMAIN tx'[u].detached = {}
      BY <2>1
    <2> QED
      BY <2>1, <2>2 DEF InstalledOK, InstalledOf, DetachedOK, DetachedOf
  <1>7. ModesOK'
    BY <1>2 DEF Core, ModesOK
  <1> QED
    BY <1>3, <1>4, <1>5, <1>6, <1>7 DEF Core

LEMMA SetEnabledStep ==
    ASSUME HInv, TypeOK', NEW t \in Threads, NEW hd \in LiveHandles, NEW i \in Slots,
           NEW on \in BOOLEAN, detours_handle_set_enabled(t, hd, i, on)
    PROVE  HInv'
  <1> DEFINE h == Slot(hd, i)
  <1>1. /\ codeLock = None /\ h # None
        /\ enabled' = [enabled EXCEPT ![h] = on]
        /\ UNCHANGED <<tx, pc, handles, kept, registry, dying, active, spent, taken,
                       codeLock, regLock>>
    BY DEF detours_handle_set_enabled, with_handle_slot
  <1>2. hd \in DOMAIN handles /\ h \in Hooks
    BY <1>1, OpHook DEF LiveHandles, HInv
  <1>3. <<"slot", hd, i>> \in Claims(h)
    BY <1>1, <1>2, ClaimCases DEF Slot
  <1>4. active[h]
    BY <1>2, <1>3, OneClaim
  <1>5. \A g \in Hooks \ {h} : enabled'[g] = enabled[g]
    BY <1>1 DEF HInv, TypeOK
  <1> HIDE DEF h
  <1>6. Core'
    BY <1>1, <1>2, <1>4, <1>5, EnableStep
  <1>7. LockOK' /\ PhaseOK' /\ ToggleOK' /\ DyingOK' /\ TakenOK'
    BY <1>1 DEF HInv, LockOK, PhaseOK, ToggleOK, DyingOK, TakenOK
  <1> QED
    BY <1>6, <1>7 DEF HInv, Core

LEMMA ToggleWriteStep ==
    ASSUME HInv, TypeOK', NEW t \in Threads, NEW n \in Names, toggle_write(t, n)
    PROVE  HInv'
  <1> DEFINE h == registry[n][1]
  <1>1. /\ pc[t] = n /\ codeLock = None /\ regLock' = None /\ pc'[t] = "idle"
        /\ \A u \in Threads \ {t} : pc'[u] = pc[u]
        /\ UNCHANGED <<tx, handles, kept, registry, dying, active, spent, taken, codeLock>>
    BY DEF toggle_write, HInv, TypeOK
  <1>2. /\ \A u \in Threads : pc[u] \in Names => u = t
        /\ registry[n] # None /\ TypeOK
    BY <1>1 DEF HInv, LockOK, ToggleOK
  <1>3. h \in Hooks /\ <<"name", n, 0>> \in Claims(h)
    BY <1>2, EntryType, ClaimCases
  <1>4. active[h]
    BY <1>3, OneClaim
  <1>5. \A g \in Hooks \ {h} : enabled'[g] = enabled[g]
    BY DEF toggle_write, HInv, TypeOK
  <1> HIDE DEF h
  <1>6. Core'
    BY <1>1, <1>3, <1>4, <1>5, EnableStep
  <1>7. "idle" \notin Names /\ "idle" \notin WindowPcs /\ n \notin Pcs
    BY Constants DEF WindowPcs
  <1>8. LockOK'
    <2>1. \A u \in Threads \ {t} : pc[u] \notin Names
      BY <1>2
    <2>2. n \notin WindowPcs
      BY <1>7, Constants
    <2> QED
      BY <1>1, <1>7, <2>1, <2>2, Constants DEF HInv, LockOK
  <1>9. PhaseOK'
    BY <1>1, <1>7, Constants DEF HInv, PhaseOK
  <1>10. ToggleOK' /\ DyingOK' /\ TakenOK'
    BY <1>1, <1>7, Constants DEF HInv, ToggleOK, DyingOK, TakenOK
  <1> QED
    BY <1>6, <1>8, <1>9, <1>10 DEF HInv, Core

-----------------------------------------------------------------------------
(***************************************************************************)
(* Moving hooks                                                            *)
(***************************************************************************)

\* A hook that a commit is detaching is claimed by the slot or by the client
\* value it was detached from.
LEMMA DetachClaims ==
    ASSUME HInv, NEW u \in Threads, NEW h \in Detached(u)
    PROVE  \/ \E o \in Queued(u) : o.op = "slot" /\ <<"slot", o.handle, o.idx>> \in Claims(h)
           \/ [op |-> "detach", hook |-> h] \in Queued(u) /\ <<"kept", u, 0>> \in Claims(h)
  <1>1. PICK d \in Range(tx[u].detached) : d.hook = h
    BY DEF Detached
  <1>2. /\ d.target \in Ops /\ d.target.op # "attach" /\ d.target \in Queued(u)
        /\ d.target.op = "slot" => <<"slot", d.target.handle, d.target.idx>> \in Claims(h)
        /\ d.target.op = "detach" => d.target.hook = h /\ <<"kept", u, 0>> \in Claims(h)
    <2>1. d.target \in Ops
      BY InWindow
    <2>2. /\ d.target.op # "attach"
          /\ \E k \in 1 .. Done(u) : k \in DOMAIN tx[u].queue /\ tx[u].queue[k] = d.target
          /\ d.target.op = "slot" => <<"slot", d.target.handle, d.target.idx>> \in Claims(h)
          /\ d.target.op = "detach" => d.target.hook = h /\ <<"kept", u, 0>> \in Claims(h)
      BY <1>1 DEF HInv, DetachedOK, DetachedOf
    <2> QED
      BY <2>1, <2>2 DEF Queued, Range
  <1>3. CASE d.target.op = "slot"
    BY <1>2, <1>3
  <1>4. CASE d.target.op # "slot"
    <2>1. d.target \in [op : {"attach", "detach"}, hook : Hooks]
      BY <1>2, <1>4, OpHook DEF HInv
    <2>2. d.target = [op |-> "detach", hook |-> h]
      BY <1>2, <2>1
    <2> QED
      BY <1>2, <2>2
  <1> QED
    BY <1>3, <1>4

\* What a call that moves hooks leaves alone.
LEMMA MoveFrame ==
    ASSUME HInv, NEW t \in Threads, pc[t] = "idle",
           pc' = pc \/ pc' = [pc EXCEPT ![t] = "drop"],
           UNCHANGED <<tx, codeLock, regLock>>,
           registry' = registry \/ regLock = None
    PROVE  /\ LockOK' /\ PhaseOK' /\ ToggleOK'
           /\ \A u \in Threads : pc'[u] = "rollback" <=> pc[u] = "rollback"
           /\ \A u \in Threads \ {t} : pc'[u] = pc[u]
  <1>1. /\ \A u \in Threads \ {t} : pc'[u] = pc[u]
        /\ pc'[t] \in {"idle", "drop"}
    BY DEF HInv, TypeOK
  <1>2. /\ {"idle", "drop"} \cap Names = {} /\ {"idle", "drop"} \cap WindowPcs = {}
        /\ None \notin Threads /\ "commit_lock" \notin {"idle", "drop"}
    BY Constants DEF WindowPcs
  <1>3. LockOK'
    BY <1>1, <1>2 DEF HInv, LockOK
  <1>4. PhaseOK'
    BY <1>1, <1>2 DEF HInv, PhaseOK
  <1>5. ToggleOK'
    <2>1. regLock = None => \A u \in Threads : pc[u] \notin Names
      BY <1>2 DEF HInv, LockOK
    <2> QED
      BY <1>1, <1>2, <2>1 DEF HInv, ToggleOK
  <1>6. \A u \in Threads : pc'[u] = "rollback" <=> pc[u] = "rollback"
    BY <1>1
  <1> QED
    BY <1>1, <1>3, <1>4, <1>5, <1>6

\* A call that drops hooks starts with an empty list.
LEMMA IdleDropsNothing ==
    ASSUME HInv, NEW t \in Threads, pc[t] = "idle"
    PROVE  dying[t] = <<>> /\ taken[t] = {} /\ Range(dying[t]) = {}
  <1>1. dying[t] = <<>> /\ taken[t] = {}
    BY DEF HInv, DyingOK
  <1> QED
    BY <1>1, EmptySeq

LEMMA FreeStep ==
    ASSUME HInv, TypeOK', NEW t \in Threads, NEW hd \in LiveHandles,
           detours_handle_unhook_and_free(t, hd)
    PROVE  HInv' /\ Moved
  <1> DEFINE s == handles[hd].slots
  <1>1. /\ pc[t] = "idle" /\ ~Pinned(hd)
        /\ UNCHANGED <<tx, kept, registry, enabled, active, spent, taken, codeLock, regLock>>
        /\ pc' = [pc EXCEPT ![t] = "drop"]
    BY DEF detours_handle_unhook_and_free
  <1>2. hd \in DOMAIN handles /\ s \in Seq(Hooks \cup {None}) /\ TypeOK
    BY HandleType DEF LiveHandles, HInv
  <1>3. /\ dying'[t] = s /\ \A u \in Threads \ {t} : dying'[u] = dying[u]
        /\ DOMAIN handles' = DOMAIN handles
        /\ handles'[hd].slots = <<>> /\ handles'[hd].freed
        /\ \A x \in DOMAIN handles \ {hd} : handles'[x] = handles[x]
    <2>1. /\ handles' = [handles EXCEPT ![hd] = [slots |-> <<>>, freed |-> TRUE]]
          /\ dying' = [dying EXCEPT ![t] = s]
      BY DEF detours_handle_unhook_and_free
    <2>2. dying'[t] = s /\ \A u \in Threads \ {t} : dying'[u] = dying[u]
      BY <1>2, <2>1 DEF TypeOK
    <2>3. /\ DOMAIN handles' = DOMAIN handles
          /\ handles'[hd] = [slots |-> <<>>, freed |-> TRUE]
          /\ \A x \in DOMAIN handles \ {hd} : handles'[x] = handles[x]
      BY <1>2, <2>1
    <2> QED
      BY <2>2, <2>3
  <1>4. dying[t] = <<>> /\ taken[t] = {} /\ Range(dying[t]) = {}
    BY <1>1, IdleDropsNothing
  <1> HIDE DEF s
  <1>5. \A h : h \in Range(s) <=> \E i \in DOMAIN s : s[i] = h
    BY DEF Range
  <1>6. ASSUME NEW h \in Hooks, h \in Range(s)
        PROVE  /\ \A u \in Threads : h \notin Detached(u)
               /\ active[h] /\ Movable(h) /\ Claims(h)' = {<<"dying", t, 0>>}
    <2>1. PICK i \in DOMAIN s : s[i] = h
      BY <1>5, <1>6
    <2>2. <<"slot", hd, i>> \in Claims(h)
      BY <1>2, <2>1, ClaimCases DEF s
    <2>3. /\ active[h]
          /\ Claims(h) = {<<"slot", hd, i>>}
          /\ \A x \in DOMAIN handles \ {hd} : \A k \in DOMAIN handles[x].slots :
                handles[x].slots[k] # h
          /\ \A n \in Names : registry[n] # None => registry[n][1] # h
          /\ \A u \in Threads : h \notin kept[u]
          /\ \A u \in Threads : h \notin Range(dying[u])
      BY <2>2, OneClaim
    <2>4. ASSUME NEW u \in Threads, h \in Detached(u)
          PROVE  FALSE
      <3>1. PICK o \in Queued(u) : o.op = "slot" /\ <<"slot", o.handle, o.idx>> \in Claims(h)
        BY <2>3, <2>4, DetachClaims
      <3>2. o.handle = hd
        BY <2>3, <3>1
      <3> QED
        BY <1>1, <3>1, <3>2 DEF Pinned
    <2>5. \A x \in DOMAIN handles' : \A k \in DOMAIN handles'[x].slots : handles'[x].slots[k] # h
      <3>1. DOMAIN handles'[hd].slots = {}
        BY <1>3
      <3> QED
        BY <1>3, <2>3, <3>1
    <2>6. \A u \in Threads : h \in Range(dying'[u]) <=> u = t
      BY <1>3, <1>6, <2>3
    <2>7. \A c : c \in Claims(h)' <=> c = <<"dying", t, 0>>
      <3>1. ASSUME NEW c
            PROVE  c \in Claims(h)' <=> c = <<"dying", t, 0>>
        BY <1>1, <2>3, <2>5, <2>6, ClaimCasesNext
      <3> QED
        BY <3>1
    <2>8. Movable(h)
      BY <2>3, MovableKinds
    <2>9. Claims(h)' = {<<"dying", t, 0>>}
      BY <2>7
    <2> QED
      BY <2>3, <2>4, <2>8, <2>9
  <1>7. ASSUME NEW h \in Hooks, h \notin Range(s)
        PROVE  Claims(h)' = Claims(h)
    <2>1. ASSUME NEW c
          PROVE  c \in Claims(h)' <=> c \in Claims(h)
      <3>1. (\E x \in DOMAIN handles' : \E k \in DOMAIN handles'[x].slots :
                handles'[x].slots[k] = h /\ c = <<"slot", x, k>>)
            <=> (\E x \in DOMAIN handles : \E k \in DOMAIN handles[x].slots :
                handles[x].slots[k] = h /\ c = <<"slot", x, k>>)
        <4>1. DOMAIN handles'[hd].slots = {}
          BY <1>3
        <4>2. \A k \in DOMAIN handles[hd].slots : handles[hd].slots[k] # h
          BY <1>5, <1>7 DEF s
        <4> QED
          BY <1>2, <1>3, <4>1, <4>2
      <3>2. \A u \in Threads : h \in Range(dying'[u]) <=> h \in Range(dying[u])
        BY <1>3, <1>4, <1>7
      <3> QED
        BY <1>1, <3>1, <3>2, ClaimCases, ClaimCasesNext
    <2> QED
      BY <2>1
  <1>8. TargetsOK'
    <2>1. \A u \in Threads : \A o \in Queued(u) : o.op = "slot" => o.handle # hd
      BY <1>1 DEF Pinned
    <2>2. \A u \in Threads : Queued(u)' = Queued(u)
      BY <1>1 DEF Queued
    <2> QED
      BY <1>1, <1>3, <2>1, <2>2 DEF HInv, TargetsOK
  <1>9. HandlesOK'
    BY <1>3 DEF HInv, HandlesOK
  <1>10. /\ LockOK' /\ PhaseOK' /\ ToggleOK'
         /\ \A u \in Threads : pc'[u] = "rollback" <=> pc[u] = "rollback"
         /\ \A u \in Threads \ {t} : pc'[u] = pc[u]
    BY <1>1, MoveFrame
  <1>11. Core' /\ Moved
    <2>1. Moved
      BY <1>6, <1>7 DEF Moved
    <2> QED
      BY <1>1, <1>8, <1>9, <1>10, <2>1, MoveStep
  <1>12. DyingOK'
    <2>1. \A j, k \in DOMAIN s : s[j] = s[k] /\ s[j] # None => j = k
      <3>1. ASSUME NEW j \in DOMAIN s, NEW k \in DOMAIN s, s[j] = s[k], s[j] # None
            PROVE  j = k
        <4>1. s[j] \in Hooks
          BY <1>2, <3>1 DEF s
        <4>2. <<"slot", hd, j>> \in Claims(s[j]) /\ <<"slot", hd, k>> \in Claims(s[j])
          BY <1>2, <3>1, ClaimCases DEF s
        <4>3. <<"slot", hd, j>> = <<"slot", hd, k>>
          BY <4>1, <4>2 DEF HInv, ClaimsOK
        <4> QED
          BY <4>3
      <3> QED
        BY <3>1
    <2>2. pc'[t] = "drop"
      BY <1>1 DEF HInv, TypeOK
    <2> QED
      BY <1>1, <1>3, <1>10, <2>1, <2>2 DEF HInv, DyingOK
  <1>13. TakenOK'
    BY <1>1, <1>3, <1>4 DEF HInv, TakenOK
  <1> QED
    BY <1>10, <1>11, <1>12, <1>13 DEF HInv, Core

LEMMA DropKeptStep ==
    ASSUME HInv, TypeOK', NEW t \in Threads, NEW h \in Hooks, drop_kept(t, h)
    PROVE  HInv' /\ Moved
  <1>1. /\ pc[t] = "idle" /\ h \in kept[t] /\ ~Borrowed(h)
        /\ UNCHANGED <<tx, handles, registry, enabled, active, spent, taken, codeLock, regLock>>
        /\ pc' = [pc EXCEPT ![t] = "drop"] /\ pc'[t] = "drop"
        /\ kept'[t] = kept[t] \ {h} /\ \A u \in Threads \ {t} : kept'[u] = kept[u]
        /\ dying'[t] = IF active[h] THEN <<h>> ELSE <<>>
        /\ \A u \in Threads \ {t} : dying'[u] = dying[u]
    BY DEF drop_kept, HInv, TypeOK
  <1>2. dying[t] = <<>> /\ taken[t] = {} /\ Range(dying[t]) = {}
    BY <1>1, IdleDropsNothing
  <1>3. Range(<<h>>) = {h} /\ Range(<<>>) = {} /\ DOMAIN <<h>> = {1} /\ DOMAIN <<>> = {}
    BY DEF Range
  <1>4. /\ Range(dying'[t]) = IF active[h] THEN {h} ELSE {}
        /\ DOMAIN dying'[t] \subseteq {1}
    BY <1>1, <1>3
  <1>5. <<"kept", t, 0>> \in Claims(h)
    BY <1>1, ClaimCases
  <1>6. /\ Claims(h) = {<<"kept", t, 0>>} /\ (active[h] \/ h \in spent)
        /\ \A x \in DOMAIN handles : \A k \in DOMAIN handles[x].slots : handles[x].slots[k] # h
        /\ \A n \in Names : registry[n] # None => registry[n][1] # h
        /\ \A u \in Threads : h \in kept[u] => u = t
        /\ \A u \in Threads : h \notin Range(dying[u])
    BY <1>5, OneClaim
  <1>7. ASSUME NEW u \in Threads, h \in Detached(u)
        PROVE  FALSE
    BY <1>1, <1>6, <1>7, DetachClaims DEF Borrowed
  <1>8. IF active[h] THEN Claims(h)' = {<<"dying", t, 0>>} ELSE Claims(h)' = {}
    <2>1. \A u \in Threads : h \notin kept'[u]
      BY <1>1, <1>6
    <2>2. \A u \in Threads : h \in Range(dying'[u]) <=> u = t /\ active[h]
      BY <1>1, <1>4, <1>6
    <2>3. \A c : c \in Claims(h)' <=> c = <<"dying", t, 0>> /\ active[h]
      <3>1. ASSUME NEW c
            PROVE  c \in Claims(h)' <=> c = <<"dying", t, 0>> /\ active[h]
        BY <1>1, <1>6, <2>1, <2>2, ClaimCasesNext
      <3> QED
        BY <3>1
    <2> QED
      BY <2>3
  <1>9. ASSUME NEW g \in Hooks, g # h
        PROVE  Claims(g)' = Claims(g)
    <2>1. \A u \in Threads : /\ g \in kept'[u] <=> g \in kept[u]
                             /\ g \in Range(dying'[u]) <=> g \in Range(dying[u])
      BY <1>1, <1>2, <1>4, <1>9
    <2>2. ASSUME NEW c
          PROVE  c \in Claims(g)' <=> c \in Claims(g)
      BY <1>1, <2>1, ClaimCases, ClaimCasesNext
    <2> QED
      BY <2>2
  <1>10. TargetsOK' /\ HandlesOK'
    <2>1. ASSUME NEW u \in Threads, NEW o \in Queued(u), o.op = "detach", o.hook = h
          PROVE  FALSE
      <3>1. o \in Ops
        BY TxParts, RangeOfSeq DEF HInv, Queued
      <3>2. o \in [op : {"attach", "detach"}, hook : Hooks]
        BY <2>1, <3>1, OpHook DEF HInv
      <3>3. o = [op |-> "detach", hook |-> h]
        BY <2>1, <3>2
      <3> QED
        BY <1>1, <3>3 DEF Borrowed
    <2>2. \A u \in Threads : Queued(u)' = Queued(u)
      BY <1>1 DEF Queued
    <2>3. \A u \in Threads : \A g \in kept[u] : g # h => g \in kept'[u]
      BY <1>1
    <2> QED
      BY <1>1, <2>1, <2>2, <2>3 DEF HInv, TargetsOK, HandlesOK
  <1>11. /\ LockOK' /\ PhaseOK' /\ ToggleOK'
         /\ \A u \in Threads : pc'[u] = "rollback" <=> pc[u] = "rollback"
         /\ \A u \in Threads \ {t} : pc'[u] = pc[u]
    BY <1>1, MoveFrame
  <1>12. Core' /\ Moved
    <2>1. Moved
      BY <1>6, <1>7, <1>8, <1>9, MovableKinds DEF Moved
    <2> QED
      BY <1>1, <1>10, <1>11, <2>1, MoveStep
  <1>13. DyingOK'
    BY <1>1, <1>4, <1>11 DEF HInv, DyingOK
  <1>14. TakenOK'
    BY <1>1, <1>2 DEF HInv, TakenOK
  <1> QED
    BY <1>11, <1>12, <1>13, <1>14 DEF HInv, Core

\* The registry owns the hook of an entry.
LEMMA NameOwner ==
    ASSUME HInv, NEW n \in Names, registry[n] # None, NEW h, h = registry[n][1]
    PROVE  /\ h \in Hooks /\ active[h] /\ Claims(h) = {<<"name", n, 0>>}
           /\ \A hd \in DOMAIN handles : \A k \in DOMAIN handles[hd].slots : handles[hd].slots[k] # h
           /\ \A m \in Names \ {n} : registry[m] # None => registry[m][1] # h
           /\ \A u \in Threads : h \notin kept[u] /\ h \notin Range(dying[u]) /\ h \notin Detached(u)
  <1>1. h \in Hooks /\ <<"name", n, 0>> \in Claims(h)
    BY EntryType, ClaimCases DEF HInv
  <1>2. /\ active[h] /\ Claims(h) = {<<"name", n, 0>>}
        /\ \A hd \in DOMAIN handles : \A k \in DOMAIN handles[hd].slots : handles[hd].slots[k] # h
        /\ \A m \in Names \ {n} : registry[m] # None => registry[m][1] # h
        /\ \A u \in Threads : h \notin kept[u] /\ h \notin Range(dying[u])
    BY <1>1, OneClaim
  <1>3. ASSUME NEW u \in Threads, h \in Detached(u)
        PROVE  FALSE
    BY <1>2, <1>3, DetachClaims
  <1> QED
    BY <1>1, <1>2, <1>3

LEMMA TakeStep ==
    ASSUME HInv, TypeOK', NEW t \in Threads, NEW n \in Names, take(t, n)
    PROVE  HInv' /\ Moved
  <1>0. PICK h : h = registry[n][1]
    OBVIOUS
  <1>1. /\ pc[t] = "idle" /\ regLock = None /\ registry[n] # None
        /\ UNCHANGED <<tx, pc, handles, dying, enabled, active, spent, taken, codeLock, regLock>>
        /\ registry'[n] = None /\ \A m \in Names \ {n} : registry'[m] = registry[m]
        /\ kept'[t] = kept[t] \cup {h} /\ \A u \in Threads \ {t} : kept'[u] = kept[u]
    BY <1>0 DEF take, HInv, TypeOK
  <1>2. /\ h \in Hooks /\ active[h] /\ Claims(h) = {<<"name", n, 0>>}
        /\ \A hd \in DOMAIN handles : \A k \in DOMAIN handles[hd].slots : handles[hd].slots[k] # h
        /\ \A m \in Names \ {n} : registry[m] # None => registry[m][1] # h
        /\ \A u \in Threads : h \notin kept[u] /\ h \notin Range(dying[u]) /\ h \notin Detached(u)
    BY <1>0, <1>1, NameOwner
  <1>3. Claims(h)' = {<<"kept", t, 0>>}
    <2>1. \A u \in Threads : h \in kept'[u] <=> u = t
      BY <1>1, <1>2
    <2>2. \A m \in Names : registry'[m] # None => registry'[m][1] # h
      BY <1>1, <1>2
    <2>3. ASSUME NEW c
          PROVE  c \in Claims(h)' <=> c = <<"kept", t, 0>>
      BY <1>1, <1>2, <2>1, <2>2, ClaimCasesNext
    <2> QED
      BY <2>3
  <1>4. ASSUME NEW g \in Hooks, g # h
        PROVE  Claims(g)' = Claims(g)
    <2>1. \A u \in Threads : g \in kept'[u] <=> g \in kept[u]
      BY <1>1, <1>4
    <2>2. \A m \in Names : (registry'[m] # None /\ registry'[m][1] = g)
                              <=> (registry[m] # None /\ registry[m][1] = g)
      BY <1>0, <1>1, <1>4
    <2>3. ASSUME NEW c
          PROVE  c \in Claims(g)' <=> c \in Claims(g)
      BY <1>1, <2>1, <2>2, ClaimCases, ClaimCasesNext
    <2> QED
      BY <2>3
  <1>5. TargetsOK' /\ HandlesOK'
    <2>1. \A u \in Threads : Queued(u)' = Queued(u) /\ kept[u] \subseteq kept'[u]
      BY <1>1 DEF Queued
    <2> QED
      BY <1>1, <2>1 DEF HInv, TargetsOK, HandlesOK
  <1>6. /\ LockOK' /\ PhaseOK' /\ ToggleOK'
        /\ \A u \in Threads : pc'[u] = "rollback" <=> pc[u] = "rollback"
    BY <1>1, MoveFrame
  <1>7. Core' /\ Moved
    <2>1. Moved
      BY <1>2, <1>3, <1>4, MovableKinds DEF Moved
    <2> QED
      BY <1>1, <1>5, <1>6, <2>1, MoveStep
  <1>8. DyingOK' /\ TakenOK'
    BY <1>1 DEF HInv, DyingOK, TakenOK
  <1> QED
    BY <1>6, <1>7, <1>8 DEF HInv, Core

LEMMA UnhookStep ==
    ASSUME HInv, TypeOK', NEW t \in Threads, NEW n \in Names, unhook(t, n)
    PROVE  HInv' /\ Moved
  <1>0. PICK h : h = registry[n][1]
    OBVIOUS
  <1>1. /\ pc[t] = "idle" /\ regLock = None /\ registry[n] # None
        /\ UNCHANGED <<tx, handles, kept, enabled, active, spent, taken, codeLock, regLock>>
        /\ pc' = [pc EXCEPT ![t] = "drop"] /\ pc'[t] = "drop"
        /\ registry'[n] = None /\ \A m \in Names \ {n} : registry'[m] = registry[m]
        /\ dying'[t] = <<h>> /\ \A u \in Threads \ {t} : dying'[u] = dying[u]
    BY <1>0 DEF unhook, HInv, TypeOK
  <1>2. /\ h \in Hooks /\ active[h] /\ Claims(h) = {<<"name", n, 0>>}
        /\ \A hd \in DOMAIN handles : \A k \in DOMAIN handles[hd].slots : handles[hd].slots[k] # h
        /\ \A m \in Names \ {n} : registry[m] # None => registry[m][1] # h
        /\ \A u \in Threads : h \notin kept[u] /\ h \notin Range(dying[u]) /\ h \notin Detached(u)
    BY <1>0, <1>1, NameOwner
  <1>3. dying[t] = <<>> /\ taken[t] = {} /\ Range(dying[t]) = {}
    BY <1>1, IdleDropsNothing
  <1>4. Range(dying'[t]) = {h} /\ DOMAIN dying'[t] = {1}
    <2>1. Range(<<h>>) = {h} /\ DOMAIN <<h>> = {1}
      BY DEF Range
    <2> QED
      BY <1>1, <2>1
  <1>5. Claims(h)' = {<<"dying", t, 0>>}
    <2>1. \A u \in Threads : h \in Range(dying'[u]) <=> u = t
      BY <1>1, <1>2, <1>4
    <2>2. \A m \in Names : registry'[m] # None => registry'[m][1] # h
      BY <1>1, <1>2
    <2>3. ASSUME NEW c
          PROVE  c \in Claims(h)' <=> c = <<"dying", t, 0>>
      BY <1>1, <1>2, <2>1, <2>2, ClaimCasesNext
    <2> QED
      BY <2>3
  <1>6. ASSUME NEW g \in Hooks, g # h
        PROVE  Claims(g)' = Claims(g)
    <2>1. \A u \in Threads : g \in Range(dying'[u]) <=> g \in Range(dying[u])
      BY <1>1, <1>3, <1>4, <1>6
    <2>2. \A m \in Names : (registry'[m] # None /\ registry'[m][1] = g)
                              <=> (registry[m] # None /\ registry[m][1] = g)
      BY <1>0, <1>1, <1>6
    <2>3. ASSUME NEW c
          PROVE  c \in Claims(g)' <=> c \in Claims(g)
      BY <1>1, <2>1, <2>2, ClaimCases, ClaimCasesNext
    <2> QED
      BY <2>3
  <1>7. TargetsOK' /\ HandlesOK'
    <2>1. \A u \in Threads : Queued(u)' = Queued(u)
      BY <1>1 DEF Queued
    <2> QED
      BY <1>1, <2>1 DEF HInv, TargetsOK, HandlesOK
  <1>8. /\ LockOK' /\ PhaseOK' /\ ToggleOK'
        /\ \A u \in Threads : pc'[u] = "rollback" <=> pc[u] = "rollback"
        /\ \A u \in Threads \ {t} : pc'[u] = pc[u]
    BY <1>1, MoveFrame
  <1>9. Core' /\ Moved
    <2>1. Moved
      BY <1>2, <1>5, <1>6, MovableKinds DEF Moved
    <2> QED
      BY <1>1, <1>7, <1>8, <2>1, MoveStep
  <1>10. DyingOK'
    BY <1>1, <1>4, <1>8 DEF HInv, DyingOK
  <1>11. TakenOK'
    BY <1>1, <1>3 DEF HInv, TakenOK
  <1> QED
    BY <1>8, <1>9, <1>10, <1>11 DEF HInv, Core

LEMMA RegisterStep ==
    ASSUME HInv, TypeOK', NEW t \in Threads, NEW n \in Names, NEW h \in Hooks, register(t, n, h)
    PROVE  HInv' /\ Moved
  <1>1. /\ pc[t] = "idle" /\ regLock = None /\ h \in kept[t] /\ ~Borrowed(h) /\ active[h]
        /\ UNCHANGED <<tx, pc, handles, dying, enabled, active, spent, taken, codeLock, regLock>>
        /\ registry'[n] = <<h, next_seq>> /\ \A m \in Names \ {n} : registry'[m] = registry[m]
        /\ kept'[t] = (kept[t] \ {h}) \cup Previous(n)
        /\ \A u \in Threads \ {t} : kept'[u] = kept[u]
    BY DEF register, Entry, HInv, TypeOK
  <1>2. registry'[n] # None /\ registry'[n][1] = h
    <2>1. registry'[n] \in Hooks \X Nat
      BY <1>1, Constants DEF HInv, TypeOK
    <2> QED
      BY <1>1, <2>1, Constants
  <1>3. <<"kept", t, 0>> \in Claims(h)
    BY <1>1, ClaimCases
  <1>4. /\ Claims(h) = {<<"kept", t, 0>>}
        /\ \A x \in DOMAIN handles : \A k \in DOMAIN handles[x].slots : handles[x].slots[k] # h
        /\ \A m \in Names : registry[m] # None => registry[m][1] # h
        /\ \A u \in Threads : h \in kept[u] => u = t
        /\ \A u \in Threads : h \notin Range(dying[u])
    BY <1>3, OneClaim
  <1>5. ASSUME NEW u \in Threads, h \in Detached(u)
        PROVE  FALSE
    <2>1. [op |-> "detach", hook |-> h] \in Queued(u)
      BY <1>4, <1>5, DetachClaims
    <2> QED
      BY <1>1, <2>1 DEF Borrowed
  <1>6. \A g : g \in Previous(n) <=> registry[n] # None /\ registry[n][1] = g
    BY DEF Previous
  <1>7. Claims(h)' = {<<"name", n, 0>>}
    <2>1. \A u \in Threads : h \notin kept'[u]
      BY <1>1, <1>4, <1>6
    <2>2. \A m \in Names : (registry'[m] # None /\ registry'[m][1] = h) <=> m = n
      BY <1>1, <1>2, <1>4
    <2>3. ASSUME NEW c
          PROVE  c \in Claims(h)' <=> c = <<"name", n, 0>>
      BY <1>1, <1>4, <2>1, <2>2, ClaimCasesNext
    <2> QED
      BY <2>3
  <1>8. ASSUME NEW g \in Hooks, g \in Previous(n)
        PROVE  /\ active[g] /\ Movable(g) /\ Claims(g)' = {<<"kept", t, 0>>}
               /\ \A u \in Threads : g \notin Detached(u)
    <2>1. /\ active[g] /\ Claims(g) = {<<"name", n, 0>>}
          /\ \A hd \in DOMAIN handles : \A k \in DOMAIN handles[hd].slots : handles[hd].slots[k] # g
          /\ \A m \in Names \ {n} : registry[m] # None => registry[m][1] # g
          /\ \A u \in Threads : g \notin kept[u] /\ g \notin Range(dying[u]) /\ g \notin Detached(u)
      BY <1>6, <1>8, NameOwner
    <2>2. \A u \in Threads : g \in kept'[u] <=> u = t
      BY <1>1, <1>8, <2>1
    <2>3. g # h
      BY <1>1, <2>1
    <2>4. \A m \in Names : registry'[m] # None => registry'[m][1] # g
      BY <1>1, <1>2, <2>1, <2>3
    <2>5. ASSUME NEW c
          PROVE  c \in Claims(g)' <=> c = <<"kept", t, 0>>
      BY <1>1, <2>1, <2>2, <2>4, ClaimCasesNext
    <2> QED
      BY <2>1, <2>5, MovableKinds
  <1>9. ASSUME NEW g \in Hooks, g # h, g \notin Previous(n)
        PROVE  Claims(g)' = Claims(g)
    <2>1. \A u \in Threads : g \in kept'[u] <=> g \in kept[u]
      BY <1>1, <1>9
    <2>2. \A m \in Names : (registry'[m] # None /\ registry'[m][1] = g)
                              <=> (registry[m] # None /\ registry[m][1] = g)
      BY <1>1, <1>2, <1>6, <1>9
    <2>3. ASSUME NEW c
          PROVE  c \in Claims(g)' <=> c \in Claims(g)
      BY <1>1, <2>1, <2>2, ClaimCases, ClaimCasesNext
    <2> QED
      BY <2>3
  <1>10. TargetsOK' /\ HandlesOK'
    <2>1. ASSUME NEW u \in Threads, NEW o \in Queued(u), o.op = "detach", o.hook = h
          PROVE  FALSE
      <3>1. o \in Ops
        BY TxParts, RangeOfSeq DEF HInv, Queued
      <3>2. o \in [op : {"attach", "detach"}, hook : Hooks]
        BY <2>1, <3>1, OpHook DEF HInv
      <3>3. o = [op |-> "detach", hook |-> h]
        BY <2>1, <3>2
      <3> QED
        BY <1>1, <3>3 DEF Borrowed
    <2>2. \A u \in Threads : Queued(u)' = Queued(u)
      BY <1>1 DEF Queued
    <2>3. \A u \in Threads : \A g \in kept[u] : g # h => g \in kept'[u]
      BY <1>1
    <2> QED
      BY <1>1, <2>1, <2>2, <2>3 DEF HInv, TargetsOK, HandlesOK
  <1>11. /\ LockOK' /\ PhaseOK' /\ ToggleOK'
         /\ \A u \in Threads : pc'[u] = "rollback" <=> pc[u] = "rollback"
    BY <1>1, MoveFrame
  <1>12. Core' /\ Moved
    <2>1. Movable(h)
      BY <1>4, MovableKinds
    <2>2. Moved
      BY <1>1, <1>4, <1>5, <1>7, <1>8, <1>9, <2>1 DEF Moved
    <2> QED
      BY <1>1, <1>10, <1>11, <2>2, MoveStep
  <1>13. DyingOK' /\ TakenOK'
    BY <1>1 DEF HInv, DyingOK, TakenOK
  <1> QED
    BY <1>11, <1>12, <1>13 DEF HInv, Core

LEMMA UnhookAllStep ==
    ASSUME HInv, TypeOK', NEW t \in Threads, unhook_all(t)
    PROVE  HInv' /\ Moved
  <1> DEFINE N == Cardinality(Entries)
  <1>0. PICK s \in Newest(Entries) : dying' = [dying EXCEPT ![t] = [k \in 1 .. N |-> s[k][1]]]
    BY DEF unhook_all
  <1>1. /\ pc[t] = "idle" /\ regLock = None
        /\ UNCHANGED <<tx, handles, kept, enabled, active, spent, codeLock, regLock>>
        /\ pc' = [pc EXCEPT ![t] = "drop"] /\ pc'[t] = "drop"
        /\ \A m \in Names : registry'[m] = None
        /\ dying'[t] = [k \in 1 .. N |-> s[k][1]] /\ \A u \in Threads \ {t} : dying'[u] = dying[u]
        /\ taken'[t] = Entries /\ \A u \in Threads \ {t} : taken'[u] = taken[u]
    BY <1>0 DEF unhook_all, HInv, TypeOK
  <1>2. /\ N \in Nat /\ Entries \subseteq Hooks \X (0 .. MaxSeq)
        /\ \A k \in 1 .. N : s[k] \in Entries /\ s[k][1] \in Hooks /\ s[k][2] \in Nat
        /\ \A e \in Entries : \E k \in 1 .. N : s[k] = e
        /\ \A j, k \in 1 .. N : j < k => s[j][2] > s[k][2]
    BY NewestOrder DEF HInv
  <1>3. dying[t] = <<>> /\ taken[t] = {} /\ Range(dying[t]) = {}
    BY <1>1, IdleDropsNothing
  <1> HIDE DEF N
  <1>4. DOMAIN dying'[t] = 1 .. N /\ \A k \in 1 .. N : dying'[t][k] = s[k][1]
    BY <1>1
  <1>5. \A h : h \in Range(dying'[t]) <=> \E m \in Names : registry[m] # None /\ registry[m][1] = h
    <2>1. \A h : h \in Range(dying'[t]) <=> \E k \in 1 .. N : s[k][1] = h
      BY <1>4 DEF Range
    <2>2. \A h : (\E k \in 1 .. N : s[k][1] = h) <=> \E e \in Entries : e[1] = h
      BY <1>2
    <2> QED
      BY <2>1, <2>2 DEF Entries
  <1>6. ASSUME NEW h \in Hooks, h \in Range(dying'[t])
        PROVE  /\ active[h] /\ Movable(h) /\ Claims(h)' = {<<"dying", t, 0>>}
               /\ \A u \in Threads : h \notin Detached(u)
    <2>1. PICK n \in Names : registry[n] # None /\ registry[n][1] = h
      BY <1>5, <1>6
    <2>2. /\ active[h] /\ Claims(h) = {<<"name", n, 0>>}
          /\ \A hd \in DOMAIN handles : \A k \in DOMAIN handles[hd].slots : handles[hd].slots[k] # h
          /\ \A u \in Threads : h \notin kept[u] /\ h \notin Range(dying[u]) /\ h \notin Detached(u)
      BY <2>1, NameOwner
    <2>3. \A u \in Threads : h \in Range(dying'[u]) <=> u = t
      BY <1>1, <1>6, <2>2
    <2>4. ASSUME NEW c
          PROVE  c \in Claims(h)' <=> c = <<"dying", t, 0>>
      BY <1>1, <2>2, <2>3, ClaimCasesNext
    <2> QED
      BY <2>2, <2>4, MovableKinds
  <1>7. ASSUME NEW h \in Hooks, h \notin Range(dying'[t])
        PROVE  Claims(h)' = Claims(h)
    <2>1. \A u \in Threads : h \in Range(dying'[u]) <=> h \in Range(dying[u])
      BY <1>1, <1>3, <1>7
    <2>2. \A m \in Names : /\ ~(registry'[m] # None /\ registry'[m][1] = h)
                           /\ ~(registry[m] # None /\ registry[m][1] = h)
      BY <1>1, <1>5, <1>7
    <2>3. ASSUME NEW c
          PROVE  c \in Claims(h)' <=> c \in Claims(h)
      BY <1>1, <2>1, <2>2, ClaimCases, ClaimCasesNext
    <2> QED
      BY <2>3
  <1>8. TargetsOK' /\ HandlesOK'
    <2>1. \A u \in Threads : Queued(u)' = Queued(u)
      BY <1>1 DEF Queued
    <2> QED
      BY <1>1, <2>1 DEF HInv, TargetsOK, HandlesOK
  <1>9. /\ LockOK' /\ PhaseOK' /\ ToggleOK'
        /\ \A u \in Threads : pc'[u] = "rollback" <=> pc[u] = "rollback"
        /\ \A u \in Threads \ {t} : pc'[u] = pc[u]
    BY <1>1, MoveFrame
  <1>10. Core' /\ Moved
    <2>1. Moved
      BY <1>6, <1>7 DEF Moved
    <2> QED
      BY <1>1, <1>8, <1>9, <2>1, MoveStep
  <1>11. \A j, k \in 1 .. N : s[j][1] = s[k][1] => j = k
    <2>1. ASSUME NEW j \in 1 .. N, NEW k \in 1 .. N, s[j][1] = s[k][1]
          PROVE  j = k
      <3>1. PICK m \in Names : registry[m] # None /\ registry[m] = s[j]
        BY <1>2 DEF Entries
      <3>2. PICK n \in Names : registry[n] # None /\ registry[n] = s[k]
        BY <1>2 DEF Entries
      <3>3. m = n
        BY <2>1, <3>1, <3>2, NameOwner
      <3>4. s[j][2] = s[k][2] /\ s[j][2] \in Nat
        BY <1>2, <3>1, <3>2, <3>3
      <3> QED
        BY <1>2, <3>4
    <2> QED
      BY <2>1
  <1>12. DyingOK'
    <2>1. ASSUME NEW u \in Threads \ {t}
          PROVE  /\ pc'[u] # "drop" => dying'[u] = <<>> /\ taken'[u] = {}
                 /\ \A j, k \in DOMAIN dying'[u] :
                       dying'[u][j] = dying'[u][k] /\ dying'[u][j] # None => j = k
      BY <1>1, <1>9 DEF HInv, DyingOK
    <2>2. \A j, k \in DOMAIN dying'[t] : dying'[t][j] = dying'[t][k] => j = k
      BY <1>4, <1>11
    <2> QED
      BY <1>1, <2>1, <2>2 DEF DyingOK
  <1>13. TakenOK'
    <2>1. ASSUME NEW a \in Entries, NEW b \in Entries, NEW j \in 1 .. N, b[2] > a[2], s[j][1] = b[1]
          PROVE  \E k \in 1 .. N : k > j /\ s[k][1] = a[1]
      <3>1. PICK k \in 1 .. N : s[k] = a
        BY <1>2
      <3>2. PICK i \in 1 .. N : s[i] = b
        BY <1>2
      <3>3. i = j
        BY <1>11, <2>1, <3>2
      <3>4. a[2] \in Nat /\ b[2] \in Nat
        BY <1>2, <3>1, <3>2
      <3>5. k > j
        BY <1>2, <2>1, <3>1, <3>2, <3>3, <3>4
      <3> QED
        BY <3>1, <3>5
    <2>2. \A a \in Entries : a[1] \in Range(dying'[t])
      BY <1>5 DEF Entries
    <2>3. ASSUME NEW u \in Threads \ {t}, NEW a \in taken'[u]
          PROVE  /\ a[1] \in spent' \/ a[1] \in Range(dying'[u])
                 /\ \A b \in taken'[u], j \in DOMAIN dying'[u] :
                       b[2] > a[2] /\ dying'[u][j] = b[1] =>
                           \E k \in DOMAIN dying'[u] : k > j /\ dying'[u][k] = a[1]
      BY <1>1 DEF HInv, TakenOK
    <2>4. ASSUME NEW a \in taken'[t]
          PROVE  /\ a[1] \in spent' \/ a[1] \in Range(dying'[t])
                 /\ \A b \in taken'[t], j \in DOMAIN dying'[t] :
                       b[2] > a[2] /\ dying'[t][j] = b[1] =>
                           \E k \in DOMAIN dying'[t] : k > j /\ dying'[t][k] = a[1]
      BY <1>1, <1>4, <2>1, <2>2
    <2> QED
      BY <2>3, <2>4 DEF TakenOK
  <1> QED
    BY <1>9, <1>10, <1>12, <1>13 DEF HInv, Core

-----------------------------------------------------------------------------
(***************************************************************************)
(* Dropping a hook                                                         *)
(***************************************************************************)

\* What is left of a list of hooks to drop.
LEMMA TailOf ==
    ASSUME NEW S, NEW s \in Seq(S), s # <<>>
    PROVE  /\ Len(s) \in Nat /\ DOMAIN s = 1 .. Len(s) /\ 1 \in DOMAIN s /\ Head(s) = s[1]
           /\ DOMAIN Tail(s) = 1 .. Len(s) - 1
           /\ \A k \in DOMAIN Tail(s) : k + 1 \in DOMAIN s /\ Tail(s)[k] = s[k + 1] /\ k \in Nat
           /\ \A k \in DOMAIN s : k > 1 => k - 1 \in DOMAIN Tail(s) /\ Tail(s)[k - 1] = s[k]
           /\ \A x : x \in Range(s) <=> x = Head(s) \/ x \in Range(Tail(s))
  <1>1. /\ Len(s) \in Nat /\ DOMAIN s = 1 .. Len(s) /\ 1 \in DOMAIN s /\ Head(s) = s[1]
        /\ DOMAIN Tail(s) = 1 .. Len(s) - 1
        /\ \A k \in DOMAIN Tail(s) : k + 1 \in DOMAIN s /\ Tail(s)[k] = s[k + 1] /\ k \in Nat
    OBVIOUS
  <1>2. \A k \in DOMAIN s : k > 1 => k - 1 \in DOMAIN Tail(s) /\ Tail(s)[k - 1] = s[k]
    <2>1. ASSUME NEW k \in DOMAIN s, k > 1
          PROVE  k - 1 \in DOMAIN Tail(s) /\ Tail(s)[k - 1] = s[k]
      <3>1. k - 1 \in DOMAIN Tail(s) /\ (k - 1) + 1 = k
        BY <1>1, <2>1
      <3> QED
        BY <1>1, <3>1
    <2> QED
      BY <2>1
  <1>3. ASSUME NEW x
        PROVE  x \in Range(s) <=> x = Head(s) \/ x \in Range(Tail(s))
    <2>1. \A k \in DOMAIN s : k = 1 \/ k > 1
      BY <1>1
    <2> QED
      BY <1>1, <1>2, <2>1 DEF Range
  <1> QED
    BY <1>1, <1>2, <1>3

\* What was taken and is not spent yet is still to be dropped, in order.
LEMMA DropOrder ==
    ASSUME HInv, NEW t \in Threads, dying[t] # <<>>,
           dying'[t] = Tail(dying[t]), \A u \in Threads \ {t} : dying'[u] = dying[u],
           UNCHANGED taken, spent \subseteq spent', Head(dying[t]) # None => Head(dying[t]) \in spent'
    PROVE  /\ TakenOK'
           /\ \A j, k \in DOMAIN dying'[t] :
                 dying'[t][j] = dying'[t][k] /\ dying'[t][j] # None => j = k
  <1> DEFINE s == dying[t]
  <1>1. /\ s \in Seq(Hooks \cup {None}) /\ TypeOK
        /\ \A a \in taken[t] : a[1] # None
    <2>1. s \in Seq(Hooks \cup {None}) /\ taken[t] \in SUBSET (Hooks \X (0 .. MaxSeq))
      BY DEF HInv, TypeOK
    <2> QED
      BY <2>1, Constants DEF HInv
  <1>2. /\ Len(s) \in Nat /\ DOMAIN s = 1 .. Len(s) /\ 1 \in DOMAIN s /\ Head(s) = s[1]
        /\ DOMAIN Tail(s) = 1 .. Len(s) - 1
        /\ \A k \in DOMAIN Tail(s) : k + 1 \in DOMAIN s /\ Tail(s)[k] = s[k + 1] /\ k \in Nat
        /\ \A k \in DOMAIN s : k > 1 => k - 1 \in DOMAIN Tail(s) /\ Tail(s)[k - 1] = s[k]
        /\ \A x : x \in Range(s) <=> x = Head(s) \/ x \in Range(Tail(s))
    BY <1>1, TailOf
  <1>3. /\ \A a \in taken[t] : a[1] \in spent \/ a[1] \in Range(s)
        /\ \A a, b \in taken[t], j \in DOMAIN s :
              b[2] > a[2] /\ s[j] = b[1] => \E k \in DOMAIN s : k > j /\ s[k] = a[1]
        /\ \A j, k \in DOMAIN s : s[j] = s[k] /\ s[j] # None => j = k
    BY DEF HInv, TakenOK, DyingOK
  <1> HIDE DEF s
  <1>4. dying'[t] = Tail(s)
    BY DEF s
  <1>5. \A j, k \in DOMAIN Tail(s) : Tail(s)[j] = Tail(s)[k] /\ Tail(s)[j] # None => j = k
    BY <1>2, <1>3
  <1>6. ASSUME NEW a \in taken[t]
        PROVE  a[1] \in spent' \/ a[1] \in Range(Tail(s))
    BY <1>1, <1>2, <1>3 DEF s
  <1>7. ASSUME NEW a \in taken[t], NEW b \in taken[t], NEW j \in DOMAIN Tail(s),
               b[2] > a[2], Tail(s)[j] = b[1]
        PROVE  \E k \in DOMAIN Tail(s) : k > j /\ Tail(s)[k] = a[1]
    <2>1. PICK i \in DOMAIN s : i > j + 1 /\ s[i] = a[1]
      BY <1>2, <1>3, <1>7
    <2>2. i > 1 /\ i - 1 > j /\ i \in Nat /\ j \in Nat
      BY <1>2, <2>1
    <2>3. i - 1 \in DOMAIN Tail(s) /\ Tail(s)[i - 1] = a[1]
      BY <1>2, <2>1, <2>2
    <2> QED
      BY <2>2, <2>3
  <1>8. \A u \in Threads \ {t} : \A a \in taken[u] :
           /\ a[1] \in spent' \/ a[1] \in Range(dying[u])
           /\ \A b \in taken[u], j \in DOMAIN dying[u] :
                 b[2] > a[2] /\ dying[u][j] = b[1] =>
                     \E k \in DOMAIN dying[u] : k > j /\ dying[u][k] = a[1]
    BY DEF HInv, TakenOK
  <1>9. \A a \in taken[t] :
           /\ a[1] \in spent' \/ a[1] \in Range(Tail(s))
           /\ \A b \in taken[t], j \in DOMAIN Tail(s) :
                 b[2] > a[2] /\ Tail(s)[j] = b[1] =>
                     \E k \in DOMAIN Tail(s) : k > j /\ Tail(s)[k] = a[1]
    BY <1>6, <1>7, Zenon
  <1>10. TakenOK'
    <2>1. ASSUME NEW u \in Threads
          PROVE  \A a \in taken'[u] :
                    /\ a[1] \in spent' \/ a[1] \in Range(dying'[u])
                    /\ \A b \in taken'[u], j \in DOMAIN dying'[u] :
                          b[2] > a[2] /\ dying'[u][j] = b[1] =>
                              \E k \in DOMAIN dying'[u] : k > j /\ dying'[u][k] = a[1]
      <3>1. taken'[u] = taken[u]
        OBVIOUS
      <3>2. CASE u = t
        <4>1. dying'[u] = Tail(s) /\ taken'[u] = taken[t]
          BY <1>4, <3>1, <3>2
        <4> QED
          BY <1>9, <4>1
      <3>3. CASE u # t
        <4>1. dying'[u] = dying[u] /\ u \in Threads \ {t}
          BY <3>3
        <4> QED
          BY <1>8, <3>1, <4>1
      <3> QED
        BY <3>2, <3>3
    <2> QED
      BY <2>1, Zenon DEF TakenOK
  <1> QED
    BY <1>4, <1>5, <1>10

LEMMA DropHookStep ==
    ASSUME HInv, TypeOK', NEW t \in Threads, drop_hook(t)
    PROVE  HInv'
  <1>0. PICK h : h = Head(dying[t])
    OBVIOUS
  <1>1. /\ pc[t] = "drop" /\ dying[t] # <<>>
        /\ UNCHANGED <<tx, pc, handles, kept, registry, taken, codeLock, regLock>>
        /\ dying'[t] = Tail(dying[t]) /\ \A u \in Threads \ {t} : dying'[u] = dying[u]
        /\ \/ h = None /\ UNCHANGED <<enabled, active, spent>>
           \/ /\ h # None /\ codeLock = None
              /\ enabled' = [enabled EXCEPT ![h] = FALSE]
              /\ active' = [active EXCEPT ![h] = FALSE]
              /\ spent' = spent \cup {h}
    BY <1>0 DEF drop_hook, HInv, TypeOK
  <1>2. /\ dying[t] \in Seq(Hooks \cup {None}) /\ 1 \in DOMAIN dying[t] /\ h = dying[t][1]
        /\ h \in Hooks \cup {None}
        /\ \A x : x \in Range(dying[t]) <=> x = h \/ x \in Range(dying'[t])
        /\ h # None => h \notin Range(dying'[t])
    <2>1. dying[t] \in Seq(Hooks \cup {None})
      BY DEF HInv, TypeOK
    <2>2. /\ Head(dying[t]) = dying[t][1] /\ 1 \in DOMAIN dying[t]
          /\ \A k \in DOMAIN Tail(dying[t]) : /\ k + 1 \in DOMAIN dying[t] /\ k \in Nat
                                              /\ Tail(dying[t])[k] = dying[t][k + 1]
          /\ DOMAIN Tail(dying[t]) = 1 .. Len(dying[t]) - 1
          /\ \A x : x \in Range(dying[t]) <=> x = Head(dying[t]) \/ x \in Range(Tail(dying[t]))
      BY <1>1, <2>1, TailOf
    <2>3. h \in Hooks \cup {None}
      BY <1>0, <2>1, <2>2, RangeOfSeq
    <2>4. ASSUME h # None, h \in Range(Tail(dying[t]))
          PROVE  FALSE
      <3>1. PICK k \in DOMAIN Tail(dying[t]) : Tail(dying[t])[k] = h
        BY <2>4 DEF Range
      <3>2. k + 1 \in DOMAIN dying[t] /\ dying[t][k + 1] = h /\ dying[t][1] = h /\ k \in Nat /\ k >= 1
        BY <1>0, <2>2, <3>1
      <3>3. k + 1 = 1
        BY <2>2, <2>4, <3>2 DEF HInv, DyingOK
      <3> QED
        BY <3>2, <3>3
    <2> QED
      BY <1>0, <1>1, <2>1, <2>2, <2>3, <2>4
  <1>3. ASSUME NEW g \in Hooks, g # h
        PROVE  Claims(g)' = Claims(g)
    <2>1. \A u \in Threads : g \in Range(dying'[u]) <=> g \in Range(dying[u])
      BY <1>1, <1>2, <1>3
    <2>2. ASSUME NEW c
          PROVE  c \in Claims(g)' <=> c \in Claims(g)
      BY <1>1, <2>1, ClaimCases, ClaimCasesNext
    <2> QED
      BY <2>2
  <1>4. Core'
    <2>1. CASE h = None
      <3>1. \A g \in Hooks : Claims(g)' = Claims(g)
        BY <1>3, <2>1, Constants
      <3>2. UNCHANGED <<tx, enabled, active, spent, handles, kept, pc>>
        BY <1>1, <2>1
      <3>3. \A u \in Threads : Queued(u)' = Queued(u)
        BY <3>2 DEF Queued
      <3>4. TargetsOK' /\ HandlesOK'
        BY <3>2, <3>3 DEF HInv, TargetsOK, HandlesOK
      <3> QED
        BY <3>1, <3>2, <3>4, MoveStep DEF Moved
    <2>2. CASE h # None
      <3>1. h \in Hooks /\ h \in Range(dying[t]) /\ codeLock = None
        BY <1>1, <1>2, <2>2
      <3>2. <<"dying", t, 0>> \in Claims(h)
        BY <3>1, ClaimCases
      <3>3. /\ active[h] /\ Claims(h) = {<<"dying", t, 0>>}
            /\ \A x \in DOMAIN handles : \A k \in DOMAIN handles[x].slots : handles[x].slots[k] # h
            /\ \A m \in Names : registry[m] # None => registry[m][1] # h
            /\ \A u \in Threads : h \notin kept[u]
            /\ \A u \in Threads : h \in Range(dying[u]) => u = t
        BY <3>1, <3>2, OneClaim
      <3>4. Claims(h)' = {}
        <4>1. \A u \in Threads : h \notin Range(dying'[u])
          BY <1>1, <1>2, <2>2, <3>3
        <4>2. ASSUME NEW c
              PROVE  c \notin Claims(h)'
          BY <1>1, <3>3, <4>1, ClaimCasesNext
        <4> QED
          BY <4>2
      <3>5. /\ spent' = spent \cup {h} /\ ~active'[h] /\ ~enabled'[h]
            /\ \A g \in Hooks \ {h} : active'[g] = active[g] /\ enabled'[g] = enabled[g]
        BY <1>1, <2>2, <3>1 DEF HInv, TypeOK
      <3>6. SameOps
        BY <1>1 DEF SameOps
      <3>7. QueueOK' /\ TargetsOK' /\ HandlesOK'
        BY <1>1, <3>6, OpsKept DEF HInv, QueueOK, SameOps, TargetsOK, HandlesOK
      <3>8. WaitingOK'
        <4>1. ASSUME NEW u \in Threads, NEW k \in DOMAIN tx[u].queue, NEW g \in Hooks,
                     tx[u].queue[k] = Attaching(g)
              PROVE  /\ g \notin spent' /\ Claims(g)' = {}
                     /\ Done(u) < k => ~active'[g]
                     /\ k <= Done(u) => g \in Installed(u)
          <5>1. /\ g \notin spent /\ Claims(g) = {}
                /\ Done(u) < k => ~active[g]
                /\ k <= Done(u) => g \in Installed(u)
            BY <4>1 DEF HInv, WaitingOK, WaitingOf
          <5>2. g # h
            BY <3>2, <5>1
          <5> QED
            BY <1>3, <3>5, <5>1, <5>2
        <4>2. \A u \in Threads : /\ tx'[u].queue = tx[u].queue
                                 /\ Done(u)' = Done(u) /\ Installed(u)' = Installed(u)
          BY <3>6, OpsKept DEF SameOps
        <4>3. \A u \in Threads : WaitingOf(u)'
          BY <4>1, <4>2 DEF WaitingOf, Attaching
        <4> QED
          BY <4>3 DEF WaitingOK
      <3>9. \A u \in Threads : /\ Installed(u) = {} /\ Installed(u)' = {}
                               /\ Range(tx'[u].detached) = {}
                               /\ DOMAIN tx'[u].installed = {} /\ DOMAIN tx'[u].detached = {}
        <4>1. \A u \in Threads : /\ Installed(u) = {} /\ Range(tx[u].detached) = {}
                                 /\ tx[u].installed = <<>> /\ tx[u].detached = <<>>
          BY <3>1, NoWindow
        <4>2. \A u \in Threads : DOMAIN tx[u].installed = {} /\ DOMAIN tx[u].detached = {}
          BY <4>1
        <4>3. \A u \in Threads : Installed(u)' = Installed(u) /\ tx'[u] = tx[u]
          BY <1>1, <3>6, OpsKept
        <4> QED
          BY <4>1, <4>2, <4>3
      <3>10. InstalledOK' /\ DetachedOK'
        BY <3>9 DEF InstalledOK, InstalledOf, DetachedOK, DetachedOf
      <3>11. ModesOK'
        BY <3>5 DEF HInv, ModesOK
      <3>12. ClaimsOK'
        <4>1. ASSUME NEW g \in Hooks
              PROVE  /\ \A c, d \in Claims(g)' : c = d
                     /\ \A c \in Claims(g)' : active'[g] \/ (g \in spent' /\ c[1] = "kept")
                     /\ active'[g] => Claims(g)' # {}
          <5>1. CASE g = h
            BY <3>4, <3>5, <5>1
          <5>2. CASE g # h
            <6>1. ~Pending(g) /\ Claims(g)' = Claims(g)
              BY <1>3, <3>9, <5>2 DEF Pending
            <6>2. /\ \A c, d \in Claims(g) : c = d
                  /\ \A c \in Claims(g) : active[g] \/ (g \in spent /\ c[1] = "kept")
                  /\ active[g] => Claims(g) # {}
              BY <6>1 DEF HInv, ClaimsOK
            <6>3. active'[g] = active[g] /\ spent \subseteq spent'
              BY <3>5, <5>2
            <6> QED
              BY <6>1, <6>2, <6>3
          <5> QED
            BY <5>1, <5>2
        <4> QED
          BY <4>1 DEF ClaimsOK
      <3> QED
        BY <3>7, <3>8, <3>10, <3>11, <3>12 DEF Core
    <2> QED
      BY <2>1, <2>2
  <1>5. /\ TakenOK'
        /\ \A j, k \in DOMAIN dying'[t] :
              dying'[t][j] = dying'[t][k] /\ dying'[t][j] # None => j = k
    <2>1. spent \subseteq spent' /\ (h # None => h \in spent')
      BY <1>1
    <2> QED
      BY <1>0, <1>1, <2>1, DropOrder
  <1>6. DyingOK'
    <2>1. ASSUME NEW u \in Threads \ {t}
          PROVE  /\ pc'[u] # "drop" => dying'[u] = <<>> /\ taken'[u] = {}
                 /\ \A j, k \in DOMAIN dying'[u] :
                       dying'[u][j] = dying'[u][k] /\ dying'[u][j] # None => j = k
      BY <1>1 DEF HInv, DyingOK
    <2>2. pc'[t] = "drop"
      BY <1>1
    <2> QED
      BY <1>5, <2>1, <2>2 DEF DyingOK
  <1>7. LockOK' /\ PhaseOK' /\ ToggleOK'
    BY <1>1 DEF HInv, LockOK, PhaseOK, ToggleOK
  <1> QED
    BY <1>4, <1>5, <1>6, <1>7 DEF HInv, Core

-----------------------------------------------------------------------------
(***************************************************************************)
(* The invariant holds                                                     *)
(***************************************************************************)

LEMMA InitInv == Init => HInv
  <1> SUFFICES ASSUME Init
               PROVE  HInv
    OBVIOUS
  <1> USE DEF Init
  <1>1. /\ \A t \in Threads : /\ tx[t] = NoTx /\ tx[t].phase = "none" /\ tx[t].queue = <<>>
                              /\ tx[t].installed = <<>> /\ tx[t].detached = <<>>
        /\ tx \in [Threads -> TxRecord]
    BY NoTxType DEF NoTx
  <1>2. TypeOK
    <2>1. /\ handles \in Seq([slots : Seq(Hooks \cup {None}), freed : BOOLEAN])
          /\ dying \in [Threads -> Seq(Hooks \cup {None})]
      OBVIOUS
    <2>2. pc \in [Threads -> Pcs \cup Names]
      BY Constants
    <2> QED
      BY <1>1, <2>1, <2>2, Constants DEF TypeOK, TxRecord
  <1>3. \A t \in Threads : /\ Queued(t) = {} /\ Installed(t) = {} /\ Range(tx[t].detached) = {}
                           /\ Range(dying[t]) = {}
                           /\ DOMAIN tx[t].queue = {} /\ DOMAIN tx[t].installed = {}
                           /\ DOMAIN tx[t].detached = {}
    BY <1>1, EmptySeq DEF Queued, Installed
  <1>4. \A h \in Hooks : Claims(h) = {}
    <2>1. ASSUME NEW h \in Hooks, NEW c
          PROVE  c \notin Claims(h)
      BY <1>3, ClaimCases
    <2> QED
      BY <2>1
  <1>5. LockOK /\ PhaseOK
    BY <1>1, Constants DEF LockOK, PhaseOK, WindowPcs
  <1>6. QueueOK /\ TargetsOK /\ HandlesOK
    BY <1>3 DEF QueueOK, TargetsOK, HandlesOK
  <1>7. WaitingOK /\ InstalledOK /\ DetachedOK
    BY <1>3 DEF WaitingOK, WaitingOf, InstalledOK, InstalledOf, DetachedOK, DetachedOf
  <1>8. ModesOK /\ ClaimsOK
    BY <1>4 DEF ModesOK, ClaimsOK
  <1>9. ToggleOK /\ DyingOK /\ TakenOK
    BY Constants DEF ToggleOK, DyingOK, TakenOK
  <1> QED
    BY <1>2, <1>5, <1>6, <1>7, <1>8, <1>9 DEF HInv

LEMMA StepInv ==
    ASSUME HInv, [Next]_vars
    PROVE  HInv'
  <1>1. CASE UNCHANGED vars
    <2>1. SameOps /\ UNCHANGED <<pc, handles, kept, registry, dying, enabled, active, spent, taken,
                                 codeLock, regLock, tx>>
      BY <1>1 DEF vars, SameOps
    <2>2. Core'
      BY <2>1, CallStep
    <2>3. TypeOK'
      BY <1>1 DEF vars, HInv, TypeOK
    <2>4. LockOK' /\ PhaseOK' /\ ToggleOK' /\ DyingOK' /\ TakenOK'
      BY <2>1 DEF HInv, LockOK, PhaseOK, ToggleOK, DyingOK, TakenOK
    <2> QED
      BY <2>2, <2>3, <2>4 DEF HInv, Core
  <1>2. ASSUME NEW t \in Threads, Step(t)
        PROVE  HInv'
    <2>1. TypeOK'
      BY <1>2, StepTypes
    <2>2. CASE Transaction(t)
      <3>1. ASSUME NEW h \in Hooks, attach(t, h) \/ detours_transaction_attach(t, h) \/ detach(t, h)
            PROVE  HInv'
        BY <2>1, <3>1, AttachStep, DetachStep DEF attach, detours_transaction_attach
      <3>2. ASSUME NEW hd \in LiveHandles, NEW i \in Slots, detach_handle_index(t, hd, i)
            PROVE  HInv'
        BY <2>1, <3>2, DetachIndexStep
      <3>3. CASE begin(t) \/ detours_transaction_begin(t) \/ update_threads(t)
        BY <2>1, <3>3, BeginStep
      <3>4. CASE abort(t) \/ detours_transaction_abort(t)
        BY <2>1, <3>4, AbortStep DEF abort, detours_transaction_abort
      <3>5. CASE commit(t) \/ commit_lock(t)
        BY <2>1, <3>5, LockStep
      <3>6. CASE commit_install(t)
        BY <2>1, <3>6, CommitInstallStep
      <3>7. CASE rollback_detaches(t)
        BY <2>1, <3>7, RollbackDetachesStep
      <3>8. CASE rollback(t)
        BY <2>1, <3>8, RollbackStep
      <3>9. CASE commit_done(t)
        BY <2>1, <3>9, CommitDoneStep
      <3> QED
        BY <2>2, <3>1, <3>2, <3>3, <3>4, <3>5, <3>6, <3>7, <3>8, <3>9 DEF Transaction
    <2>3. CASE Handle(t)
      BY <2>1, <2>3, FreeStep, SetEnabledStep DEF Handle
    <2>4. CASE Registry(t)
      <3>1. ASSUME NEW n \in Names, enable(t, n) \/ disable(t, n)
            PROVE  HInv'
        BY <2>1, <3>1, ToggleStep DEF enable, disable
      <3> QED
        BY <2>1, <2>4, <3>1, UnhookAllStep, TakeStep, ToggleWriteStep, UnhookStep, RegisterStep
           DEF Registry
    <2>5. CASE Dropping(t)
      BY <2>1, <2>5, DropHookStep, DropEndStep, DropKeptStep DEF Dropping
    <2> QED
      BY <1>2, <2>2, <2>3, <2>4, <2>5 DEF Step
  <1> QED
    BY <1>1, <1>2 DEF Next, Step

LEMMA AlwaysInv == Spec => []HInv
  BY InitInv, StepInv, PTL DEF Spec

(***************************************************************************)
(* Transactions, handles, registry entries and hooks stay well formed.     *)
(***************************************************************************)
THEOREM TypeInvariant == Spec => []TypeOK
  <1>1. HInv => TypeOK
    BY DEF HInv
  <1> QED
    BY <1>1, AlwaysInv, PTL

(***************************************************************************)
(* A hook that is installed has exactly one owner: a slot of a handle, an  *)
(* entry of the registry, a value of a client or a call that is dropping   *)
(* it (api.rs, registry.rs, transaction.rs).                               *)
(***************************************************************************)
THEOREM HooksHaveOneOwner == Spec => []OneOwner
  <1>1. HInv => OneOwner
    <2> SUFFICES ASSUME HInv, NEW h \in Hooks, active[h], ~Pending(h)
                 PROVE  Cardinality(Claims(h)) = 1
      BY DEF OneOwner
    <2>1. PICK c : c \in Claims(h)
      BY DEF HInv, ClaimsOK
    <2>2. Claims(h) = {c}
      BY <2>1, OneClaim
    <2> QED
      BY <2>2, FS_Singleton
  <1> QED
    BY <1>1, AlwaysInv, PTL

(***************************************************************************)
(* unhook_all drops the newest registration first (registry.rs), so a hook *)
(* is never removed under one registered after it that is chained on it.   *)
(***************************************************************************)
THEOREM ChainsAreUnwoundFromTheTop == Spec => []ChainsComeDownFromTheTop
  <1>1. HInv => ChainsComeDownFromTheTop
    <2> SUFFICES ASSUME HInv, NEW t \in Threads, NEW a \in taken[t], NEW b \in taken[t],
                        b[2] > a[2], active[b[1]]
                 PROVE  active[a[1]]
      BY DEF ChainsComeDownFromTheTop
    <2>1. a[1] \in Hooks /\ b[1] \in Hooks
      BY DEF HInv, TypeOK
    <2>2. b[1] \in Range(dying[t])
      BY <2>1 DEF HInv, TakenOK, ModesOK
    <2>3. PICK j \in DOMAIN dying[t] : dying[t][j] = b[1]
      BY <2>2 DEF Range
    <2>4. PICK k \in DOMAIN dying[t] : dying[t][k] = a[1]
      BY <2>3 DEF HInv, TakenOK
    <2>5. <<"dying", t, 0>> \in Claims(a[1])
      BY <2>4, ClaimCases DEF Range
    <2> QED
      BY <2>1, <2>5, OneClaim
  <1> QED
    BY <1>1, AlwaysInv, PTL

\* Only a commit and a free change handles.
LEMMA HandlesChange ==
    ASSUME NEW t \in Threads, Step(t)
    PROVE  \/ UNCHANGED handles \/ commit_done(t)
           \/ \E hd \in LiveHandles : detours_handle_unhook_and_free(t, hd)
  <1>1. CASE Transaction(t)
    BY <1>1 DEF Transaction, begin, detours_transaction_begin, Begin, update_threads, abort,
       detours_transaction_abort, Abort, commit, commit_lock, commit_install, rollback_detaches,
       rollback, attach, detours_transaction_attach, QueueAttach, detach, detach_handle_index
  <1>2. CASE Handle(t) \/ Registry(t) \/ Dropping(t)
    BY <1>2 DEF Handle, Registry, Dropping, detours_handle_set_enabled, unhook_all, take, enable,
       disable, Toggle, toggle_write, unhook, register, drop_hook, drop_end, drop_kept
  <1> QED
    BY <1>1, <1>2 DEF Step

LEMMA StableStep ==
    ASSUME HInv, HInv', [Next]_vars
    PROVE  [\A hd \in LiveHandles :
              \/ handles'[hd].freed
              \/ /\ Len(handles'[hd].slots) = Len(handles[hd].slots)
                 /\ \A i \in DOMAIN handles[hd].slots :
                       \/ handles'[hd].slots[i] = handles[hd].slots[i]
                       \/ /\ handles'[hd].slots[i] = None
                          /\ handles[hd].slots[i] \in spent']_vars
  <1>1. CASE UNCHANGED vars
    BY <1>1
  <1>2. ASSUME NEW t \in Threads, Step(t), NEW hd \in LiveHandles, ~handles'[hd].freed
        PROVE  /\ Len(handles'[hd].slots) = Len(handles[hd].slots)
               /\ \A i \in DOMAIN handles[hd].slots :
                     \/ handles'[hd].slots[i] = handles[hd].slots[i]
                     \/ /\ handles'[hd].slots[i] = None
                        /\ handles[hd].slots[i] \in spent'
    <2>1. hd \in DOMAIN handles
      BY DEF LiveHandles
    <2>2. CASE UNCHANGED handles
      BY <2>2
    <2>3. CASE commit_done(t)
      <3>1. Finished(t) /\ spent' = spent \cup Detached(t)
        BY <2>3 DEF commit_done, Finished
      <3>2. /\ hd \in DOMAIN handles'
            /\ DOMAIN handles'[hd].slots = DOMAIN handles[hd].slots
            /\ \A i \in DOMAIN handles[hd].slots :
                  handles'[hd].slots[i] =
                      IF \E d \in Range(tx[t].detached) :
                             d.target = [op |-> "slot", handle |-> hd, idx |-> i]
                      THEN None ELSE handles[hd].slots[i]
        BY <2>1, <3>1, FinishedHandles
      <3>3. Len(handles'[hd].slots) = Len(handles[hd].slots)
        <4>1. handles[hd].slots \in Seq(Hooks \cup {None})
          BY <2>1, HandleType DEF HInv
        <4>2. handles'[hd].slots \in Seq(Hooks \cup {None})
          <5> DEFINE R == [slots : Seq(Hooks \cup {None}), freed : BOOLEAN]
          <5>1. handles' \in Seq(R)
            BY DEF HInv, TypeOK
          <5>2. handles'[hd] \in R
            <6> HIDE DEF R
            <6> QED
              BY <3>2, <5>1
          <5> QED
            BY <5>2
        <4> QED
          BY <3>2, <4>1, <4>2
      <3>4. ASSUME NEW i \in DOMAIN handles[hd].slots, NEW d \in Range(tx[t].detached),
                   d.target = [op |-> "slot", handle |-> hd, idx |-> i]
            PROVE  handles[hd].slots[i] \in Detached(t)
        <4>1. <<"slot", hd, i>> \in Claims(d.hook)
          <5>1. d.target.op = "slot" => <<"slot", d.target.handle, d.target.idx>> \in Claims(d.hook)
            BY DEF HInv, DetachedOK, DetachedOf
          <5>2. d.target.op = "slot" /\ d.target.handle = hd /\ d.target.idx = i
            BY <3>4
          <5> QED
            BY <5>1, <5>2
        <4>2. handles[hd].slots[i] = d.hook
          BY <4>1, ClaimCases
        <4> QED
          BY <4>2 DEF Detached
      <3> QED
        BY <3>1, <3>2, <3>3, <3>4
    <2>4. ASSUME NEW x \in LiveHandles, detours_handle_unhook_and_free(t, x)
          PROVE  handles'[hd] = handles[hd]
      <3>1. handles' = [handles EXCEPT ![x] = [slots |-> <<>>, freed |-> TRUE]]
        BY <2>4 DEF detours_handle_unhook_and_free
      <3>2. hd # x
        BY <1>2, <2>1, <3>1
      <3> QED
        BY <2>1, <3>1, <3>2
    <2> QED
      BY <1>2, <2>2, <2>3, <2>4, HandlesChange
  <1> QED
    BY <1>1, <1>2 DEF Next, Step

(***************************************************************************)
(* A slot of a handle names the hook it was committed with until that hook *)
(* is detached (api.rs): a detach empties its slot and moves no other.     *)
(***************************************************************************)
THEOREM IndicesAreStable == Spec => StableIndices
  BY StableStep, AlwaysInv, PTL DEF Spec, StableIndices

-----------------------------------------------------------------------------
(***************************************************************************)
(* The refinement of HookLedger                                            *)
(***************************************************************************)

\* Whether the ledger shows a live hook as enabled: a detach that is applied
\* and not committed does not count yet.
Seen(h) == IF \E t \in Threads : h \in Detached(t) THEN \E t \in Threads : WasEnabled(t, h)
           ELSE enabled[h]

OwnerOf(k) == [slot |-> "handle", name |-> "registry", kept |-> "client",
               dying |-> "teardown"][k]

\* What the ledger shows of a hook.
View(h) ==
    /\ Pending(h) => /\ LedgerMode(h) = "none" /\ LedgerOwner(h) = "nobody"
                     /\ active[h] /\ h \notin spent /\ Claims(h) = {}
    /\ h \in spent => LedgerMode(h) = "gone" /\ LedgerOwner(h) = "nobody" /\ ~active[h]
    /\ ~active[h] /\ h \notin spent =>
          LedgerMode(h) = "none" /\ LedgerOwner(h) = "nobody" /\ ~Pending(h)
    /\ active[h] /\ ~Pending(h) =>
          /\ LedgerMode(h) = IF Seen(h) THEN "on" ELSE "off"
          /\ \E c : /\ Claims(h) = {c} /\ c[1] \in {"slot", "name", "kept", "dying"}
                    /\ LedgerOwner(h) = OwnerOf(c[1])

LEMMA ClaimKinds ==
    ASSUME NEW h, NEW c \in Claims(h)
    PROVE  c[1] \in {"slot", "name", "kept", "dying"}
  BY ClaimCases

Views == \A h \in Hooks : View(h)

LEMMA LedgerCases == HInv => Views
  <1>1. SUFFICES ASSUME HInv, NEW h \in Hooks
                 PROVE  View(h)
    BY DEF Views
  <1>2. Pending(h) => active[h] /\ h \notin spent /\ Claims(h) = {}
    BY <1>1, InWindow DEF Pending
  <1>3. /\ active[h] => h \notin spent
        /\ enabled[h] => active[h]
        /\ enabled[h] \in BOOLEAN /\ active[h] \in BOOLEAN
    BY <1>1 DEF HInv, ModesOK, TypeOK
  <1>4. (\E t \in Threads : h \in Detached(t)) => active[h] \/ h \in spent
    BY <1>1, InWindow DEF HInv, ClaimsOK
  <1>5. Pending(h) => LedgerMode(h) = "none" /\ LedgerOwner(h) = "nobody"
    BY DEF LedgerMode, LedgerOwner
  <1>6. h \in spent => LedgerMode(h) = "gone" /\ LedgerOwner(h) = "nobody" /\ ~active[h]
    BY <1>2, <1>3 DEF LedgerMode, LedgerOwner
  <1>7. ~active[h] /\ h \notin spent =>
           LedgerMode(h) = "none" /\ LedgerOwner(h) = "nobody" /\ ~Pending(h)
    BY <1>2, <1>3, <1>4 DEF LedgerMode, LedgerOwner
  <1>8. ASSUME active[h], ~Pending(h)
        PROVE  LedgerMode(h) = IF Seen(h) THEN "on" ELSE "off"
    BY <1>3, <1>8 DEF LedgerMode, Seen
  <1>9. ASSUME active[h], ~Pending(h)
        PROVE  \E c : /\ Claims(h) = {c} /\ c[1] \in {"slot", "name", "kept", "dying"}
                      /\ LedgerOwner(h) = OwnerOf(c[1])
    <2>1. PICK c : c \in Claims(h)
      BY <1>1, <1>9 DEF HInv, ClaimsOK
    <2>2. Claims(h) = {c}
      BY <1>1, <2>1, OneClaim
    <2>3. c[1] \in {"slot", "name", "kept", "dying"}
      BY <2>1, ClaimKinds
    <2>4. (CHOOSE d \in Claims(h) : TRUE) = c
      BY <2>2
    <2>5. LedgerOwner(h) = OwnerOf(c[1])
      BY <1>9, <2>2, <2>4 DEF LedgerOwner, OwnerOf
    <2> QED
      BY <2>2, <2>3, <2>5
  <1> QED
    BY <1>2, <1>5, <1>6, <1>7, <1>8, <1>9 DEF View

LEMMA LedgerCasesNext == HInv' => Views'
  BY LedgerCases, PTL

\* A hook about which the ledger sees no change.
Keeps(h) == LedgerMode(h)' = LedgerMode(h) /\ LedgerOwner(h)' = LedgerOwner(h)

LEMMA SameView ==
    ASSUME NEW h, View(h), View(h)', Pending(h)' <=> Pending(h), active'[h] = active[h],
           h \in spent' <=> h \in spent, active[h] /\ ~Pending(h) => (Seen(h)' <=> Seen(h)),
           Claims(h)' = Claims(h)
    PROVE  Keeps(h)
  <1>1. CASE Pending(h)
    BY <1>1 DEF View, Keeps
  <1>2. CASE ~active[h]
    BY <1>2 DEF View, Keeps
  <1>3. CASE active[h] /\ ~Pending(h)
    <2>1. LedgerMode(h)' = LedgerMode(h)
      BY <1>3 DEF View
    <2>2. PICK c : Claims(h) = {c} /\ LedgerOwner(h) = OwnerOf(c[1])
      BY <1>3 DEF View
    <2>3. PICK d : Claims(h)' = {d} /\ LedgerOwner(h)' = OwnerOf(d[1])
      BY <1>3 DEF View, OwnerOf
    <2>4. c = d
      BY <2>2, <2>3
    <2> QED
      BY <2>1, <2>2, <2>3, <2>4 DEF Keeps
  <1> QED
    BY <1>1, <1>2, <1>3

LedgerStep == [Ledger!Next]_(Ledger!ledger)

LEMMA LedgerStutters ==
    ASSUME \A h \in Hooks : Keeps(h)
    PROVE  LedgerStep
  <1>1. UNCHANGED <<[h \in Hooks |-> LedgerMode(h)], [h \in Hooks |-> LedgerOwner(h)]>>
    BY DEF Keeps
  <1> QED
    BY <1>1 DEF LedgerStep, Ledger!ledger

\* Steps that apply no operation show the ledger only what they do to owners
\* and to the hooks themselves.
SameApplied == \A u \in Threads : /\ tx'[u].installed = tx[u].installed
                                  /\ tx'[u].detached = tx[u].detached

LEMMA AppliedKept ==
    ASSUME SameApplied, NEW h
    PROVE  /\ Pending(h)' <=> Pending(h)
           /\ \A u \in Threads : /\ Detached(u)' = Detached(u)
                                 /\ WasEnabled(u, h)' <=> WasEnabled(u, h)
           /\ enabled'[h] = enabled[h] => (Seen(h)' <=> Seen(h))
  <1>1. Pending(h)' <=> Pending(h)
    BY DEF SameApplied, Pending, Installed
  <1>2. \A u \in Threads : /\ Detached(u)' = Detached(u)
                           /\ WasEnabled(u, h)' <=> WasEnabled(u, h)
    BY DEF SameApplied, Detached, WasEnabled
  <1>3. enabled'[h] = enabled[h] => (Seen(h)' <=> Seen(h))
    BY <1>2 DEF Seen
  <1> QED
    BY <1>1, <1>2, <1>3

LEMMA CallView ==
    ASSUME HInv, HInv', SameApplied,
           UNCHANGED <<handles, kept, registry, dying, enabled, active, spent>>
    PROVE  LedgerStep
  <1>1. ASSUME NEW h \in Hooks
        PROVE  Keeps(h)
    <2>1. View(h) /\ View(h)'
      BY LedgerCases, LedgerCasesNext DEF Views
    <2>2. Claims(h)' = Claims(h)
      BY ClaimsKept
    <2>3. /\ Pending(h)' <=> Pending(h)
          /\ Seen(h)' <=> Seen(h)
      BY AppliedKept
    <2> QED
      BY <2>1, <2>2, <2>3, SameView
  <1> QED
    BY <1>1, LedgerStutters

\* Aborting a transaction that has applied nothing.
LEMMA AbortView ==
    ASSUME HInv, HInv', NEW t \in Threads, Abort(t)
    PROVE  LedgerStep
  <1>1. /\ pc[t] = "idle" /\ tx' = [tx EXCEPT ![t] = NoTx]
        /\ UNCHANGED <<handles, kept, registry, dying, enabled, active, spent>>
    BY DEF Abort
  <1>2. tx[t].installed = <<>> /\ tx[t].detached = <<>>
    BY <1>1 DEF HInv, PhaseOK, WindowPcs
  <1>3. SameApplied
    BY <1>1, <1>2, TxEnds DEF SameApplied
  <1> QED
    BY <1>1, <1>3, CallView

LEMMA FailView ==
    ASSUME HInv, HInv', NEW t \in Threads, commit_install(t), Fail(t)
    PROVE  LedgerStep
  <1>1. UNCHANGED <<tx, handles, kept, registry, dying, enabled, active, spent>>
    BY DEF commit_install, Fail
  <1> QED
    BY <1>1, CallView DEF SameApplied

\* An attach that a commit applies waits for the commit.
LEMMA InstallView ==
    ASSUME HInv, HInv', NEW t \in Threads, NEW h \in Hooks, pc[t] = "commit_install",
           Done(t) < Len(tx[t].queue), tx[t].queue[Done(t) + 1] = Attaching(h),
           tx' = [tx EXCEPT ![t].installed = Append(@, h)],
           enabled' = [enabled EXCEPT ![h] = TRUE], active' = [active EXCEPT ![h] = TRUE],
           UNCHANGED <<handles, kept, registry, dying, spent>>
    PROVE  LedgerStep
  <1>1. /\ tx'[t] = [tx[t] EXCEPT !.installed = Append(tx[t].installed, h)]
        /\ \A u \in Threads \ {t} : tx'[u] = tx[u]
    BY TxInstalled DEF HInv
  <1>2. /\ tx[t].installed \in Seq(Hooks) /\ tx'[t].detached = tx[t].detached
        /\ tx'[t].installed = Append(tx[t].installed, h)
    BY <1>1, TxParts DEF HInv, TxRecord
  <1>3. /\ Installed(t)' = Installed(t) \cup {h}
        /\ \A u \in Threads \ {t} : Installed(u)' = Installed(u)
    BY <1>1, <1>2, RangeOfAppend DEF Installed
  <1>4. \A g \in Hooks : g # h => (Pending(g)' <=> Pending(g))
    BY <1>3 DEF Pending
  <1>5. Pending(h)'
    BY <1>3 DEF Pending
  <1>6. ~active[h] /\ h \notin spent
    <2>1. Done(t) \in Nat /\ Done(t) + 1 \in DOMAIN tx[t].queue
      BY NextOp
    <2>2. Done(t) < Done(t) + 1
      BY <2>1
    <2> QED
      BY <2>1, <2>2 DEF HInv, WaitingOK, WaitingOf
  <1>7. Keeps(h)
    <2>1. View(h) /\ View(h)'
      BY LedgerCases, LedgerCasesNext DEF Views
    <2> QED
      BY <1>5, <1>6, <2>1 DEF View, Keeps
  <1>8. ASSUME NEW g \in Hooks, g # h
        PROVE  Keeps(g)
    <2>1. View(g) /\ View(g)'
      BY LedgerCases, LedgerCasesNext DEF Views
    <2>2. Claims(g)' = Claims(g)
      BY ClaimsKept
    <2>3. enabled'[g] = enabled[g] /\ active'[g] = active[g]
      BY <1>8 DEF HInv, TypeOK
    <2>4. \A u \in Threads : /\ Detached(u)' = Detached(u)
                             /\ WasEnabled(u, g)' <=> WasEnabled(u, g)
      BY <1>1, <1>2 DEF Detached, WasEnabled
    <2>5. Seen(g)' <=> Seen(g)
      BY <2>3, <2>4 DEF Seen
    <2> QED
      BY <1>4, <1>8, <2>1, <2>2, <2>3, <2>5, SameView
  <1> QED
    BY <1>7, <1>8, LedgerStutters

\* Nor does the ledger see a detach before its commit.
LEMMA UninstallView ==
    ASSUME HInv, HInv', NEW t \in Threads, NEW o, NEW h \in Hooks, pc[t] = "commit_install",
           o \in Ops,
           tx' = [tx EXCEPT ![t].detached =
                      Append(@, [target |-> o, hook |-> h, was |-> enabled[h]])],
           enabled' = [enabled EXCEPT ![h] = FALSE],
           UNCHANGED <<handles, kept, registry, dying, active, spent>>
    PROVE  LedgerStep
  <1>0. PICK e : e = [target |-> o, hook |-> h, was |-> enabled[h]]
    OBVIOUS
  <1>1. e \in AppliedDetach /\ e.hook = h /\ e.was = enabled[h]
    BY <1>0 DEF AppliedDetach, HInv, TypeOK
  <1>2. /\ tx'[t] = [tx[t] EXCEPT !.detached = Append(tx[t].detached, e)]
        /\ \A u \in Threads \ {t} : tx'[u] = tx[u]
    BY <1>0, <1>1, TxDetached DEF HInv
  <1>3. /\ tx[t].detached \in Seq(AppliedDetach) /\ tx'[t].installed = tx[t].installed
        /\ tx'[t].detached = Append(tx[t].detached, e)
    BY <1>2, TxParts DEF HInv, TxRecord
  <1>4. /\ Range(tx'[t].detached) = Range(tx[t].detached) \cup {e}
        /\ Len(tx[t].detached) \in Nat /\ DOMAIN tx[t].detached = 1 .. Len(tx[t].detached)
        /\ DOMAIN tx'[t].detached = 1 .. Len(tx[t].detached) + 1
        /\ \A k \in 1 .. Len(tx[t].detached) : tx'[t].detached[k] = tx[t].detached[k]
        /\ tx'[t].detached[Len(tx[t].detached) + 1] = e
    BY <1>1, <1>3, RangeOfAppend
  <1>5. \A g \in Hooks : Pending(g)' <=> Pending(g)
    BY <1>2, <1>3 DEF Pending, Installed
  <1>6. \A u \in Threads \ {t} : Range(tx[u].detached) = {} /\ Range(tx'[u].detached) = {}
    BY <1>2, Alone DEF WindowPcs
  <1>7. \A d \in Range(tx[t].detached) : d.hook # h
    <2>1. ASSUME NEW d \in Range(tx[t].detached), d.hook = h
          PROVE  FALSE
      <3>1. PICK k \in 1 .. Len(tx[t].detached) : tx[t].detached[k] = d
        BY <1>3, RangeOfSeq
      <3>2. \A i, j \in DOMAIN tx'[t].detached :
               tx'[t].detached[i].hook = tx'[t].detached[j].hook => i = j
        BY DEF HInv, DetachedOK, DetachedOf
      <3>3. /\ k \in DOMAIN tx'[t].detached /\ Len(tx[t].detached) + 1 \in DOMAIN tx'[t].detached
            /\ tx'[t].detached[k].hook = h /\ k # Len(tx[t].detached) + 1
        BY <1>4, <2>1, <3>1
      <3> QED
        BY <1>1, <1>4, <3>2, <3>3
    <2> QED
      BY <2>1
  <1>8. \A u \in Threads : h \notin Detached(u)
    BY <1>6, <1>7 DEF Detached
  <1>9. h \in Detached(t)' /\ ((\E u \in Threads : WasEnabled(u, h)') <=> enabled[h])
    BY <1>1, <1>4, <1>6, <1>7 DEF Detached, WasEnabled
  <1>10. Seen(h)' <=> Seen(h)
    BY <1>8, <1>9 DEF Seen
  <1>11. ASSUME NEW g \in Hooks, g # h
         PROVE  Seen(g)' <=> Seen(g)
    <2>1. enabled'[g] = enabled[g]
      BY <1>11 DEF HInv, TypeOK
    <2>2. \A u \in Threads : /\ g \in Detached(u)' <=> g \in Detached(u)
                             /\ WasEnabled(u, g)' <=> WasEnabled(u, g)
      BY <1>1, <1>4, <1>6, <1>11 DEF Detached, WasEnabled
    <2> QED
      BY <2>1, <2>2 DEF Seen
  <1>12. ASSUME NEW g \in Hooks
         PROVE  Keeps(g)
    <2>1. View(g) /\ View(g)'
      BY LedgerCases, LedgerCasesNext DEF Views
    <2>2. Claims(g)' = Claims(g)
      BY ClaimsKept
    <2> QED
      BY <1>5, <1>10, <1>11, <2>1, <2>2, SameView
  <1> QED
    BY <1>12, LedgerStutters

\* Re-enabling what the failed commit detached.
LEMMA RollbackDetachesView ==
    ASSUME HInv, HInv', NEW t \in Threads, rollback_detaches(t)
    PROVE  LedgerStep
  <1>1. /\ enabled' = [h \in Hooks |-> enabled[h] \/ WasEnabled(t, h)]
        /\ UNCHANGED <<tx, handles, kept, registry, dying, active, spent>>
    BY DEF rollback_detaches
  <1>2. ASSUME NEW h \in Hooks
        PROVE  Keeps(h)
    <2>1. View(h) /\ View(h)'
      BY LedgerCases, LedgerCasesNext DEF Views
    <2>2. Claims(h)' = Claims(h)
      BY <1>1, ClaimsKept
    <2>3. /\ Pending(h)' <=> Pending(h)
          /\ \A u \in Threads : /\ Detached(u)' = Detached(u)
                                /\ WasEnabled(u, h)' <=> WasEnabled(u, h)
      BY <1>1, AppliedKept DEF SameApplied
    <2>4. \A u \in Threads : WasEnabled(u, h) => h \in Detached(u)
      BY DEF WasEnabled, Detached
    <2>5. h \notin Detached(t) => enabled'[h] = enabled[h]
      BY <1>1, <2>4 DEF HInv, TypeOK
    <2>6. Seen(h)' <=> Seen(h)
      BY <2>3, <2>5 DEF Seen
    <2> QED
      BY <1>1, <2>1, <2>2, <2>3, <2>6, SameView
  <1> QED
    BY <1>2, LedgerStutters

\* Rolled back, a commit has never happened.
LEMMA RollbackView ==
    ASSUME HInv, HInv', NEW t \in Threads, rollback(t)
    PROVE  LedgerStep
  <1>1. /\ pc[t] = "rollback" /\ pc[t] \in WindowPcs
        /\ enabled' = [h \in Hooks |-> enabled[h] /\ h \notin Installed(t)]
        /\ active' = [h \in Hooks |-> active[h] /\ h \notin Installed(t)]
        /\ tx' = [tx EXCEPT ![t] = NoTx] /\ codeLock' = None
        /\ UNCHANGED <<handles, kept, registry, dying, spent>>
    BY DEF rollback, WindowPcs
  <1>2. \A u \in Threads : u # t => Installed(u) = {} /\ Range(tx[u].detached) = {}
    BY <1>1, Alone
  <1>3. \A u \in Threads : Installed(u)' = {} /\ Range(tx'[u].detached) = {}
    BY <1>1, <1>2, TxEnds
  <1>4. \A h \in Hooks : ~Pending(h)' /\ (Pending(h) <=> h \in Installed(t))
    BY <1>2, <1>3 DEF Pending
  <1>5. ASSUME NEW h \in Hooks, h \notin Installed(t)
        PROVE  Seen(h)' <=> Seen(h)
    <2>1. Seen(h)' <=> enabled[h]
      BY <1>1, <1>3, <1>5 DEF Seen, Detached
    <2>2. h \notin Detached(t) => (Seen(h) <=> enabled[h])
      BY <1>2 DEF Seen, Detached
    <2>3. ASSUME h \in Detached(t)
          PROVE  Seen(h) <=> enabled[h]
      <3>1. \A u \in Threads : u # t => ~WasEnabled(u, h)
        BY <1>2 DEF WasEnabled
      <3>2. Seen(h) <=> WasEnabled(t, h)
        BY <2>3, <3>1 DEF Seen
      <3>3. \A d \in Range(tx[t].detached) : d.hook = h => (enabled[h] <=> d.was)
        <4>1. \A d \in Range(tx[t].detached) : enabled[d.hook] <=> pc[t] = "rollback" /\ d.was
          BY DEF HInv, DetachedOK, DetachedOf
        <4>2. \A d \in Range(tx[t].detached) : d.was \in BOOLEAN
          BY InWindow
        <4> QED
          BY <1>1, <4>1, <4>2
      <3> QED
        BY <2>3, <3>2, <3>3 DEF WasEnabled, Detached
    <2> QED
      BY <2>1, <2>2, <2>3
  <1>6. ASSUME NEW h \in Hooks
        PROVE  Keeps(h)
    <2>1. View(h) /\ View(h)'
      BY LedgerCases, LedgerCasesNext DEF Views
    <2>2. CASE h \in Installed(t)
      <3>1. Pending(h) /\ ~active'[h] /\ h \notin spent'
        BY <1>1, <1>4, <2>2, InWindow
      <3> QED
        BY <2>1, <3>1 DEF View, Keeps
    <2>3. CASE h \notin Installed(t)
      <3>1. /\ Pending(h)' <=> Pending(h)
            /\ active'[h] = active[h]
        BY <1>1, <1>4, <2>3 DEF HInv, TypeOK
      <3>2. Claims(h)' = Claims(h)
        BY <1>1, ClaimsKept
      <3> QED
        BY <1>1, <1>5, <2>1, <2>3, <3>1, <3>2, SameView
    <2> QED
      BY <2>2, <2>3
  <1> QED
    BY <1>6, LedgerStutters

\* Switching an owned hook on or off.
LEMMA LedgerToggles ==
    ASSUME NEW h \in Hooks, LedgerMode(h) \in {"on", "off"}, LedgerOwner(h) # "teardown",
           LedgerMode(h)' = (IF LedgerMode(h) = "on" THEN "off" ELSE "on"),
           LedgerOwner(h)' = LedgerOwner(h), \A g \in Hooks \ {h} : Keeps(g)
    PROVE  LedgerStep
  <1> DEFINE M == [g \in Hooks |-> LedgerMode(g)]
             O == [g \in Hooks |-> LedgerOwner(g)]
             M1 == [g \in Hooks |-> LedgerMode(g)']
             O1 == [g \in Hooks |-> LedgerOwner(g)']
  <1>1. M1 = [M EXCEPT ![h] = IF @ = "on" THEN "off" ELSE "on"]
    BY DEF Keeps
  <1>2. O1 = O
    BY DEF Keeps
  <1>3. Ledger!Toggle(h)
    BY <1>1, <1>2 DEF Ledger!Toggle
  <1>4. h \in Ledger!Owned
    BY DEF Ledger!Owned, Ledger!Live
  <1> QED
    BY <1>3, <1>4 DEF LedgerStep, Ledger!Next

LEMMA EnableView ==
    ASSUME HInv, HInv', codeLock = None, NEW h \in Hooks, active[h],
           NEW c, Claims(h) = {c}, c[1] \in {"slot", "name"},
           \A g \in Hooks \ {h} : enabled'[g] = enabled[g],
           UNCHANGED <<tx, handles, kept, registry, dying, active, spent>>
    PROVE  LedgerStep
  <1>1. \A g : Claims(g)' = Claims(g)
    BY ClaimsKept
  <1>2. \A g : /\ Pending(g)' <=> Pending(g)
               /\ \A u \in Threads : Detached(u)' = Detached(u)
    BY AppliedKept DEF SameApplied
  <1>3. \A g \in Hooks : (Seen(g) <=> enabled[g]) /\ (Seen(g)' <=> enabled'[g])
    BY <1>2, NoWindow DEF Seen
  <1>4. \A g \in Hooks : View(g) /\ View(g)'
    BY LedgerCases, LedgerCasesNext DEF Views
  <1>5. ASSUME NEW g \in Hooks, enabled'[g] = enabled[g]
        PROVE  Keeps(g)
    BY <1>1, <1>2, <1>3, <1>4, <1>5, SameView
  <1>6. CASE enabled'[h] # enabled[h]
    <2>1. ~Pending(h)
      BY <1>4 DEF View
    <2>2. PICK d : Claims(h) = {d} /\ LedgerOwner(h) = OwnerOf(d[1])
      BY <1>4, <2>1 DEF View
    <2>3. PICK e : Claims(h)' = {e} /\ LedgerOwner(h)' = OwnerOf(e[1])
      BY <1>2, <1>4, <2>1 DEF View
    <2>4. c = d /\ c = e
      BY <1>1, <2>2, <2>3
    <2>5. OwnerOf(c[1]) # "teardown"
      BY DEF OwnerOf
    <2>6. LedgerOwner(h) # "teardown" /\ LedgerOwner(h)' = LedgerOwner(h)
      BY <2>2, <2>3, <2>4, <2>5
    <2>7. enabled[h] \in BOOLEAN /\ enabled'[h] \in BOOLEAN
      BY DEF HInv, TypeOK
    <2>8. /\ LedgerMode(h) = IF enabled[h] THEN "on" ELSE "off"
          /\ LedgerMode(h)' = IF enabled'[h] THEN "on" ELSE "off"
      BY <1>2, <1>3, <1>4, <2>1 DEF View
    <2>9. /\ LedgerMode(h) \in {"on", "off"}
          /\ LedgerMode(h)' = IF LedgerMode(h) = "on" THEN "off" ELSE "on"
      BY <1>6, <2>7, <2>8
    <2> QED
      BY <1>5, <2>6, <2>9, LedgerToggles
  <1> QED
    BY <1>5, <1>6, LedgerStutters

\* Owners hand hooks on.
LEMMA MoveView ==
    ASSUME HInv, HInv', Moved, UNCHANGED <<tx, enabled, active, spent>>
    PROVE  LedgerStep
  <1> DEFINE S == {h \in Hooks : active[h] /\ Movable(h) /\ Claims(h)' # Claims(h)}
             o == [h \in S |-> LedgerOwner(h)']
             O == [h \in Hooks |-> LedgerOwner(h)]
  <1>1. \A h \in Hooks : View(h) /\ View(h)'
    BY LedgerCases, LedgerCasesNext DEF Views
  <1>2. \A h : (Pending(h)' <=> Pending(h)) /\ (Seen(h)' <=> Seen(h))
    BY AppliedKept DEF SameApplied
  <1>3. ASSUME NEW h \in Hooks, h \notin S
        PROVE  Keeps(h)
    <2>1. CASE Claims(h)' = Claims(h)
      BY <1>1, <1>2, <2>1, SameView
    <2>2. CASE h \in spent
      BY <1>1, <2>2 DEF View, Keeps
    <2> QED
      BY <1>3, <2>1, <2>2 DEF Moved
  <1>4. ASSUME NEW h \in S
        PROVE  /\ LedgerMode(h) \in {"on", "off"} /\ LedgerMode(h)' = LedgerMode(h)
               /\ LedgerOwner(h) # "teardown" /\ LedgerOwner(h)' \in Ledger!Owners
    <2>1. PICK b : Claims(h) = {b} /\ b[1] # "dying"
      BY <1>4 DEF Movable
    <2>2. h \in Hooks /\ active[h] /\ ~Pending(h)
      BY <1>1, <1>4, <2>1 DEF View
    <2>3. LedgerMode(h) \in {"on", "off"} /\ LedgerMode(h)' = LedgerMode(h)
      BY <1>1, <1>2, <2>2 DEF View
    <2>4. PICK d : /\ Claims(h) = {d} /\ LedgerOwner(h) = OwnerOf(d[1])
                   /\ d[1] \in {"slot", "name", "kept", "dying"}
      BY <1>1, <2>2 DEF View
    <2>5. b = d
      BY <2>1, <2>4
    <2>6. LedgerOwner(h) # "teardown"
      BY <2>1, <2>4, <2>5 DEF OwnerOf
    <2>7. PICK e : /\ LedgerOwner(h)' = OwnerOf(e[1])
                   /\ e[1] \in {"slot", "name", "kept", "dying"}
      BY <1>1, <1>2, <2>2 DEF View, OwnerOf
    <2>8. LedgerOwner(h)' \in Ledger!Owners
      BY <2>7 DEF OwnerOf, Ledger!Owners
    <2> QED
      BY <2>3, <2>6, <2>8
  <1>5. S \in SUBSET Ledger!Owned
    <2>1. \A h \in S : h \in Ledger!Owned
      BY <1>4 DEF Ledger!Owned, Ledger!Live
    <2> QED
      BY <2>1
  <1>6. o \in [S -> Ledger!Owners]
    BY <1>4
  <1>7. [h \in Hooks |-> LedgerMode(h)'] = [h \in Hooks |-> LedgerMode(h)]
    BY <1>3, <1>4 DEF Keeps
  <1>8. [h \in Hooks |-> LedgerOwner(h)'] = [h \in Hooks |-> IF h \in S THEN o[h] ELSE O[h]]
    BY <1>3 DEF Keeps
  <1>9. Ledger!Move(S, o)
    BY <1>7, <1>8 DEF Ledger!Move
  <1> QED
    BY <1>5, <1>6, <1>9 DEF LedgerStep, Ledger!Next

\* A teardown removes its next hook; an emptied slot has none.
LEMMA DropHookView ==
    ASSUME HInv, HInv', NEW t \in Threads, drop_hook(t)
    PROVE  LedgerStep
  <1>0. PICK h : h = Head(dying[t])
    OBVIOUS
  <1>1. /\ dying[t] # <<>>
        /\ UNCHANGED <<tx, handles, kept, registry>>
        /\ dying'[t] = Tail(dying[t]) /\ \A u \in Threads \ {t} : dying'[u] = dying[u]
        /\ \/ h = None /\ UNCHANGED <<enabled, active, spent>>
           \/ /\ h # None /\ codeLock = None
              /\ enabled' = [enabled EXCEPT ![h] = FALSE]
              /\ active' = [active EXCEPT ![h] = FALSE]
              /\ spent' = spent \cup {h}
    BY <1>0 DEF drop_hook, HInv, TypeOK
  <1>2. /\ dying[t] \in Seq(Hooks \cup {None}) /\ h \in Range(dying[t]) /\ h \in Hooks \cup {None}
        /\ \A x : x \in Range(dying[t]) <=> x = h \/ x \in Range(dying'[t])
    <2>1. dying[t] \in Seq(Hooks \cup {None})
      BY DEF HInv, TypeOK
    <2>2. \A x : x \in Range(dying[t]) <=> x = h \/ x \in Range(dying'[t])
      BY <1>0, <1>1, <2>1, TailOf
    <2>3. h \in Range(dying[t]) /\ Range(dying[t]) \subseteq Hooks \cup {None}
      BY <2>1, <2>2, RangeOfSeq
    <2> QED
      BY <2>1, <2>2, <2>3
  <1>3. ASSUME NEW g \in Hooks, g # h
        PROVE  Claims(g)' = Claims(g)
    <2>1. \A u \in Threads : g \in Range(dying'[u]) <=> g \in Range(dying[u])
      BY <1>1, <1>2, <1>3
    <2>2. ASSUME NEW c
          PROVE  c \in Claims(g)' <=> c \in Claims(g)
      BY <1>1, <2>1, ClaimCases, ClaimCasesNext
    <2> QED
      BY <2>2
  <1>4. \A g \in Hooks : View(g) /\ View(g)'
    BY LedgerCases, LedgerCasesNext DEF Views
  <1>5. \A g : /\ Pending(g)' <=> Pending(g)
               /\ enabled'[g] = enabled[g] => (Seen(g)' <=> Seen(g))
    BY <1>1, AppliedKept DEF SameApplied
  <1>6. ASSUME NEW g \in Hooks, g # h
        PROVE  Keeps(g)
    <2>1. enabled'[g] = enabled[g] /\ active'[g] = active[g] /\ (g \in spent' <=> g \in spent)
      BY <1>1, <1>6 DEF HInv, TypeOK
    <2> QED
      BY <1>3, <1>4, <1>5, <1>6, <2>1, SameView
  <1>7. CASE h = None
    <2>1. \A g \in Hooks : g # h
      BY <1>7, Constants
    <2> QED
      BY <1>6, <2>1, LedgerStutters
  <1>8. CASE h # None
    <2>1. h \in Hooks /\ codeLock = None /\ h \in spent'
      BY <1>1, <1>2, <1>8
    <2>2. <<"dying", t, 0>> \in Claims(h)
      BY <1>2, ClaimCases
    <2>3. Claims(h) = {<<"dying", t, 0>>} /\ active[h]
      <3>1. <<"dying", t, 0>>[1] # "kept"
        OBVIOUS
      <3> QED
        BY <2>1, <2>2, <3>1, OneClaim
    <2>4. ~Pending(h)
      BY <1>4, <2>1, <2>3 DEF View
    <2>5. PICK d : Claims(h) = {d} /\ LedgerOwner(h) = OwnerOf(d[1])
      BY <1>4, <2>1, <2>3, <2>4 DEF View
    <2>6. d = <<"dying", t, 0>>
      BY <2>3, <2>5
    <2>7. LedgerOwner(h) = "teardown" /\ LedgerMode(h) \in {"on", "off"}
      BY <1>4, <2>1, <2>3, <2>4, <2>5, <2>6 DEF View, OwnerOf
    <2>8. LedgerMode(h)' = "gone" /\ LedgerOwner(h)' = "nobody"
      BY <1>4, <2>1 DEF View
    <2> DEFINE M == [g \in Hooks |-> LedgerMode(g)]
               O == [g \in Hooks |-> LedgerOwner(g)]
    <2>9. /\ [g \in Hooks |-> LedgerMode(g)'] = [M EXCEPT ![h] = "gone"]
          /\ [g \in Hooks |-> LedgerOwner(g)'] = [O EXCEPT ![h] = "nobody"]
      BY <1>6, <2>1, <2>8 DEF Keeps
    <2>10. Ledger!Remove(h)
      BY <2>1, <2>7, <2>9 DEF Ledger!Remove, Ledger!Live
    <2> QED
      BY <2>1, <2>10 DEF LedgerStep, Ledger!Next
  <1> QED
    BY <1>7, <1>8

\* Who owns the hooks of a commit, and whose hooks it may detach.
LEMMA FinishedKinds ==
    ASSUME HInv, NEW t \in Threads, pc[t] = "commit_install", Finished(t),
           UNCHANGED <<registry, dying>>, NEW h \in Installed(t), NEW c \in Claims(h)'
    PROVE  c[1] = IF tx[t].phase = "c" THEN "slot" ELSE "kept"
  <1>1. h \in Hooks /\ Claims(h) = {}
    BY InWindow
  <1> QED
    BY <1>1, FinishedClaims

LEMMA DetachedKinds ==
    ASSUME HInv, NEW t \in Threads, NEW h \in Detached(t), NEW c \in Claims(h)
    PROVE  c[1] \in {"slot", "kept"}
  <1>1. PICK d \in Range(tx[t].detached) : d.hook = h
    BY DEF Detached
  <1>2. h \in Hooks /\ d.target \in Ops
    BY <1>1, InWindow
  <1>3. d.target.op \in {"attach", "detach", "slot"}
    BY <1>2 DEF Ops
  <1>4. \/ <<"slot", d.target.handle, d.target.idx>> \in Claims(h)
        \/ <<"kept", t, 0>> \in Claims(h)
    BY <1>1, <1>3 DEF HInv, DetachedOK, DetachedOf
  <1>5. c = <<"slot", d.target.handle, d.target.idx>> \/ c = <<"kept", t, 0>>
    BY <1>2, <1>4 DEF HInv, ClaimsOK
  <1> QED
    BY <1>5

\* A commit that is done happens in the ledger at once.
LEMMA CommitDoneView ==
    ASSUME HInv, HInv', NEW t \in Threads, commit_done(t)
    PROVE  LedgerStep
  <1> DEFINE I == Installed(t)
             D == {h \in Hooks : h \in Detached(t) /\ active[h]}
             o == IF tx[t].phase = "c" THEN "handle" ELSE "client"
             M == [h \in Hooks |-> LedgerMode(h)]
             O == [h \in Hooks |-> LedgerOwner(h)]
  <1>1. /\ UNCHANGED <<registry, dying, enabled>>
        /\ pc[t] = "commit_install" /\ codeLock' = None /\ tx' = [tx EXCEPT ![t] = NoTx]
        /\ \A h \in Hooks : active'[h] <=> active[h] /\ h \notin Detached(t)
        /\ spent' = spent \cup Detached(t)
    BY DEF commit_done, HInv, TypeOK
  <1>2. pc[t] \in WindowPcs /\ Finished(t)
    BY <1>1 DEF WindowPcs, commit_done, Finished
  <1>3. \A u \in Threads : u # t => Installed(u) = {} /\ Range(tx[u].detached) = {}
    BY <1>2, Alone
  <1>4. \A u \in Threads : Installed(u)' = {} /\ Range(tx'[u].detached) = {}
    <2>1. /\ Installed(t)' = {} /\ Range(tx'[t].detached) = {}
          /\ \A u \in Threads \ {t} : tx'[u] = tx[u] /\ Installed(u)' = Installed(u)
      BY <1>1, TxEnds
    <2> QED
      BY <1>3, <2>1
  <1>5. \A h \in Hooks : ~Pending(h)' /\ (Pending(h) <=> h \in I)
    BY <1>3, <1>4 DEF Pending
  <1>6. \A h \in Hooks : View(h) /\ View(h)'
    BY LedgerCases, LedgerCasesNext DEF Views
  <1>7. \A h \in Hooks : /\ Seen(h)' <=> enabled[h]
                         /\ h \notin Detached(t) => (Seen(h) <=> enabled[h])
    BY <1>1, <1>3, <1>4 DEF Seen, Detached
  <1>8. ASSUME NEW h \in I
        PROVE  /\ h \in Hooks /\ LedgerMode(h) = "none"
               /\ LedgerMode(h)' = "on" /\ LedgerOwner(h)' = o
    <2>1. h \in Hooks /\ h \notin Detached(t) /\ active[h] /\ enabled[h]
      BY InWindow
    <2>2. active'[h] /\ ~Pending(h)' /\ Pending(h)
      BY <1>1, <1>5, <2>1
    <2>3. LedgerMode(h) = "none" /\ LedgerMode(h)' = "on"
      BY <1>6, <1>7, <2>1, <2>2 DEF View
    <2>4. PICK c : Claims(h)' = {c} /\ LedgerOwner(h)' = OwnerOf(c[1])
      BY <1>6, <2>1, <2>2 DEF View, OwnerOf
    <2>5. c[1] = IF tx[t].phase = "c" THEN "slot" ELSE "kept"
      BY <1>1, <1>2, <2>4, FinishedKinds
    <2>6. LedgerOwner(h)' = o
      BY <2>4, <2>5 DEF OwnerOf
    <2> QED
      BY <2>1, <2>3, <2>6
  <1>9. ASSUME NEW h \in D
        PROVE  /\ LedgerMode(h) \in {"on", "off"} /\ LedgerOwner(h) \notin {"registry", "teardown"}
               /\ LedgerMode(h)' = "gone" /\ LedgerOwner(h)' = "nobody" /\ h \notin I
    <2>1. h \in Hooks /\ h \in Detached(t) /\ active[h] /\ h \notin I
      BY <1>9, InWindow
    <2>2. ~Pending(h) /\ h \in spent'
      BY <1>1, <1>5, <2>1
    <2>3. PICK c : Claims(h) = {c} /\ LedgerOwner(h) = OwnerOf(c[1])
      BY <1>6, <2>1, <2>2 DEF View
    <2>4. c[1] \in {"slot", "kept"}
      BY <2>1, <2>3, DetachedKinds
    <2>5. LedgerOwner(h) \notin {"registry", "teardown"}
      BY <2>3, <2>4 DEF OwnerOf
    <2>6. LedgerMode(h) \in {"on", "off"}
      BY <1>6, <2>1, <2>2 DEF View
    <2>7. LedgerMode(h)' = "gone" /\ LedgerOwner(h)' = "nobody"
      BY <1>6, <2>1, <2>2 DEF View
    <2> QED
      BY <2>1, <2>5, <2>6, <2>7
  <1>10. ASSUME NEW h \in Hooks, h \notin I, h \notin D
         PROVE  Keeps(h)
    <2>1. CASE h \in Detached(t)
      <3>1. Claims(h) # {} /\ ~active[h]
        BY <1>10, <2>1, InWindow
      <3>2. h \in spent /\ h \in spent'
        BY <1>1, <3>1 DEF HInv, ClaimsOK
      <3> QED
        BY <1>6, <3>2 DEF View, Keeps
    <2>2. CASE h \notin Detached(t)
      <3>1. Claims(h)' = Claims(h)
        BY <1>1, <1>2, <1>10, <2>2, FinishedOwners
      <3>2. /\ active'[h] = active[h]
            /\ h \in spent' <=> h \in spent
            /\ Pending(h)' <=> Pending(h)
            /\ Seen(h)' <=> Seen(h)
        BY <1>1, <1>5, <1>7, <1>10, <2>2 DEF HInv, TypeOK
      <3> QED
        BY <1>6, <3>1, <3>2, SameView
    <2> QED
      BY <2>1, <2>2
  <1>11. I \in SUBSET {h \in Hooks : M[h] = "none"}
    <2>1. \A h \in I : h \in Hooks /\ M[h] = "none"
      BY <1>8
    <2> QED
      BY <2>1
  <1>12. D \in SUBSET Ledger!Owned
    <2>1. \A h \in D : h \in Ledger!Owned
      BY <1>9 DEF Ledger!Owned, Ledger!Live
    <2> QED
      BY <2>1
  <1>13. o \in Ledger!Owners
    BY DEF Ledger!Owners
  <1>14. /\ \A h \in D : O[h] # "registry"
         /\ [h \in Hooks |-> LedgerMode(h)'] =
               [h \in Hooks |-> CASE h \in I -> "on" [] h \in D -> "gone" [] OTHER -> M[h]]
         /\ [h \in Hooks |-> LedgerOwner(h)'] =
               [h \in Hooks |-> CASE h \in I -> o [] h \in D -> "nobody" [] OTHER -> O[h]]
    <2>1. \A h \in D : O[h] # "registry"
      BY <1>9
    <2>2. ASSUME NEW h \in Hooks
          PROVE  /\ LedgerMode(h)' = CASE h \in I -> "on" [] h \in D -> "gone" [] OTHER -> M[h]
                 /\ LedgerOwner(h)' = CASE h \in I -> o [] h \in D -> "nobody" [] OTHER -> O[h]
      <3>1. CASE h \in I
        BY <1>8, <1>9, <3>1
      <3>2. CASE h \in D
        BY <1>9, <3>2
      <3>3. CASE h \notin I /\ h \notin D
        BY <1>10, <3>3 DEF Keeps
      <3> QED
        BY <3>1, <3>2, <3>3
    <2> QED
      BY <2>1, <2>2
  <1>15. Ledger!Commit(I, D, o)
    BY <1>14 DEF Ledger!Commit
  <1> QED
    BY <1>11, <1>12, <1>13, <1>15 DEF LedgerStep, Ledger!Next

-----------------------------------------------------------------------------
\* Queueing an operation applies none.
LEMMA QueueView ==
    ASSUME HInv, HInv', NEW t \in Threads, NEW o \in Ops,
           tx' = [tx EXCEPT ![t].queue = Append(@, o)],
           UNCHANGED <<handles, kept, registry, dying, enabled, active, spent>>
    PROVE  LedgerStep
  <1>1. /\ tx'[t] = [tx[t] EXCEPT !.queue = Append(tx[t].queue, o)]
        /\ \A u \in Threads \ {t} : tx'[u] = tx[u]
    BY TxQueued DEF HInv
  <1>2. tx'[t].installed = tx[t].installed /\ tx'[t].detached = tx[t].detached
    BY <1>1, TxParts DEF HInv, TxRecord
  <1>3. SameApplied
    BY <1>1, <1>2 DEF SameApplied
  <1> QED
    BY <1>3, CallView

LEMMA CommitInstallView ==
    ASSUME HInv, HInv', NEW t \in Threads, commit_install(t)
    PROVE  LedgerStep
  <1>0. PICK o : o = tx[t].queue[Done(t) + 1]
    OBVIOUS
  <1>1. PICK h : h = hook_from_detach_target(o)
    OBVIOUS
  <1>2. /\ pc[t] = "commit_install" /\ Done(t) < Len(tx[t].queue)
        /\ UNCHANGED <<handles, kept, registry, dying, spent>>
        /\ \/ Fail(t)
           \/ /\ o.op = "attach"
              /\ tx' = [tx EXCEPT ![t].installed = Append(@, h)]
              /\ enabled' = [enabled EXCEPT ![h] = TRUE]
              /\ active' = [active EXCEPT ![h] = TRUE]
           \/ /\ h # None
              /\ tx' = [tx EXCEPT ![t].detached =
                            Append(@, [target |-> o, hook |-> h, was |-> enabled[h]])]
              /\ enabled' = [enabled EXCEPT ![h] = FALSE]
              /\ UNCHANGED active
    BY <1>0, <1>1 DEF commit_install, Done
  <1>3. /\ o \in Ops /\ (h # None => h \in Hooks)
        /\ o.op = "attach" => o = Attaching(h) /\ h \in Hooks
    BY <1>0, <1>1, <1>2, NextOp
  <1>4. CASE Fail(t)
    BY <1>4, FailView
  <1>5. CASE /\ o.op = "attach"
             /\ tx' = [tx EXCEPT ![t].installed = Append(@, h)]
             /\ enabled' = [enabled EXCEPT ![h] = TRUE]
             /\ active' = [active EXCEPT ![h] = TRUE]
    BY <1>0, <1>2, <1>3, <1>5, InstallView
  <1>6. CASE /\ h # None
             /\ tx' = [tx EXCEPT ![t].detached =
                           Append(@, [target |-> o, hook |-> h, was |-> enabled[h]])]
             /\ enabled' = [enabled EXCEPT ![h] = FALSE]
             /\ UNCHANGED active
    BY <1>2, <1>3, <1>6, UninstallView
  <1> QED
    BY <1>2, <1>4, <1>5, <1>6

LEMMA SetEnabledView ==
    ASSUME HInv, HInv', NEW t \in Threads, NEW hd \in LiveHandles, NEW i \in Slots,
           NEW on \in BOOLEAN, detours_handle_set_enabled(t, hd, i, on)
    PROVE  LedgerStep
  <1>0. PICK h : h = Slot(hd, i)
    OBVIOUS
  <1>1. /\ codeLock = None /\ h # None
        /\ enabled' = [enabled EXCEPT ![h] = on]
        /\ UNCHANGED <<tx, handles, kept, registry, dying, active, spent>>
    BY <1>0 DEF detours_handle_set_enabled, with_handle_slot
  <1>2. hd \in DOMAIN handles /\ h \in Hooks
    BY <1>0, <1>1, OpHook DEF LiveHandles, HInv
  <1>3. <<"slot", hd, i>> \in Claims(h) /\ <<"slot", hd, i>>[1] = "slot"
    BY <1>0, <1>1, <1>2, ClaimCases DEF Slot
  <1>4. active[h] /\ Claims(h) = {<<"slot", hd, i>>}
    BY <1>2, <1>3, OneClaim
  <1>5. \A g \in Hooks \ {h} : enabled'[g] = enabled[g]
    BY <1>1 DEF HInv, TypeOK
  <1>6. PICK c : c = <<"slot", hd, i>>
    OBVIOUS
  <1> QED
    BY <1>1, <1>2, <1>3, <1>4, <1>5, <1>6, EnableView

LEMMA ToggleWriteView ==
    ASSUME HInv, HInv', NEW t \in Threads, NEW n \in Names, toggle_write(t, n)
    PROVE  LedgerStep
  <1>0. PICK h : h = registry[n][1]
    OBVIOUS
  <1>1. /\ codeLock = None /\ registry[n] # None
        /\ UNCHANGED <<tx, handles, kept, registry, dying, active, spent>>
    BY DEF toggle_write, HInv, ToggleOK
  <1>2. h \in Hooks /\ active[h] /\ Claims(h) = {<<"name", n, 0>>}
    BY <1>0, <1>1, NameOwner
  <1>3. \A g \in Hooks \ {h} : enabled'[g] = enabled[g]
    BY <1>0 DEF toggle_write, HInv, TypeOK
  <1>4. PICK c : c = <<"name", n, 0>>
    OBVIOUS
  <1>5. c[1] = "name" /\ Claims(h) = {c}
    BY <1>2, <1>4
  <1> QED
    BY <1>1, <1>2, <1>3, <1>5, EnableView

LEMMA TransactionView ==
    ASSUME HInv, HInv', NEW t \in Threads, Transaction(t)
    PROVE  LedgerStep
  <1>1. ASSUME NEW h \in Hooks, attach(t, h) \/ detours_transaction_attach(t, h) \/ detach(t, h)
        PROVE  LedgerStep
    <2>1. PICK o \in {[op |-> "attach", hook |-> h], [op |-> "detach", hook |-> h]} :
             tx' = [tx EXCEPT ![t].queue = Append(@, o)]
      BY <1>1 DEF attach, detours_transaction_attach, QueueAttach, detach
    <2>2. UNCHANGED <<handles, kept, registry, dying, enabled, active, spent>>
      BY <1>1 DEF attach, detours_transaction_attach, QueueAttach, detach
    <2>3. o \in Ops
      BY DEF Ops
    <2> QED
      BY <2>1, <2>2, <2>3, QueueView
  <1>2. ASSUME NEW hd \in LiveHandles, NEW i \in Slots, detach_handle_index(t, hd, i)
        PROVE  LedgerStep
    <2>1. hd \in Nat
      BY HandleType DEF LiveHandles, HInv
    <2>2. [op |-> "slot", handle |-> hd, idx |-> i] \in Ops
      BY <2>1 DEF Ops
    <2> QED
      BY <1>2, <2>2, QueueView DEF detach_handle_index
  <1>3. CASE begin(t) \/ detours_transaction_begin(t) \/ update_threads(t)
    BY <1>3, BeginOps, CallView DEF SameApplied, SameOps
  <1>4. CASE abort(t) \/ detours_transaction_abort(t)
    BY <1>4, AbortView DEF abort, detours_transaction_abort
  <1>5. CASE commit(t) \/ commit_lock(t)
    <2>1. UNCHANGED <<tx, handles, kept, registry, dying, enabled, active, spent>>
      BY <1>5 DEF commit, commit_lock
    <2> QED
      BY <2>1, CallView DEF SameApplied
  <1> QED
    BY <1>1, <1>2, <1>3, <1>4, <1>5, CommitInstallView, RollbackDetachesView, RollbackView,
       CommitDoneView DEF Transaction

LEMMA StepView ==
    ASSUME HInv, HInv', [Next]_vars
    PROVE  LedgerStep
  <1>1. CASE UNCHANGED vars
    <2>1. UNCHANGED <<tx, handles, kept, registry, dying, enabled, active, spent>>
      BY <1>1 DEF vars
    <2> QED
      BY <2>1, CallView DEF SameApplied
  <1>2. ASSUME NEW t \in Threads, Step(t)
        PROVE  LedgerStep
    <2>1. TypeOK'
      BY DEF HInv
    <2>2. ASSUME NEW hd \in LiveHandles, detours_handle_unhook_and_free(t, hd)
          PROVE  LedgerStep
      BY <2>1, <2>2, FreeStep, MoveView DEF detours_handle_unhook_and_free
    <2>3. ASSUME NEW n \in Names, take(t, n)
          PROVE  LedgerStep
      BY <2>1, <2>3, TakeStep, MoveView DEF take
    <2>4. ASSUME NEW n \in Names, unhook(t, n)
          PROVE  LedgerStep
      BY <2>1, <2>4, UnhookStep, MoveView DEF unhook
    <2>5. ASSUME NEW n \in Names, NEW h \in Hooks, register(t, n, h)
          PROVE  LedgerStep
      BY <2>1, <2>5, RegisterStep, MoveView DEF register
    <2>6. CASE unhook_all(t)
      BY <2>1, <2>6, UnhookAllStep, MoveView DEF unhook_all
    <2>7. ASSUME NEW h \in Hooks, drop_kept(t, h)
          PROVE  LedgerStep
      BY <2>1, <2>7, DropKeptStep, MoveView DEF drop_kept
    <2>8. ASSUME NEW n \in Names, enable(t, n) \/ disable(t, n)
          PROVE  LedgerStep
      <3>1. UNCHANGED <<tx, handles, kept, registry, dying, enabled, active, spent>>
        BY <2>8 DEF enable, disable, Toggle
      <3> QED
        BY <3>1, CallView DEF SameApplied
    <2>9. CASE drop_end(t)
      <3>1. UNCHANGED <<tx, handles, kept, registry, dying, enabled, active, spent>>
        BY <2>9 DEF drop_end
      <3> QED
        BY <3>1, CallView DEF SameApplied
    <2>10. CASE Transaction(t)
      BY <2>10, TransactionView
    <2>11. CASE Handle(t)
      BY <2>2, <2>11, SetEnabledView DEF Handle
    <2>12. CASE Registry(t)
      BY <2>3, <2>4, <2>5, <2>6, <2>8, <2>12, ToggleWriteView DEF Registry
    <2>13. CASE Dropping(t)
      BY <2>7, <2>9, <2>13, DropHookView DEF Dropping
    <2> QED
      BY <1>2, <2>10, <2>11, <2>12, <2>13 DEF Step
  <1> QED
    BY <1>1, <1>2 DEF Next, Step

LEMMA InitView == Init => Ledger!Init
  <1>1. SUFFICES ASSUME Init
                 PROVE  Ledger!Init
    OBVIOUS
  <1>2. \A h \in Hooks : View(h) /\ ~active[h] /\ h \notin spent
    BY <1>1, InitInv, LedgerCases DEF Views, Init
  <1>3. \A h \in Hooks : LedgerMode(h) = "none" /\ LedgerOwner(h) = "nobody"
    BY <1>2 DEF View
  <1> QED
    BY <1>3 DEF Ledger!Init

(***************************************************************************)
(* Commits, toggles, hand-overs and teardowns of several threads implement *)
(* HookLedger: a client sees a commit whole or not at all, only the owner  *)
(* of a hook changes or removes it, and a removed hook stays removed       *)
(* (commit in transaction.rs, api.rs and registry.rs).                     *)
(***************************************************************************)
THEOREM HandlesImplementLedger == Spec => ImplementsLedger
  <1>1. HInv /\ HInv' /\ [Next]_vars => [Ledger!Next]_(Ledger!ledger)
    BY StepView DEF LedgerStep
  <1> QED
    BY <1>1, InitView, AlwaysInv, PTL DEF Spec, ImplementsLedger, Ledger!Spec
=============================================================================
