------------------------- MODULE TableHooks_proofs --------------------------
(***************************************************************************)
(* The types of TableHooks are kept, every slot of a table has one owner,  *)
(* no object uses a freed clone, and resolved exports stay good, for any   *)
(* threads, hooks, tables and refusals.                                    *)
(*                                                                         *)
(* The invariant has three layers.  TInv says which hook is in whose       *)
(* hands: a thread inside a commit holds the code lock, its lists hold     *)
(* hooks of its queue, each once, and no hook is queued or dropped twice.  *)
(* OInv says what guards, claims and slots have to do with each other.  A  *)
(* step of one thread changes one hook, which no other thread has in hand, *)
(* so that OInv of the rest carries over (OneHookStep).  RInv adds what    *)
(* clones (CInv) and stubs (SInv) may still be reached by.                 *)
(***************************************************************************)
EXTENDS TableHooks, FiniteSetTheorems, SequenceTheorems, TLAPS

DropPcs == {"drop", "release", "retire_stub"}
Holding == {"apply", "eat_protect", "finalize", "undo_detaches", "rollback", "dismantle"}
Locked(t) == pc[t] \in Holding \/ (pc[t] \in DropPcs /\ after[t] = "dismantle")
Dismantling(t) == pc[t] = "dismantle" \/ (pc[t] \in DropPcs /\ after[t] = "dismantle")
Outside(t) == pc[t] \in {"ready", "lock"} \/ (pc[t] \in DropPcs /\ after[t] = "ready")
Entry(kind, h) == [op |-> kind, hook |-> h]

EntryOK ==
    \A o \in Objects : clones[o] # NoEntry => clones[o].clone \in Hooks /\ clones[o].hooks > 0

(* What a thread holds and works on.  A commit holds the code lock and     *)
(* keeps its lists within the queue.                                       *)
LockOf(t) == Locked(t) => codeOwner = t
CountOf(t) ==
    /\ Len(queue[t]) <= MaxQueue
    /\ Len(installed[t]) <= MaxQueue /\ Len(detached[t]) <= MaxQueue
    /\ pc[t] \in {"apply", "eat_protect"} =>
          /\ Len(installed[t]) + Len(detached[t]) < idx[t]
          /\ idx[t] <= Len(queue[t]) + 1
    /\ pc[t] = "eat_protect" => idx[t] <= Len(queue[t]) /\ queue[t][idx[t]].op = "attach"
    /\ pc[t] = "rollback" => idx[t] <= Len(installed[t])
    /\ Outside(t) => installed[t] = << >>
    /\ Outside(t) \/ Dismantling(t) \/ pc[t] = "rollback" => detached[t] = << >>
(* A queued operation has its guard: a new hook stays the transaction's    *)
(* until the commit ends one way or the other.                             *)
QueueOf(t) ==
    \A i \in DOMAIN queue[t] :
        /\ queue[t][i].op = "detach" => stage[queue[t][i].hook] = "borrowed"
        /\ queue[t][i].op = "attach" => stage[queue[t][i].hook] # "new"
        /\ queue[t][i].op = "attach" /\ ~Dismantling(t) /\ pc[t] # "finalize"
              => stage[queue[t][i].hook] = "queued"
        /\ queue[t][i].op = "attach" /\ Dismantling(t)
              => stage[queue[t][i].hook] \in {"queued", "dropping", "gone"}
InstalledOf(t) ==
    pc[t] # "finalize" =>
        /\ \A k \in DOMAIN installed[t] : stage[installed[t][k]] = "queued"
        /\ \A k \in DOMAIN installed[t] : \E i \in DOMAIN queue[t] :
              /\ queue[t][i] = Entry("attach", installed[t][k])
              /\ pc[t] \in {"apply", "eat_protect"} => i < idx[t]
        /\ \A k, l \in DOMAIN installed[t] : installed[t][k] = installed[t][l] => k = l
DetachedOf(t) ==
    /\ \A k \in DOMAIN detached[t] : \E i \in DOMAIN queue[t] :
          /\ queue[t][i] = Entry("detach", detached[t][k].hook)
          /\ pc[t] \in {"apply", "eat_protect"} => i < idx[t]
    /\ \A k, l \in DOMAIN detached[t] : detached[t][k].hook = detached[t][l].hook => k = l
DropOf(t) == pc[t] \in DropPcs => arg[t] \in Hooks /\ stage[arg[t]] = "dropping"
POf(t) ==
    /\ LockOf(t) /\ CountOf(t) /\ QueueOf(t)
    /\ InstalledOf(t) /\ DetachedOf(t) /\ DropOf(t)
(* No hook is in two hands.                                                *)
QueueUnique ==
    \A t, u \in Threads : \A i \in DOMAIN queue[t], j \in DOMAIN queue[u] :
        queue[t][i] = queue[u][j] => t = u /\ i = j
DropUnique ==
    \A t, u \in Threads : pc[t] \in DropPcs /\ pc[u] \in DropPcs /\ arg[t] = arg[u] => t = u
PInv == (\A t \in Threads : POf(t)) /\ QueueUnique /\ DropUnique

(* The slots: what the guards know, who owns what.                         *)
Eats(t, h) == pc[t] = "eat_protect" /\ queue[t][idx[t]].hook = h
EatOf(t) ==
    \A h \in Hooks : Eats(t, h) =>
        /\ Place(h) \in Exports /\ ~hook[h].claimed
        /\ Place(h) \in claims /\ slot[Place(h)] = h
ReleaseOf(t) ==
    /\ pc[t] \in {"release", "retire_stub"} => Place(arg[t]) \in Slots
    /\ pc[t] = "release" => hook[arg[t]].claimed /\ slot[Place(arg[t])] # arg[t]
    /\ pc[t] = "retire_stub" => ~hook[arg[t]].claimed
ListsOf(t) ==
    /\ pc[t] # "finalize" => \A k \in DOMAIN installed[t] :
          Place(installed[t][k]) \in Slots => hook[installed[t][k]].claimed
    /\ \A k \in DOMAIN detached[t] : ~hook[detached[t][k].hook].enabled
GuardOf(h) ==
    /\ stage[h] = "new" => hook[h] = NoGuard
    /\ stage[h] # "new" => Place(h) # Original
    /\ hook[h].claimed => Place(h) \in Slots /\ Place(h) \in claims
    /\ Place(h) \in Slots => hook[h].orig = Original
    /\ Place(h) \in Slots /\ stage[h] # "dropping" /\ (hook[h].active \/ hook[h].enabled)
          => hook[h].claimed
    /\ stage[h] \notin {"dropping", "gone"} /\ hook[h].claimed
          => (hook[h].enabled <=> slot[Place(h)] = h)
    /\ stage[h] # "gone" /\ hook[h].claimed /\ slot[Place(h)] = h => hook[h].active
OwnerOK ==
    /\ \A s \in claims : \E h \in Hooks : Owns(h, s)
    /\ \A s \in Slots : \A g, h \in Hooks : Owns(g, s) /\ Owns(h, s) => g = h
    /\ \A s \in Slots : slot[s] \in Hooks => s \in claims /\ Owns(slot[s], s)
OInv ==
    /\ \A t \in Threads : EatOf(t) /\ ReleaseOf(t) /\ ListsOf(t)
    /\ \A h \in Hooks : GuardOf(h)
    /\ OwnerOK

-----------------------------------------------------------------------------
(***************************************************************************)
(* Types, the lock and the lists                                           *)
(***************************************************************************)

TableType == slot \in [Slots -> Pointer] /\ claims \subseteq Slots
ObjType ==
    /\ vptr \in [Objects -> Pointer]
    /\ clones \in [Objects -> [clone : Pointer, original : Pointer, hooks : Nat]]
    /\ cloneSlot \in [Hooks -> [Methods -> Pointer]]
    /\ owned \in [Hooks -> SUBSET Methods] /\ freed \subseteq Hooks
HookType ==
    /\ hook \in [Hooks -> Guard]
    /\ stage \in [Hooks -> {"new", "queued", "live", "borrowed", "dropping", "gone"}]
StubType ==
    /\ stub \in [Hooks -> {"none", "detour", "original", "retired"}]
    /\ resolved \subseteq Far /\ codeOwner \in Threads \cup {NoThread}
TxType ==
    /\ queue \in [Threads -> Seq(Ops)] /\ installed \in [Threads -> Seq(Hooks)]
    /\ detached \in [Threads -> Seq([hook : Hooks, was_enabled : BOOLEAN])]
    /\ idx \in [Threads -> Nat]
CallType ==
    /\ pc \in [Threads -> {"ready", "lock", "apply", "eat_protect", "finalize", "undo_detaches",
                           "rollback", "dismantle", "drop", "release", "retire_stub"}]
    /\ arg \in [Threads -> Pointer] /\ after \in [Threads -> {"ready", "dismantle"}]
Types == TableType /\ ObjType /\ HookType /\ StubType /\ TxType /\ CallType

TInv == Types /\ EntryOK /\ PInv

LEMMA TypesImplyTypeOK == TInv => TypeOK
  BY DEF TInv, Types, TableType, ObjType, HookType, StubType, TxType, CallType, PInv, POf,
         CountOf, TypeOK

LEMMA InitTInv == Init => TInv
<1>1. SUFFICES ASSUME Init PROVE TInv
  OBVIOUS
<1>2. NoGuard \in Guard
  BY DEF NoGuard, Guard, Pointer
<1>3. NoEntry \in [clone : Pointer, original : Pointer, hooks : Nat]
  BY DEF NoEntry, Pointer
<1>4. Types
  BY <1>1, <1>2, <1>3
     DEF Init, Types, TableType, ObjType, HookType, StubType, TxType, CallType, Pointer
<1>5. EntryOK
  BY <1>1 DEF Init, EntryOK
<1>6. ASSUME NEW t \in Threads PROVE POf(t)
  <2>1. LockOf(t) /\ DropOf(t)
    BY <1>1 DEF Init, LockOf, DropOf, Locked, Holding, DropPcs
  <2>2. CountOf(t)
    BY <1>1, FarAssumption DEF Init, CountOf, DropPcs, Outside, Dismantling
  <2>3. QueueOf(t) /\ InstalledOf(t) /\ DetachedOf(t)
    BY <1>1 DEF Init, QueueOf, InstalledOf, DetachedOf
  <2>4. QED
    BY <2>1, <2>2, <2>3 DEF POf
<1>7. QueueUnique /\ DropUnique
  BY <1>1 DEF Init, QueueUnique, DropUnique, DropPcs
<1>8. QED
  BY <1>4, <1>5, <1>6, <1>7 DEF TInv, PInv

LEMMA OnInstance ==
  ASSUME HookType, NEW h \in Hooks, Place(h) \in Instances
  PROVE  Object(h) \in Objects /\ Method(h) \in Methods /\ Place(h) = <<Object(h), Method(h)>>
  BY DEF Object, Method, Instances

LEMMA WriteTyped ==
  ASSUME Types, EntryOK, NEW h \in Hooks, NEW v \in Pointer, Write(h, v)
  PROVE  slot' \in [Slots -> Pointer] /\ ObjType' /\ EntryOK'
<1>1. CASE Place(h) \in Slots /\ write_slot(h, v)
  BY <1>1 DEF Types, TableType, ObjType, EntryOK, write_slot, objVars
<1>2. CASE Place(h) \in Instances /\ write_clone_slot(h, v)
  BY <1>2 DEF Types, TableType, ObjType, EntryOK, write_clone_slot
<1>3. QED
  BY <1>1, <1>2 DEF Write

LEMMA RestoreTyped ==
  ASSUME Types, EntryOK, NEW h \in Hooks, Place(h) \in Instances, restore_instance(h)
  PROVE  slot' = slot /\ ObjType' /\ EntryOK'
<1>1. PICK o \in Objects : o = Object(h)
  BY OnInstance DEF Types
<1>2. clones[o] # NoEntry /\ clones[o].clone \in Hooks /\ clones[o].hooks > 0
  BY <1>1 DEF restore_instance, EntryOK
<1>3. NoEntry \in [clone : Pointer, original : Pointer, hooks : Nat]
  BY DEF NoEntry, Pointer
<1>4. hook[h].orig \in Pointer
  BY DEF Types, HookType, Guard
<1>5. CASE LastOfClone(h)
  <2>1. /\ vptr' = [vptr EXCEPT ![o] = IF @ = clones[o].clone THEN clones[o].original ELSE @]
        /\ clones' = [clones EXCEPT ![o] = NoEntry]
        /\ freed' = freed \cup {clones[o].clone}
        /\ UNCHANGED <<cloneSlot, owned, slot>>
    BY <1>1, <1>5 DEF restore_instance
  <2>2. QED
    BY <2>1, <1>2, <1>3 DEF Types, ObjType, EntryOK
<1>6. CASE ~LastOfClone(h)
  <2>1. /\ cloneSlot' = [cloneSlot EXCEPT ![hook[h].clone][Method(h)] = hook[h].orig]
        /\ owned' = [owned EXCEPT ![clones[o].clone] = @ \ {Method(h)}]
        /\ clones' = [clones EXCEPT ![o].hooks = @ - 1]
        /\ UNCHANGED <<vptr, freed, slot>>
    BY <1>1, <1>6 DEF restore_instance
  <2>2. clones[o].hooks - 1 \in Nat /\ clones[o].hooks - 1 > 0
    BY <1>1, <1>2, <1>6 DEF LastOfClone, Types, ObjType
  <2>3. clones' \in [Objects -> [clone : Pointer, original : Pointer, hooks : Nat]]
    BY <2>1, <2>2 DEF Types, ObjType
  <2>4. ObjType'
    BY <2>1, <2>3, <1>4 DEF Types, ObjType
  <2>5. EntryOK'
    <3>1. SUFFICES ASSUME NEW p \in Objects, clones'[p] # NoEntry
                   PROVE  clones'[p].clone \in Hooks /\ clones'[p].hooks > 0
      BY DEF EntryOK
    <3>2. CASE p = o
      BY <3>2, <2>1, <2>2, <1>2 DEF Types, ObjType
    <3>3. CASE p # o
      BY <3>1, <3>3, <2>1 DEF Types, ObjType, EntryOK
    <3>4. QED
      BY <3>2, <3>3
  <2>6. QED
    BY <2>1, <2>4, <2>5
<1>7. QED
  BY <1>5, <1>6

LEMMA UnhookTyped ==
  ASSUME Types, EntryOK, NEW h \in Hooks, perform_unhook(h)
  PROVE  slot' \in [Slots -> Pointer] /\ ObjType' /\ EntryOK'
<1>1. CASE Place(h) \in Slots /\ write_slot(h, hook[h].orig)
  <2>1. Write(h, hook[h].orig) /\ hook[h].orig \in Pointer
    BY <1>1 DEF Write, Types, HookType, Guard
  <2>2. QED
    BY <2>1, WriteTyped
<1>2. CASE Place(h) \in Instances /\ restore_instance(h)
  BY <1>2, RestoreTyped DEF Types, TableType
<1>3. QED
  BY <1>1, <1>2 DEF perform_unhook

LEMMA UnrestoredTyped ==
  ASSUME Types, EntryOK, NEW h \in Hooks, Unrestored(h)
  PROVE  slot' \in [Slots -> Pointer] /\ ObjType' /\ EntryOK'
  BY DEF Unrestored, objVars, Types, TableType, ObjType, EntryOK

-----------------------------------------------------------------------------
(***************************************************************************)
(* What each kind of step does to the lists and to whose hands a hook is   *)
(* in.                                                                     *)
(***************************************************************************)

Same(u) ==
    /\ pc'[u] = pc[u] /\ arg'[u] = arg[u] /\ after'[u] = after[u]
    /\ queue'[u] = queue[u] /\ installed'[u] = installed[u] /\ detached'[u] = detached[u]
    /\ idx'[u] = idx[u]

LEMMA OtherThread ==
  ASSUME Types, NEW u \in Threads, POf(u), Same(u),
         Locked(u) => codeOwner' = u,
         \A i \in DOMAIN queue[u] :
            \/ stage'[queue[u][i].hook] = stage[queue[u][i].hook]
            \/ /\ pc[u] = "finalize" /\ queue[u][i].op = "attach"
               /\ stage'[queue[u][i].hook] # "new"
            \/ /\ Dismantling(u) /\ queue[u][i].op = "attach"
               /\ stage[queue[u][i].hook] = "dropping" /\ stage'[queue[u][i].hook] = "gone",
         pc[u] \in DropPcs => stage'[arg[u]] = "dropping"
  PROVE  POf(u)'
<1>1. (LockOf(u) /\ CountOf(u) /\ DropOf(u))'
  BY DEF POf, Same, LockOf, CountOf, DropOf, Locked, Outside, Dismantling
<1>2. QueueOf(u)'
  <2>1. /\ queue'[u] = queue[u] /\ (pc[u] = "finalize" <=> pc'[u] = "finalize")
        /\ Dismantling(u)' <=> Dismantling(u)
    BY DEF Same, Dismantling
  <2>2. pc[u] = "finalize" => ~Dismantling(u)
    BY DEF Dismantling, DropPcs
  <2>3. QED
    BY <2>1, <2>2 DEF POf, QueueOf
<1>3. DetachedOf(u)'
  BY DEF POf, Same, DetachedOf
<1>4. InstalledOf(u)'
  <2>1. SUFFICES ASSUME pc[u] # "finalize", NEW k \in DOMAIN installed[u]
                 PROVE  stage'[installed[u][k]] = "queued"
    BY DEF POf, Same, InstalledOf
  <2>2. PICK i \in DOMAIN queue[u] : queue[u][i] = Entry("attach", installed[u][k])
    BY <2>1 DEF POf, InstalledOf
  <2>3. queue[u][i].hook = installed[u][k]
    BY <2>2 DEF Entry
  <2>4. QED
    BY <2>1, <2>3 DEF POf, InstalledOf
<1>5. QED
  BY <1>1, <1>2, <1>3, <1>4 DEF POf

(* A thread that does not hold the lock while another does.                *)
LEMMA Exclusive ==
  ASSUME PInv, NEW t \in Threads, Locked(t), NEW u \in Threads \ {t}
  PROVE  ~Locked(u)
  BY DEF PInv, POf, LockOf

LEMMA InQueue ==
  ASSUME Types, NEW t \in Threads, NEW i \in DOMAIN queue[t]
  PROVE  /\ queue[t][i] \in Ops /\ queue[t][i].hook \in Hooks
         /\ queue[t][i] = Entry(queue[t][i].op, queue[t][i].hook)
         /\ queue[t][i].op \in {"attach", "detach"}
<1>1. queue[t][i] \in Ops
  BY DEF Types, TxType
<1>2. QED
  BY <1>1 DEF Ops, Entry

LEMMA ElementOf == ASSUME NEW S, NEW s \in Seq(S), NEW k \in DOMAIN s PROVE s[k] \in S
  OBVIOUS

LEMMA InLists ==
  ASSUME Types, NEW t \in Threads
  PROVE  /\ \A k \in DOMAIN installed[t] : installed[t][k] \in Hooks
         /\ \A k \in DOMAIN detached[t] : detached[t][k].hook \in Hooks
<1>1. installed[t] \in Seq(Hooks)
  BY DEF Types, TxType
<1>2. detached[t] \in Seq([hook : Hooks, was_enabled : BOOLEAN])
  BY DEF Types, TxType
<1>3. \A k \in DOMAIN detached[t] : detached[t][k] \in [hook : Hooks, was_enabled : BOOLEAN]
  BY <1>2, ElementOf, Zenon
<1>4. QED
  BY <1>1, <1>3

(* Nothing is added to a list and no hook changes hands.                   *)
LEMMA MoveStep ==
  ASSUME Types, Types', PInv, NEW t \in Threads,
         \A u \in Threads \ {t} : Same(u) /\ (Locked(u) => codeOwner' = u),
         stage' = stage, queue'[t] = queue[t], installed'[t] = installed[t],
         detached'[t] = detached[t], arg'[t] = arg[t], after'[t] = after[t],
         LockOf(t)', CountOf(t)', Dismantling(t) => Dismantling(t)',
         (pc[t] = "finalize") = (pc'[t] = "finalize"),
         pc'[t] \in DropPcs => pc[t] \in DropPcs,
         pc'[t] \in {"apply", "eat_protect"}
            => \/ pc[t] \in {"apply", "eat_protect"} /\ idx'[t] = idx[t]
               \/ installed[t] = << >> /\ detached[t] = << >>
  PROVE  PInv'
<1>1. ASSUME NEW u \in Threads \ {t} PROVE POf(u)'
  BY <1>1, OtherThread DEF PInv, POf, DropOf
<1>2. POf(t)'
  <2>1. QueueOf(t)' /\ DropOf(t)'
    <3>1. POf(t) /\ (Dismantling(t)' => pc'[t] # "finalize")
      BY DEF PInv, Dismantling, DropPcs
    <3>2. QED
      BY <3>1 DEF POf, QueueOf, DropOf
  <2>2. InstalledOf(t)'
    BY DEF PInv, POf, InstalledOf
  <2>3. DetachedOf(t)'
    BY DEF PInv, POf, DetachedOf
  <2>4. QED
    BY <2>1, <2>2, <2>3 DEF POf
<1>3. queue' = queue
  BY DEF Types, TxType, Same
<1>4. QueueUnique' /\ DropUnique'
  BY <1>3 DEF PInv, QueueUnique, DropUnique, Same
<1>5. QED
  BY <1>1, <1>2, <1>4 DEF PInv

(* An operation is queued: the hook was new, or the client's.              *)
LEMMA PushStep ==
  ASSUME Types, Types', PInv, NEW t \in Threads, NEW h \in Hooks, NEW kind \in {"attach", "detach"},
         \A u \in Threads \ {t} : Same(u), codeOwner' = codeOwner,
         pc[t] = "ready", pc'[t] = "ready", Len(queue[t]) < MaxQueue,
         installed'[t] = installed[t], detached'[t] = detached[t],
         queue'[t] = Append(queue[t], Entry(kind, h)),
         \A g \in Hooks \ {h} : stage'[g] = stage[g],
         \/ kind = "attach" /\ stage[h] = "new" /\ stage'[h] = "queued"
         \/ kind = "detach" /\ stage[h] = "live" /\ stage'[h] = "borrowed"
  PROVE  PInv'
<1>1. ASSUME NEW u \in Threads, NEW i \in DOMAIN queue[u], queue[u][i].hook = h
      PROVE  kind = "detach" /\ pc[u] = "finalize" /\ queue[u][i].op = "attach"
  <2>1. POf(u) /\ queue[u][i].op \in {"attach", "detach"}
    BY InQueue DEF PInv
  <2>2. QED
    BY <1>1, <2>1 DEF POf, QueueOf
<1>2. ASSUME NEW u \in Threads \ {t} PROVE POf(u)'
  <2>1. ASSUME NEW i \in DOMAIN queue[u]
        PROVE  \/ stage'[queue[u][i].hook] = stage[queue[u][i].hook]
               \/ /\ pc[u] = "finalize" /\ queue[u][i].op = "attach"
                  /\ stage'[queue[u][i].hook] # "new"
    BY <1>1, <2>1, InQueue
  <2>2. POf(u) /\ Same(u) /\ (Locked(u) => codeOwner' = u)
    BY DEF PInv, POf, LockOf
  <2>3. pc[u] \in DropPcs => stage'[arg[u]] = "dropping"
    BY <2>2 DEF POf, DropOf
  <2>4. QED
    BY <2>1, <2>2, <2>3, OtherThread
<1>3. /\ Len(queue'[t]) = Len(queue[t]) + 1
      /\ \A i \in DOMAIN queue[t] : i \in DOMAIN queue'[t] /\ queue'[t][i] = queue[t][i]
      /\ \A i \in DOMAIN queue'[t] :
            i \in DOMAIN queue[t] \/ (i = Len(queue[t]) + 1 /\ queue'[t][i] = Entry(kind, h))
  BY DEF Types, TxType, Entry, Ops
<1>4. POf(t)'
  <2>1. POf(t) /\ ~Dismantling(t) /\ Outside(t)
    BY DEF PInv, Dismantling, Outside, DropPcs
  <2>2. LockOf(t)' /\ DropOf(t)'
    BY DEF LockOf, DropOf, Locked, Holding, DropPcs
  <2>3. installed'[t] = << >> /\ detached'[t] = << >>
    BY <2>1 DEF POf, CountOf
  <2>4. CountOf(t)'
    BY <2>1, <2>3, <1>3, FarAssumption DEF POf, CountOf, DropPcs, Types, TxType
  <2>5. InstalledOf(t)' /\ DetachedOf(t)'
    BY <2>3 DEF InstalledOf, DetachedOf
  <2>6. QueueOf(t)'
    <3>1. ASSUME NEW i \in DOMAIN queue'[t]
          PROVE  /\ queue'[t][i].op = "detach" => stage'[queue'[t][i].hook] = "borrowed"
                 /\ queue'[t][i].op = "attach" => stage'[queue'[t][i].hook] = "queued"
      <4>1. CASE i \in DOMAIN queue[t]
        BY <4>1, <1>1, <1>3, <2>1, InQueue DEF POf, QueueOf
      <4>2. CASE i = Len(queue[t]) + 1 /\ queue'[t][i] = Entry(kind, h)
        BY <4>2 DEF Entry
      <4>3. QED
        BY <4>1, <4>2, <1>3
    <3>2. QED
      BY <3>1 DEF QueueOf, Dismantling, DropPcs
  <2>7. QED
    BY <2>2, <2>4, <2>5, <2>6 DEF POf
<1>5. QueueUnique'
  <2>1. SUFFICES ASSUME NEW u \in Threads, NEW w \in Threads,
                        NEW i \in DOMAIN queue'[u], NEW j \in DOMAIN queue'[w],
                        queue'[u][i] = queue'[w][j]
                 PROVE  u = w /\ i = j
    BY DEF QueueUnique
  <2>2. ASSUME NEW x \in Threads, NEW k \in DOMAIN queue'[x]
        PROVE  \/ k \in DOMAIN queue[x] /\ queue'[x][k] = queue[x][k]
               \/ x = t /\ k = Len(queue[t]) + 1 /\ queue'[x][k] = Entry(kind, h)
    BY <1>3 DEF Same
  <2>3. ASSUME NEW x \in Threads, NEW k \in DOMAIN queue[x] PROVE queue[x][k] # Entry(kind, h)
    BY <1>1, <2>3 DEF Entry
  <2>4. QED
    BY <2>1, <2>2, <2>3 DEF PInv, QueueUnique
<1>6. DropUnique'
  BY DEF PInv, DropUnique, Same, DropPcs
<1>7. QED
  BY <1>2, <1>4, <1>5, <1>6 DEF PInv

(* The transaction ends: new hooks go, borrowed guards are the client's.   *)
LEMMA EndStep ==
  ASSUME Types, Types', PInv, NEW t \in Threads,
         \A u \in Threads \ {t} : Same(u) /\ (Locked(u) => codeOwner' = u),
         pc'[t] = "ready", DropQueue(t), installed'[t] = << >>, detached'[t] = << >>
  PROVE  PInv'
<1>1. queue'[t] = << >>
  BY DEF DropQueue, Types, TxType
<1>2. ASSUME NEW u \in Threads \ {t} PROVE POf(u)'
  <2>1. POf(t) /\ POf(u) /\ Same(u) /\ (Locked(u) => codeOwner' = u)
    BY DEF PInv
  <2>2. ASSUME NEW g \in Hooks, stage'[g] # stage[g]
        PROVE  /\ stage'[g] # "new"
               /\ \E i \in DOMAIN queue[t] :
                     \/ queue[t][i] = Entry("attach", g) /\ stage[g] = "queued"
                     \/ queue[t][i] = Entry("detach", g) /\ stage[g] = "borrowed"
    <3>1. CASE g \in QueuedHooks(t) /\ stage[g] = "queued"
      <4>1. PICK i \in DOMAIN queue[t] : queue[t][i].op = "attach" /\ queue[t][i].hook = g
        BY <3>1 DEF QueuedHooks
      <4>2. queue[t][i] = Entry("attach", g)
        BY <4>1, InQueue
      <4>3. stage'[g] = "gone"
        BY <3>1 DEF DropQueue
      <4>4. QED
        BY <3>1, <4>2, <4>3
    <3>2. CASE ~(g \in QueuedHooks(t) /\ stage[g] = "queued")
      <4>1. PICK i \in DOMAIN queue[t] : queue[t][i] = [op |-> "detach", hook |-> g]
        BY <2>2, <3>2 DEF DropQueue
      <4>2. stage'[g] = "live"
        BY <3>2, <4>1 DEF DropQueue
      <4>3. queue[t][i] = Entry("detach", g) /\ queue[t][i].op = "detach" /\ queue[t][i].hook = g
        BY <4>1 DEF Entry
      <4>4. stage[g] = "borrowed"
        BY <2>1, <4>3 DEF POf, QueueOf
      <4>5. QED
        BY <4>2, <4>3, <4>4
    <3>3. QED
      BY <3>1, <3>2
  <2>3. ASSUME NEW i \in DOMAIN queue[u], stage'[queue[u][i].hook] # stage[queue[u][i].hook]
        PROVE  /\ pc[u] = "finalize" /\ queue[u][i].op = "attach"
               /\ stage'[queue[u][i].hook] # "new"
    <3>1. PICK g \in Hooks : g = queue[u][i].hook
      BY InQueue
    <3>2. queue[u][i] = Entry(queue[u][i].op, g) /\ queue[u][i].op \in {"attach", "detach"}
      BY <3>1, InQueue
    <3>3. stage'[g] # "new"
      BY <2>2, <2>3, <3>1
    <3>4. PICK j \in DOMAIN queue[t] :
                     \/ queue[t][j] = Entry("attach", g) /\ stage[g] = "queued"
                     \/ queue[t][j] = Entry("detach", g) /\ stage[g] = "borrowed"
      BY <2>2, <2>3, <3>1
    <3>5. queue[u][i] # queue[t][j]
      BY DEF PInv, QueueUnique
    <3>6. queue[u][i].op = "detach" => stage[g] = "borrowed"
      BY <2>1, <3>1 DEF POf, QueueOf
    <3>7. queue[u][i].op = "attach" /\ stage[g] = "borrowed" => pc[u] = "finalize"
      BY <2>1, <3>1 DEF POf, QueueOf
    <3>8. QED
      BY <3>1, <3>2, <3>3, <3>4, <3>5, <3>6, <3>7
  <2>4. pc[u] \in DropPcs => stage'[arg[u]] = "dropping"
    BY <2>1, <2>2 DEF POf, DropOf
  <2>5. QED
    BY <2>1, <2>3, <2>4, OtherThread
<1>3. POf(t)'
  <2>1. LockOf(t)' /\ DropOf(t)'
    BY DEF LockOf, DropOf, Locked, Holding, DropPcs
  <2>2. CountOf(t)'
    BY <1>1, FarAssumption DEF CountOf, DropPcs
  <2>3. QueueOf(t)' /\ InstalledOf(t)' /\ DetachedOf(t)'
    BY <1>1 DEF QueueOf, InstalledOf, DetachedOf
  <2>4. QED
    BY <2>1, <2>2, <2>3 DEF POf
<1>4. QueueUnique' /\ DropUnique'
  BY <1>1 DEF PInv, QueueUnique, DropUnique, Same, DropPcs
<1>5. QED
  BY <1>2, <1>3, <1>4 DEF PInv

LEMMA SameLength == ASSUME NEW a \in Nat, NEW b \in Nat, 1 .. a = 1 .. b PROVE a = b
<1>1. (a = 0 \/ a \in 1 .. a) /\ (b = 0 \/ b \in 1 .. b)
  OBVIOUS
<1>2. QED
  BY <1>1

LEMMA FrontOf ==
  ASSUME NEW S, NEW s \in Seq(S), s # << >>, NEW f, f = SubSeq(s, 1, Len(s) - 1)
  PROVE  /\ f \in Seq(S) /\ Len(f) = Len(s) - 1 /\ Len(s) \in Nat
         /\ \A k \in DOMAIN f : k \in DOMAIN s /\ f[k] = s[k]
<1>1. Len(s) \in Nat /\ Len(s) # 0
  OBVIOUS
<1>2. Len(s) - 1 \in Nat
  BY <1>1
<1>3. f \in Seq(S)
  <2>1. \A k \in 1 .. Len(s) - 1 : s[k] \in S
    BY <1>1
  <2>2. QED
    BY <2>1
<1>4. DOMAIN f = 1 .. (Len(s) - 1) /\ DOMAIN s = 1 .. Len(s)
  OBVIOUS
<1>5. Len(f) = Len(s) - 1
  <2>1. Len(f) \in Nat /\ DOMAIN f = 1 .. Len(f)
    BY <1>3
  <2>2. QED
    BY <2>1, <1>2, <1>4, SameLength
<1>6. \A k \in 1 .. Len(f) : f[k] = s[k] /\ k \in 1 .. Len(s)
  BY <1>1
<1>7. QED
  BY <1>1, <1>4, <1>5, <1>6

(* An operation of the queue is done: its hook joins one of the lists.     *)
Joins(t, h) ==
    \/ /\ queue[t][idx[t]].op = "attach"
       /\ installed'[t] = Append(installed[t], h) /\ detached'[t] = detached[t]
    \/ /\ queue[t][idx[t]].op = "detach" /\ installed'[t] = installed[t]
       /\ \E b \in BOOLEAN : detached'[t] = Append(detached[t], [hook |-> h, was_enabled |-> b])

LEMMA DoneStep ==
  ASSUME Types, Types', PInv, NEW t \in Threads,
         \A u \in Threads \ {t} : Same(u), codeOwner' = codeOwner, stage' = stage,
         pc[t] \in {"apply", "eat_protect"}, pc'[t] = "apply",
         idx[t] \in DOMAIN queue[t], idx'[t] = idx[t] + 1, queue'[t] = queue[t],
         NEW h \in Hooks, h = queue[t][idx[t]].hook, Joins(t, h)
  PROVE  PInv'
<1>1. ASSUME NEW u \in Threads \ {t} PROVE POf(u)'
  <2>1. POf(u) /\ Same(u) /\ (Locked(u) => codeOwner' = u)
    BY DEF PInv, POf, LockOf
  <2>2. QED
    BY <2>1, OtherThread DEF POf, DropOf
<1>2. POf(t) /\ codeOwner = t
  BY DEF PInv, POf, LockOf, Locked, Holding
<1>3. idx[t] \in Nat /\ Len(queue[t]) \in Nat /\ idx[t] <= Len(queue[t])
      /\ Len(installed[t]) \in Nat /\ Len(detached[t]) \in Nat
      /\ Len(installed[t]) + Len(detached[t]) < idx[t] /\ Len(queue[t]) <= MaxQueue
  BY <1>2 DEF POf, CountOf, Types, TxType
<1>4. LockOf(t)' /\ DropOf(t)'
  BY <1>2 DEF LockOf, DropOf, DropPcs
<1>5. CountOf(t)'
  <2>1. ASSUME NEW b \in BOOLEAN,
               detached'[t] = Append(detached[t], [hook |-> h, was_enabled |-> b])
        PROVE  Len(detached'[t]) = Len(detached[t]) + 1
    BY <2>1 DEF Types, TxType
  <2>2. installed'[t] = Append(installed[t], h) => Len(installed'[t]) = Len(installed[t]) + 1
    BY DEF Types, TxType
  <2>3. \/ Len(installed'[t]) = Len(installed[t]) + 1 /\ Len(detached'[t]) = Len(detached[t])
        \/ Len(installed'[t]) = Len(installed[t]) /\ Len(detached'[t]) = Len(detached[t]) + 1
    BY <2>1, <2>2 DEF Joins
  <2>4. MaxQueue \in Nat
    BY FarAssumption
  <2>5. /\ Len(installed'[t]) <= MaxQueue /\ Len(detached'[t]) <= MaxQueue
        /\ Len(installed'[t]) + Len(detached'[t]) < idx'[t] /\ idx'[t] <= Len(queue'[t]) + 1
    BY <2>3, <2>4, <1>3 DEF Types, TxType
  <2>6. ~Outside(t)' /\ ~Dismantling(t)'
    BY DEF Outside, Dismantling, DropPcs
  <2>7. QED
    BY <2>5, <2>6, <1>3 DEF CountOf
<1>6. QueueOf(t)'
  BY <1>2 DEF POf, QueueOf, Dismantling, DropPcs
<1>7. /\ QueueUnique
      /\ queue[t][idx[t]] = Entry(queue[t][idx[t]].op, h)
      /\ \A k \in DOMAIN installed[t] : \E i \in DOMAIN queue[t] :
            queue[t][i] = Entry("attach", installed[t][k]) /\ i < idx[t]
      /\ \A k \in DOMAIN detached[t] : \E i \in DOMAIN queue[t] :
            queue[t][i] = Entry("detach", detached[t][k].hook) /\ i < idx[t]
  BY <1>2, InQueue DEF PInv, POf, InstalledOf, DetachedOf
<1>8. ASSUME NEW i \in DOMAIN queue[t], i < idx[t] PROVE queue[t][i] # queue[t][idx[t]]
  BY <1>3, <1>7, <1>8 DEF QueueUnique
<1>9. InstalledOf(t)'
  <2>1. CASE queue[t][idx[t]].op = "attach" /\ installed'[t] = Append(installed[t], h)
    <3>1. /\ \A k \in DOMAIN installed[t] : installed'[t][k] = installed[t][k]
          /\ \A k \in DOMAIN installed'[t] :
                k \in DOMAIN installed[t] \/ (k = Len(installed[t]) + 1 /\ installed'[t][k] = h)
          /\ Len(installed[t]) + 1 \notin DOMAIN installed[t]
      BY <2>1 DEF Types, TxType
    <3>2. \A k \in DOMAIN installed[t] : installed[t][k] # h
      BY <1>7, <1>8, <2>1
    <3>3. stage[h] = "queued"
      BY <1>2, <2>1 DEF POf, QueueOf, Dismantling, DropPcs
    <3>4. \A k \in DOMAIN installed'[t] : stage'[installed'[t][k]] = "queued"
      BY <3>1, <3>3, <1>2 DEF POf, InstalledOf
    <3>5. ASSUME NEW k \in DOMAIN installed'[t]
          PROVE  \E i \in DOMAIN queue'[t] :
                    queue'[t][i] = Entry("attach", installed'[t][k]) /\ i < idx'[t]
      <4>1. CASE k \in DOMAIN installed[t]
        BY <4>1, <3>1, <1>3, <1>7
      <4>2. CASE k = Len(installed[t]) + 1 /\ installed'[t][k] = h
        BY <4>2, <2>1, <1>3, <1>7
      <4>3. QED
        BY <4>1, <4>2, <3>1
    <3>6. \A k, l \in DOMAIN installed'[t] : installed'[t][k] = installed'[t][l] => k = l
      BY <3>1, <3>2, <1>2 DEF POf, InstalledOf
    <3>7. QED
      BY <3>4, <3>5, <3>6 DEF InstalledOf
  <2>2. CASE installed'[t] = installed[t]
    BY <2>2, <1>2, <1>3, <1>7 DEF POf, InstalledOf
  <2>3. QED
    BY <2>1, <2>2 DEF Joins
<1>10. DetachedOf(t)'
  <2>1. ASSUME NEW b \in BOOLEAN, queue[t][idx[t]].op = "detach",
               detached'[t] = Append(detached[t], [hook |-> h, was_enabled |-> b])
        PROVE  DetachedOf(t)'
    <3>1. /\ \A k \in DOMAIN detached[t] : detached'[t][k] = detached[t][k]
          /\ \A k \in DOMAIN detached'[t] :
                k \in DOMAIN detached[t] \/ (k = Len(detached[t]) + 1 /\ detached'[t][k].hook = h)
          /\ Len(detached[t]) + 1 \notin DOMAIN detached[t]
      BY <2>1 DEF Types, TxType
    <3>2. \A k \in DOMAIN detached[t] : detached[t][k].hook # h
      BY <1>7, <1>8, <2>1
    <3>3. ASSUME NEW k \in DOMAIN detached'[t]
          PROVE  \E i \in DOMAIN queue'[t] :
                    queue'[t][i] = Entry("detach", detached'[t][k].hook) /\ i < idx'[t]
      <4>1. CASE k \in DOMAIN detached[t]
        BY <4>1, <3>1, <1>3, <1>7
      <4>2. CASE k = Len(detached[t]) + 1 /\ detached'[t][k].hook = h
        BY <4>2, <2>1, <1>3, <1>7
      <4>3. QED
        BY <4>1, <4>2, <3>1
    <3>4. \A k, l \in DOMAIN detached'[t] : detached'[t][k].hook = detached'[t][l].hook => k = l
      BY <3>1, <3>2, <1>2 DEF POf, DetachedOf
    <3>5. QED
      BY <3>3, <3>4 DEF DetachedOf
  <2>2. CASE detached'[t] = detached[t]
    BY <2>2, <1>2, <1>3, <1>7 DEF POf, DetachedOf
  <2>3. QED
    BY <2>1, <2>2 DEF Joins
<1>11. QueueUnique' /\ DropUnique'
  BY <1>7 DEF PInv, QueueUnique, DropUnique, Same, DropPcs
<1>12. QED
  BY <1>1, <1>4, <1>5, <1>6, <1>9, <1>10, <1>11 DEF PInv, POf

(* All operations are done: the new guards are the client's.               *)
LEMMA AppliedStep ==
  ASSUME Types, Types', PInv, NEW t \in Threads,
         \A u \in Threads \ {t} : Same(u), codeOwner' = codeOwner,
         pc[t] = "apply", pc'[t] = "finalize",
         queue'[t] = queue[t], installed'[t] = installed[t], detached'[t] = detached[t],
         stage' = [h \in Hooks |-> IF h \in QueuedHooks(t) THEN "live" ELSE stage[h]]
  PROVE  PInv'
<1>1. POf(t) /\ codeOwner = t /\ QueueUnique
  BY DEF PInv, POf, LockOf, Locked, Holding
<1>2. ASSUME NEW g \in Hooks, g \in QueuedHooks(t)
      PROVE  stage[g] = "queued" /\ \E i \in DOMAIN queue[t] : queue[t][i] = Entry("attach", g)
  <2>1. PICK i \in DOMAIN queue[t] : queue[t][i].op = "attach" /\ queue[t][i].hook = g
    BY <1>2 DEF QueuedHooks
  <2>2. queue[t][i] = Entry("attach", g)
    BY <2>1, InQueue
  <2>3. QED
    BY <1>1, <2>1, <2>2 DEF POf, QueueOf, Dismantling, DropPcs
<1>3. ASSUME NEW u \in Threads \ {t} PROVE POf(u)'
  <2>1. POf(u) /\ Same(u) /\ (Locked(u) => codeOwner' = u)
    BY DEF PInv, POf, LockOf
  <2>2. ASSUME NEW i \in DOMAIN queue[u] PROVE queue[u][i].hook \notin QueuedHooks(t)
    <3>1. SUFFICES ASSUME queue[u][i].hook \in QueuedHooks(t) PROVE FALSE
      OBVIOUS
    <3>2. PICK j \in DOMAIN queue[t] : queue[t][j] = Entry("attach", queue[u][i].hook)
      BY <3>1, <1>2, InQueue
    <3>3. queue[u][i].op = "attach"
      BY <3>1, <1>2, <2>1, InQueue DEF POf, QueueOf
    <3>4. queue[u][i] = queue[t][j]
      BY <3>2, <3>3, InQueue
    <3>5. QED
      BY <3>4, <1>1 DEF QueueUnique
  <2>3. pc[u] \in DropPcs => stage'[arg[u]] = "dropping"
    BY <1>2, <2>1 DEF POf, DropOf
  <2>4. QED
    BY <2>1, <2>2, <2>3, OtherThread, InQueue
<1>4. LockOf(t)' /\ DropOf(t)' /\ InstalledOf(t)'
  BY <1>1 DEF LockOf, DropOf, DropPcs, InstalledOf
<1>5. CountOf(t)' /\ DetachedOf(t)'
  BY <1>1 DEF POf, CountOf, DetachedOf, Outside, Dismantling, DropPcs
<1>6. QueueOf(t)'
  <2>1. ASSUME NEW i \in DOMAIN queue[t]
        PROVE  /\ queue[t][i].op = "detach" => stage'[queue[t][i].hook] = "borrowed"
               /\ stage'[queue[t][i].hook] # "new"
    BY <1>1, <1>2, InQueue DEF POf, QueueOf, Dismantling, DropPcs
  <2>2. QED
    BY <2>1 DEF QueueOf, Dismantling, DropPcs
<1>7. QueueUnique' /\ DropUnique'
  BY <1>1 DEF PInv, QueueUnique, DropUnique, Same, DropPcs
<1>8. QED
  BY <1>3, <1>4, <1>5, <1>6, <1>7 DEF PInv, POf

(* A detach is finished or undone: it leaves its list, at either end.      *)
LEMMA ShrinkStep ==
  ASSUME Types, Types', PInv, NEW t \in Threads,
         \A u \in Threads \ {t} : Same(u), codeOwner' = codeOwner, stage' = stage,
         pc[t] \in {"finalize", "undo_detaches"}, pc'[t] = pc[t],
         queue'[t] = queue[t], installed'[t] = installed[t], detached[t] # << >>,
         \/ detached'[t] = Tail(detached[t])
         \/ detached'[t] = SubSeq(detached[t], 1, Len(detached[t]) - 1)
  PROVE  PInv'
<1>1. POf(t) /\ codeOwner = t
  BY DEF PInv, POf, LockOf, Locked, Holding
<1>2. ASSUME NEW u \in Threads \ {t} PROVE POf(u)'
  <2>1. POf(u) /\ Same(u) /\ (Locked(u) => codeOwner' = u)
    BY DEF PInv, POf, LockOf
  <2>2. QED
    BY <2>1, OtherThread DEF POf, DropOf
<1>3. /\ Len(detached'[t]) = Len(detached[t]) - 1 /\ Len(detached[t]) \in Nat
      /\ \/ \A k \in DOMAIN detached'[t] :
               k + 1 \in DOMAIN detached[t] /\ detached'[t][k] = detached[t][k + 1]
         \/ \A k \in DOMAIN detached'[t] :
               k \in DOMAIN detached[t] /\ detached'[t][k] = detached[t][k]
  <2>1. Len(detached[t]) \in Nat /\ Len(detached[t]) > 0
    BY DEF Types, TxType
  <2>2. CASE detached'[t] = Tail(detached[t])
    BY <2>1, <2>2 DEF Types, TxType
  <2>3. CASE detached'[t] = SubSeq(detached[t], 1, Len(detached[t]) - 1)
    <3>1. detached[t] \in Seq([hook : Hooks, was_enabled : BOOLEAN])
      BY DEF Types, TxType
    <3>2. QED
      BY <2>3, <3>1, FrontOf
  <2>4. QED
    BY <2>2, <2>3
<1>4. LockOf(t)' /\ DropOf(t)' /\ InstalledOf(t)'
  BY <1>1 DEF LockOf, DropOf, DropPcs, POf, InstalledOf
<1>5. CountOf(t)'
  <2>1. ~Outside(t)' /\ ~Dismantling(t)'
    BY DEF Outside, Dismantling, DropPcs
  <2>2. Len(detached'[t]) <= MaxQueue
    BY <1>1, <1>3, FarAssumption DEF POf, CountOf
  <2>3. QED
    BY <1>1, <2>1, <2>2 DEF POf, CountOf
<1>6. QueueOf(t)'
  BY <1>1 DEF POf, QueueOf, Dismantling, DropPcs
<1>7. DetachedOf(t)'
  <2>1. \A k \in DOMAIN detached'[t] : k \in Nat
    BY DEF Types, TxType
  <2>2. QED
    BY <2>1, <1>1, <1>3 DEF POf, DetachedOf
<1>8. QueueUnique' /\ DropUnique'
  BY DEF PInv, QueueUnique, DropUnique, Same, DropPcs
<1>9. QED
  BY <1>2, <1>4, <1>5, <1>6, <1>7, <1>8 DEF PInv, POf

LEMMA TailOf ==
  ASSUME NEW S, NEW s \in Seq(S), s # << >>
  PROVE  /\ Len(Tail(s)) = Len(s) - 1 /\ Len(s) \in Nat /\ 1 \in DOMAIN s /\ Head(s) = s[1]
         /\ Head(s) \in S
         /\ \A k \in DOMAIN Tail(s) : k \in Nat /\ k + 1 \in DOMAIN s /\ k + 1 # 1
                                      /\ Tail(s)[k] = s[k + 1]
  OBVIOUS

(* The first hook of a failed commit is dropped.                           *)
LEMMA DismantleStep ==
  ASSUME Types, Types', PInv, NEW t \in Threads,
         \A u \in Threads \ {t} : Same(u), codeOwner' = codeOwner,
         pc[t] = "dismantle", pc'[t] = "drop", after'[t] = "dismantle", installed[t] # << >>,
         NEW h \in Hooks, h = Head(installed[t]), arg'[t] = h,
         installed'[t] = Tail(installed[t]), queue'[t] = queue[t], detached'[t] = detached[t],
         stage'[h] = "dropping", \A g \in Hooks \ {h} : stage'[g] = stage[g]
  PROVE  PInv'
<1>1. POf(t) /\ codeOwner = t /\ Dismantling(t) /\ QueueUnique
  BY DEF PInv, POf, LockOf, Locked, Holding, Dismantling
<1>2. installed[t] \in Seq(Hooks)
  BY DEF Types, TxType
<1>3. /\ Len(Tail(installed[t])) = Len(installed[t]) - 1 /\ Len(installed[t]) \in Nat
      /\ 1 \in DOMAIN installed[t] /\ h = installed[t][1]
      /\ \A k \in DOMAIN installed'[t] : k \in Nat /\ k + 1 \in DOMAIN installed[t] /\ k + 1 # 1
                                         /\ installed'[t][k] = installed[t][k + 1]
  BY <1>2, TailOf
<1>4. PICK j \in DOMAIN queue[t] : queue[t][j] = Entry("attach", h)
  BY <1>1, <1>3 DEF POf, InstalledOf
<1>5. stage[h] = "queued"
  BY <1>1, <1>3 DEF POf, InstalledOf
<1>6. ASSUME NEW u \in Threads, NEW i \in DOMAIN queue[u], queue[u][i].hook = h
      PROVE  queue[u][i].op = "attach" /\ u = t
  <2>1. queue[u][i].op = "attach"
    BY <1>5, <1>6, InQueue DEF PInv, POf, QueueOf
  <2>2. queue[u][i] = queue[t][j]
    BY <2>1, <1>4, <1>6, InQueue
  <2>3. QED
    BY <2>1, <2>2, <1>1 DEF QueueUnique
<1>7. ASSUME NEW u \in Threads \ {t} PROVE POf(u)'
  <2>1. POf(u) /\ Same(u) /\ (Locked(u) => codeOwner' = u)
    BY DEF PInv, POf, LockOf
  <2>2. \A i \in DOMAIN queue[u] : stage'[queue[u][i].hook] = stage[queue[u][i].hook]
    BY <1>6, InQueue
  <2>3. pc[u] \in DropPcs => stage'[arg[u]] = "dropping"
    BY <2>1 DEF POf, DropOf
  <2>4. QED
    BY <2>1, <2>2, <2>3, OtherThread
<1>8. Dismantling(t)' /\ Locked(t)' /\ ~Outside(t)'
  BY DEF Dismantling, Locked, Outside, DropPcs
<1>9. LockOf(t)' /\ DropOf(t)' /\ DetachedOf(t)'
  BY <1>1 DEF LockOf, DropOf, POf, DetachedOf
<1>10. CountOf(t)'
  <2>1. Len(installed'[t]) = Len(installed[t]) - 1 /\ Len(installed[t]) <= MaxQueue
    BY <1>1, <1>3 DEF POf, CountOf
  <2>2. Len(installed'[t]) <= MaxQueue
    BY <1>3, <2>1, FarAssumption DEF Types, TxType
  <2>3. QED
    BY <1>1, <1>8, <2>2 DEF POf, CountOf
<1>11. QueueOf(t)'
  <2>1. ASSUME NEW i \in DOMAIN queue[t]
        PROVE  /\ queue[t][i].op = "detach" => stage'[queue[t][i].hook] = "borrowed"
               /\ queue[t][i].op = "attach" =>
                     stage'[queue[t][i].hook] \in {"queued", "dropping", "gone"}
    <3>1. CASE queue[t][i].hook = h
      BY <3>1, <1>6
    <3>2. CASE queue[t][i].hook # h
      BY <3>2, <1>1, InQueue DEF POf, QueueOf
    <3>3. QED
      BY <3>1, <3>2
  <2>2. QED
    BY <2>1, <1>8 DEF QueueOf
<1>12. InstalledOf(t)'
  <2>1. ASSUME NEW k \in DOMAIN installed'[t]
        PROVE  /\ stage'[installed'[t][k]] = "queued"
               /\ \E i \in DOMAIN queue[t] : queue[t][i] = Entry("attach", installed'[t][k])
    <3>1. PICK g \in Hooks : g = installed'[t][k]
      BY DEF Types, TxType
    <3>2. g # h /\ stage[g] = "queued"
      BY <3>1, <1>1, <1>3 DEF POf, InstalledOf
    <3>3. \E i \in DOMAIN queue[t] : queue[t][i] = Entry("attach", g)
      BY <3>1, <1>1, <1>3 DEF POf, InstalledOf
    <3>4. QED
      BY <3>1, <3>2, <3>3
  <2>2. \A k, l \in DOMAIN installed'[t] : installed'[t][k] = installed'[t][l] => k = l
    <3>1. \A k, l \in DOMAIN installed[t] : installed[t][k] = installed[t][l] => k = l
      BY <1>1 DEF POf, InstalledOf
    <3>2. QED
      BY <3>1, <1>3
  <2>3. QED
    BY <2>1, <2>2 DEF InstalledOf
<1>13. QueueUnique'
  BY <1>1 DEF QueueUnique, Same
<1>14. DropUnique'
  <2>1. \A u \in Threads : pc[u] \in DropPcs => arg[u] # h
    BY <1>5 DEF PInv, POf, DropOf
  <2>2. QED
    BY <2>1 DEF PInv, DropUnique, Same
<1>15. QED
  BY <1>7, <1>9, <1>10, <1>11, <1>12, <1>13, <1>14 DEF PInv, POf

(* The client drops its guard.                                             *)
LEMMA DropStep ==
  ASSUME Types, Types', PInv, NEW t \in Threads, NEW h \in Hooks,
         \A u \in Threads \ {t} : Same(u), codeOwner' = codeOwner,
         pc[t] = "ready", pc'[t] = "drop", after'[t] = "ready", arg'[t] = h, stage[h] = "live",
         installed'[t] = installed[t], queue'[t] = queue[t], detached'[t] = detached[t],
         stage'[h] = "dropping", \A g \in Hooks \ {h} : stage'[g] = stage[g]
  PROVE  PInv'
<1>1. POf(t) /\ Outside(t) /\ ~Dismantling(t)
  BY DEF PInv, Outside, Dismantling, DropPcs
<1>2. ASSUME NEW u \in Threads, NEW i \in DOMAIN queue[u], queue[u][i].hook = h
      PROVE  queue[u][i].op = "attach" /\ pc[u] = "finalize"
  BY <1>2, InQueue DEF PInv, POf, QueueOf
<1>3. ASSUME NEW u \in Threads \ {t} PROVE POf(u)'
  <2>1. POf(u) /\ Same(u) /\ (Locked(u) => codeOwner' = u)
    BY DEF PInv, POf, LockOf
  <2>2. ASSUME NEW i \in DOMAIN queue[u]
        PROVE  \/ stage'[queue[u][i].hook] = stage[queue[u][i].hook]
               \/ /\ pc[u] = "finalize" /\ queue[u][i].op = "attach"
                  /\ stage'[queue[u][i].hook] # "new"
    BY <1>2, InQueue
  <2>3. pc[u] \in DropPcs => stage'[arg[u]] = "dropping"
    BY <2>1 DEF POf, DropOf
  <2>4. QED
    BY <2>1, <2>2, <2>3, OtherThread
<1>4. Outside(t)' /\ ~Locked(t)' /\ ~Dismantling(t)'
  BY DEF Outside, Locked, Dismantling, DropPcs, Holding
<1>5. LockOf(t)' /\ DropOf(t)'
  BY <1>4 DEF LockOf, DropOf
<1>6. installed[t] = << >> /\ detached[t] = << >>
  BY <1>1 DEF POf, CountOf
<1>7. CountOf(t)' /\ InstalledOf(t)' /\ DetachedOf(t)'
  BY <1>1, <1>4, <1>6 DEF POf, CountOf, InstalledOf, DetachedOf
<1>8. QueueOf(t)'
  <2>1. \A i \in DOMAIN queue[t] : queue[t][i].hook \in Hooks \ {h}
    BY <1>2, InQueue
  <2>2. QED
    BY <1>1, <1>4, <2>1 DEF POf, QueueOf
<1>9. QueueUnique'
  BY DEF PInv, QueueUnique, Same
<1>10. DropUnique'
  <2>1. \A u \in Threads : pc[u] \in DropPcs => arg[u] # h
    BY DEF PInv, POf, DropOf
  <2>2. QED
    BY <2>1 DEF PInv, DropUnique, Same
<1>11. QED
  BY <1>3, <1>5, <1>7, <1>8, <1>9, <1>10 DEF PInv, POf

(* The guard is gone.                                                      *)
LEMMA GoneStep ==
  ASSUME Types, Types', PInv, NEW t \in Threads, NEW h \in Hooks,
         \A u \in Threads \ {t} : Same(u), codeOwner' = codeOwner,
         pc[t] \in DropPcs, h = arg[t], pc'[t] = after[t], after'[t] = after[t],
         installed'[t] = installed[t], queue'[t] = queue[t], detached'[t] = detached[t],
         stage'[h] = "gone", \A g \in Hooks \ {h} : stage'[g] = stage[g]
  PROVE  PInv'
<1>1. POf(t) /\ stage[h] = "dropping" /\ after[t] \in {"ready", "dismantle"}
  BY DEF PInv, POf, DropOf, Types, CallType
<1>2. ASSUME NEW u \in Threads, NEW i \in DOMAIN queue[u], queue[u][i].hook = h
      PROVE  queue[u][i].op = "attach" /\ (pc[u] = "finalize" \/ Dismantling(u))
  BY <1>1, <1>2, InQueue DEF PInv, POf, QueueOf
<1>3. ASSUME NEW u \in Threads \ {t} PROVE POf(u)'
  <2>1. POf(u) /\ Same(u) /\ (Locked(u) => codeOwner' = u)
    BY DEF PInv, POf, LockOf
  <2>2. ASSUME NEW i \in DOMAIN queue[u]
        PROVE  \/ stage'[queue[u][i].hook] = stage[queue[u][i].hook]
               \/ /\ pc[u] = "finalize" /\ queue[u][i].op = "attach"
                  /\ stage'[queue[u][i].hook] # "new"
               \/ /\ Dismantling(u) /\ queue[u][i].op = "attach"
                  /\ stage[queue[u][i].hook] = "dropping" /\ stage'[queue[u][i].hook] = "gone"
    BY <1>1, <1>2, InQueue
  <2>3. pc[u] \in DropPcs => stage'[arg[u]] = "dropping"
    BY <2>1 DEF POf, DropOf, PInv, DropUnique
  <2>4. QED
    BY <2>1, <2>2, <2>3, OtherThread
<1>4. /\ Dismantling(t)' <=> Dismantling(t)
      /\ Outside(t)' <=> Outside(t)
      /\ Locked(t)' <=> Locked(t)
      /\ Outside(t) \/ Dismantling(t)
  BY <1>1 DEF Outside, Locked, Dismantling, DropPcs, Holding
<1>5. pc'[t] \in {"ready", "dismantle"} /\ pc[t] # "finalize"
      /\ pc[t] \notin {"apply", "eat_protect", "rollback"}
  BY <1>1 DEF DropPcs
<1>6. LockOf(t)' /\ DropOf(t)'
  BY <1>1, <1>4, <1>5 DEF POf, LockOf, DropOf, DropPcs
<1>7. CountOf(t)' /\ DetachedOf(t)'
  <2>1. CountOf(t) /\ DetachedOf(t)
    BY <1>1 DEF POf
  <2>2. /\ pc'[t] # "eat_protect" /\ pc'[t] # "apply" /\ pc'[t] # "rollback"
        /\ detached[t] = << >> /\ (Outside(t) => installed[t] = << >>)
    BY <1>4, <1>5, <2>1 DEF CountOf
  <2>3. CountOf(t)'
    BY <1>4, <2>1, <2>2 DEF CountOf
  <2>4. DetachedOf(t)'
    BY <2>1, <2>2 DEF DetachedOf
  <2>5. QED
    BY <2>3, <2>4
<1>8. InstalledOf(t)'
  <2>1. \A k \in DOMAIN installed[t] : installed[t][k] \in Hooks \ {h}
    BY <1>1, <1>5 DEF POf, InstalledOf, Types, TxType
  <2>2. QED
    BY <1>1, <1>5, <2>1 DEF POf, InstalledOf
<1>9. QueueOf(t)'
  <2>1. ASSUME NEW i \in DOMAIN queue[t]
        PROVE  /\ queue[t][i].op = "detach" => stage'[queue[t][i].hook] = "borrowed"
               /\ queue[t][i].op = "attach" /\ Dismantling(t) =>
                     stage'[queue[t][i].hook] \in {"queued", "dropping", "gone"}
               /\ queue[t][i].op = "attach" /\ ~Dismantling(t) =>
                     stage'[queue[t][i].hook] = "queued"
    <3>1. CASE queue[t][i].hook = h
      BY <3>1, <1>2, <1>5
    <3>2. CASE queue[t][i].hook # h
      BY <3>2, <1>1, <1>5, InQueue DEF POf, QueueOf
    <3>3. QED
      BY <3>1, <3>2
  <2>2. QED
    BY <2>1, <1>4, <1>5 DEF QueueOf
<1>10. QueueUnique' /\ DropUnique'
  BY <1>5 DEF PInv, QueueUnique, DropUnique, Same, DropPcs
<1>11. QED
  BY <1>3, <1>6, <1>7, <1>8, <1>9, <1>10 DEF PInv, POf

-----------------------------------------------------------------------------
(***************************************************************************)
(* What each kind of step does to the slots.                               *)
(***************************************************************************)

(* A hook is in the hands of the thread that installs, detaches or drops   *)
(* it, and of no other.                                                    *)
InHand(u, h) ==
    \/ Eats(u, h)
    \/ pc[u] \in DropPcs /\ arg[u] = h
    \/ pc[u] # "finalize" /\ \E k \in DOMAIN installed[u] : installed[u][k] = h
    \/ \E k \in DOMAIN detached[u] : detached[u][k].hook = h
Taken(t, h) ==
    \/ stage[h] \in {"new", "live"}
    \/ \E i \in DOMAIN queue[t] : /\ queue[t][i].hook = h
                                  /\ queue[t][i].op = "attach" => stage[h] = "queued"
    \/ pc[t] \in DropPcs /\ arg[t] = h

LEMMA HandStage ==
  ASSUME Types, PInv, NEW u \in Threads, NEW h \in Hooks, InHand(u, h)
  PROVE  \/ stage[h] = "queued" /\ \E i \in DOMAIN queue[u] : queue[u][i] = Entry("attach", h)
         \/ stage[h] = "borrowed" /\ \E i \in DOMAIN queue[u] : queue[u][i] = Entry("detach", h)
         \/ stage[h] = "dropping" /\ pc[u] \in DropPcs /\ arg[u] = h
<1>1. POf(u)
  BY DEF PInv
<1>2. CASE Eats(u, h)
  <2>1. idx[u] \in DOMAIN queue[u] /\ queue[u][idx[u]].op = "attach" /\ pc[u] = "eat_protect"
    BY <1>1, <1>2 DEF POf, CountOf, Eats, Types, TxType
  <2>2. queue[u][idx[u]] = Entry("attach", h)
    BY <1>2, <2>1, InQueue DEF Eats
  <2>3. stage[h] = "queued"
    BY <1>1, <1>2, <2>1 DEF POf, QueueOf, Eats, Dismantling, DropPcs
  <2>4. QED
    BY <2>1, <2>2, <2>3
<1>3. CASE pc[u] \in DropPcs /\ arg[u] = h
  BY <1>1, <1>3 DEF POf, DropOf
<1>4. CASE pc[u] # "finalize" /\ \E k \in DOMAIN installed[u] : installed[u][k] = h
  BY <1>1, <1>4 DEF POf, InstalledOf
<1>5. CASE \E k \in DOMAIN detached[u] : detached[u][k].hook = h
  <2>1. PICK i \in DOMAIN queue[u] : queue[u][i] = Entry("detach", h)
    BY <1>1, <1>5 DEF POf, DetachedOf
  <2>2. queue[u][i].op = "detach" /\ queue[u][i].hook = h
    BY <2>1 DEF Entry
  <2>3. QED
    BY <1>1, <2>1, <2>2 DEF POf, QueueOf
<1>6. QED
  BY <1>2, <1>3, <1>4, <1>5 DEF InHand

LEMMA OnlyHand ==
  ASSUME Types, PInv, NEW t \in Threads, NEW h \in Hooks, Taken(t, h), NEW u \in Threads \ {t}
  PROVE  ~InHand(u, h)
<1>1. SUFFICES ASSUME InHand(u, h) PROVE FALSE
  OBVIOUS
<1>2. \/ stage[h] = "queued" /\ \E i \in DOMAIN queue[u] : queue[u][i] = Entry("attach", h)
      \/ stage[h] = "borrowed" /\ \E i \in DOMAIN queue[u] : queue[u][i] = Entry("detach", h)
      \/ stage[h] = "dropping" /\ pc[u] \in DropPcs /\ arg[u] = h
  BY <1>1, HandStage
<1>3. CASE stage[h] \in {"new", "live"}
  BY <1>2, <1>3
<1>4. CASE \E i \in DOMAIN queue[t] : /\ queue[t][i].hook = h
                                      /\ queue[t][i].op = "attach" => stage[h] = "queued"
  <2>1. PICK i \in DOMAIN queue[t] : /\ queue[t][i].hook = h
                                     /\ queue[t][i].op = "attach" => stage[h] = "queued"
    BY <1>4
  <2>2. queue[t][i].op = "detach" => stage[h] = "borrowed"
    BY <2>1 DEF PInv, POf, QueueOf
  <2>3. queue[t][i] = Entry(queue[t][i].op, h) /\ queue[t][i].op \in {"attach", "detach"}
    BY <2>1, InQueue
  <2>4. PICK j \in DOMAIN queue[u] : queue[u][j] = queue[t][i]
    BY <1>2, <2>1, <2>2, <2>3
  <2>5. QED
    BY <2>4 DEF PInv, QueueUnique
<1>5. CASE pc[t] \in DropPcs /\ arg[t] = h
  <2>1. stage[h] = "dropping"
    BY <1>5 DEF PInv, POf, DropOf
  <2>2. QED
    BY <1>2, <1>5, <2>1 DEF PInv, DropUnique
<1>6. QED
  BY <1>3, <1>4, <1>5 DEF Taken

LEMMA SlotKinds == Imports \subseteq Slots /\ Exports \subseteq Slots /\ Methods \subseteq Slots
  BY DEF Slots

(* The tables and the guards stay as they are.                             *)
LEMMA KeepStep ==
  ASSUME Types, OInv, NEW t \in Threads,
         \A u \in Threads \ {t} : Same(u),
         slot' = slot, claims' = claims, hook' = hook,
         \A h \in Hooks : Eats(t, h)' <=> Eats(t, h),
         ReleaseOf(t)', ListsOf(t)',
         \A h \in Hooks : \/ stage'[h] = stage[h]
                          \/ /\ stage[h] \notin {"new", "dropping", "gone"}
                             /\ stage'[h] # "new"
  PROVE  OInv'
<1>1. \A u \in Threads : \A h \in Hooks : Eats(u, h)' <=> Eats(u, h)
  BY DEF Same, Eats
<1>2. ASSUME NEW u \in Threads PROVE (EatOf(u) /\ ReleaseOf(u) /\ ListsOf(u))'
  <2>1. EatOf(u)'
    BY <1>1 DEF OInv, EatOf, Place
  <2>2. CASE u # t
    BY <2>1, <2>2 DEF OInv, Same, ReleaseOf, ListsOf, Place
  <2>3. QED
    BY <2>1, <2>2
<1>3. ASSUME NEW h \in Hooks PROVE GuardOf(h)'
  BY DEF OInv, GuardOf, Place
<1>4. \A h \in Hooks : \A s \in Slots : Owns(h, s)' <=> Owns(h, s)
  BY <1>1 DEF Owns, Place, Eats
<1>5. OwnerOK'
  BY <1>4 DEF OInv, OwnerOK, Types, TableType
<1>6. QED
  BY <1>2, <1>3, <1>5 DEF OInv

(* One guard changes, and with it at most its own slot.                    *)
Mine(t, h) == hook[h].claimed \/ Eats(t, h)

LEMMA OneHookStep ==
  ASSUME Types, Types', PInv, OInv, NEW t \in Threads, NEW h \in Hooks, Taken(t, h),
         \A u \in Threads \ {t} : Same(u),
         \A g \in Hooks \ {h} : hook'[g] = hook[g] /\ stage'[g] = stage[g],
         hook'[h].place = hook[h].place \/ ~Mine(t, h)',
         \A g \in Hooks \ {h} : Eats(t, g)' <=> Eats(t, g),
         EatOf(t)', ReleaseOf(t)', ListsOf(t)', GuardOf(h)',
         \A s \in Slots \ {Place(h)} : slot'[s] = slot[s] /\ (s \in claims' <=> s \in claims),
         \/ /\ slot' = slot /\ claims' = claims
            /\ Mine(t, h)' <=> Mine(t, h)
         \/ /\ Place(h) \in Slots
            /\ \A g \in Hooks \ {h} : ~Owns(g, Place(h))
            /\ slot'[Place(h)] \in {h, Original}
            /\ Place(h) \in claims' <=> Mine(t, h)'
            /\ slot'[Place(h)] = h => Mine(t, h)'
  PROVE  OInv'
<1>1. \A u \in Threads \ {t} : ~InHand(u, h)
  BY OnlyHand
<1>2. \A u \in Threads \ {t} : ~Eats(u, h) /\ ~Eats(u, h)'
  BY <1>1 DEF InHand, Same, Eats
<1>3. \A u \in Threads : \A g \in Hooks \ {h} : Eats(u, g)' <=> Eats(u, g)
  BY DEF Same, Eats
<1>4. ASSUME NEW g \in Hooks \ {h}, NEW s \in Slots
      PROVE  Owns(g, s)' <=> Owns(g, s)
  BY <1>3 DEF Owns, Place, Eats
<1>5. ASSUME NEW s \in Slots
      PROVE  /\ Owns(h, s) <=> (s = Place(h) /\ Mine(t, h))
             /\ Owns(h, s)' <=> (s = Place(h) /\ Mine(t, h)')
  BY <1>2 DEF Owns, Place, Eats, Mine
<1>6. ASSUME NEW g \in Hooks \ {h}, NEW s \in Slots, Owns(g, s)
      PROVE  slot'[s] = slot[s] /\ (s \in claims' <=> s \in claims)
  <2>1. CASE s # Place(h)
    BY <2>1
  <2>2. CASE s = Place(h)
    BY <2>2, <1>6
  <2>3. QED
    BY <2>1, <2>2
<1>7. ASSUME NEW g \in Hooks \ {h} PROVE GuardOf(g)'
  <2>1. GuardOf(g) /\ hook'[g] = hook[g] /\ stage'[g] = stage[g]
    BY DEF OInv
  <2>2. ASSUME hook[g].claimed
        PROVE  /\ Place(g) \in Slots /\ slot'[Place(g)] = slot[Place(g)]
               /\ Place(g) \in claims'
    <3>1. Place(g) \in Slots /\ Place(g) \in claims /\ Owns(g, Place(g))
      BY <2>1, <2>2 DEF GuardOf, Owns
    <3>2. QED
      BY <3>1, <1>6
  <2>3. QED
    BY <2>1, <2>2 DEF GuardOf, Place
<1>8. ASSUME NEW u \in Threads \ {t} PROVE (EatOf(u) /\ ReleaseOf(u) /\ ListsOf(u))'
  <2>1. Same(u) /\ EatOf(u) /\ ReleaseOf(u) /\ ListsOf(u) /\ ~InHand(u, h)
    BY <1>1 DEF OInv
  <2>2. EatOf(u)'
    <3>1. SUFFICES ASSUME NEW g \in Hooks, Eats(u, g)'
                   PROVE  /\ Place(g)' \in Exports /\ ~hook'[g].claimed
                          /\ Place(g)' \in claims' /\ slot'[Place(g)'] = g
      BY DEF EatOf
    <3>2. g # h /\ Eats(u, g)
      BY <1>2, <1>3, <3>1
    <3>3. Place(g) \in Exports /\ ~hook[g].claimed /\ Place(g) \in claims /\ slot[Place(g)] = g
      BY <2>1, <3>2 DEF EatOf
    <3>4. Place(g) \in Slots /\ Owns(g, Place(g))
      BY <3>2, <3>3, SlotKinds DEF Owns, Eats
    <3>5. QED
      BY <3>2, <3>3, <3>4, <1>6 DEF Place
  <2>3. ReleaseOf(u)'
    <3>1. SUFFICES ASSUME pc[u] \in {"release", "retire_stub"} PROVE ReleaseOf(u)'
      BY DEF Same, ReleaseOf
    <3>2. PICK g \in Hooks : g = arg[u]
      BY <3>1 DEF PInv, POf, DropOf, DropPcs
    <3>3. g # h /\ hook'[g] = hook[g] /\ Place(g) \in Slots
      BY <2>1, <3>1, <3>2 DEF InHand, DropPcs, ReleaseOf
    <3>4. slot[Place(g)] # g => slot'[Place(g)] # g
      BY <3>3, HooksAssumption
    <3>5. QED
      BY <2>1, <3>1, <3>2, <3>3, <3>4 DEF Same, ReleaseOf, Place
  <2>4. ListsOf(u)'
    <3>1. /\ pc[u] # "finalize" =>
                \A k \in DOMAIN installed[u] : installed[u][k] \in Hooks \ {h}
          /\ \A k \in DOMAIN detached[u] : detached[u][k].hook \in Hooks \ {h}
      BY <2>1, InLists DEF InHand
    <3>2. QED
      BY <2>1, <3>1 DEF Same, ListsOf, Place
  <2>5. QED
    BY <2>2, <2>3, <2>4
<1>9. OwnerOK'
  <2>1. ASSUME NEW s \in claims' PROVE \E g \in Hooks : Owns(g, s)'
    <3>1. s \in Slots
      BY DEF Types, TableType
    <3>2. CASE s \in claims
      <4>1. PICK g \in Hooks : Owns(g, s)
        BY <3>2 DEF OInv, OwnerOK
      <4>2. QED
        BY <2>1, <3>1, <4>1, <1>4, <1>5
    <3>3. CASE s \notin claims
      BY <2>1, <3>1, <3>3, <1>5
    <3>4. QED
      BY <3>2, <3>3
  <2>2. ASSUME NEW s \in Slots, NEW f \in Hooks, NEW g \in Hooks, Owns(f, s)', Owns(g, s)'
        PROVE  f = g
    <3>1. Owns(f, s) /\ Owns(g, s) => f = g
      BY DEF OInv, OwnerOK
    <3>2. CASE f # h /\ g # h
      BY <2>2, <3>1, <3>2, <1>4
    <3>3. ASSUME NEW x \in Hooks \ {h}, Owns(x, s)', Owns(h, s)' PROVE FALSE
      <4>1. Owns(x, s) /\ s = Place(h) /\ Mine(t, h)'
        BY <3>3, <1>4, <1>5
      <4>2. Mine(t, h)
        BY <4>1
      <4>3. Owns(h, s)
        BY <4>1, <4>2, <1>5
      <4>4. QED
        BY <4>1, <4>3 DEF OInv, OwnerOK
    <3>4. QED
      BY <2>2, <3>2, <3>3
  <2>3. ASSUME NEW s \in Slots, NEW g \in Hooks, g = slot'[s] PROVE s \in claims' /\ Owns(g, s)'
    <3>1. CASE slot'[s] = slot[s] /\ (s \in claims' <=> s \in claims)
      <4>1. s \in claims /\ Owns(g, s)
        BY <2>3, <3>1 DEF OInv, OwnerOK
      <4>2. CASE g # h
        BY <3>1, <4>1, <4>2, <1>4
      <4>3. CASE g = h
        BY <2>3, <3>1, <4>1, <4>3, <1>5
      <4>4. QED
        BY <4>2, <4>3
    <3>2. CASE s = Place(h) /\ slot'[s] = h /\ Mine(t, h)' /\ (s \in claims' <=> Mine(t, h)')
      BY <2>3, <3>2, <1>5
    <3>3. QED
      BY <2>3, <3>1, <3>2, HooksAssumption
  <2>4. \A s \in Slots : \A g \in Hooks : g = slot'[s] => s \in claims' /\ Owns(g, s)'
    BY <2>3
  <2>5. (\A s \in Slots : slot[s] \in Hooks => s \in claims /\ Owns(slot[s], s))'
    BY <2>4 DEF Owns, Place
  <2>6. QED
    BY <2>1, <2>2, <2>5 DEF OwnerOK
<1>10. QED
  BY <1>7, <1>8, <1>9 DEF OInv

-----------------------------------------------------------------------------
(***************************************************************************)
(* The steps, one by one.                                                  *)
(***************************************************************************)

LEMMA EnqueueKeeps ==
  ASSUME TInv, NEW t \in Threads, NEW h \in Hooks, NEW p \in Slots \cup Instances,
         Enqueue(t, h, p)
  PROVE  TInv' /\ (OInv => OInv')
<1>1. Types /\ EntryOK /\ PInv
  BY DEF TInv
<1>2. /\ pc[t] = "ready" /\ stage[h] = "new" /\ Len(queue[t]) < MaxQueue
      /\ hook' = [hook EXCEPT ![h].place = p] /\ stage' = [stage EXCEPT ![h] = "queued"]
      /\ queue' = [queue EXCEPT ![t] = Append(@, [op |-> "attach", hook |-> h])]
      /\ UNCHANGED <<slot, claims, vptr, clones, cloneSlot, owned, freed, stub, resolved,
                     codeOwner, installed, detached, idx, pc, arg, after>>
  BY DEF Enqueue, Idle, SetStage, Push, tableVars, objVars, callVars
<1>3. Types'
  <2>1. TableType' /\ ObjType' /\ StubType' /\ CallType'
    BY <1>1, <1>2 DEF Types, TableType, ObjType, StubType, CallType
  <2>2. HookType'
    BY <1>1, <1>2 DEF Types, HookType, Guard
  <2>3. TxType'
    <3>1. [op |-> "attach", hook |-> h] \in Ops
      BY DEF Ops
    <3>2. Append(queue[t], [op |-> "attach", hook |-> h]) \in Seq(Ops)
      BY <1>1, <3>1, AppendProperties, Zenon DEF Types, TxType
    <3>3. QED
      BY <1>1, <1>2, <3>2, Zenon DEF Types, TxType
  <2>4. QED
    BY <2>1, <2>2, <2>3 DEF Types
<1>4. EntryOK'
  BY <1>1, <1>2 DEF EntryOK
<1>5. \A u \in Threads \ {t} : Same(u)
  BY <1>1, <1>2 DEF Same, Types, TxType
<1>6. /\ queue'[t] = Append(queue[t], Entry("attach", h))
      /\ stage'[h] = "queued" /\ \A g \in Hooks \ {h} : stage'[g] = stage[g]
  BY <1>1, <1>2 DEF Entry, Types, TxType, HookType
<1>7. PInv'
  BY <1>1, <1>2, <1>3, <1>5, <1>6, PushStep
<1>8. ASSUME OInv PROVE OInv'
  <2>1. GuardOf(h) /\ hook[h] = NoGuard /\ Taken(t, h)
    BY <1>2, <1>8 DEF OInv, GuardOf, Taken
  <2>2. /\ \A g \in Hooks \ {h} : hook'[g] = hook[g]
        /\ hook'[h].place = p /\ hook'[h].orig = hook[h].orig
        /\ hook'[h].claimed = hook[h].claimed /\ hook'[h].active = hook[h].active
        /\ hook'[h].enabled = hook[h].enabled
    BY <1>1, <1>2 DEF Types, HookType, Guard
  <2>3. /\ ~hook'[h].claimed /\ ~hook'[h].active /\ ~hook'[h].enabled
        /\ hook'[h].orig = Original
    BY <2>1, <2>2 DEF NoGuard
  <2>4. /\ \A g \in Hooks : Eats(t, g)' <=> Eats(t, g)
        /\ ~Mine(t, h) /\ ~Mine(t, h)'
    BY <1>2, <2>1, <2>3 DEF Eats, Mine, NoGuard
  <2>5. GuardOf(h)'
    BY <1>6, <2>2, <2>3, PlacesAssumption DEF GuardOf, Place
  <2>6. EatOf(t)' /\ ReleaseOf(t)'
    BY <1>2 DEF EatOf, Eats, ReleaseOf
  <2>7. ListsOf(t)'
    <3>1. installed[t] = << >> /\ detached[t] = << >>
      BY <1>1, <1>2 DEF PInv, POf, CountOf, Outside
    <3>2. QED
      BY <1>2, <3>1 DEF ListsOf
  <2>8. QED
    BY <1>1, <1>2, <1>3, <1>5, <1>6, <1>8, <2>1, <2>2, <2>4, <2>5, <2>6, <2>7, OneHookStep
<1>9. QED
  BY <1>3, <1>4, <1>7, <1>8 DEF TInv

LEMMA detachKeeps ==
  ASSUME TInv, NEW t \in Threads, NEW h \in Hooks, detach(t, h)
  PROVE  TInv' /\ (OInv => OInv')
<1>1. Types /\ EntryOK /\ PInv
  BY DEF TInv
<1>2. /\ pc[t] = "ready" /\ stage[h] = "live" /\ Len(queue[t]) < MaxQueue
      /\ stage' = [stage EXCEPT ![h] = "borrowed"]
      /\ queue' = [queue EXCEPT ![t] = Append(@, [op |-> "detach", hook |-> h])]
      /\ UNCHANGED <<slot, claims, vptr, clones, cloneSlot, owned, freed, stub, hook, resolved,
                     codeOwner, installed, detached, idx, pc, arg, after>>
  BY DEF detach, Idle, SetStage, Push, tableVars, objVars, callVars
<1>3. Types'
  <2>1. TableType' /\ ObjType' /\ StubType' /\ CallType' /\ HookType'
    BY <1>1, <1>2 DEF Types, TableType, ObjType, StubType, CallType, HookType
  <2>2. TxType'
    <3>1. [op |-> "detach", hook |-> h] \in Ops
      BY DEF Ops
    <3>2. Append(queue[t], [op |-> "detach", hook |-> h]) \in Seq(Ops)
      BY <1>1, <3>1, AppendProperties, Zenon DEF Types, TxType
    <3>3. QED
      BY <1>1, <1>2, <3>2, Zenon DEF Types, TxType
  <2>3. QED
    BY <2>1, <2>2 DEF Types
<1>4. EntryOK'
  BY <1>1, <1>2 DEF EntryOK
<1>5. \A u \in Threads \ {t} : Same(u)
  BY <1>1, <1>2 DEF Same, Types, TxType
<1>6. /\ queue'[t] = Append(queue[t], Entry("detach", h))
      /\ stage'[h] = "borrowed" /\ \A g \in Hooks \ {h} : stage'[g] = stage[g]
  BY <1>1, <1>2 DEF Entry, Types, TxType, HookType
<1>7. PInv'
  BY <1>1, <1>2, <1>3, <1>5, <1>6, PushStep
<1>8. ASSUME OInv PROVE OInv'
  <2>1. \A g \in Hooks : Eats(t, g)' <=> Eats(t, g)
    BY <1>2 DEF Eats
  <2>2. ReleaseOf(t)' /\ ListsOf(t)'
    BY <1>2, <1>8 DEF OInv, ReleaseOf, ListsOf, Place
  <2>3. QED
    BY <1>1, <1>2, <1>5, <1>6, <1>8, <2>1, <2>2, KeepStep
<1>9. QED
  BY <1>3, <1>4, <1>7, <1>8 DEF TInv

LEMMA DropQueueStages ==
  ASSUME Types, PInv, NEW t \in Threads, DropQueue(t), NEW g \in Hooks
  PROVE  \/ stage'[g] = stage[g]
         \/ stage[g] = "queued" /\ g \in QueuedHooks(t) /\ stage'[g] = "gone"
         \/ stage[g] = "borrowed" /\ stage'[g] = "live"
<1>1. \A i \in DOMAIN queue[t] : queue[t][i] = [op |-> "detach", hook |-> g] =>
          stage[g] = "borrowed"
  BY DEF PInv, POf, QueueOf
<1>2. QED
  BY <1>1 DEF DropQueue, Types, HookType

LEMMA NoQueue ==
  ASSUME Types, NEW t \in Threads, DropQueue(t)
  PROVE  /\ queue' \in [Threads -> Seq(Ops)] /\ queue'[t] = << >>
         /\ \A u \in Threads \ {t} : queue'[u] = queue[u]
         /\ stage' \in [Hooks -> {"new", "queued", "live", "borrowed", "dropping", "gone"}]
<1>1. stage' \in [Hooks -> {"new", "queued", "live", "borrowed", "dropping", "gone"}]
  BY DEF DropQueue, Types, HookType
<1>2. << >> \in Seq(Ops)
  OBVIOUS
<1>3. QED
  BY <1>1, <1>2 DEF DropQueue, Types, TxType

LEMMA commitKeeps ==
  ASSUME TInv, NEW t \in Threads, commit(t)
  PROVE  TInv' /\ (OInv => OInv')
<1>1. Types /\ EntryOK /\ PInv
  BY DEF TInv
<1>2. /\ pc[t] = "ready"
      /\ UNCHANGED <<slot, claims, vptr, clones, cloneSlot, owned, freed, hook, resolved,
                     codeOwner, installed, detached, idx, arg, after>>
      /\ \/ /\ stub' = [h \in Hooks |-> IF h \in NeedsStub(t) THEN "detour" ELSE stub[h]]
            /\ pc' = [pc EXCEPT ![t] = "lock"] /\ UNCHANGED <<queue, stage>>
         \/ DropQueue(t) /\ UNCHANGED <<stub, pc>>
  BY DEF commit, Idle, Goto, objVars
<1>3. installed[t] = << >> /\ detached[t] = << >> /\ Outside(t)
  BY <1>1, <1>2 DEF PInv, POf, CountOf, Outside
<1>4. EntryOK' /\ TableType' /\ ObjType'
  BY <1>1, <1>2 DEF EntryOK, Types, TableType, ObjType
<1>5. StubType' /\ CallType'
  BY <1>1, <1>2 DEF Types, StubType, CallType
<1>6. CASE /\ pc' = [pc EXCEPT ![t] = "lock"] /\ UNCHANGED <<queue, stage>>
  <2>1. Types'
    BY <1>1, <1>2, <1>4, <1>5, <1>6 DEF Types, HookType, TxType
  <2>2. pc'[t] = "lock" /\ \A u \in Threads \ {t} : Same(u)
    BY <1>1, <1>2, <1>6 DEF Same, Types, CallType
  <2>3. \A u \in Threads \ {t} : Locked(u) => codeOwner' = u
    BY <1>1, <1>2 DEF PInv, POf, LockOf
  <2>4. LockOf(t)' /\ Dismantling(t)' = Dismantling(t) /\ ~Dismantling(t)'
    BY <1>2, <2>2 DEF LockOf, Locked, Holding, DropPcs, Dismantling
  <2>5. CountOf(t)'
    BY <1>1, <1>2, <1>3, <1>6, <2>2, <2>4 DEF PInv, POf, CountOf, DropPcs
  <2>6. PInv'
    BY <1>1, <1>2, <1>6, <2>1, <2>2, <2>3, <2>4, <2>5, MoveStep DEF DropPcs
  <2>7. ASSUME OInv PROVE OInv'
    <3>1. \A g \in Hooks : Eats(t, g)' <=> Eats(t, g)
      BY <1>2, <2>2 DEF Eats
    <3>2. ReleaseOf(t)' /\ ListsOf(t)'
      BY <1>2, <1>3, <2>2 DEF ReleaseOf, ListsOf
    <3>3. QED
      BY <1>1, <1>2, <1>6, <2>2, <2>7, <3>1, <3>2, KeepStep
  <2>8. QED
    BY <1>4, <2>1, <2>6, <2>7 DEF TInv
<1>7. CASE DropQueue(t) /\ UNCHANGED <<stub, pc>>
  <2>1. Types'
    <3>1. HookType'
      BY <1>1, <1>2, <1>7, NoQueue DEF Types, HookType
    <3>2. TxType'
      BY <1>1, <1>2, <1>7, NoQueue, Zenon DEF Types, TxType
    <3>3. QED
      BY <1>4, <1>5, <3>1, <3>2 DEF Types
  <2>2. \A u \in Threads \ {t} : Same(u)
    BY <1>1, <1>2, <1>7, NoQueue DEF Same
  <2>3. \A u \in Threads \ {t} : Locked(u) => codeOwner' = u
    BY <1>1, <1>2 DEF PInv, POf, LockOf
  <2>4. PInv'
    BY <1>1, <1>2, <1>3, <1>7, <2>1, <2>2, <2>3, EndStep
  <2>5. ASSUME OInv PROVE OInv'
    <3>1. \A g \in Hooks : Eats(t, g)' <=> Eats(t, g)
      BY <1>2, <1>7 DEF Eats
    <3>2. ReleaseOf(t)' /\ ListsOf(t)'
      BY <1>2, <1>3, <1>7 DEF ReleaseOf, ListsOf
    <3>3. \A h \in Hooks : \/ stage'[h] = stage[h]
                           \/ stage[h] \notin {"new", "dropping", "gone"} /\ stage'[h] # "new"
      BY <1>1, <1>7, DropQueueStages
    <3>4. QED
      BY <1>1, <1>2, <2>2, <2>5, <3>1, <3>2, <3>3, KeepStep
  <2>6. QED
    BY <1>4, <2>1, <2>4, <2>5 DEF TInv
<1>8. QED
  BY <1>2, <1>6, <1>7

LEMMA commit_lockKeeps ==
  ASSUME TInv, NEW t \in Threads, commit_lock(t)
  PROVE  TInv' /\ (OInv => OInv')
<1>1. Types /\ EntryOK /\ PInv
  BY DEF TInv
<1>2. /\ pc[t] = "lock" /\ codeOwner = NoThread /\ codeOwner' = t
      /\ idx' = [idx EXCEPT ![t] = 1] /\ pc' = [pc EXCEPT ![t] = "apply"]
      /\ UNCHANGED <<slot, claims, vptr, clones, cloneSlot, owned, freed, stub, hook, stage,
                     resolved, queue, installed, detached, arg, after>>
  BY DEF commit_lock, Goto, tableVars, objVars
<1>3. installed[t] = << >> /\ detached[t] = << >>
  BY <1>1, <1>2 DEF PInv, POf, CountOf, Outside
<1>4. Types' /\ EntryOK'
  BY <1>1, <1>2 DEF EntryOK, Types, TableType, ObjType, HookType, StubType, TxType, CallType
<1>5. idx'[t] = 1 /\ pc'[t] = "apply" /\ \A u \in Threads \ {t} : Same(u)
  BY <1>1, <1>2 DEF Same, Types, CallType, TxType
<1>6. \A u \in Threads \ {t} : Locked(u) => codeOwner' = u
  BY <1>1, <1>2, HooksAssumption DEF PInv, POf, LockOf
<1>7. LockOf(t)' /\ Dismantling(t)' = Dismantling(t) /\ ~Dismantling(t)' /\ ~Outside(t)'
  BY <1>2, <1>5 DEF LockOf, Dismantling, Outside, DropPcs
<1>8. CountOf(t)'
  <2>1. Len(queue[t]) \in Nat /\ Len(installed[t]) + Len(detached[t]) < 1
    BY <1>1, <1>3 DEF Types, TxType
  <2>2. /\ Len(installed'[t]) + Len(detached'[t]) < idx'[t] /\ idx'[t] <= Len(queue'[t]) + 1
    BY <1>1, <1>2, <1>5, <2>1 DEF Types, TxType
  <2>3. QED
    BY <1>1, <1>2, <1>5, <1>7, <2>2 DEF PInv, POf, CountOf
<1>9. PInv'
  BY <1>1, <1>2, <1>3, <1>4, <1>5, <1>6, <1>7, <1>8, MoveStep DEF DropPcs
<1>10. ASSUME OInv PROVE OInv'
  <2>1. \A g \in Hooks : Eats(t, g)' <=> Eats(t, g)
    BY <1>2, <1>5 DEF Eats
  <2>2. ReleaseOf(t)' /\ ListsOf(t)'
    BY <1>2, <1>3, <1>5 DEF ReleaseOf, ListsOf
  <2>3. QED
    BY <1>1, <1>2, <1>5, <1>10, <2>1, <2>2, KeepStep
<1>11. QED
  BY <1>4, <1>9, <1>10 DEF TInv

LEMMA commit_appliedKeeps ==
  ASSUME TInv, NEW t \in Threads, commit_applied(t)
  PROVE  TInv' /\ (OInv => OInv')
<1>1. Types /\ EntryOK /\ PInv
  BY DEF TInv
<1>2. /\ pc[t] = "apply" /\ pc' = [pc EXCEPT ![t] = "finalize"]
      /\ stage' = [h \in Hooks |-> IF h \in QueuedHooks(t) THEN "live" ELSE stage[h]]
      /\ UNCHANGED <<slot, claims, vptr, clones, cloneSlot, owned, freed, stub, hook, resolved,
                     codeOwner, queue, installed, detached, idx, arg, after>>
  BY DEF commit_applied, Goto, tableVars, objVars, txVars
<1>3. Types' /\ EntryOK'
  BY <1>1, <1>2 DEF EntryOK, Types, TableType, ObjType, HookType, StubType, TxType, CallType
<1>4. pc'[t] = "finalize" /\ \A u \in Threads \ {t} : Same(u)
  BY <1>1, <1>2 DEF Same, Types, CallType
<1>5. PInv'
  BY <1>1, <1>2, <1>3, <1>4, AppliedStep
<1>6. ASSUME OInv PROVE OInv'
  <2>1. \A g \in Hooks : Eats(t, g)' <=> Eats(t, g)
    BY <1>2, <1>4 DEF Eats
  <2>2. ReleaseOf(t)' /\ ListsOf(t)'
    BY <1>2, <1>4, <1>6 DEF OInv, ReleaseOf, ListsOf
  <2>3. ASSUME NEW h \in Hooks, stage'[h] # stage[h]
        PROVE  stage[h] \notin {"new", "dropping", "gone"} /\ stage'[h] # "new"
    <3>1. h \in QueuedHooks(t) /\ stage'[h] = "live"
      BY <1>2, <2>3
    <3>2. PICK i \in DOMAIN queue[t] : queue[t][i].op = "attach" /\ queue[t][i].hook = h
      BY <3>1 DEF QueuedHooks
    <3>3. stage[h] = "queued"
      BY <1>1, <1>2, <3>2 DEF PInv, POf, QueueOf, Dismantling, DropPcs
    <3>4. QED
      BY <3>1, <3>3
  <2>4. QED
    BY <1>1, <1>2, <1>4, <1>6, <2>1, <2>2, <2>3, KeepStep
<1>7. QED
  BY <1>3, <1>5, <1>6 DEF TInv

(* The lock is released and the lists are empty.                           *)
LEMMA CommitEndsKeeps ==
  ASSUME TInv, NEW t \in Threads, CommitEnds(t), StubType', detached[t] = << >>, Locked(t),
         pc[t] \in {"finalize", "dismantle"},
         UNCHANGED <<slot, claims, vptr, clones, cloneSlot, owned, freed, hook, resolved,
                     detached, arg, after>>
  PROVE  TInv' /\ (OInv => OInv')
<1>1. Types /\ EntryOK /\ PInv
  BY DEF TInv
<1>2. /\ codeOwner' = NoThread /\ DropQueue(t)
      /\ installed' = [installed EXCEPT ![t] = << >>] /\ idx' = [idx EXCEPT ![t] = 0]
      /\ pc' = [pc EXCEPT ![t] = "ready"]
  BY DEF CommitEnds, Goto
<1>3. Types' /\ EntryOK'
  <2>1. TableType' /\ ObjType' /\ CallType' /\ EntryOK'
    BY <1>1, <1>2 DEF EntryOK, Types, TableType, ObjType, CallType
  <2>2. HookType'
    BY <1>1, <1>2, NoQueue DEF Types, HookType
  <2>3. TxType'
    <3>1. queue' \in [Threads -> Seq(Ops)] /\ << >> \in Seq(Hooks)
      BY <1>1, <1>2, NoQueue
    <3>2. installed' \in [Threads -> Seq(Hooks)]
      BY <1>1, <1>2, <3>1 DEF Types, TxType
    <3>3. idx' \in [Threads -> Nat]
      BY <1>1, <1>2 DEF Types, TxType
    <3>4. QED
      BY <1>1, <3>1, <3>2, <3>3, Zenon DEF Types, TxType
  <2>4. QED
    BY <2>1, <2>2, <2>3 DEF Types
<1>4. pc'[t] = "ready" /\ installed'[t] = << >> /\ \A u \in Threads \ {t} : Same(u)
  BY <1>1, <1>2, NoQueue DEF Same, Types, CallType, TxType
<1>5. \A u \in Threads \ {t} : Locked(u) => codeOwner' = u
  BY <1>1, Exclusive
<1>6. PInv'
  BY <1>1, <1>2, <1>3, <1>4, <1>5, EndStep
<1>7. ASSUME OInv PROVE OInv'
  <2>1. \A g \in Hooks : Eats(t, g)' <=> Eats(t, g)
    BY <1>4 DEF Eats
  <2>2. ReleaseOf(t)' /\ ListsOf(t)'
    BY <1>4 DEF ReleaseOf, ListsOf
  <2>3. \A h \in Hooks : \/ stage'[h] = stage[h]
                         \/ stage[h] \notin {"new", "dropping", "gone"} /\ stage'[h] # "new"
    BY <1>1, <1>2, DropQueueStages
  <2>4. QED
    BY <1>1, <1>4, <1>7, <2>1, <2>2, <2>3, KeepStep
<1>8. QED
  BY <1>3, <1>6, <1>7 DEF TInv

LEMMA commit_endKeeps ==
  ASSUME TInv, NEW t \in Threads, commit_end(t)
  PROVE  TInv' /\ (OInv => OInv')
<1>1. /\ pc[t] = "finalize" /\ detached[t] = << >> /\ CommitEnds(t)
      /\ UNCHANGED <<slot, claims, vptr, clones, cloneSlot, owned, freed, hook, resolved, stub,
                     detached, arg, after>>
  BY DEF commit_end, tableVars, objVars
<1>2. Locked(t) /\ StubType'
  BY <1>1 DEF Locked, Holding, StubType, TInv, Types, CommitEnds
<1>3. QED
  BY <1>1, <1>2, CommitEndsKeeps

LEMMA dismantle_endKeeps ==
  ASSUME TInv, NEW t \in Threads, dismantle_end(t)
  PROVE  TInv' /\ (OInv => OInv')
<1>1. /\ pc[t] = "dismantle" /\ CommitEnds(t)
      /\ UNCHANGED <<slot, claims, vptr, clones, cloneSlot, owned, freed, hook, resolved,
                     detached, arg, after>>
  BY DEF dismantle_end, objVars
<1>2. Locked(t) /\ StubType' /\ detached[t] = << >>
  BY <1>1 DEF dismantle_end, Locked, Holding, StubType, TInv, Types, CommitEnds, PInv, POf,
              CountOf, Dismantling
<1>3. QED
  BY <1>1, <1>2, CommitEndsKeeps

LEMMA dismantleKeeps ==
  ASSUME TInv, NEW t \in Threads, dismantle(t)
  PROVE  TInv' /\ (OInv => OInv')
<1>1. Types /\ EntryOK /\ PInv
  BY DEF TInv
<1>2. PICK h : h = Head(installed[t])
  OBVIOUS
<1>3. /\ pc[t] = "dismantle" /\ installed[t] # << >>
      /\ arg' = [arg EXCEPT ![t] = h] /\ after' = [after EXCEPT ![t] = "dismantle"]
      /\ pc' = [pc EXCEPT ![t] = "drop"] /\ stage' = [stage EXCEPT ![h] = "dropping"]
      /\ installed' = [installed EXCEPT ![t] = Tail(@)]
      /\ UNCHANGED <<slot, claims, vptr, clones, cloneSlot, owned, freed, stub, hook, resolved,
                     codeOwner, queue, detached, idx>>
  BY <1>2 DEF dismantle, DropNext, SetStage, Goto, tableVars, objVars
<1>4. installed[t] \in Seq(Hooks)
  BY <1>1 DEF Types, TxType
<1>5. h \in Hooks /\ Tail(installed[t]) \in Seq(Hooks) /\ 1 \in DOMAIN installed[t]
      /\ h = installed[t][1]
  BY <1>2, <1>3, <1>4
<1>6. Types' /\ EntryOK'
  <2>1. TableType' /\ ObjType' /\ EntryOK' /\ StubType'
    BY <1>1, <1>3 DEF EntryOK, Types, TableType, ObjType, StubType
  <2>2. HookType' /\ CallType'
    BY <1>1, <1>3, <1>5 DEF Types, HookType, CallType, Pointer
  <2>3. TxType'
    BY <1>1, <1>3, <1>5, Zenon DEF Types, TxType
  <2>4. QED
    BY <2>1, <2>2, <2>3 DEF Types
<1>7. /\ pc'[t] = "drop" /\ after'[t] = "dismantle" /\ arg'[t] = h
      /\ installed'[t] = Tail(installed[t]) /\ stage'[h] = "dropping"
      /\ \A g \in Hooks \ {h} : stage'[g] = stage[g]
  BY <1>1, <1>3, <1>5 DEF Types, CallType, TxType, HookType
<1>8. \A u \in Threads \ {t} : Same(u)
  BY <1>1, <1>3 DEF Same, Types, CallType, TxType
<1>9. PInv'
  BY <1>1, <1>2, <1>3, <1>5, <1>6, <1>7, <1>8, DismantleStep
<1>10. ASSUME OInv PROVE OInv'
  <2>1. \A g \in Hooks : Eats(t, g)' <=> Eats(t, g)
    BY <1>3, <1>7 DEF Eats
  <2>2. ReleaseOf(t)'
    BY <1>7 DEF ReleaseOf
  <2>3. ListsOf(t)'
    <3>1. \A k \in DOMAIN installed'[t] : \E l \in DOMAIN installed[t] :
              installed'[t][k] = installed[t][l]
      BY <1>3, <1>4, <1>7, TailOf
    <3>2. QED
      BY <1>3, <1>10, <3>1 DEF OInv, ListsOf, Place
  <2>4. stage[h] = "queued"
    BY <1>1, <1>3, <1>5 DEF PInv, POf, InstalledOf
  <2>5. QED
    BY <1>1, <1>3, <1>7, <1>8, <1>10, <2>1, <2>2, <2>3, <2>4, KeepStep
<1>11. QED
  BY <1>6, <1>9, <1>10 DEF TInv

(* A thread outside a commit has no lists.                                 *)
LEMMA IdleLists ==
  ASSUME PInv, NEW t \in Threads, Outside(t), installed' = installed, detached' = detached
  PROVE  installed[t] = << >> /\ detached[t] = << >> /\ ListsOf(t)'
<1>1. installed[t] = << >> /\ detached[t] = << >>
  BY DEF PInv, POf, CountOf
<1>2. QED
  BY <1>1 DEF ListsOf

LEMMA dropKeeps ==
  ASSUME TInv, NEW t \in Threads, NEW h \in Hooks, drop(t, h)
  PROVE  TInv' /\ (OInv => OInv')
<1>1. Types /\ EntryOK /\ PInv
  BY DEF TInv
<1>2. /\ pc[t] = "ready" /\ stage[h] = "live"
      /\ arg' = [arg EXCEPT ![t] = h] /\ after' = [after EXCEPT ![t] = "ready"]
      /\ pc' = [pc EXCEPT ![t] = "drop"] /\ stage' = [stage EXCEPT ![h] = "dropping"]
      /\ UNCHANGED <<slot, claims, vptr, clones, cloneSlot, owned, freed, stub, hook, resolved,
                     codeOwner, queue, installed, detached, idx>>
  BY DEF drop, Idle, DropNext, SetStage, Goto, tableVars, objVars, txVars
<1>3. Types' /\ EntryOK'
  <2>1. TableType' /\ ObjType' /\ EntryOK' /\ StubType' /\ TxType'
    BY <1>1, <1>2 DEF EntryOK, Types, TableType, ObjType, StubType, TxType
  <2>2. HookType' /\ CallType'
    BY <1>1, <1>2 DEF Types, HookType, CallType, Pointer
  <2>3. QED
    BY <2>1, <2>2 DEF Types
<1>4. /\ pc'[t] = "drop" /\ after'[t] = "ready" /\ arg'[t] = h /\ stage'[h] = "dropping"
      /\ \A g \in Hooks \ {h} : stage'[g] = stage[g]
  BY <1>1, <1>2 DEF Types, CallType, HookType
<1>5. \A u \in Threads \ {t} : Same(u)
  BY <1>1, <1>2 DEF Same, Types, CallType
<1>6. PInv'
  BY <1>1, <1>2, <1>3, <1>4, <1>5, DropStep
<1>7. ASSUME OInv PROVE OInv'
  <2>1. \A g \in Hooks : Eats(t, g)' <=> Eats(t, g)
    BY <1>2, <1>4 DEF Eats
  <2>2. ReleaseOf(t)' /\ ListsOf(t)'
    BY <1>1, <1>2, <1>4, IdleLists DEF ReleaseOf, Outside
  <2>3. QED
    BY <1>1, <1>2, <1>4, <1>5, <1>7, <2>1, <2>2, KeepStep
<1>8. QED
  BY <1>3, <1>6, <1>7 DEF TInv

(* What the writes do to the slots.                                        *)
SlotSet(h, v) ==
    /\ Place(h) \in Slots => slot'[Place(h)] = v /\ \A s \in Slots \ {Place(h)} : slot'[s] = slot[s]
    /\ Place(h) \notin Slots => slot' = slot

LEMMA WriteEffect ==
  ASSUME Types, NEW h \in Hooks, NEW v \in Pointer, Write(h, v)
  PROVE  SlotSet(h, v) /\ Place(h) \in Slots \cup Instances
  BY PlacesAssumption
     DEF Write, write_slot, write_clone_slot, SlotSet, Types, TableType

LEMMA UnhookEffect ==
  ASSUME Types, NEW h \in Hooks, perform_unhook(h)
  PROVE  SlotSet(h, hook[h].orig) /\ Place(h) \in Slots \cup Instances
<1>1. CASE Place(h) \in Slots /\ write_slot(h, hook[h].orig)
  BY <1>1 DEF write_slot, SlotSet, Types, TableType
<1>2. CASE Place(h) \in Instances /\ restore_instance(h)
  BY <1>2, PlacesAssumption, RestoreTyped DEF restore_instance, SlotSet
<1>3. QED
  BY <1>1, <1>2 DEF perform_unhook

LEMMA Alone ==
  ASSUME Types, OInv, NEW t \in Threads, NEW h \in Hooks, Mine(t, h)
  PROVE  /\ Place(h) \in Slots /\ Place(h) \in claims
         /\ \A g \in Hooks \ {h} : ~Owns(g, Place(h))
<1>1. Place(h) \in Slots /\ Place(h) \in claims
  BY SlotKinds DEF OInv, GuardOf, EatOf, Mine
<1>2. Owns(h, Place(h))
  BY DEF Owns, Mine, Eats
<1>3. QED
  BY <1>1, <1>2 DEF OInv, OwnerOK

LEMMA Still ==
  ASSUME PInv, UNCHANGED <<stage, codeOwner, queue, installed, detached, idx, pc, arg, after>>
  PROVE  PInv'
<1>1. ASSUME NEW t \in Threads, POf(t) PROVE POf(t)'
  <2>1. LockOf(t)' /\ DropOf(t)' /\ CountOf(t)'
    BY <1>1 DEF POf, LockOf, DropOf, CountOf, Locked, Outside, Dismantling
  <2>2. QueueOf(t)' /\ InstalledOf(t)' /\ DetachedOf(t)'
    BY <1>1 DEF POf, QueueOf, InstalledOf, DetachedOf, Dismantling
  <2>3. QED
    BY <2>1, <2>2 DEF POf
<1>2. QED
  BY <1>1 DEF PInv, QueueUnique, DropUnique

LEMMA ToggleKeeps ==
  ASSUME TInv, NEW t \in Threads, NEW h \in Hooks, NEW v \in Pointer, Toggle(t, h, v),
         \/ v = h /\ hook[h].active /\ ~hook[h].enabled
         \/ v = hook[h].orig /\ hook[h].enabled
  PROVE  TInv' /\ (OInv => OInv')
<1>1. Types /\ EntryOK /\ PInv
  BY DEF TInv
<1>2. /\ pc[t] = "ready" /\ stage[h] = "live" /\ Write(h, v)
      /\ hook' = [hook EXCEPT ![h].enabled = ~@]
      /\ UNCHANGED <<claims, stage, stub, resolved, codeOwner, queue, installed, detached, idx,
                     pc, arg, after>>
  BY DEF Toggle, Idle, txVars, callVars
<1>3. Types' /\ EntryOK'
  <2>1. slot' \in [Slots -> Pointer] /\ ObjType' /\ EntryOK'
    BY <1>1, <1>2, WriteTyped
  <2>2. HookType'
    BY <1>1, <1>2 DEF Types, HookType, Guard
  <2>3. StubType' /\ TxType' /\ CallType' /\ TableType'
    BY <1>1, <1>2, <2>1 DEF Types, StubType, TxType, CallType, TableType
  <2>4. QED
    BY <2>1, <2>2, <2>3 DEF Types
<1>4. PInv'
  BY <1>1, <1>2, Still
<1>5. ASSUME OInv PROVE OInv'
  <2>1. GuardOf(h) /\ Taken(t, h) /\ hook[h].enabled \in BOOLEAN
    BY <1>1, <1>2, <1>5 DEF OInv, Taken, Types, HookType, Guard
  <2>2. SlotSet(h, v)
    BY <1>1, <1>2, WriteEffect
  <2>3. /\ \A g \in Hooks \ {h} : hook'[g] = hook[g]
        /\ hook'[h].place = hook[h].place /\ hook'[h].orig = hook[h].orig
        /\ hook'[h].claimed = hook[h].claimed /\ hook'[h].active = hook[h].active
        /\ hook'[h].enabled = ~hook[h].enabled
    BY <1>1, <1>2 DEF Types, HookType, Guard
  <2>4. \A u \in Threads : Same(u)
    BY <1>2 DEF Same
  <2>5. /\ \A g \in Hooks : Eats(t, g)' <=> Eats(t, g)
        /\ Mine(t, h)' <=> Mine(t, h)
        /\ EatOf(t)' /\ ReleaseOf(t)' /\ ListsOf(t)'
    BY <1>1, <1>2, <2>3, IdleLists DEF Eats, Mine, EatOf, ReleaseOf, Outside
  <2>6. Place(h) \in Slots => hook[h].claimed /\ hook[h].orig = Original /\ Mine(t, h)
    BY <1>2, <2>1 DEF GuardOf, Mine
  <2>7. Place(h) \in Slots => /\ Place(h) \in claims
                              /\ \A g \in Hooks \ {h} : ~Owns(g, Place(h))
    BY <1>1, <1>5, <2>6, Alone
  <2>8. GuardOf(h)'
    <3>1. CASE Place(h) \in Slots
      <4>1. /\ slot'[Place(h)] = v /\ hook[h].claimed /\ hook[h].orig = Original /\ h # Original
            /\ Place(h)' = Place(h) /\ Place(h) \in claims' /\ Place(h) # Original
        BY <3>1, <1>2, <2>2, <2>3, <2>6, <2>7, HooksAssumption, PlacesAssumption
           DEF SlotSet, Place
      <4>2. \/ v = h /\ hook'[h].enabled /\ hook'[h].active
            \/ v # h /\ ~hook'[h].enabled
        BY <2>1, <2>3, <4>1
      <4>3. QED
        BY <3>1, <1>2, <2>3, <4>1, <4>2 DEF GuardOf
    <3>2. CASE Place(h) \notin Slots
      BY <3>2, <1>2, <2>1, <2>3 DEF GuardOf, Place
    <3>3. QED
      BY <3>1, <3>2
  <2>9. /\ \A s \in Slots \ {Place(h)} : slot'[s] = slot[s] /\ (s \in claims' <=> s \in claims)
        /\ \/ slot' = slot /\ claims' = claims /\ (Mine(t, h)' <=> Mine(t, h))
           \/ /\ Place(h) \in Slots
              /\ \A g \in Hooks \ {h} : ~Owns(g, Place(h))
              /\ slot'[Place(h)] \in {h, Original}
              /\ Place(h) \in claims' <=> Mine(t, h)'
              /\ slot'[Place(h)] = h => Mine(t, h)'
    BY <1>2, <2>2, <2>5, <2>6, <2>7 DEF SlotSet
  <2>10. QED
    BY <1>1, <1>2, <1>3, <1>5, <2>1, <2>3, <2>4, <2>5, <2>8, <2>9, OneHookStep
<1>6. QED
  BY <1>3, <1>4, <1>5 DEF TInv

LEMMA unhookKeeps ==
  ASSUME TInv, NEW t \in Threads, NEW h \in Hooks, unhook(t, h)
  PROVE  TInv' /\ (OInv => OInv')
<1>1. Types /\ EntryOK /\ PInv
  BY DEF TInv
<1>2. /\ pc[t] = "ready" /\ stage[h] = "live"
      /\ arg' = [arg EXCEPT ![t] = h] /\ after' = [after EXCEPT ![t] = "ready"]
      /\ pc' = [pc EXCEPT ![t] = "drop"] /\ stage' = [stage EXCEPT ![h] = "dropping"]
      /\ UNCHANGED <<claims, stub, resolved, codeOwner, queue, installed, detached, idx>>
  BY DEF unhook, Idle, DropNext, SetStage, Goto, txVars
<1>3. \/ /\ hook[h].active /\ perform_unhook(h)
         /\ hook' = [hook EXCEPT ![h].active = FALSE, ![h].clone = Original]
      \/ /\ UNCHANGED <<slot, vptr, clones, cloneSlot, owned, freed, hook>>
  BY DEF unhook, Unrestored, objVars
<1>4. slot' \in [Slots -> Pointer] /\ ObjType' /\ EntryOK'
  <2>1. CASE perform_unhook(h)
    BY <1>1, <2>1, UnhookTyped
  <2>2. CASE UNCHANGED <<slot, vptr, clones, cloneSlot, owned, freed, hook>>
    BY <1>1, <2>2 DEF Types, TableType, ObjType, EntryOK
  <2>3. QED
    BY <1>3, <2>1, <2>2
<1>5. Types'
  <2>1. hook' \in [Hooks -> Guard]
    <3>1. CASE hook' = [hook EXCEPT ![h].active = FALSE, ![h].clone = Original]
      BY <1>1, <3>1 DEF Types, HookType, Guard, Pointer
    <3>2. QED
      BY <1>1, <1>3, <3>1 DEF Types, HookType
  <2>2. HookType' /\ CallType'
    BY <1>1, <1>2, <2>1 DEF Types, HookType, CallType, Pointer
  <2>3. StubType' /\ TxType' /\ TableType'
    BY <1>1, <1>2, <1>4 DEF Types, StubType, TxType, TableType
  <2>4. QED
    BY <1>4, <2>2, <2>3 DEF Types
<1>6. /\ pc'[t] = "drop" /\ after'[t] = "ready" /\ arg'[t] = h /\ stage'[h] = "dropping"
      /\ \A g \in Hooks \ {h} : stage'[g] = stage[g]
  BY <1>1, <1>2 DEF Types, CallType, HookType
<1>7. \A u \in Threads \ {t} : Same(u)
  BY <1>1, <1>2 DEF Same, Types, CallType
<1>8. PInv'
  BY <1>1, <1>2, <1>5, <1>6, <1>7, DropStep
<1>9. ASSUME OInv PROVE OInv'
  <2>1. GuardOf(h) /\ Taken(t, h)
    BY <1>2, <1>9 DEF OInv, Taken
  <2>2. /\ \A g \in Hooks : Eats(t, g)' <=> Eats(t, g)
        /\ EatOf(t)' /\ ReleaseOf(t)' /\ ListsOf(t)'
    BY <1>1, <1>2, <1>6, IdleLists DEF Eats, EatOf, ReleaseOf, Outside
  <2>3. CASE hook' = hook /\ slot' = slot
    BY <1>1, <1>2, <1>6, <1>7, <1>9, <2>2, <2>3, KeepStep
  <2>4. CASE /\ hook[h].active /\ perform_unhook(h)
             /\ hook' = [hook EXCEPT ![h].active = FALSE, ![h].clone = Original]
    <3>1. SlotSet(h, hook[h].orig) /\ Place(h) \in Slots \cup Instances
      BY <1>1, <2>4, UnhookEffect
    <3>2. /\ \A g \in Hooks \ {h} : hook'[g] = hook[g]
          /\ hook'[h].place = hook[h].place /\ hook'[h].orig = hook[h].orig
          /\ hook'[h].claimed = hook[h].claimed /\ ~hook'[h].active
          /\ hook'[h].enabled = hook[h].enabled
      BY <1>1, <2>4 DEF Types, HookType, Guard
    <3>3. Mine(t, h)' <=> Mine(t, h)
      BY <1>2, <1>6, <2>2, <3>2 DEF Mine
    <3>4. Place(h) \in Slots => hook[h].claimed /\ hook[h].orig = Original /\ Mine(t, h)
      BY <1>2, <2>1, <2>4 DEF GuardOf, Mine
    <3>5. Place(h) \in Slots => /\ Place(h) \in claims
                                /\ \A g \in Hooks \ {h} : ~Owns(g, Place(h))
      BY <1>1, <1>9, <3>4, Alone
    <3>6. GuardOf(h)'
      BY <1>2, <1>6, <2>1, <3>1, <3>2, <3>4, HooksAssumption DEF GuardOf, Place, SlotSet
    <3>7. /\ \A s \in Slots \ {Place(h)} : slot'[s] = slot[s] /\ (s \in claims' <=> s \in claims)
          /\ \/ slot' = slot /\ claims' = claims /\ (Mine(t, h)' <=> Mine(t, h))
             \/ /\ Place(h) \in Slots
                /\ \A g \in Hooks \ {h} : ~Owns(g, Place(h))
                /\ slot'[Place(h)] \in {h, Original}
                /\ Place(h) \in claims' <=> Mine(t, h)'
                /\ slot'[Place(h)] = h => Mine(t, h)'
      BY <1>2, <3>1, <3>3, <3>4, <3>5 DEF SlotSet
    <3>8. QED
      BY <1>1, <1>2, <1>5, <1>6, <1>7, <1>9, <2>1, <2>2, <3>2, <3>6, <3>7, OneHookStep
  <2>5. QED
    BY <1>3, <2>3, <2>4
<1>10. QED
  BY <1>4, <1>5, <1>8, <1>9 DEF TInv

(* The last step of a drop: the guard is gone, and its claim stays or not. *)
LEMMA DropEndsKeeps ==
  ASSUME TInv, NEW t \in Threads, NEW h \in Hooks, h = arg[t], pc[t] \in DropPcs,
         NEW c \in BOOLEAN, DropEnds(t, c), slot' = slot, ObjType', EntryOK', StubType',
         UNCHANGED <<codeOwner, queue, installed, detached, idx, after>>,
         claims' \subseteq Slots,
         OInv => \/ claims' = claims /\ c = hook[h].claimed
                 \/ /\ claims' = claims \ {Place(h)} /\ ~c
                    /\ hook[h].claimed /\ slot[Place(h)] # h
  PROVE  TInv' /\ (OInv => OInv')
<1>1. Types /\ EntryOK /\ PInv
  BY DEF TInv
<1>2. /\ stage' = [stage EXCEPT ![h] = "gone"]
      /\ hook' = [hook EXCEPT ![h] = [NoGuard EXCEPT !.place = Place(h), !.claimed = c]]
      /\ arg' = [arg EXCEPT ![t] = Original]
      /\ pc' = [pc EXCEPT ![t] = after[t]]
  BY DEF DropEnds, SetStage, Goto
<1>3. /\ pc'[t] = after[t] /\ after'[t] = after[t] /\ stage'[h] = "gone"
      /\ after[t] \in {"ready", "dismantle"}
      /\ \A g \in Hooks \ {h} : stage'[g] = stage[g]
  BY <1>1, <1>2 DEF Types, CallType, HookType
<1>4. \A u \in Threads \ {t} : Same(u)
  BY <1>1, <1>2 DEF Same, Types, CallType
<1>5. /\ \A g \in Hooks \ {h} : hook'[g] = hook[g]
      /\ hook'[h] = [NoGuard EXCEPT !.place = Place(h), !.claimed = c]
  BY <1>1, <1>2 DEF Types, HookType
<1>6. /\ hook'[h].place = hook[h].place /\ hook'[h].orig = Original /\ hook'[h].claimed = c
      /\ ~hook'[h].active /\ ~hook'[h].enabled
  BY <1>5 DEF NoGuard, Place
<1>7. Types'
  <2>1. [NoGuard EXCEPT !.place = Place(h), !.claimed = c] \in Guard
    BY <1>1 DEF Types, HookType, Guard, NoGuard, Pointer, Place
  <2>2. HookType'
    BY <1>1, <1>2, <2>1 DEF Types, HookType
  <2>3. CallType'
    BY <1>1, <1>2, <1>3 DEF Types, CallType, Pointer
  <2>4. TxType' /\ TableType'
    BY <1>1 DEF Types, TxType, TableType
  <2>5. QED
    BY <2>2, <2>3, <2>4 DEF Types
<1>8. PInv'
  BY <1>1, <1>3, <1>4, <1>7, GoneStep
<1>9. ASSUME OInv PROVE OInv'
  <2>1. GuardOf(h) /\ Taken(t, h) /\ stage[h] = "dropping"
    BY <1>1, <1>9 DEF OInv, Taken, PInv, POf, DropOf
  <2>2. /\ \A g \in Hooks : ~Eats(t, g) /\ ~Eats(t, g)'
        /\ EatOf(t)' /\ ReleaseOf(t)'
    BY <1>3 DEF Eats, EatOf, ReleaseOf, DropPcs
  <2>3. ListsOf(t)'
    <3>1. \A k \in DOMAIN installed[t] : installed[t][k] \in Hooks \ {h}
      BY <1>1, <2>1, InLists DEF PInv, POf, InstalledOf, DropPcs
    <3>2. \A k \in DOMAIN detached[t] : detached[t][k].hook \in Hooks
      BY <1>1, InLists
    <3>3. pc[t] # "finalize"
      BY DEF DropPcs
    <3>4. ListsOf(t) /\ installed'[t] = installed[t] /\ detached'[t] = detached[t]
      BY <1>9 DEF OInv
    <3>5. \A g \in Hooks \ {h} : Place(g)' = Place(g)
      BY <1>5 DEF Place
    <3>6. \A g \in Hooks : ~hook[g].enabled => ~hook'[g].enabled
      BY <1>5, <1>6
    <3>7. QED
      BY <1>5, <3>1, <3>2, <3>3, <3>4, <3>5, <3>6 DEF ListsOf
  <2>4. Mine(t, h)' <=> c
    BY <1>6, <2>2 DEF Mine
  <2>5. Mine(t, h) <=> hook[h].claimed
    BY <2>2 DEF Mine
  <2>6. CASE claims' = claims /\ c = hook[h].claimed
    <3>1. GuardOf(h)'
      BY <1>3, <1>6, <2>1, <2>6 DEF GuardOf, Place
    <3>2. QED
      BY <1>1, <1>3, <1>4, <1>5, <1>6, <1>7, <1>9, <2>1, <2>2, <2>3, <2>4, <2>5, <2>6, <3>1,
         OneHookStep
  <2>7. CASE claims' = claims \ {Place(h)} /\ ~c /\ hook[h].claimed /\ slot[Place(h)] # h
    <3>1. GuardOf(h)'
      BY <1>3, <1>6, <2>1, <2>7 DEF GuardOf, Place
    <3>2. /\ Place(h) \in Slots /\ Place(h) \in claims
          /\ \A g \in Hooks \ {h} : ~Owns(g, Place(h))
      BY <1>1, <1>9, <2>5, <2>7, Alone
    <3>3. slot[Place(h)] = Original
      BY <1>1, <1>9, <2>7, <3>2 DEF OInv, OwnerOK, Types, TableType, Pointer
    <3>4. QED
      BY <1>1, <1>3, <1>4, <1>5, <1>6, <1>7, <1>9, <2>1, <2>2, <2>3, <2>4, <2>7, <3>1, <3>2,
         <3>3, OneHookStep
  <2>8. QED
    BY <1>9, <2>6, <2>7
<1>10. QED
  BY <1>7, <1>8, <1>9 DEF TInv

LEMMA drop_unhookKeeps ==
  ASSUME TInv, NEW t \in Threads, drop_unhook(t)
  PROVE  TInv' /\ (OInv => OInv')
<1>1. Types /\ EntryOK /\ PInv
  BY DEF TInv
<1>2. PICK h : h = arg[t]
  OBVIOUS
<1>3. /\ pc[t] = "drop"
      /\ UNCHANGED <<claims, stub, resolved, codeOwner, queue, installed, detached, idx, after>>
  BY DEF drop_unhook, txVars
<1>4. /\ h \in Hooks /\ stage[h] = "dropping" /\ claims' \subseteq Slots /\ StubType'
      /\ pc[t] \in DropPcs /\ hook[h].claimed \in BOOLEAN
  BY <1>1, <1>2, <1>3 DEF PInv, POf, DropOf, DropPcs, Types, TableType, StubType, HookType, Guard
<1>5. CASE /\ Place(h) \in Slots /\ hook[h].claimed
           /\ IF hook[h].active THEN perform_unhook(h) ELSE UNCHANGED <<slot, objVars>>
           /\ Goto(t, "release") /\ UNCHANGED <<arg, stage, hook>>
  <2>1. slot' \in [Slots -> Pointer] /\ ObjType' /\ EntryOK'
    <3>1. CASE hook[h].active
      BY <1>1, <1>4, <1>5, <3>1, UnhookTyped
    <3>2. CASE ~hook[h].active
      BY <1>1, <1>5, <3>2 DEF objVars, Types, TableType, ObjType, EntryOK
    <3>3. QED
      BY <3>1, <3>2
  <2>2. pc' = [pc EXCEPT ![t] = "release"]
    BY <1>5 DEF Goto
  <2>3. Types'
    BY <1>1, <1>3, <1>4, <1>5, <2>1, <2>2 DEF Types, TableType, HookType, TxType, CallType
  <2>4. pc'[t] = "release" /\ \A u \in Threads \ {t} : Same(u)
    BY <1>1, <1>3, <1>5, <2>2 DEF Same, Types, CallType
  <2>5. PInv'
    <3>1. /\ LockOf(t)' /\ CountOf(t)' /\ Dismantling(t)' = Dismantling(t)
          /\ pc'[t] \in DropPcs
      BY <1>1, <1>3, <2>4 DEF PInv, POf, LockOf, CountOf, Locked, Holding, Outside, Dismantling,
                              DropPcs
    <3>2. \A u \in Threads \ {t} : Locked(u) => codeOwner' = u
      BY <1>1, <1>3 DEF PInv, POf, LockOf
    <3>3. QED
      BY <1>1, <1>3, <1>4, <1>5, <2>3, <2>4, <3>1, <3>2, MoveStep
  <2>6. ASSUME OInv PROVE OInv'
    <3>1. GuardOf(h) /\ Taken(t, h) /\ ListsOf(t)
      BY <1>2, <1>4, <2>6 DEF OInv, Taken
    <3>2. Mine(t, h) /\ Mine(t, h)'
      BY <1>5 DEF Mine
    <3>3. /\ Place(h) \in claims /\ hook[h].orig = Original /\ h # Original
          /\ \A g \in Hooks \ {h} : ~Owns(g, Place(h))
      BY <1>1, <1>4, <1>5, <2>6, <3>1, <3>2, Alone, HooksAssumption DEF GuardOf
    <3>4. /\ \A s \in Slots \ {Place(h)} : slot'[s] = slot[s]
          /\ slot'[Place(h)] = Original \/ slot' = slot
          /\ slot'[Place(h)] # h
      <4>1. CASE hook[h].active
        BY <1>1, <1>4, <1>5, <3>3, <4>1, UnhookEffect DEF SlotSet
      <4>2. CASE ~hook[h].active
        BY <1>4, <1>5, <3>1, <4>2 DEF GuardOf
      <4>3. QED
        BY <4>1, <4>2
    <3>5. GuardOf(h)'
      BY <1>3, <1>4, <1>5, <3>1, <3>4 DEF GuardOf, Place
    <3>6. /\ \A g \in Hooks : ~Eats(t, g) /\ ~Eats(t, g)'
          /\ EatOf(t)'
      BY <1>3, <2>4 DEF Eats, EatOf
    <3>7. ReleaseOf(t)'
      BY <1>2, <1>5, <2>4, <3>4 DEF ReleaseOf, Place
    <3>8. ListsOf(t)'
      BY <1>3, <1>5, <2>4, <3>1 DEF ListsOf, Place
    <3>9. QED
      BY <1>1, <1>3, <1>4, <1>5, <2>3, <2>4, <2>6, <3>1, <3>2, <3>3, <3>4, <3>5, <3>6, <3>7,
         <3>8, OneHookStep
  <2>7. QED
    BY <2>1, <2>3, <2>5, <2>6 DEF TInv
<1>6. CASE /\ UNCHANGED <<slot, objVars>>
           /\ DropEnds(t, hook[h].claimed)
  <2>1. slot' = slot /\ ObjType' /\ EntryOK'
    BY <1>1, <1>6 DEF objVars, Types, ObjType, EntryOK
  <2>2. QED
    BY <1>2, <1>3, <1>4, <1>6, <2>1, DropEndsKeeps
<1>7. CASE /\ Place(h) \in Instances
           /\ IF hook[h].active
              THEN perform_unhook(h) \/ Unrestored(h)
              ELSE UNCHANGED <<slot, objVars>>
           /\ DropEnds(t, FALSE)
  <2>1. Place(h) \notin Slots
    BY <1>7, PlacesAssumption
  <2>2. slot' = slot /\ ObjType' /\ EntryOK'
    <3>1. CASE hook[h].active /\ perform_unhook(h)
      BY <1>1, <1>4, <1>7, <2>1, <3>1, RestoreTyped DEF perform_unhook
    <3>2. CASE UNCHANGED <<slot, objVars>>
      BY <1>1, <3>2 DEF objVars, Types, ObjType, EntryOK
    <3>3. QED
      BY <1>7, <3>1, <3>2 DEF Unrestored
  <2>3. OInv => hook[h].claimed = FALSE
    BY <1>4, <2>1 DEF OInv, GuardOf
  <2>4. QED
    BY <1>2, <1>3, <1>4, <1>7, <2>2, <2>3, DropEndsKeeps
<1>8. QED
  BY <1>2, <1>5, <1>6, <1>7 DEF drop_unhook

LEMMA release_table_slotKeeps ==
  ASSUME TInv, NEW t \in Threads, release_table_slot(t)
  PROVE  TInv' /\ (OInv => OInv')
<1>1. Types /\ EntryOK /\ PInv
  BY DEF TInv
<1>2. PICK h : h = arg[t]
  OBVIOUS
<1>3. /\ pc[t] = "release" /\ claims' = claims \ {Place(h)}
      /\ UNCHANGED <<slot, vptr, clones, cloneSlot, owned, freed, stub, resolved, codeOwner,
                     queue, installed, detached, idx, after>>
  BY <1>2 DEF release_table_slot, txVars, objVars
<1>4. /\ h \in Hooks /\ stage[h] = "dropping" /\ claims' \subseteq Slots /\ StubType'
      /\ pc[t] \in DropPcs /\ ObjType' /\ EntryOK'
  BY <1>1, <1>2, <1>3 DEF PInv, POf, DropOf, DropPcs, Types, TableType, StubType, ObjType, EntryOK
<1>5. OInv => hook[h].claimed /\ slot[Place(h)] # h
  BY <1>2, <1>3 DEF OInv, ReleaseOf
<1>6. CASE DropEnds(t, FALSE)
  BY <1>2, <1>3, <1>4, <1>5, <1>6, DropEndsKeeps
<1>7. CASE /\ Goto(t, "retire_stub")
           /\ hook' = [hook EXCEPT ![h].claimed = FALSE]
           /\ UNCHANGED <<stage, arg>>
  <2>1. pc' = [pc EXCEPT ![t] = "retire_stub"]
    BY <1>7 DEF Goto
  <2>2. hook' \in [Hooks -> Guard]
    BY <1>1, <1>7 DEF Types, HookType, Guard
  <2>3. Types'
    BY <1>1, <1>3, <1>4, <1>7, <2>1, <2>2 DEF Types, TableType, HookType, TxType, CallType
  <2>4. pc'[t] = "retire_stub" /\ \A u \in Threads \ {t} : Same(u)
    BY <1>1, <1>3, <1>7, <2>1 DEF Same, Types, CallType
  <2>5. PInv'
    <3>1. /\ LockOf(t)' /\ CountOf(t)' /\ Dismantling(t)' = Dismantling(t)
          /\ pc'[t] \in DropPcs
      BY <1>1, <1>3, <2>4 DEF PInv, POf, LockOf, CountOf, Locked, Holding, Outside, Dismantling,
                              DropPcs
    <3>2. \A u \in Threads \ {t} : Locked(u) => codeOwner' = u
      BY <1>1, <1>3 DEF PInv, POf, LockOf
    <3>3. QED
      BY <1>1, <1>3, <1>4, <1>7, <2>3, <2>4, <3>1, <3>2, MoveStep
  <2>6. ASSUME OInv PROVE OInv'
    <3>1. GuardOf(h) /\ Taken(t, h) /\ ListsOf(t)
      BY <1>2, <1>4, <2>6 DEF OInv, Taken
    <3>2. /\ \A g \in Hooks \ {h} : hook'[g] = hook[g]
          /\ hook'[h].place = hook[h].place /\ hook'[h].orig = hook[h].orig
          /\ hook'[h].claimed = FALSE /\ hook'[h].active = hook[h].active
          /\ hook'[h].enabled = hook[h].enabled
      BY <1>1, <1>4, <1>7 DEF Types, HookType, Guard
    <3>3. /\ \A g \in Hooks : ~Eats(t, g) /\ ~Eats(t, g)'
          /\ EatOf(t)'
      BY <1>3, <2>4 DEF Eats, EatOf
    <3>4. Mine(t, h) /\ ~Mine(t, h)'
      BY <1>4, <1>5, <2>6, <3>2, <3>3 DEF Mine
    <3>5. /\ Place(h) \in Slots /\ Place(h) \in claims
          /\ \A g \in Hooks \ {h} : ~Owns(g, Place(h))
      BY <1>1, <1>4, <2>6, <3>4, Alone
    <3>6. slot[Place(h)] = Original
      BY <1>1, <1>5, <2>6, <3>5 DEF OInv, OwnerOK, Types, TableType, Pointer
    <3>7. GuardOf(h)'
      BY <1>4, <1>7, <3>1, <3>2 DEF GuardOf, Place
    <3>8. ReleaseOf(t)'
      BY <1>2, <1>7, <2>4, <3>2, <3>5 DEF ReleaseOf, Place
    <3>9. ListsOf(t)'
      <4>1. \A k \in DOMAIN installed[t] : installed[t][k] \in Hooks \ {h}
        BY <1>1, <1>3, <1>4, InLists DEF PInv, POf, InstalledOf
      <4>2. \A k \in DOMAIN detached[t] : detached[t][k].hook \in Hooks
        BY <1>1, InLists
      <4>3. \A g \in Hooks \ {h} : Place(g)' = Place(g)
        BY <3>2 DEF Place
      <4>4. \A g \in Hooks : hook'[g].enabled = hook[g].enabled
        BY <3>2
      <4>5. QED
        BY <1>3, <3>1, <3>2, <4>1, <4>2, <4>3, <4>4 DEF ListsOf
    <3>10. /\ \A s \in Slots \ {Place(h)} : slot'[s] = slot[s] /\ (s \in claims' <=> s \in claims)
           /\ slot'[Place(h)] = Original
           /\ Place(h) \in claims' <=> Mine(t, h)'
           /\ slot'[Place(h)] = h => Mine(t, h)'
      BY <1>3, <1>4, <3>4, <3>6, HooksAssumption
    <3>11. QED
      BY <1>1, <1>4, <1>7, <2>3, <2>4, <2>6, <3>1, <3>2, <3>3, <3>5, <3>7, <3>8, <3>9, <3>10,
         OneHookStep
  <2>7. QED
    BY <1>4, <2>3, <2>5, <2>6 DEF TInv
<1>8. QED
  BY <1>2, <1>6, <1>7 DEF release_table_slot

LEMMA retire_stubKeeps ==
  ASSUME TInv, NEW t \in Threads, retire_stub(t)
  PROVE  TInv' /\ (OInv => OInv')
<1>1. Types /\ EntryOK /\ PInv
  BY DEF TInv
<1>2. PICK h : h = arg[t]
  OBVIOUS
<1>3. /\ pc[t] = "retire_stub" /\ RetireStub(h) /\ DropEnds(t, FALSE)
      /\ UNCHANGED <<slot, claims, vptr, clones, cloneSlot, owned, freed, resolved, codeOwner,
                     queue, installed, detached, idx, after>>
  BY <1>2 DEF retire_stub, txVars, objVars
<1>4. h \in Hooks /\ pc[t] \in DropPcs /\ claims' \subseteq Slots /\ ObjType' /\ EntryOK'
  BY <1>1, <1>2, <1>3 DEF PInv, POf, DropOf, DropPcs, Types, TableType, ObjType, EntryOK
<1>5. StubType'
  BY <1>1, <1>3, <1>4 DEF RetireStub, Types, StubType
<1>6. OInv => hook[h].claimed = FALSE
  BY <1>1, <1>2, <1>3, <1>4 DEF OInv, ReleaseOf, Types, HookType, Guard
<1>7. QED
  BY <1>2, <1>3, <1>4, <1>5, <1>6, DropEndsKeeps

(* An operation that is refused.                                           *)
LEMMA FailKeeps ==
  ASSUME TInv, NEW t \in Threads, pc[t] = "apply", StepFails(t),
         UNCHANGED <<stage, stub, resolved, codeOwner, queue, detached, arg, after>>
  PROVE  TInv' /\ (OInv => OInv')
<1>1. Types /\ EntryOK /\ PInv
  BY DEF TInv
<1>2. /\ pc' = [pc EXCEPT ![t] = "undo_detaches"]
      /\ UNCHANGED <<slot, claims, vptr, clones, cloneSlot, owned, freed, hook, installed, idx>>
  BY DEF StepFails, Goto, objVars
<1>3. Types' /\ EntryOK'
  BY <1>1, <1>2 DEF Types, TableType, ObjType, HookType, StubType, TxType, CallType, EntryOK
<1>4. pc'[t] = "undo_detaches" /\ \A u \in Threads \ {t} : Same(u)
  BY <1>1, <1>2 DEF Same, Types, CallType
<1>5. PInv'
  <2>1. LockOf(t)' /\ CountOf(t)' /\ ~Dismantling(t) /\ pc'[t] \notin DropPcs
    BY <1>1, <1>2, <1>4 DEF PInv, POf, LockOf, CountOf, Locked, Holding, Outside, Dismantling,
                            DropPcs
  <2>2. \A u \in Threads \ {t} : Locked(u) => codeOwner' = u
    BY <1>1 DEF PInv, POf, LockOf
  <2>3. QED
    BY <1>1, <1>2, <1>3, <1>4, <2>1, <2>2, MoveStep
<1>6. ASSUME OInv PROVE OInv'
  <2>1. \A g \in Hooks : Eats(t, g)' <=> Eats(t, g)
    BY <1>4 DEF Eats
  <2>2. ReleaseOf(t)' /\ ListsOf(t)'
    BY <1>2, <1>4, <1>6 DEF ReleaseOf, ListsOf, OInv, Place
  <2>3. QED
    BY <1>1, <1>2, <1>4, <1>6, <2>1, <2>2, KeepStep
<1>7. QED
  BY <1>3, <1>5, <1>6 DEF TInv

(* The operation that a commit is at.                                      *)
LEMMA AtOperation ==
  ASSUME Types, PInv, NEW t \in Threads, NEW h, h = queue[t][idx[t]].hook,
         pc[t] \in {"apply", "eat_protect"}, idx[t] <= Len(queue[t])
  PROVE  /\ idx[t] \in DOMAIN queue[t] /\ h \in Hooks
         /\ queue[t][idx[t]] = Entry(queue[t][idx[t]].op, h)
         /\ queue[t][idx[t]].op \in {"attach", "detach"}
         /\ queue[t][idx[t]].op = "attach" => stage[h] = "queued"
         /\ queue[t][idx[t]].op = "detach" => stage[h] = "borrowed"
         /\ Taken(t, h)
         /\ \A k \in DOMAIN installed[t] : installed[t][k] # h
         /\ \A k \in DOMAIN detached[t] : detached[t][k].hook # h
<1>1. POf(t) /\ queue[t] \in Seq(Ops) /\ idx[t] \in Nat
  BY DEF PInv, Types, TxType
<1>2. idx[t] > 0
  <2>1. Len(installed[t]) \in Nat /\ Len(detached[t]) \in Nat
    BY DEF Types, TxType
  <2>2. Len(installed[t]) + Len(detached[t]) < idx[t]
    BY <1>1 DEF POf, CountOf
  <2>3. QED
    BY <1>1, <2>1, <2>2 DEF Types, TxType
<1>3. idx[t] \in DOMAIN queue[t]
  BY <1>1, <1>2
<1>4. /\ h \in Hooks /\ queue[t][idx[t]] = Entry(queue[t][idx[t]].op, h)
      /\ queue[t][idx[t]].op \in {"attach", "detach"}
  BY <1>3, InQueue
<1>5. /\ queue[t][idx[t]].op = "attach" => stage[h] = "queued"
      /\ queue[t][idx[t]].op = "detach" => stage[h] = "borrowed"
  BY <1>1, <1>3 DEF POf, QueueOf, Dismantling, DropPcs
<1>6. Taken(t, h)
  BY <1>3, <1>5 DEF Taken
<1>7. \A k \in DOMAIN installed[t] : installed[t][k] # h
  <2>1. SUFFICES ASSUME NEW k \in DOMAIN installed[t], installed[t][k] = h PROVE FALSE
    OBVIOUS
  <2>2. stage[h] = "queued" /\ \E i \in DOMAIN queue[t] :
                                  queue[t][i] = Entry("attach", h) /\ i < idx[t]
    BY <1>1, <2>1 DEF POf, InstalledOf
  <2>3. queue[t][idx[t]].op = "attach"
    BY <1>4, <1>5, <2>2
  <2>4. QED
    BY <1>1, <1>3, <1>4, <2>2, <2>3 DEF PInv, QueueUnique
<1>8. \A k \in DOMAIN detached[t] : detached[t][k].hook # h
  <2>1. SUFFICES ASSUME NEW k \in DOMAIN detached[t], detached[t][k].hook = h PROVE FALSE
    OBVIOUS
  <2>2. PICK i \in DOMAIN queue[t] : queue[t][i] = Entry("detach", h) /\ i < idx[t]
    BY <1>1, <2>1 DEF POf, DetachedOf
  <2>3. stage[h] = "borrowed"
    BY <1>1, <2>2 DEF POf, QueueOf, Entry
  <2>4. queue[t][idx[t]].op = "detach"
    BY <1>4, <1>5, <2>3
  <2>5. QED
    BY <1>1, <1>3, <1>4, <2>2, <2>4 DEF PInv, QueueUnique
<1>9. QED
  BY <1>3, <1>4, <1>5, <1>6, <1>7, <1>8

LEMMA InstalledKeeps ==
  ASSUME TInv, NEW t \in Threads, NEW h \in Hooks, h = queue[t][idx[t]].hook,
         queue[t][idx[t]].op = "attach", idx[t] <= Len(queue[t]),
         pc[t] \in {"apply", "eat_protect"}, pc' = [pc EXCEPT ![t] = "apply"],
         NEW orig \in Pointer, NEW c \in Pointer, Installed(t, h, orig, c),
         UNCHANGED <<stage, stub, resolved, codeOwner, queue, detached, arg, after>>,
         slot' \in [Slots -> Pointer], claims' \subseteq Slots, ObjType', EntryOK',
         OInv => \/ slot' = slot /\ claims' = claims /\ Place(h) \notin Slots
                 \/ /\ Place(h) \in Slots /\ Place(h) \in claims'
                    /\ slot'[Place(h)] = h /\ orig = Original
                    /\ \A s \in Slots \ {Place(h)} :
                          slot'[s] = slot[s] /\ (s \in claims' <=> s \in claims)
                    /\ \A g \in Hooks \ {h} : ~Owns(g, Place(h))
  PROVE  TInv' /\ (OInv => OInv')
<1>1. Types /\ EntryOK /\ PInv
  BY DEF TInv
<1>2. PICK G : G = [place |-> Place(h), orig |-> orig, clone |-> c,
                    claimed |-> Place(h) \in Slots, active |-> TRUE, enabled |-> TRUE]
  OBVIOUS
<1>3. /\ hook' = [hook EXCEPT ![h] = G]
      /\ installed' = [installed EXCEPT ![t] = Append(@, h)]
      /\ idx' = [idx EXCEPT ![t] = @ + 1]
  BY <1>2 DEF Installed, Place
<1>4. G \in Guard
  BY <1>1, <1>2 DEF Guard, Types, HookType, Place
<1>5. /\ idx[t] \in DOMAIN queue[t] /\ stage[h] = "queued" /\ Taken(t, h)
      /\ \A k \in DOMAIN detached[t] : detached[t][k].hook # h
  BY <1>1, AtOperation
<1>6. Types'
  <2>1. HookType' /\ CallType' /\ StubType'
    BY <1>1, <1>3, <1>4 DEF Types, HookType, CallType, StubType
  <2>2. installed[t] \in Seq(Hooks) /\ idx[t] \in Nat
    BY <1>1 DEF Types, TxType
  <2>3. Append(installed[t], h) \in Seq(Hooks)
    BY <2>2, AppendProperties, Zenon
  <2>4. installed' \in [Threads -> Seq(Hooks)]
    BY <1>1, <1>3, <2>3, Zenon DEF Types, TxType
  <2>5. idx' \in [Threads -> Nat]
    BY <1>1, <1>3 DEF Types, TxType
  <2>6. TxType'
    BY <1>1, <2>4, <2>5, Zenon DEF Types, TxType
  <2>7. QED
    BY <2>1, <2>6 DEF Types, TableType
<1>7. /\ pc'[t] = "apply" /\ idx'[t] = idx[t] + 1
      /\ installed'[t] = Append(installed[t], h) /\ detached'[t] = detached[t]
  BY <1>1, <1>3 DEF Types, CallType, TxType
<1>8. \A u \in Threads \ {t} : Same(u)
  BY <1>1, <1>3 DEF Same, Types, CallType, TxType
<1>9. PInv'
  <2>1. Joins(t, h)
    BY <1>7 DEF Joins
  <2>2. QED
    BY <1>1, <1>5, <1>6, <1>7, <1>8, <2>1, DoneStep
<1>10. ASSUME OInv PROVE OInv'
  <2>1. /\ \A g \in Hooks \ {h} : hook'[g] = hook[g]
        /\ hook'[h].place = hook[h].place /\ hook'[h].orig = orig
        /\ hook'[h].claimed = (Place(h) \in Slots) /\ hook'[h].active /\ hook'[h].enabled
    BY <1>1, <1>2, <1>3 DEF Types, HookType, Place
  <2>2. /\ \A g \in Hooks \ {h} : ~Eats(t, g)
        /\ \A g \in Hooks : ~Eats(t, g)'
        /\ EatOf(t)' /\ ReleaseOf(t)'
    BY <1>7 DEF Eats, EatOf, ReleaseOf
  <2>3. GuardOf(h) /\ EatOf(t) /\ ListsOf(t)
    BY <1>10 DEF OInv
  <2>4. Place(h)' = Place(h) /\ \A g \in Hooks \ {h} : Place(g)' = Place(g)
    BY <2>1 DEF Place
  <2>5. ListsOf(t)'
    <3>1. installed[t] \in Seq(Hooks)
      BY <1>1 DEF Types, TxType
    <3>2. \A k \in DOMAIN installed'[t] : \/ k \in DOMAIN installed[t]
                                             /\ installed'[t][k] = installed[t][k]
                                          \/ installed'[t][k] = h
      BY <1>7, <3>1
    <3>3. \A k \in DOMAIN installed[t] : installed[t][k] \in Hooks
      BY <1>1, InLists
    <3>4. \A k \in DOMAIN detached[t] : detached[t][k].hook \in Hooks
      BY <1>1, InLists
    <3>5. ASSUME NEW k \in DOMAIN installed'[t], NEW g, g = installed'[t][k],
                 hook'[g].place \in Slots
          PROVE  hook'[g].claimed
      <4>1. CASE g = h
        BY <2>1, <3>5, <4>1 DEF Place
      <4>2. CASE g # h
        <5>1. k \in DOMAIN installed[t] /\ g = installed[t][k] /\ g \in Hooks \ {h}
          BY <3>2, <3>3, <3>5, <4>2
        <5>2. hook'[g] = hook[g] /\ Place(g) \in Slots /\ pc[t] # "finalize"
          BY <2>1, <3>5, <5>1 DEF Place
        <5>3. QED
          BY <2>3, <5>1, <5>2 DEF ListsOf
      <4>3. QED
        BY <4>1, <4>2
    <3>6. \A k \in DOMAIN detached'[t] : ~hook'[detached'[t][k].hook].enabled
      <4>1. \A k \in DOMAIN detached[t] : ~hook[detached[t][k].hook].enabled
        BY <2>3 DEF ListsOf
      <4>2. QED
        BY <1>5, <1>7, <2>1, <3>4, <4>1
    <3>7. QED
      BY <3>5, <3>6 DEF ListsOf, Place
  <2>6. CASE slot' = slot /\ claims' = claims /\ Place(h) \notin Slots
    <3>1. ~Mine(t, h) /\ ~Mine(t, h)'
      BY <2>1, <2>2, <2>3, <2>6, SlotKinds DEF Mine, GuardOf, EatOf
    <3>2. GuardOf(h)'
      BY <1>5, <2>1, <2>3, <2>4, <2>6 DEF GuardOf
    <3>3. QED
      BY <1>1, <1>5, <1>6, <1>8, <1>10, <2>1, <2>2, <2>5, <2>6, <3>1, <3>2, OneHookStep
  <2>7. CASE /\ Place(h) \in Slots /\ Place(h) \in claims'
             /\ slot'[Place(h)] = h /\ orig = Original
             /\ \A s \in Slots \ {Place(h)} :
                   slot'[s] = slot[s] /\ (s \in claims' <=> s \in claims)
             /\ \A g \in Hooks \ {h} : ~Owns(g, Place(h))
    <3>1. Mine(t, h)'
      BY <2>1, <2>7 DEF Mine
    <3>2. GuardOf(h)'
      BY <1>5, <2>1, <2>3, <2>4, <2>7 DEF GuardOf
    <3>3. QED
      BY <1>1, <1>5, <1>6, <1>8, <1>10, <2>1, <2>2, <2>5, <2>7, <3>1, <3>2, OneHookStep
  <2>8. QED
    BY <1>10, <2>6, <2>7
<1>11. QED
  BY <1>6, <1>9, <1>10 DEF TInv

(* A slot that is not claimed is the original's.                           *)
LEMMA Unclaimed ==
  ASSUME Types, OInv, NEW s \in Slots, s \notin claims
  PROVE  slot[s] = Original /\ \A g \in Hooks : ~Owns(g, s)
<1>1. slot[s] = Original
  BY DEF Types, TableType, Pointer, OInv, OwnerOK
<1>2. ASSUME NEW g \in Hooks, Owns(g, s) PROVE FALSE
  BY <1>2 DEF Owns, OInv, GuardOf, EatOf, Eats
<1>3. QED
  BY <1>1, <1>2

LEMMA install_slotKeeps ==
  ASSUME TInv, NEW t \in Threads, install_slot(t)
  PROVE  TInv' /\ (OInv => OInv')
<1>1. Types /\ EntryOK /\ PInv
  BY DEF TInv
<1>2. PICK h : h = queue[t][idx[t]].hook
  OBVIOUS
<1>3. /\ pc[t] = "apply" /\ idx[t] <= Len(queue[t]) /\ queue[t][idx[t]].op = "attach"
      /\ Place(h) \in Slots
      /\ UNCHANGED <<stage, stub, resolved, codeOwner, queue, detached, arg, after>>
  BY <1>2, SlotKinds DEF install_slot, Applies
<1>4. h \in Hooks
  BY <1>1, <1>2, <1>3, AtOperation
<1>5. CASE StepFails(t)
  BY <1>3, <1>5, FailKeeps
<1>6. CASE /\ claim_table_slot(Place(h)) /\ write_slot(h, h)
           /\ Installed(t, h, slot[Place(h)], Original) /\ UNCHANGED pc
  <2>1. /\ Place(h) \notin claims /\ claims' = claims \cup {Place(h)}
        /\ slot' = [slot EXCEPT ![Place(h)] = h] /\ UNCHANGED objVars
    BY <1>6 DEF claim_table_slot, write_slot
  <2>2. slot[Place(h)] \in Pointer /\ Original \in Pointer /\ h \in Pointer
    BY <1>1, <1>3, <1>4 DEF Types, TableType, Pointer
  <2>3. slot' \in [Slots -> Pointer] /\ claims' \subseteq Slots /\ ObjType' /\ EntryOK'
    BY <1>1, <1>3, <2>1, <2>2 DEF Types, TableType, ObjType, EntryOK, objVars
  <2>4. pc' = [pc EXCEPT ![t] = "apply"]
    BY <1>1, <1>3, <1>6 DEF Types, CallType
  <2>5. /\ slot'[Place(h)] = h /\ Place(h) \in claims'
        /\ \A s \in Slots \ {Place(h)} : slot'[s] = slot[s] /\ (s \in claims' <=> s \in claims)
    BY <1>1, <1>3, <2>1 DEF Types, TableType
  <2>6. OInv => slot[Place(h)] = Original /\ \A g \in Hooks \ {h} : ~Owns(g, Place(h))
    BY <1>1, <1>3, <2>1, Unclaimed
  <2>7. QED
    BY <1>2, <1>3, <1>4, <1>6, <2>2, <2>3, <2>4, <2>5, <2>6, InstalledKeeps
<1>7. QED
  BY <1>2, <1>5, <1>6 DEF install_slot

LEMMA install_eatKeeps ==
  ASSUME TInv, NEW t \in Threads, install_eat(t)
  PROVE  TInv' /\ (OInv => OInv')
<1>1. Types /\ EntryOK /\ PInv
  BY DEF TInv
<1>2. PICK h : h = queue[t][idx[t]].hook
  OBVIOUS
<1>3. /\ pc[t] = "apply" /\ idx[t] <= Len(queue[t]) /\ queue[t][idx[t]].op = "attach"
      /\ Place(h) \in Slots /\ Place(h) \in Exports
      /\ UNCHANGED <<stage, stub, resolved, codeOwner, queue, detached, arg, after>>
  BY <1>2, SlotKinds DEF install_eat, Applies
<1>4. h \in Hooks /\ stage[h] = "queued" /\ Taken(t, h)
  BY <1>1, <1>2, <1>3, AtOperation
<1>5. CASE StepFails(t)
  BY <1>3, <1>5, FailKeeps
<1>6. CASE /\ claim_table_slot(Place(h)) /\ write_slot(h, h)
           /\ hook' = [hook EXCEPT ![h].orig = slot[Place(h)]]
           /\ Goto(t, "eat_protect") /\ UNCHANGED <<installed, idx>>
  <2>1. /\ Place(h) \notin claims /\ claims' = claims \cup {Place(h)}
        /\ slot' = [slot EXCEPT ![Place(h)] = h] /\ UNCHANGED objVars
        /\ pc' = [pc EXCEPT ![t] = "eat_protect"]
    BY <1>6 DEF claim_table_slot, write_slot, Goto
  <2>2. slot[Place(h)] \in Pointer /\ h \in Pointer
    BY <1>1, <1>3, <1>4 DEF Types, TableType, Pointer
  <2>3. slot' \in [Slots -> Pointer] /\ claims' \subseteq Slots /\ ObjType' /\ EntryOK'
    BY <1>1, <1>3, <2>1, <2>2 DEF Types, TableType, ObjType, EntryOK, objVars
  <2>4. hook' \in [Hooks -> Guard]
    BY <1>1, <1>6, <2>2 DEF Types, HookType, Guard
  <2>5. Types'
    BY <1>1, <1>3, <1>6, <2>1, <2>3, <2>4
       DEF Types, TableType, HookType, StubType, TxType, CallType
  <2>6. pc'[t] = "eat_protect" /\ \A u \in Threads \ {t} : Same(u)
    BY <1>1, <1>3, <1>6, <2>1 DEF Same, Types, CallType
  <2>7. PInv'
    <3>1. LockOf(t)' /\ CountOf(t)' /\ ~Dismantling(t) /\ pc'[t] \notin DropPcs
      BY <1>1, <1>3, <1>6, <2>6 DEF PInv, POf, LockOf, CountOf, Locked, Holding, Outside,
                                    Dismantling, DropPcs
    <3>2. \A u \in Threads \ {t} : Locked(u) => codeOwner' = u
      BY <1>1, <1>3 DEF PInv, POf, LockOf
    <3>3. QED
      BY <1>1, <1>3, <1>6, <2>5, <2>6, <3>1, <3>2, MoveStep
  <2>8. ASSUME OInv PROVE OInv'
    <3>1. GuardOf(h) /\ ListsOf(t)
      BY <1>4, <2>8 DEF OInv
    <3>2. /\ \A g \in Hooks \ {h} : hook'[g] = hook[g]
          /\ hook'[h].place = hook[h].place /\ hook'[h].orig = slot[Place(h)]
          /\ hook'[h].claimed = hook[h].claimed /\ hook'[h].active = hook[h].active
          /\ hook'[h].enabled = hook[h].enabled
      BY <1>1, <1>4, <1>6 DEF Types, HookType, Guard
    <3>3. /\ slot'[Place(h)] = h /\ Place(h) \in claims'
          /\ \A s \in Slots \ {Place(h)} : slot'[s] = slot[s] /\ (s \in claims' <=> s \in claims)
      BY <1>1, <1>3, <2>1 DEF Types, TableType
    <3>4. slot[Place(h)] = Original /\ \A g \in Hooks \ {h} : ~Owns(g, Place(h))
      BY <1>1, <1>3, <2>1, <2>8, Unclaimed
    <3>5. ~hook[h].claimed
      BY <2>1, <3>1 DEF GuardOf
    <3>6. /\ \A g \in Hooks \ {h} : ~Eats(t, g) /\ ~Eats(t, g)'
          /\ Eats(t, h)'
      BY <1>2, <1>3, <1>6, <2>6 DEF Eats
    <3>7. EatOf(t)'
      BY <1>3, <3>2, <3>3, <3>5, <3>6 DEF EatOf, Place
    <3>8. ReleaseOf(t)'
      BY <2>6 DEF ReleaseOf
    <3>9. ListsOf(t)'
      <4>1. \A g \in Hooks : /\ Place(g)' = Place(g) /\ hook'[g].claimed = hook[g].claimed
                             /\ hook'[g].enabled = hook[g].enabled
        BY <3>2 DEF Place
      <4>2. /\ \A k \in DOMAIN installed[t] : installed[t][k] \in Hooks
            /\ \A k \in DOMAIN detached[t] : detached[t][k].hook \in Hooks
        BY <1>1, InLists
      <4>3. QED
        BY <1>3, <1>6, <3>1, <4>1, <4>2 DEF ListsOf
    <3>10. GuardOf(h)'
      BY <1>3, <1>4, <3>1, <3>2, <3>4, <3>5 DEF GuardOf, Place
    <3>11. Mine(t, h)'
      BY <3>6 DEF Mine
    <3>12. QED
      BY <1>1, <1>3, <1>4, <2>5, <2>6, <2>8, <3>2, <3>3, <3>4, <3>6, <3>7, <3>8, <3>9, <3>10,
         <3>11, OneHookStep
  <2>9. QED
    BY <2>3, <2>5, <2>7, <2>8 DEF TInv
<1>7. QED
  BY <1>2, <1>5, <1>6 DEF install_eat

LEMMA eat_protectKeeps ==
  ASSUME TInv, NEW t \in Threads, eat_protect(t)
  PROVE  TInv' /\ (OInv => OInv')
<1>1. Types /\ EntryOK /\ PInv
  BY DEF TInv
<1>2. PICK h : h = queue[t][idx[t]].hook
  OBVIOUS
<1>3. /\ pc[t] = "eat_protect"
      /\ UNCHANGED <<vptr, clones, cloneSlot, owned, freed, stage, stub, resolved, codeOwner,
                     queue, detached, arg, after>>
  BY DEF eat_protect, objVars
<1>4. idx[t] <= Len(queue[t]) /\ queue[t][idx[t]].op = "attach"
  BY <1>1, <1>3 DEF PInv, POf, CountOf
<1>5. h \in Hooks /\ stage[h] = "queued" /\ Taken(t, h)
  BY <1>1, <1>2, <1>3, <1>4, AtOperation
<1>6. hook[h].orig \in Pointer /\ Original \in Pointer /\ ObjType' /\ EntryOK'
  BY <1>1, <1>3, <1>5 DEF Types, HookType, Guard, Pointer, ObjType, EntryOK
<1>7. OInv => /\ Place(h) \in Exports /\ Place(h) \in Slots /\ ~hook[h].claimed
              /\ Place(h) \in claims /\ slot[Place(h)] = h /\ hook[h].orig = Original
              /\ Mine(t, h)
              /\ \A g \in Hooks \ {h} : ~Owns(g, Place(h))
  <2>1. SUFFICES ASSUME OInv PROVE /\ Place(h) \in Exports /\ Place(h) \in Slots /\ ~hook[h].claimed
                                   /\ Place(h) \in claims /\ slot[Place(h)] = h /\ hook[h].orig = Original
                                   /\ Mine(t, h)
                                   /\ \A g \in Hooks \ {h} : ~Owns(g, Place(h))
    OBVIOUS
  <2>2. Eats(t, h) /\ Mine(t, h)
    BY <1>2, <1>3 DEF Eats, Mine
  <2>3. /\ Place(h) \in Exports /\ ~hook[h].claimed /\ Place(h) \in claims /\ slot[Place(h)] = h
    BY <1>5, <2>1, <2>2 DEF OInv, EatOf
  <2>4. hook[h].orig = Original
    BY <1>5, <2>1, <2>3, SlotKinds DEF OInv, GuardOf
  <2>5. QED
    BY <1>1, <1>5, <2>1, <2>2, <2>3, <2>4, SlotKinds, Alone
<1>8. CASE /\ Installed(t, h, hook[h].orig, Original)
           /\ Goto(t, "apply") /\ UNCHANGED <<slot, claims>>
  <2>1. /\ pc' = [pc EXCEPT ![t] = "apply"]
        /\ slot' \in [Slots -> Pointer] /\ claims' \subseteq Slots
    BY <1>1, <1>8 DEF Goto, Types, TableType
  <2>2. QED
    BY <1>2, <1>3, <1>4, <1>5, <1>6, <1>7, <1>8, <2>1, InstalledKeeps
<1>9. CASE /\ slot' = [slot EXCEPT ![Place(h)] = hook[h].orig]
           /\ claims' = claims \ {Place(h)}
           /\ Goto(t, "undo_detaches")
           /\ UNCHANGED <<hook, installed, idx>>
  <2>1. pc' = [pc EXCEPT ![t] = "undo_detaches"]
    BY <1>9 DEF Goto
  <2>2. Types'
    BY <1>1, <1>3, <1>6, <1>9, <2>1 DEF Types, TableType, HookType, StubType, TxType, CallType
  <2>3. pc'[t] = "undo_detaches" /\ \A u \in Threads \ {t} : Same(u)
    BY <1>1, <1>3, <1>9, <2>1 DEF Same, Types, CallType
  <2>4. PInv'
    <3>1. LockOf(t)' /\ CountOf(t)' /\ ~Dismantling(t) /\ pc'[t] \notin DropPcs
      BY <1>1, <1>3, <1>9, <2>3 DEF PInv, POf, LockOf, CountOf, Locked, Holding, Outside,
                                    Dismantling, DropPcs
    <3>2. \A u \in Threads \ {t} : Locked(u) => codeOwner' = u
      BY <1>1, <1>3 DEF PInv, POf, LockOf
    <3>3. QED
      BY <1>1, <1>3, <1>9, <2>2, <2>3, <3>1, <3>2, MoveStep
  <2>5. ASSUME OInv PROVE OInv'
    <3>1. GuardOf(h) /\ ListsOf(t)
      BY <1>5, <2>5 DEF OInv
    <3>2. /\ \A g \in Hooks \ {h} : ~Eats(t, g)
          /\ \A g \in Hooks : ~Eats(t, g)'
          /\ EatOf(t)' /\ ReleaseOf(t)'
      BY <1>2, <1>3, <2>3 DEF Eats, EatOf, ReleaseOf
    <3>3. ListsOf(t)'
      BY <1>3, <1>9, <2>3, <3>1 DEF ListsOf, Place
    <3>4. ~Mine(t, h)'
      BY <1>5, <1>7, <1>9, <2>5, <3>2 DEF Mine
    <3>5. /\ slot'[Place(h)] = Original /\ Place(h) \notin claims'
          /\ \A s \in Slots \ {Place(h)} : slot'[s] = slot[s] /\ (s \in claims' <=> s \in claims)
      BY <1>1, <1>7, <1>9, <2>5 DEF Types, TableType
    <3>6. GuardOf(h)'
      BY <1>3, <1>5, <1>7, <1>9, <2>5, <3>1 DEF GuardOf, Place
    <3>7. QED
      BY <1>1, <1>3, <1>5, <1>7, <1>9, <2>2, <2>3, <2>5, <3>2, <3>3, <3>4, <3>5, <3>6,
         HooksAssumption, OneHookStep
  <2>6. QED
    BY <1>6, <2>2, <2>4, <2>5 DEF TInv
<1>10. QED
  BY <1>2, <1>8, <1>9 DEF eat_protect

LEMMA install_intoKeeps ==
  ASSUME TInv, NEW t \in Threads, install_into(t)
  PROVE  TInv' /\ (OInv => OInv')
<1>1. Types /\ EntryOK /\ PInv
  BY DEF TInv
<1>2. PICK h : h = queue[t][idx[t]].hook
  OBVIOUS
<1>3. /\ pc[t] = "apply" /\ idx[t] <= Len(queue[t]) /\ queue[t][idx[t]].op = "attach"
      /\ Place(h) \in Instances
      /\ UNCHANGED <<stage, stub, resolved, codeOwner, queue, detached, arg, after>>
  BY <1>2 DEF install_into, Applies
<1>4. h \in Hooks /\ Place(h) \notin Slots
  BY <1>1, <1>2, <1>3, AtOperation, PlacesAssumption
<1>5. PICK o \in Objects, m \in Methods : o = Object(h) /\ m = Method(h)
  BY <1>1, <1>3, <1>4, OnInstance DEF Types
<1>6. CASE StepFails(t)
  BY <1>3, <1>6, FailKeeps
<1>7. CASE ShareClone(t, h) /\ UNCHANGED pc
  <2>1. PICK c : c = clones[o].clone
    OBVIOUS
  <2>2. /\ clones[o] # NoEntry /\ Installed(t, h, cloneSlot[c][m], c)
        /\ cloneSlot' = [cloneSlot EXCEPT ![c][m] = h]
        /\ owned' = [owned EXCEPT ![c] = @ \cup {m}]
        /\ clones' = [clones EXCEPT ![o].hooks = @ + 1]
        /\ UNCHANGED <<slot, claims, vptr, freed>>
    BY <1>5, <1>7, <2>1 DEF ShareClone
  <2>3. c \in Hooks /\ c \in Pointer /\ h \in Pointer /\ clones[o].hooks \in Nat
    BY <1>1, <1>4, <2>1, <2>2 DEF EntryOK, Pointer, Types, ObjType
  <2>4. cloneSlot[c][m] \in Pointer
    BY <1>1, <2>3 DEF Types, ObjType
  <2>5. ObjType'
    <3>1. cloneSlot' \in [Hooks -> [Methods -> Pointer]]
      BY <1>1, <2>2, <2>3 DEF Types, ObjType
    <3>2. owned' \in [Hooks -> SUBSET Methods]
      BY <1>1, <2>2, <2>3 DEF Types, ObjType
    <3>3. clones' \in [Objects -> [clone : Pointer, original : Pointer, hooks : Nat]]
      BY <1>1, <2>2, <2>3 DEF Types, ObjType
    <3>4. QED
      BY <1>1, <2>2, <3>1, <3>2, <3>3 DEF Types, ObjType
  <2>6. EntryOK'
    <3>1. /\ clones'[o].clone = c /\ clones'[o].hooks = clones[o].hooks + 1
          /\ \A p \in Objects \ {o} : clones'[p] = clones[p]
      BY <1>1, <2>1, <2>2 DEF Types, ObjType
    <3>2. QED
      BY <1>1, <2>3, <3>1 DEF EntryOK
  <2>7. pc' = [pc EXCEPT ![t] = "apply"]
    BY <1>1, <1>3, <1>7 DEF Types, CallType
  <2>8. slot' \in [Slots -> Pointer] /\ claims' \subseteq Slots
    BY <1>1, <2>2 DEF Types, TableType
  <2>9. QED
    BY <1>2, <1>3, <1>4, <2>2, <2>3, <2>4, <2>5, <2>6, <2>7, <2>8, InstalledKeeps
<1>8. CASE NewClone(t, h) /\ UNCHANGED pc
  <2>1. PICK T : T = IF vptr[o] = Original THEN [n \in Methods |-> slot[n]] ELSE cloneSlot[vptr[o]]
    OBVIOUS
  <2>2. /\ clones[o] = NoEntry /\ Installed(t, h, T[m], h)
        /\ cloneSlot' = [cloneSlot EXCEPT ![h] = [T EXCEPT ![m] = h]]
        /\ owned' = [owned EXCEPT ![h] = {m}]
        /\ vptr' = [vptr EXCEPT ![o] = h]
        /\ clones' = [clones EXCEPT ![o] = [clone |-> h, original |-> vptr[o], hooks |-> 1]]
        /\ UNCHANGED <<slot, claims, freed>>
    BY <1>5, <1>8, <2>1 DEF NewClone
  <2>3. T \in [Methods -> Pointer] /\ h \in Pointer /\ vptr[o] \in Pointer
    <3>1. vptr[o] \in Pointer /\ h \in Pointer
      BY <1>1, <1>4 DEF Types, ObjType, Pointer
    <3>2. CASE vptr[o] = Original
      BY <1>1, <2>1, <3>1, <3>2, SlotKinds DEF Types, TableType
    <3>3. CASE vptr[o] # Original
      BY <1>1, <2>1, <3>1, <3>3 DEF Types, ObjType, Pointer
    <3>4. QED
      BY <3>1, <3>2, <3>3
  <2>4. T[m] \in Pointer
    BY <2>3
  <2>5. ObjType'
    <3>1. cloneSlot' \in [Hooks -> [Methods -> Pointer]]
      BY <1>1, <2>2, <2>3 DEF Types, ObjType
    <3>2. owned' \in [Hooks -> SUBSET Methods] /\ vptr' \in [Objects -> Pointer]
      BY <1>1, <2>2, <2>3 DEF Types, ObjType
    <3>3. clones' \in [Objects -> [clone : Pointer, original : Pointer, hooks : Nat]]
      BY <1>1, <2>2, <2>3 DEF Types, ObjType
    <3>4. QED
      BY <1>1, <2>2, <3>1, <3>2, <3>3 DEF Types, ObjType
  <2>6. EntryOK'
    <3>1. /\ clones'[o].clone = h /\ clones'[o].hooks = 1
          /\ \A p \in Objects \ {o} : clones'[p] = clones[p]
      BY <1>1, <2>2 DEF Types, ObjType
    <3>2. QED
      BY <1>1, <1>4, <3>1 DEF EntryOK
  <2>7. pc' = [pc EXCEPT ![t] = "apply"]
    BY <1>1, <1>3, <1>8 DEF Types, CallType
  <2>8. slot' \in [Slots -> Pointer] /\ claims' \subseteq Slots
    BY <1>1, <2>2 DEF Types, TableType
  <2>9. QED
    BY <1>2, <1>3, <1>4, <2>2, <2>3, <2>4, <2>5, <2>6, <2>7, <2>8, InstalledKeeps
<1>9. QED
  BY <1>2, <1>6, <1>7, <1>8 DEF install_into

LEMMA prepare_detachKeeps ==
  ASSUME TInv, NEW t \in Threads, prepare_detach(t)
  PROVE  TInv' /\ (OInv => OInv')
<1>1. Types /\ EntryOK /\ PInv
  BY DEF TInv
<1>2. PICK h : h = queue[t][idx[t]].hook
  OBVIOUS
<1>3. /\ pc[t] = "apply" /\ idx[t] <= Len(queue[t]) /\ queue[t][idx[t]].op = "detach"
      /\ UNCHANGED <<stage, stub, resolved, codeOwner, queue, arg, after>>
  BY DEF prepare_detach, Applies
<1>4. h \in Hooks /\ stage[h] = "borrowed" /\ Taken(t, h) /\ idx[t] \in DOMAIN queue[t]
  BY <1>1, <1>2, <1>3, AtOperation
<1>5. CASE StepFails(t) /\ UNCHANGED detached
  BY <1>3, <1>5, FailKeeps
<1>6. CASE /\ IF hook[h].enabled
              THEN Write(h, hook[h].orig) /\ hook' = [hook EXCEPT ![h].enabled = FALSE]
              ELSE UNCHANGED <<slot, objVars, hook>>
           /\ detached' = [detached EXCEPT
                              ![t] = Append(@, [hook |-> h, was_enabled |-> hook[h].enabled])]
           /\ idx' = [idx EXCEPT ![t] = @ + 1]
           /\ UNCHANGED <<claims, installed, pc>>
  <2>1. hook[h].orig \in Pointer /\ hook[h].enabled \in BOOLEAN
    BY <1>1, <1>4 DEF Types, HookType, Guard
  <2>2. /\ slot' \in [Slots -> Pointer] /\ ObjType' /\ EntryOK' /\ hook' \in [Hooks -> Guard]
    <3>1. CASE hook[h].enabled
      <4>1. Write(h, hook[h].orig) /\ hook' = [hook EXCEPT ![h].enabled = FALSE]
        BY <1>6, <3>1
      <4>2. hook' \in [Hooks -> Guard]
        BY <1>1, <4>1 DEF Types, HookType, Guard
      <4>3. QED
        BY <1>1, <1>4, <2>1, <4>1, <4>2, WriteTyped
    <3>2. CASE ~hook[h].enabled
      BY <1>1, <1>6, <3>2 DEF objVars, Types, TableType, ObjType, HookType, EntryOK
    <3>3. QED
      BY <3>1, <3>2
  <2>3. Types'
    <3>1. /\ detached[t] \in Seq([hook : Hooks, was_enabled : BOOLEAN]) /\ idx[t] \in Nat
          /\ [hook |-> h, was_enabled |-> hook[h].enabled] \in [hook : Hooks, was_enabled : BOOLEAN]
      BY <1>1, <1>4, <2>1 DEF Types, TxType
    <3>2. Append(detached[t], [hook |-> h, was_enabled |-> hook[h].enabled])
             \in Seq([hook : Hooks, was_enabled : BOOLEAN])
      BY <3>1, AppendProperties, Zenon
    <3>3. detached' \in [Threads -> Seq([hook : Hooks, was_enabled : BOOLEAN])]
      BY <1>1, <1>6, <3>2, Zenon DEF Types, TxType
    <3>4. idx' \in [Threads -> Nat]
      BY <1>1, <1>6 DEF Types, TxType
    <3>5. TxType'
      BY <1>1, <1>3, <1>6, <3>3, <3>4, Zenon DEF Types, TxType
    <3>6. TableType' /\ HookType' /\ StubType' /\ CallType'
      BY <1>1, <1>3, <1>6, <2>2 DEF Types, TableType, HookType, StubType, CallType
    <3>7. QED
      BY <2>2, <3>5, <3>6 DEF Types
  <2>4. /\ pc'[t] = "apply" /\ idx'[t] = idx[t] + 1 /\ installed'[t] = installed[t]
        /\ detached'[t] = Append(detached[t], [hook |-> h, was_enabled |-> hook[h].enabled])
    BY <1>1, <1>3, <1>6 DEF Types, CallType, TxType
  <2>5. \A u \in Threads \ {t} : Same(u)
    BY <1>1, <1>3, <1>6 DEF Same, Types, TxType
  <2>6. PInv'
    <3>1. Joins(t, h)
      BY <1>3, <2>1, <2>4 DEF Joins
    <3>2. QED
      BY <1>1, <1>2, <1>3, <1>4, <2>3, <2>4, <2>5, <3>1, DoneStep
  <2>7. ASSUME OInv PROVE OInv'
    <3>1. GuardOf(h) /\ ListsOf(t)
      BY <1>4, <2>7 DEF OInv
    <3>2. /\ \A g \in Hooks : ~Eats(t, g) /\ ~Eats(t, g)'
          /\ EatOf(t)' /\ ReleaseOf(t)'
      BY <1>3, <2>4 DEF Eats, EatOf, ReleaseOf
    <3>3. /\ \A g \in Hooks \ {h} : hook'[g] = hook[g]
          /\ hook'[h].place = hook[h].place /\ hook'[h].orig = hook[h].orig
          /\ hook'[h].claimed = hook[h].claimed /\ hook'[h].active = hook[h].active
          /\ ~hook'[h].enabled
      <4>1. CASE hook[h].enabled
        BY <1>1, <1>4, <1>6, <4>1 DEF Types, HookType, Guard
      <4>2. CASE ~hook[h].enabled
        BY <1>6, <4>2
      <4>3. QED
        BY <4>1, <4>2
    <3>4. ListsOf(t)'
      <4>1. \A g \in Hooks : /\ Place(g)' = Place(g) /\ hook'[g].claimed = hook[g].claimed
                             /\ ~hook[g].enabled => ~hook'[g].enabled
        BY <3>3 DEF Place
      <4>2. /\ \A k \in DOMAIN installed[t] : installed[t][k] \in Hooks
            /\ \A k \in DOMAIN detached[t] : detached[t][k].hook \in Hooks
        BY <1>1, InLists
      <4>3. detached[t] \in Seq([hook : Hooks, was_enabled : BOOLEAN])
        BY <1>1 DEF Types, TxType
      <4>4. \A k \in DOMAIN detached'[t] : \/ k \in DOMAIN detached[t]
                                              /\ detached'[t][k] = detached[t][k]
                                           \/ detached'[t][k].hook = h
        BY <2>4, <4>3
      <4>5. \A k \in DOMAIN detached[t] : ~hook[detached[t][k].hook].enabled
        BY <3>1 DEF ListsOf
      <4>6. \A k \in DOMAIN detached'[t] : ~hook'[detached'[t][k].hook].enabled
        BY <3>3, <4>1, <4>2, <4>4, <4>5
      <4>7. \A k \in DOMAIN installed[t] :
                Place(installed[t][k]) \in Slots => hook[installed[t][k]].claimed
        BY <1>3, <3>1 DEF ListsOf
      <4>8. QED
        BY <2>4, <4>1, <4>2, <4>6, <4>7 DEF ListsOf
    <3>5. Mine(t, h) <=> hook[h].claimed
      BY <1>4, <3>2 DEF Mine
    <3>6. Mine(t, h)' <=> hook[h].claimed
      BY <1>4, <3>2, <3>3 DEF Mine
    <3>7. CASE hook[h].enabled /\ Place(h) \in Slots
      <4>1. hook[h].claimed /\ hook[h].orig = Original
        BY <1>4, <3>1, <3>7 DEF GuardOf
      <4>2. /\ Place(h) \in claims /\ \A g \in Hooks \ {h} : ~Owns(g, Place(h))
        BY <1>1, <1>4, <2>7, <3>5, <4>1, Alone
      <4>3. SlotSet(h, hook[h].orig)
        BY <1>1, <1>4, <1>6, <2>1, <3>7, WriteEffect
      <4>4. /\ slot'[Place(h)] = Original /\ h # Original
            /\ \A s \in Slots \ {Place(h)} : slot'[s] = slot[s]
        BY <1>4, <3>7, <4>1, <4>3, HooksAssumption DEF SlotSet
      <4>5. GuardOf(h)'
        BY <1>3, <1>4, <1>6, <3>1, <3>3, <3>7, <4>1, <4>2, <4>4 DEF GuardOf, Place
      <4>6. QED
        BY <1>1, <1>3, <1>4, <1>6, <2>3, <2>5, <2>7, <3>2, <3>3, <3>4, <3>6, <3>7, <4>1, <4>2,
           <4>4, <4>5, OneHookStep
    <3>8. CASE ~(hook[h].enabled /\ Place(h) \in Slots)
      <4>1. slot' = slot
        <5>1. CASE hook[h].enabled
          BY <1>1, <1>4, <1>6, <2>1, <3>8, <5>1, WriteEffect DEF SlotSet
        <5>2. CASE ~hook[h].enabled
          BY <1>6, <5>2
        <5>3. QED
          BY <5>1, <5>2
      <4>2. GuardOf(h)'
        BY <1>3, <1>4, <1>6, <3>1, <3>3, <3>8, <4>1 DEF GuardOf, Place
      <4>3. QED
        BY <1>1, <1>3, <1>4, <1>6, <2>3, <2>5, <2>7, <3>2, <3>3, <3>4, <3>5, <3>6, <4>1, <4>2,
           OneHookStep
    <3>9. QED
      BY <3>7, <3>8
  <2>8. QED
    BY <2>2, <2>3, <2>6, <2>7 DEF TInv
<1>7. QED
  BY <1>2, <1>5, <1>6 DEF prepare_detach

(* The hook of a detach that a commit has done.                            *)
LEMMA AtDetached ==
  ASSUME Types, PInv, NEW t \in Threads, NEW k \in DOMAIN detached[t],
         NEW h, h = detached[t][k].hook
  PROVE  /\ h \in Hooks /\ stage[h] = "borrowed" /\ Taken(t, h)
         /\ \A l \in DOMAIN detached[t] : detached[t][l].hook = h => l = k
<1>1. POf(t) /\ h \in Hooks
  BY InLists DEF PInv
<1>2. PICK i \in DOMAIN queue[t] : queue[t][i] = Entry("detach", h)
  BY <1>1 DEF POf, DetachedOf
<1>3. queue[t][i].hook = h /\ queue[t][i].op = "detach"
  BY <1>2 DEF Entry
<1>4. stage[h] = "borrowed"
  BY <1>1, <1>3 DEF POf, QueueOf
<1>5. Taken(t, h)
  BY <1>3 DEF Taken
<1>6. QED
  BY <1>1, <1>4, <1>5 DEF POf, DetachedOf

LEMMA InertIs ==
  ASSUME HookType, NEW h \in Hooks
  PROVE  /\ Inert(h) \in [Hooks -> Guard]
         /\ \A g \in Hooks \ {h} : Inert(h)[g] = hook[g]
         /\ Inert(h)[h].place = hook[h].place /\ Inert(h)[h].orig = hook[h].orig
         /\ Inert(h)[h].claimed = FALSE /\ Inert(h)[h].active = FALSE /\ Inert(h)[h].enabled = FALSE
         /\ Inert(h)[h].clone = Original
<1>1. PICK A : A = [hook[h] EXCEPT !.active = FALSE]
  OBVIOUS
<1>2. PICK B : B = [A EXCEPT !.enabled = FALSE]
  OBVIOUS
<1>3. PICK C : C = [B EXCEPT !.claimed = FALSE]
  OBVIOUS
<1>4. PICK D : D = [C EXCEPT !.clone = Original]
  OBVIOUS
<1>5. hook[h] \in Guard /\ Original \in Pointer
  BY DEF HookType, Pointer
<1>6. A \in Guard /\ A.place = hook[h].place /\ A.orig = hook[h].orig /\ A.active = FALSE
  BY <1>1, <1>5 DEF Guard
<1>7. /\ B \in Guard /\ B.place = hook[h].place /\ B.orig = hook[h].orig /\ B.active = FALSE
      /\ B.enabled = FALSE
  BY <1>2, <1>6 DEF Guard
<1>8. /\ C \in Guard /\ C.place = hook[h].place /\ C.orig = hook[h].orig /\ C.active = FALSE
      /\ C.enabled = FALSE /\ C.claimed = FALSE
  BY <1>3, <1>7 DEF Guard
<1>9. /\ D \in Guard /\ D.place = hook[h].place /\ D.orig = hook[h].orig /\ D.active = FALSE
      /\ D.enabled = FALSE /\ D.claimed = FALSE /\ D.clone = Original
  BY <1>4, <1>5, <1>8 DEF Guard
<1>10. Inert(h) = [hook EXCEPT ![h] = D]
  BY <1>1, <1>2, <1>3, <1>4 DEF Inert, HookType
<1>11. QED
  BY <1>9, <1>10 DEF HookType

LEMMA detach_finalizeKeeps ==
  ASSUME TInv, NEW t \in Threads, detach_finalize(t)
  PROVE  TInv' /\ (OInv => OInv')
<1>1. Types /\ EntryOK /\ PInv
  BY DEF TInv
<1>2. PICK h : h = Head(detached[t]).hook
  OBVIOUS
<1>3. /\ pc[t] = "finalize" /\ detached[t] # << >>
      /\ detached' = [detached EXCEPT ![t] = Tail(@)]
      /\ UNCHANGED <<stage, resolved, codeOwner, queue, installed, idx, pc, arg, after>>
  BY DEF detach_finalize, callVars
<1>4. detached[t] \in Seq([hook : Hooks, was_enabled : BOOLEAN])
  BY <1>1 DEF Types, TxType
<1>5. PICK e : e = detached[t][1] /\ 1 \in DOMAIN detached[t] /\ h = e.hook
  BY <1>2, <1>3, <1>4
<1>6. h \in Hooks /\ stage[h] = "borrowed" /\ Taken(t, h)
  BY <1>1, <1>5, AtDetached
<1>7. \/ /\ Place(h) \in Slots /\ hook' = Inert(h)
         /\ claims' = IF hook[h].claimed THEN claims \ {Place(h)} ELSE claims
         /\ RetireStub(h) /\ UNCHANGED <<slot, objVars>>
      \/ /\ Place(h) \in Instances /\ restore_instance(h) /\ hook' = Inert(h)
         /\ UNCHANGED <<claims, stub>>
      \/ Place(h) \in Instances /\ UNCHANGED <<slot, objVars>> /\ Unhooked(h) /\ UNCHANGED <<claims, stub>>
      \/ UNCHANGED <<slot, claims, objVars, stub, hook>>
  BY <1>2 DEF detach_finalize, Unrestored
<1>8. slot' = slot /\ ObjType' /\ EntryOK'
  <2>1. CASE UNCHANGED <<slot, objVars>>
    BY <1>1, <2>1 DEF objVars, Types, ObjType, EntryOK
  <2>2. CASE Place(h) \in Instances /\ restore_instance(h)
    BY <1>1, <1>6, <2>2, RestoreTyped
  <2>3. QED
    BY <1>7, <2>1, <2>2
<1>9. claims' \subseteq Slots /\ stub' \in [Hooks -> {"none", "detour", "original", "retired"}]
  BY <1>1, <1>6, <1>7 DEF Types, TableType, StubType, RetireStub
<1>10. hook' \in [Hooks -> Guard]
  <2>1. CASE hook' = Inert(h)
    BY <1>1, <1>6, <2>1, InertIs DEF Types
  <2>2. CASE Unhooked(h)
    BY <1>1, <2>2 DEF Unhooked, Types, HookType, Guard, Pointer
  <2>3. QED
    BY <1>1, <1>7, <2>1, <2>2 DEF Types, HookType
<1>11. Types'
  <2>1. Tail(detached[t]) \in Seq([hook : Hooks, was_enabled : BOOLEAN])
    BY <1>3, <1>4, HeadTailProperties, Zenon
  <2>2. TxType'
    BY <1>1, <1>3, <2>1, Zenon DEF Types, TxType
  <2>3. TableType' /\ HookType' /\ StubType' /\ CallType'
    BY <1>1, <1>3, <1>8, <1>9, <1>10 DEF Types, TableType, HookType, StubType, CallType
  <2>4. QED
    BY <1>8, <2>2, <2>3 DEF Types
<1>12. detached'[t] = Tail(detached[t]) /\ \A u \in Threads \ {t} : Same(u)
  BY <1>1, <1>3 DEF Same, Types, TxType
<1>13. PInv'
  BY <1>1, <1>3, <1>11, <1>12, ShrinkStep
<1>14. ASSUME OInv PROVE OInv'
  <2>1. GuardOf(h) /\ ListsOf(t)
    BY <1>6, <1>14 DEF OInv
  <2>2. /\ \A g \in Hooks : ~Eats(t, g) /\ ~Eats(t, g)'
        /\ EatOf(t)' /\ ReleaseOf(t)'
    BY <1>3 DEF Eats, EatOf, ReleaseOf
  <2>3. ~hook[h].enabled
    BY <1>5, <2>1 DEF ListsOf
  <2>4. Place(h) \in Instances => hook[h].claimed = FALSE
    BY <1>1, <1>6, <2>1, PlacesAssumption DEF GuardOf, Types, HookType, Guard
  <2>5. /\ \A g \in Hooks \ {h} : hook'[g] = hook[g]
        /\ hook'[h].place = hook[h].place /\ hook'[h].orig = hook[h].orig
        /\ ~hook'[h].enabled
        /\ \/ Place(h) \in Slots /\ ~hook'[h].claimed /\ ~hook'[h].active
           \/ claims' = claims /\ hook'[h].claimed = hook[h].claimed
              /\ (hook'[h].active => hook[h].active)
              /\ (hook'[h].active = hook[h].active \/ Place(h) \in Instances)
    <3>1. CASE Place(h) \in Slots /\ hook' = Inert(h)
      BY <1>1, <1>6, <3>1, InertIs DEF Types
    <3>2. CASE Place(h) \in Instances /\ hook' = Inert(h) /\ claims' = claims
      BY <1>1, <1>6, <2>4, <3>2, InertIs DEF Types
    <3>3. CASE Place(h) \in Instances /\ Unhooked(h) /\ claims' = claims
      BY <1>1, <1>6, <3>3 DEF Unhooked, Types, HookType, Guard, Pointer
    <3>4. CASE hook' = hook /\ claims' = claims
      BY <2>3, <3>4
    <3>5. QED
      BY <1>7, <3>1, <3>2, <3>3, <3>4
  <2>6. ListsOf(t)'
    <3>1. \A k \in DOMAIN detached'[t] : \E l \in DOMAIN detached[t] :
              detached'[t][k] = detached[t][l]
      BY <1>3, <1>4, <1>12, TailOf
    <3>2. \A k \in DOMAIN detached[t] : /\ detached[t][k].hook \in Hooks
                                        /\ ~hook[detached[t][k].hook].enabled
      BY <1>1, <2>1, InLists DEF ListsOf
    <3>3. \A g \in Hooks : ~hook[g].enabled => ~hook'[g].enabled
      BY <2>5
    <3>4. QED
      BY <1>3, <3>1, <3>2, <3>3 DEF ListsOf
  <2>7. (Mine(t, h) <=> hook[h].claimed) /\ (Mine(t, h)' <=> hook'[h].claimed)
    BY <1>6, <2>2 DEF Mine
  <2>8. CASE Place(h) \in Slots /\ hook[h].claimed /\ ~hook'[h].claimed /\ ~hook'[h].active
    <3>1. /\ Place(h) \in claims /\ \A g \in Hooks \ {h} : ~Owns(g, Place(h))
      BY <1>1, <1>6, <1>14, <2>7, <2>8, Alone
    <3>2. slot[Place(h)] # h
      BY <1>6, <2>1, <2>3, <2>8 DEF GuardOf
    <3>3. slot[Place(h)] = Original
      BY <1>1, <1>14, <2>8, <3>1, <3>2 DEF OInv, OwnerOK, Types, TableType, Pointer
    <3>4. claims' = claims \ {Place(h)}
      BY <1>7, <2>7, <2>8, PlacesAssumption
    <3>5. GuardOf(h)'
      BY <1>3, <1>6, <2>1, <2>5, <2>8 DEF GuardOf, Place
    <3>6. /\ \A s \in Slots \ {Place(h)} : slot'[s] = slot[s] /\ (s \in claims' <=> s \in claims)
          /\ slot'[Place(h)] = Original
          /\ Place(h) \in claims' <=> Mine(t, h)'
          /\ slot'[Place(h)] = h => Mine(t, h)'
      BY <1>6, <1>8, <2>7, <2>8, <3>2, <3>3, <3>4
    <3>7. QED
      BY <1>1, <1>3, <1>6, <1>11, <1>12, <1>14, <2>2, <2>5, <2>6, <2>8, <3>1, <3>5, <3>6,
         OneHookStep
  <2>9. CASE ~(Place(h) \in Slots /\ hook[h].claimed /\ ~hook'[h].claimed /\ ~hook'[h].active)
    <3>1. claims' = claims /\ hook'[h].claimed = hook[h].claimed
      <4>1. hook[h].claimed \in BOOLEAN /\ hook'[h].claimed \in BOOLEAN
        BY <1>1, <1>6, <1>10 DEF Types, HookType, Guard
      <4>2. CASE Place(h) \in Slots /\ ~hook'[h].claimed /\ ~hook'[h].active
        BY <1>7, <2>9, <4>1, <4>2, PlacesAssumption
      <4>3. QED
        BY <2>5, <4>2
    <3>2. GuardOf(h)'
      BY <1>3, <1>6, <1>8, <2>1, <2>3, <2>5, <3>1, PlacesAssumption DEF GuardOf, Place
    <3>3. QED
      BY <1>1, <1>3, <1>6, <1>8, <1>11, <1>12, <1>14, <2>2, <2>5, <2>6, <2>7, <3>1, <3>2,
         OneHookStep
  <2>10. QED
    BY <2>8, <2>9
<1>15. QED
  BY <1>8, <1>11, <1>13, <1>14 DEF TInv

(* A store of the original or of the hook's own detour, through the guard  *)
(* of a hook in hand.                                                      *)
LEMMA StoreKeeps ==
  ASSUME Types, Types', PInv, OInv, NEW t \in Threads, NEW h \in Hooks, Taken(t, h),
         stage' = stage, stage[h] \notin {"new", "dropping", "gone"}, claims' = claims,
         \A u \in Threads \ {t} : Same(u),
         \A g \in Hooks : ~Eats(t, g) /\ ~Eats(t, g)', ReleaseOf(t)', ListsOf(t)',
         Place(h) \in Slots => hook[h].claimed,
         NEW b \in BOOLEAN, hook' = [hook EXCEPT ![h].enabled = b],
         b => hook[h].active,
         Write(h, IF b THEN h ELSE hook[h].orig)
  PROVE  OInv'
<1>1. GuardOf(h) /\ EatOf(t)' /\ h # Original
  BY HooksAssumption DEF OInv, EatOf
<1>2. /\ \A g \in Hooks \ {h} : hook'[g] = hook[g]
      /\ hook'[h].place = hook[h].place /\ hook'[h].orig = hook[h].orig
      /\ hook'[h].claimed = hook[h].claimed /\ hook'[h].active = hook[h].active
      /\ hook'[h].enabled = b
  BY DEF Types, HookType, Guard
<1>3. PICK v \in Pointer : v = IF b THEN h ELSE hook[h].orig
  BY DEF Types, HookType, Guard, Pointer
<1>4. SlotSet(h, v)
  BY <1>3, WriteEffect
<1>5. (Mine(t, h) <=> hook[h].claimed) /\ (Mine(t, h)' <=> hook[h].claimed)
  BY <1>2 DEF Mine
<1>6. CASE Place(h) \in Slots
  <2>1. /\ hook[h].claimed /\ hook[h].orig = Original
        /\ Place(h) \in claims /\ \A g \in Hooks \ {h} : ~Owns(g, Place(h))
    BY <1>1, <1>5, <1>6, Alone DEF GuardOf
  <2>2. /\ slot'[Place(h)] = IF b THEN h ELSE Original
        /\ \A s \in Slots \ {Place(h)} : slot'[s] = slot[s]
    BY <1>3, <1>4, <1>6, <2>1 DEF SlotSet
  <2>3. GuardOf(h)'
    BY <1>1, <1>2, <1>6, <2>1, <2>2 DEF GuardOf, Place
  <2>4. QED
    BY <1>1, <1>2, <1>5, <1>6, <2>1, <2>2, <2>3, OneHookStep
<1>7. CASE Place(h) \notin Slots
  <2>1. slot' = slot
    BY <1>4, <1>7 DEF SlotSet
  <2>2. GuardOf(h)'
    BY <1>1, <1>2, <1>7, <2>1 DEF GuardOf, Place
  <2>3. QED
    BY <1>1, <1>2, <1>5, <2>1, <2>2, OneHookStep
<1>8. QED
  BY <1>6, <1>7

LEMMA rollback_detachesKeeps ==
  ASSUME TInv, NEW t \in Threads, rollback_detaches(t)
  PROVE  TInv' /\ (OInv => OInv')
<1>1. Types /\ EntryOK /\ PInv
  BY DEF TInv
<1>2. PICK n : n = Len(detached[t])
  OBVIOUS
<1>3. PICK h : h = detached[t][n].hook
  OBVIOUS
<1>4. /\ pc[t] = "undo_detaches"
      /\ UNCHANGED <<claims, stage, stub, resolved, codeOwner, queue, installed, arg, after>>
  BY DEF rollback_detaches
<1>5. CASE detached[t] = << >>
  <2>1. /\ pc' = [pc EXCEPT ![t] = "rollback"] /\ idx' = [idx EXCEPT ![t] = Len(installed[t])]
        /\ UNCHANGED <<slot, vptr, clones, cloneSlot, owned, freed, hook, detached>>
    BY <1>5 DEF rollback_detaches, Goto, objVars
  <2>2. Len(installed[t]) \in Nat
    BY <1>1 DEF Types, TxType
  <2>3. Types' /\ EntryOK'
    <3>1. idx' \in [Threads -> Nat]
      BY <1>1, <2>1, <2>2 DEF Types, TxType
    <3>2. TxType'
      BY <1>1, <1>4, <2>1, <3>1, Zenon DEF Types, TxType
    <3>3. QED
      BY <1>1, <1>4, <2>1, <3>2
         DEF Types, TableType, ObjType, HookType, StubType, CallType, EntryOK
  <2>4. pc'[t] = "rollback" /\ idx'[t] = Len(installed[t]) /\ \A u \in Threads \ {t} : Same(u)
    BY <1>1, <1>4, <2>1 DEF Same, Types, CallType, TxType
  <2>5. PInv'
    <3>1. LockOf(t)' /\ ~Dismantling(t) /\ pc'[t] \notin DropPcs
      BY <1>1, <1>4, <2>4 DEF PInv, POf, LockOf, Locked, Holding, Dismantling, DropPcs
    <3>2. CountOf(t)'
      <4>1. CountOf(t) /\ idx'[t] <= Len(installed'[t]) /\ detached'[t] = << >>
        BY <1>1, <1>4, <1>5, <2>1, <2>2, <2>4 DEF PInv, POf
      <4>2. ~Outside(t)'
        BY <2>4 DEF Outside, DropPcs
      <4>3. QED
        BY <1>4, <1>5, <2>1, <2>4, <4>1, <4>2 DEF CountOf
    <3>3. \A u \in Threads \ {t} : Locked(u) => codeOwner' = u
      BY <1>1, <1>4 DEF PInv, POf, LockOf
    <3>4. QED
      BY <1>1, <1>4, <2>1, <2>3, <2>4, <3>1, <3>2, <3>3, MoveStep
  <2>6. ASSUME OInv PROVE OInv'
    <3>1. \A g \in Hooks : Eats(t, g)' <=> Eats(t, g)
      BY <1>4, <2>4 DEF Eats
    <3>2. ReleaseOf(t)' /\ ListsOf(t)'
      BY <1>4, <2>1, <2>4, <2>6 DEF ReleaseOf, ListsOf, OInv, Place
    <3>3. QED
      BY <1>1, <1>4, <2>1, <2>4, <2>6, <3>1, <3>2, KeepStep
  <2>7. QED
    BY <2>3, <2>5, <2>6 DEF TInv
<1>6. CASE detached[t] # << >>
  <2>1. /\ \/ hook[h].active /\ Write(h, h) /\ hook' = [hook EXCEPT ![h].enabled = TRUE]
           \/ UNCHANGED <<slot, objVars, hook>>
        /\ detached' = [detached EXCEPT ![t] = SubSeq(@, 1, Len(@) - 1)]
        /\ UNCHANGED <<pc, idx>>
    BY <1>2, <1>3, <1>6 DEF rollback_detaches
  <2>2. detached[t] \in Seq([hook : Hooks, was_enabled : BOOLEAN])
    BY <1>1 DEF Types, TxType
  <2>3. n \in DOMAIN detached[t] /\ n \in Nat
    BY <1>2, <1>6, <2>2
  <2>4. /\ h \in Hooks /\ stage[h] = "borrowed" /\ Taken(t, h) /\ h \in Pointer
        /\ \A l \in DOMAIN detached[t] : detached[t][l].hook = h => l = n
    BY <1>1, <1>3, <2>3, AtDetached DEF Pointer
  <2>5. slot' \in [Slots -> Pointer] /\ ObjType' /\ EntryOK' /\ hook' \in [Hooks -> Guard]
    <3>1. CASE Write(h, h) /\ hook' = [hook EXCEPT ![h].enabled = TRUE]
      <4>1. hook' \in [Hooks -> Guard]
        BY <1>1, <3>1 DEF Types, HookType, Guard
      <4>2. QED
        BY <1>1, <2>4, <3>1, <4>1, WriteTyped
    <3>2. CASE UNCHANGED <<slot, objVars, hook>>
      BY <1>1, <3>2 DEF objVars, Types, TableType, ObjType, HookType, EntryOK
    <3>3. QED
      BY <2>1, <3>1, <3>2
  <2>6. PICK f : f = SubSeq(detached[t], 1, n - 1)
    OBVIOUS
  <2>7. /\ Len(f) = n - 1 /\ \A k \in DOMAIN f : k \in DOMAIN detached[t] /\ f[k] = detached[t][k]
    BY <1>2, <1>6, <2>2, <2>6, FrontOf
  <2>8. f \in Seq([hook : Hooks, was_enabled : BOOLEAN])
    BY <1>2, <1>6, <2>2, <2>6, FrontOf, Zenon
  <2>9. Types'
    <3>1. detached' = [detached EXCEPT ![t] = f]
      BY <1>2, <2>1, <2>6
    <3>2. TxType'
      BY <1>1, <1>4, <2>1, <2>8, <3>1, Zenon DEF Types, TxType
    <3>3. TableType' /\ HookType' /\ StubType' /\ CallType'
      BY <1>1, <1>4, <2>1, <2>5 DEF Types, TableType, HookType, StubType, CallType
    <3>4. QED
      BY <2>5, <3>2, <3>3 DEF Types
  <2>10. detached'[t] = f /\ \A u \in Threads \ {t} : Same(u)
    BY <1>1, <1>2, <1>4, <2>1, <2>6 DEF Same, Types, TxType
  <2>11. PInv'
    BY <1>1, <1>2, <1>4, <1>6, <2>1, <2>6, <2>9, <2>10, ShrinkStep
  <2>12. ASSUME OInv PROVE OInv'
    <3>1. GuardOf(h) /\ ListsOf(t)
      BY <2>4, <2>12 DEF OInv
    <3>2. /\ \A g \in Hooks : ~Eats(t, g) /\ ~Eats(t, g)'
          /\ ReleaseOf(t)'
      BY <1>4, <2>1 DEF Eats, ReleaseOf
    <3>3. \A k \in DOMAIN f : f[k].hook \in Hooks \ {h} /\ ~hook[f[k].hook].enabled
      <4>1. Len(f) \in Nat /\ DOMAIN f = 1 .. Len(f)
        BY <2>8
      <4>2. \A k \in DOMAIN f : k # n
        BY <2>3, <2>7, <4>1
      <4>3. QED
        BY <1>1, <2>4, <2>7, <3>1, <4>2, InLists DEF ListsOf
    <3>4. CASE UNCHANGED <<slot, objVars, hook>>
      <4>1. ListsOf(t)'
        BY <1>4, <2>1, <2>10, <3>1, <3>3, <3>4 DEF ListsOf, Place
      <4>2. QED
        BY <1>1, <1>4, <2>10, <2>12, <3>2, <3>4, <4>1, KeepStep
    <3>5. CASE hook[h].active /\ Write(h, h) /\ hook' = [hook EXCEPT ![h].enabled = TRUE]
      <4>1. /\ \A g \in Hooks \ {h} : hook'[g] = hook[g]
            /\ hook'[h].place = hook[h].place /\ hook'[h].claimed = hook[h].claimed
        BY <1>1, <2>4, <3>5 DEF Types, HookType, Guard
      <4>2. \A k \in DOMAIN installed[t] : installed[t][k] \in Hooks
        BY <1>1, InLists
      <4>3. \A g \in Hooks : Place(g)' = Place(g) /\ hook'[g].claimed = hook[g].claimed
        BY <4>1 DEF Place
      <4>4. \A k \in DOMAIN installed[t] :
                Place(installed[t][k]) \in Slots => hook[installed[t][k]].claimed
        BY <1>4, <3>1 DEF ListsOf
      <4>5. ListsOf(t)'
        BY <1>4, <2>10, <3>3, <4>1, <4>2, <4>3, <4>4 DEF ListsOf
      <4>6. Place(h) \in Slots => hook[h].claimed
        BY <2>4, <3>1, <3>5 DEF GuardOf
      <4>7. QED
        BY <1>1, <1>4, <2>4, <2>9, <2>10, <2>12, <3>2, <3>5, <4>5, <4>6, StoreKeeps
    <3>6. QED
      BY <2>1, <3>4, <3>5
  <2>13. QED
    BY <2>5, <2>9, <2>11, <2>12 DEF TInv
<1>7. QED
  BY <1>5, <1>6

LEMMA rollbackKeeps ==
  ASSUME TInv, NEW t \in Threads, rollback(t)
  PROVE  TInv' /\ (OInv => OInv')
<1>1. Types /\ EntryOK /\ PInv
  BY DEF TInv
<1>2. PICK h : h = installed[t][idx[t]]
  OBVIOUS
<1>3. /\ pc[t] = "rollback"
      /\ UNCHANGED <<claims, stage, stub, resolved, codeOwner, queue, installed, detached, arg,
                     after>>
  BY DEF rollback
<1>4. \A u \in Threads \ {t} : Locked(u) => codeOwner' = u
  BY <1>1, <1>3 DEF PInv, POf, LockOf
<1>5. POf(t) /\ idx[t] \in Nat /\ Len(installed[t]) \in Nat /\ idx[t] <= Len(installed[t])
      /\ installed[t] \in Seq(Hooks)
  BY <1>1, <1>3 DEF PInv, POf, CountOf, Types, TxType
<1>6. CASE idx[t] = 0
  <2>1. /\ pc' = [pc EXCEPT ![t] = "dismantle"]
        /\ UNCHANGED <<slot, vptr, clones, cloneSlot, owned, freed, hook, idx>>
    BY <1>6 DEF rollback, Goto, objVars
  <2>2. Types' /\ EntryOK'
    BY <1>1, <1>3, <2>1
       DEF Types, TableType, ObjType, HookType, StubType, TxType, CallType, EntryOK
  <2>3. pc'[t] = "dismantle" /\ \A u \in Threads \ {t} : Same(u)
    BY <1>1, <1>3, <2>1 DEF Same, Types, CallType
  <2>4. PInv'
    <3>1. LockOf(t)' /\ CountOf(t)' /\ ~Dismantling(t) /\ pc'[t] \notin DropPcs
      BY <1>3, <1>5, <2>1, <2>3 DEF POf, LockOf, CountOf, Locked, Holding, Outside,
                                    Dismantling, DropPcs
    <3>2. QED
      BY <1>1, <1>3, <1>4, <2>1, <2>2, <2>3, <3>1, MoveStep
  <2>5. ASSUME OInv PROVE OInv'
    <3>1. \A g \in Hooks : Eats(t, g)' <=> Eats(t, g)
      BY <1>3, <2>3 DEF Eats
    <3>2. ReleaseOf(t)' /\ ListsOf(t)'
      BY <1>3, <2>1, <2>3, <2>5 DEF ReleaseOf, ListsOf, OInv, Place
    <3>3. QED
      BY <1>1, <1>3, <2>1, <2>3, <2>5, <3>1, <3>2, KeepStep
  <2>6. QED
    BY <2>2, <2>4, <2>5 DEF TInv
<1>7. CASE idx[t] # 0
  <2>1. /\ \/ Write(h, hook[h].orig) /\ hook' = [hook EXCEPT ![h].enabled = FALSE]
           \/ UNCHANGED <<slot, objVars, hook>>
        /\ idx' = [idx EXCEPT ![t] = @ - 1]
        /\ UNCHANGED pc
    BY <1>2, <1>7 DEF rollback
  <2>2. idx[t] \in DOMAIN installed[t] /\ h \in Hooks /\ idx[t] - 1 \in Nat
    BY <1>2, <1>5, <1>7
  <2>3. stage[h] = "queued" /\ Taken(t, h) /\ hook[h].orig \in Pointer
    <3>1. stage[h] = "queued" /\ \E i \in DOMAIN queue[t] : queue[t][i] = Entry("attach", h)
      BY <1>2, <1>3, <1>5, <2>2 DEF POf, InstalledOf
    <3>2. QED
      BY <1>1, <2>2, <3>1 DEF Taken, Entry, Types, HookType, Guard
  <2>4. slot' \in [Slots -> Pointer] /\ ObjType' /\ EntryOK' /\ hook' \in [Hooks -> Guard]
    <3>1. CASE Write(h, hook[h].orig) /\ hook' = [hook EXCEPT ![h].enabled = FALSE]
      <4>1. hook' \in [Hooks -> Guard]
        BY <1>1, <3>1 DEF Types, HookType, Guard
      <4>2. QED
        BY <1>1, <2>2, <2>3, <3>1, <4>1, WriteTyped
    <3>2. CASE UNCHANGED <<slot, objVars, hook>>
      BY <1>1, <3>2 DEF objVars, Types, TableType, ObjType, HookType, EntryOK
    <3>3. QED
      BY <2>1, <3>1, <3>2
  <2>5. Types'
    <3>1. idx' \in [Threads -> Nat]
      BY <1>1, <2>1, <2>2 DEF Types, TxType
    <3>2. TxType'
      BY <1>1, <1>3, <3>1, Zenon DEF Types, TxType
    <3>3. TableType' /\ HookType' /\ StubType' /\ CallType'
      BY <1>1, <1>3, <2>1, <2>4 DEF Types, TableType, HookType, StubType, CallType
    <3>4. QED
      BY <2>4, <3>2, <3>3 DEF Types
  <2>6. pc'[t] = "rollback" /\ idx'[t] = idx[t] - 1 /\ \A u \in Threads \ {t} : Same(u)
    BY <1>1, <1>3, <2>1 DEF Same, Types, CallType, TxType
  <2>7. PInv'
    <3>1. LockOf(t)' /\ ~Dismantling(t) /\ pc'[t] \notin DropPcs
      BY <1>3, <1>5, <2>6 DEF POf, LockOf, Locked, Holding, Dismantling, DropPcs
    <3>2. idx'[t] <= Len(installed[t])
      BY <1>5, <2>2, <2>6
    <3>3. CountOf(t)'
      BY <1>3, <1>5, <2>6, <3>2 DEF POf, CountOf, Outside, Dismantling, DropPcs
    <3>4. QED
      BY <1>1, <1>3, <1>4, <2>1, <2>5, <2>6, <3>1, <3>3, MoveStep
  <2>8. ASSUME OInv PROVE OInv'
    <3>1. GuardOf(h) /\ ListsOf(t)
      BY <2>2, <2>8 DEF OInv
    <3>2. /\ \A g \in Hooks : ~Eats(t, g) /\ ~Eats(t, g)'
          /\ ReleaseOf(t)'
      BY <1>3, <2>6 DEF Eats, ReleaseOf
    <3>3. CASE UNCHANGED <<slot, objVars, hook>>
      <4>1. ListsOf(t)'
        BY <1>3, <2>1, <3>1, <3>3 DEF ListsOf, Place
      <4>2. QED
        BY <1>1, <1>3, <2>6, <2>8, <3>2, <3>3, <4>1, KeepStep
    <3>4. CASE Write(h, hook[h].orig) /\ hook' = [hook EXCEPT ![h].enabled = FALSE]
      <4>1. \A g \in Hooks : /\ hook'[g].place = hook[g].place /\ hook'[g].claimed = hook[g].claimed
                             /\ ~hook[g].enabled => ~hook'[g].enabled
        BY <1>1, <2>2, <3>4 DEF Types, HookType, Guard
      <4>2. /\ \A k \in DOMAIN installed[t] : installed[t][k] \in Hooks
            /\ \A k \in DOMAIN detached[t] : detached[t][k].hook \in Hooks
        BY <1>1, InLists
      <4>3. ListsOf(t)'
        BY <1>3, <2>6, <3>1, <4>1, <4>2 DEF ListsOf, Place
      <4>4. Place(h) \in Slots => hook[h].claimed
        BY <1>2, <1>3, <2>2, <3>1 DEF ListsOf
      <4>5. QED
        BY <1>1, <1>3, <2>2, <2>3, <2>5, <2>6, <2>8, <3>2, <3>4, <4>3, <4>4, StoreKeeps
    <3>5. QED
      BY <2>1, <3>3, <3>4
  <2>9. QED
    BY <2>4, <2>5, <2>7, <2>8 DEF TInv
<1>8. QED
  BY <1>6, <1>7

(* What no thread of the library does.                                     *)
LEMMA QuietKeeps ==
  ASSUME TInv, UNCHANGED <<slot, claims, clones, cloneSlot, owned, freed, stub, hook, stage,
                           codeOwner, queue, installed, detached, idx, pc, arg, after>>,
         vptr' \in [Objects -> Pointer], resolved' \subseteq Far
  PROVE  TInv' /\ (OInv => OInv')
<1>1. Types /\ EntryOK /\ PInv
  BY DEF TInv
<1>2. Types' /\ EntryOK'
  BY <1>1 DEF Types, TableType, ObjType, HookType, StubType, TxType, CallType, EntryOK
<1>3. PInv'
  BY <1>1, Still
<1>4. ASSUME OInv PROVE OInv'
  <2>1. \A t \in Threads : (EatOf(t) /\ ReleaseOf(t) /\ ListsOf(t))'
    BY <1>4 DEF OInv, EatOf, ReleaseOf, ListsOf, Eats, Place
  <2>2. \A h \in Hooks : GuardOf(h)'
    BY <1>4 DEF OInv, GuardOf, Place
  <2>3. OwnerOK'
    BY <1>4 DEF OInv, OwnerOK, Owns, Place
  <2>4. QED
    BY <2>1, <2>2, <2>3 DEF OInv
<1>5. QED
  BY <1>2, <1>3, <1>4 DEF TInv

LEMMA ClientKeeps ==
  ASSUME TInv, NEW t \in Threads, NEW h \in Hooks, Client(t, h)
  PROVE  TInv' /\ (OInv => OInv')
<1>1. ASSUME NEW p \in Slots \cup Instances, Enqueue(t, h, p) PROVE TInv' /\ (OInv => OInv')
  BY <1>1, EnqueueKeeps
<1>2. CASE attach_iat(t, h) \/ attach_eat(t, h) \/ attach_vtable(t, h)
  BY <1>1, <1>2, SlotKinds DEF attach_iat, attach_eat, attach_vtable
<1>3. CASE attach_vtable_instance(t, h)
  BY <1>1, <1>3 DEF attach_vtable_instance
<1>4. CASE detach(t, h)
  BY <1>4, detachKeeps
<1>5. CASE enable(t, h)
  <2>1. h \in Pointer
    BY DEF Pointer
  <2>2. QED
    BY <1>5, <2>1, ToggleKeeps DEF enable
<1>6. CASE disable(t, h)
  <2>1. hook[h].orig \in Pointer
    BY DEF TInv, Types, HookType, Guard
  <2>2. QED
    BY <1>6, <2>1, ToggleKeeps DEF disable
<1>7. CASE unhook(t, h)
  BY <1>7, unhookKeeps
<1>8. CASE drop(t, h)
  BY <1>8, dropKeeps
<1>9. QED
  BY <1>2, <1>3, <1>4, <1>5, <1>6, <1>7, <1>8 DEF Client

LEMMA CommitKeeps ==
  ASSUME TInv, NEW t \in Threads, Commit(t)
  PROVE  TInv' /\ (OInv => OInv')
<1>1. CASE commit_lock(t)
  BY <1>1, commit_lockKeeps
<1>2. CASE install_slot(t)
  BY <1>2, install_slotKeeps
<1>3. CASE install_eat(t)
  BY <1>3, install_eatKeeps
<1>4. CASE eat_protect(t)
  BY <1>4, eat_protectKeeps
<1>5. CASE install_into(t)
  BY <1>5, install_intoKeeps
<1>6. CASE prepare_detach(t)
  BY <1>6, prepare_detachKeeps
<1>7. CASE commit_applied(t)
  BY <1>7, commit_appliedKeeps
<1>8. CASE detach_finalize(t)
  BY <1>8, detach_finalizeKeeps
<1>9. CASE commit_end(t)
  BY <1>9, commit_endKeeps
<1>10. CASE rollback_detaches(t)
  BY <1>10, rollback_detachesKeeps
<1>11. CASE rollback(t)
  BY <1>11, rollbackKeeps
<1>12. CASE dismantle(t)
  BY <1>12, dismantleKeeps
<1>13. CASE dismantle_end(t)
  BY <1>13, dismantle_endKeeps
<1>14. QED
  BY <1>1, <1>2, <1>3, <1>4, <1>5, <1>6, <1>7, <1>8, <1>9, <1>10, <1>11, <1>12, <1>13 DEF Commit

LEMMA NextKeeps ==
  ASSUME TInv, [Next]_vars
  PROVE  TInv' /\ (OInv => OInv')
<1>1. /\ vptr \in [Objects -> Pointer] /\ resolved \subseteq Far /\ Original \in Pointer
  BY DEF TInv, Types, ObjType, StubType, Pointer
<1>2. ASSUME NEW t \in Threads, commit(t) PROVE TInv' /\ (OInv => OInv')
  BY <1>2, commitKeeps
<1>3. ASSUME NEW t \in Threads, Commit(t) PROVE TInv' /\ (OInv => OInv')
  BY <1>3, CommitKeeps
<1>4. ASSUME NEW t \in Threads, Dropping(t) PROVE TInv' /\ (OInv => OInv')
  BY <1>4, drop_unhookKeeps, release_table_slotKeeps, retire_stubKeeps DEF Dropping
<1>5. ASSUME NEW t \in Threads, NEW h \in Hooks, Client(t, h) PROVE TInv' /\ (OInv => OInv')
  BY <1>5, ClientKeeps
<1>6. ASSUME NEW e \in Exports, GetProcAddress(e) PROVE TInv' /\ (OInv => OInv')
  BY <1>1, <1>6, QuietKeeps DEF GetProcAddress, tableVars, objVars, txVars, callVars
<1>7. ASSUME NEW o \in Objects, construct(o) PROVE TInv' /\ (OInv => OInv')
  BY <1>1, <1>7, QuietKeeps DEF construct, txVars, callVars
<1>8. CASE UNCHANGED vars
  BY <1>1, <1>8, QuietKeeps DEF vars, tableVars, objVars, txVars, callVars
<1>9. QED
  BY <1>2, <1>3, <1>4, <1>5, <1>6, <1>7, <1>8 DEF Next

LEMMA InitOInv == Init => OInv
<1>1. SUFFICES ASSUME Init PROVE OInv
  OBVIOUS
<1>2. ASSUME NEW h \in Hooks PROVE hook[h] = NoGuard /\ stage[h] = "new" /\ Place(h) = Original
  BY <1>1, <1>2 DEF Init, NoGuard, Place
<1>3. \A t \in Threads : pc[t] = "ready" /\ installed[t] = << >> /\ detached[t] = << >>
  BY <1>1 DEF Init
<1>4. \A h \in Hooks : ~hook[h].claimed /\ Place(h) \notin Slots
  BY <1>2, PlacesAssumption DEF NoGuard
<1>5. \A h \in Hooks : GuardOf(h)
  BY <1>2, <1>4 DEF GuardOf
<1>6. \A t \in Threads : EatOf(t) /\ ReleaseOf(t) /\ ListsOf(t)
  BY <1>3 DEF EatOf, Eats, ReleaseOf, ListsOf
<1>7. claims = {} /\ \A s \in Slots : slot[s] \notin Hooks
  BY <1>1, HooksAssumption DEF Init
<1>8. OwnerOK
  BY <1>3, <1>4, <1>7 DEF OwnerOK, Owns
<1>9. QED
  BY <1>5, <1>6, <1>8 DEF OInv

(***************************************************************************)
(* Through every interleaving of transactions, guards and drops, whatever  *)
(* the system refuses, the tables, clones, guards and lists keep their     *)
(* types, and a commit keeps its two lists within what it reserved before  *)
(* it suspended the threads.                                               *)
(***************************************************************************)
THEOREM TypeInvariant == Spec => []TypeOK
<1>1. Init => TInv
  BY InitTInv
<1>2. TInv /\ [Next]_vars => TInv'
  BY NextKeeps
<1>3. TInv => TypeOK
  BY TypesImplyTypeOK
<1>4. QED
  BY <1>1, <1>2, <1>3, PTL DEF Spec

(***************************************************************************)
(* A claimed slot has exactly one owner, a slot that leads to a detour is  *)
(* claimed by the hook of that detour, and a live guard knows whether its  *)
(* slot leads there: for any number of threads, hooks and tables, and for  *)
(* every refusal that a commit or a drop may meet half-way.                *)
(***************************************************************************)
THEOREM SlotsHaveOneOwner == Spec => []OneOwnerPerSlot
<1>1. Init => TInv /\ OInv
  BY InitTInv, InitOInv
<1>2. TInv /\ OInv /\ [Next]_vars => TInv' /\ OInv'
  BY NextKeeps
<1>3. OInv => OneOwnerPerSlot
  BY DEF OInv, OwnerOK, OneOwnerPerSlot, GuardOf
<1>4. QED
  BY <1>1, <1>2, <1>3, PTL DEF Spec

-----------------------------------------------------------------------------
(***************************************************************************)
(* Clones and stubs                                                        *)
(***************************************************************************)

(* A hook that has been installed is no longer new, and while its commit   *)
(* is under way it is in that commit's list, or about to be.               *)
HeldBy(t, h) ==
    \/ Eats(t, h)
    \/ pc[t] # "finalize" /\ \E k \in DOMAIN installed[t] : installed[t][k] = h
Handed(h) == stage[h] # "new" /\ (stage[h] = "queued" => \E t \in Threads : HeldBy(t, h))

(* What the class has in a slot: its method, or the detour of a hook on    *)
(* the class.                                                              *)
ClassValue(v) == v \in Hooks => Place(v) \in Slots
UsedClone(h) == h \in freed \/ \E o \in Objects : clones[o].clone = h
UsedOf(h) == UsedClone(h) => Handed(h) /\ Place(h) \in Instances
(* A registered clone belongs to its object and is not freed; it has as    *)
(* many hooks as owned slots, and what no hook owns is as in the class.    *)
CloneOf(o) ==
    /\ vptr[o] \in Hooks => clones[o].clone = vptr[o]
    /\ clones[o] # NoEntry =>
          /\ clones[o].clone \notin freed /\ clones[o].original = Original
          /\ Place(clones[o].clone) \in Instances /\ Object(clones[o].clone) = o
          /\ IsFiniteSet(owned[clones[o].clone])
          /\ clones[o].hooks = Cardinality(owned[clones[o].clone])
          /\ \A m \in Methods \ owned[clones[o].clone] : ClassValue(cloneSlot[clones[o].clone][m])
(* An active hook is the only one of its slot, which it owns.              *)
ActiveOf(h) ==
    Place(h) \in Instances /\ hook[h].active =>
        /\ clones[Object(h)] # NoEntry /\ hook[h].clone = clones[Object(h)].clone
        /\ Method(h) \in owned[hook[h].clone] /\ ClassValue(hook[h].orig)
        /\ \A g \in Hooks : hook[g].active /\ Place(g) = Place(h) => g = h
EnabledOf(h) ==
    Place(h) \in Instances /\ hook[h].enabled /\ stage[h] \notin {"dropping", "gone"}
        => hook[h].active
ActiveList(t) ==
    pc[t] # "finalize" => \A k \in DOMAIN installed[t] : hook[installed[t][k]].active
CInv ==
    /\ \A o \in Objects : CloneOf(o)
    /\ \A h \in Hooks : UsedOf(h) /\ ActiveOf(h) /\ EnabledOf(h)
    /\ \A t \in Threads : ActiveList(t)

(* The stub of an export whose address the program may have, or get, jumps *)
(* somewhere; it is retargeted before its hook is gone.                    *)
Retires(t, h) == pc[t] = "retire_stub" /\ arg[t] = h
Met(h) ==
    /\ h \in Far
    /\ \/ h \in resolved
       \/ Place(h) \in Exports /\ hook[h].claimed
       \/ \E t \in Threads : Eats(t, h)
Kept(h) ==
    \/ hook[h].claimed \/ stub[h] = "original"
    \/ \E t \in Threads : Eats(t, h) \/ Retires(t, h)
StubOf(h) ==
    Met(h) => /\ Handed(h) /\ Place(h) \in Exports
              /\ stub[h] \in {"detour", "original"} /\ Kept(h)
PreparedOf(t) ==
    pc[t] \in {"lock", "apply", "eat_protect"} => \A h \in NeedsStub(t) : stub[h] = "detour"
SInv == (\A h \in Hooks : StubOf(h)) /\ \A t \in Threads : PreparedOf(t)

(* Exports can be protected again and stubs retargeted.                    *)
Retargetable == "reprotect" \notin Faults /\ "retarget" \notin Faults
RInv == CInv /\ (Retargetable => SInv)

-----------------------------------------------------------------------------
(* What a step does not undo.                                              *)
HandsKept(t) ==
    /\ \A u \in Threads \ {t} : Same(u)
    /\ \A g \in Hooks : stage'[g] \in {"new", "queued"} =>
          \/ stage[g] = "new"
          \/ stage[g] = "queued" /\ stage'[g] = "queued" /\ (HeldBy(t, g) => HeldBy(t, g)')
PlacesKept == \A g \in Hooks : Place(g) # Original => Place(g)' = Place(g)
GuardsKept ==
    /\ PlacesKept
    /\ \A g \in Hooks :
        /\ Place(g)' \in Instances /\ hook'[g].active =>
              /\ hook[g].active /\ Place(g)' = Place(g)
              /\ hook'[g].clone = hook[g].clone /\ hook'[g].orig = hook[g].orig
        /\ stage[g] = "queued" /\ hook[g].active => hook'[g].active
ObjectsKept ==
    /\ UNCHANGED <<clones, owned, freed>>
    /\ \A o \in Objects : vptr'[o] \in {vptr[o], Original}
    /\ \A c \in Hooks : \A m \in Methods \ owned[c] : cloneSlot'[c][m] = cloneSlot[c][m]

LEMMA HandedKept ==
  ASSUME NEW t \in Threads, HandsKept(t), NEW g \in Hooks, Handed(g)
  PROVE  Handed(g)'
<1>1. stage'[g] # "new"
  BY DEF HandsKept, Handed
<1>2. ASSUME stage'[g] = "queued" PROVE \E u \in Threads : HeldBy(u, g)'
  <2>1. stage[g] = "queued" /\ (HeldBy(t, g) => HeldBy(t, g)')
    BY <1>2 DEF HandsKept, Handed
  <2>2. PICK u \in Threads : HeldBy(u, g)
    BY <2>1 DEF Handed
  <2>3. CASE u = t
    BY <2>1, <2>2, <2>3
  <2>4. CASE u # t
    BY <2>2, <2>4 DEF HandsKept, Same, HeldBy, Eats
  <2>5. QED
    BY <2>3, <2>4
<1>3. QED
  BY <1>1, <1>2 DEF Handed

LEMMA ClassValueKept ==
  ASSUME GuardsKept, NEW v, ClassValue(v)
  PROVE  ClassValue(v)'
<1>1. SUFFICES ASSUME v \in Hooks PROVE Place(v)' \in Slots
  BY DEF ClassValue
<1>2. Place(v) \in Slots /\ Place(v) # Original
  BY <1>1, PlacesAssumption DEF ClassValue
<1>3. QED
  BY <1>1, <1>2 DEF GuardsKept, PlacesKept

LEMMA UsedKept ==
  ASSUME NEW t \in Threads, HandsKept(t), PlacesKept, NEW g \in Hooks, UsedOf(g),
         UsedClone(g)' => UsedClone(g)
  PROVE  UsedOf(g)'
  BY HandedKept, PlacesAssumption DEF UsedOf, PlacesKept

LEMMA ActiveListsKept ==
  ASSUME TInv, CInv, NEW t \in Threads, HandsKept(t), GuardsKept, ActiveList(t)',
         NEW u \in Threads
  PROVE  ActiveList(u)'
<1>1. CASE u # t
  <2>1. Same(u) /\ POf(u) /\ ActiveList(u) /\ \A k \in DOMAIN installed[u] : installed[u][k] \in Hooks
    BY <1>1, InLists DEF HandsKept, TInv, PInv, CInv
  <2>2. QED
    BY <2>1 DEF Same, POf, InstalledOf, ActiveList, GuardsKept
<1>2. QED
  BY <1>1

(* No object of an instance hook but through its clone.                    *)
LEMMA NoEntryClone == NoEntry.clone = Original /\ NoEntry.clone \notin Hooks
  BY HooksAssumption DEF NoEntry

LEMMA ClonesKept ==
  ASSUME TInv, CInv, NEW t \in Threads, HandsKept(t), GuardsKept, ObjectsKept,
         \A g \in Hooks : EnabledOf(g)', ActiveList(t)'
  PROVE  CInv'
<1>1. Types /\ EntryOK
  BY DEF TInv
<1>2. ASSUME NEW o \in Objects PROVE CloneOf(o)'
  <2>1. CloneOf(o) /\ clones'[o] = clones[o] /\ vptr'[o] \in {vptr[o], Original}
    BY DEF CInv, ObjectsKept
  <2>2. vptr'[o] \in Hooks => clones'[o].clone = vptr'[o]
    BY <2>1, HooksAssumption DEF CloneOf
  <2>3. SUFFICES ASSUME clones[o] # NoEntry, NEW c \in Hooks, c = clones[o].clone
                 PROVE  /\ c \notin freed' /\ clones[o].original = Original
                        /\ Place(c)' \in Instances /\ Object(c)' = o
                        /\ IsFiniteSet(owned'[c])
                        /\ clones[o].hooks = Cardinality(owned'[c])
                        /\ \A m \in Methods \ owned'[c] : ClassValue(cloneSlot[c][m])' 
    BY <1>1, <2>1, <2>2 DEF CloneOf, EntryOK
  <2>4. freed' = freed /\ owned' = owned
    BY DEF ObjectsKept
  <2>5. Place(c) \in Instances /\ Object(c) = o
    BY <2>1, <2>3 DEF CloneOf
  <2>6. Place(c)' = Place(c)
    BY <2>5, PlacesAssumption DEF GuardsKept, PlacesKept
  <2>7. \A m \in Methods \ owned[c] : ClassValue(cloneSlot[c][m])
    BY <2>1, <2>3 DEF CloneOf
  <2>8. ASSUME NEW m \in Methods \ owned[c] PROVE ClassValue(cloneSlot[c][m])'
    <3>1. PICK v : v = cloneSlot[c][m]
      OBVIOUS
    <3>2. ClassValue(v)'
      BY <2>7, <3>1, ClassValueKept
    <3>3. cloneSlot'[c][m] = v
      BY <3>1 DEF ObjectsKept
    <3>4. QED
      BY <3>2, <3>3 DEF ClassValue
  <2>9. QED
    BY <2>1, <2>3, <2>4, <2>5, <2>6, <2>8 DEF CloneOf, Object
<1>3. ASSUME NEW h \in Hooks PROVE UsedOf(h)'
  <2>1. UsedClone(h)' => UsedClone(h)
    BY DEF UsedClone, ObjectsKept
  <2>2. QED
    BY <2>1, UsedKept DEF CInv, GuardsKept
<1>4. ASSUME NEW h \in Hooks PROVE ActiveOf(h)'
  <2>1. SUFFICES ASSUME Place(h)' \in Instances, hook'[h].active PROVE ActiveOf(h)'
    BY DEF ActiveOf
  <2>2. /\ hook[h].active /\ Place(h)' = Place(h)
        /\ hook'[h].clone = hook[h].clone /\ hook'[h].orig = hook[h].orig
    BY <2>1 DEF GuardsKept, PlacesKept
  <2>3. /\ clones[Object(h)] # NoEntry /\ hook[h].clone = clones[Object(h)].clone
        /\ Method(h) \in owned[hook[h].clone] /\ ClassValue(hook[h].orig)
        /\ \A g \in Hooks : hook[g].active /\ Place(g) = Place(h) => g = h
    BY <2>1, <2>2 DEF CInv, ActiveOf
  <2>4. ClassValue(hook[h].orig)'
    <3>1. PICK v : v = hook[h].orig
      OBVIOUS
    <3>2. ClassValue(v)'
      BY <2>3, <3>1, ClassValueKept
    <3>3. QED
      BY <2>2, <3>1, <3>2 DEF ClassValue
  <2>5. \A g \in Hooks : hook'[g].active /\ Place(g)' = Place(h)' => g = h
    BY <2>1, <2>2, <2>3 DEF GuardsKept, PlacesKept
  <2>6. Object(h)' = Object(h) /\ Method(h)' = Method(h) /\ clones' = clones /\ owned' = owned
    BY <2>2 DEF Object, Method, ObjectsKept
  <2>7. QED
    BY <2>2, <2>3, <2>4, <2>5, <2>6 DEF ActiveOf
<1>5. QED
  BY <1>2, <1>3, <1>4, ActiveListsKept DEF CInv

(* The last hook of a clone takes it down; any other gives its slot back.  *)
LEMMA RestoreKept ==
  ASSUME TInv, CInv, NEW t \in Threads, HandsKept(t), GuardsKept,
         NEW h \in Hooks, Place(h) \in Instances, hook[h].active, ~hook'[h].active,
         restore_instance(h), \A g \in Hooks : EnabledOf(g)', ActiveList(t)'
  PROVE  CInv'
<1>1. Types /\ EntryOK
  BY DEF TInv
<1>2. PICK o \in Objects : o = Object(h)
  BY <1>1, OnInstance DEF Types
<1>3. PICK m \in Methods : m = Method(h)
  BY <1>1, OnInstance DEF Types
<1>4. PICK c \in Hooks : c = clones[o].clone
  BY <1>1, <1>2 DEF restore_instance, EntryOK
<1>5. /\ clones[o] # NoEntry /\ hook[h].clone = c /\ m \in owned[c] /\ ClassValue(hook[h].orig)
      /\ \A g \in Hooks : hook[g].active /\ Place(g) = Place(h) => g = h
  BY <1>2, <1>3, <1>4 DEF CInv, ActiveOf
<1>6. /\ c \notin freed /\ clones[o].original = Original /\ Place(c) \in Instances /\ Object(c) = o
      /\ IsFiniteSet(owned[c]) /\ clones[o].hooks = Cardinality(owned[c])
      /\ \A n \in Methods \ owned[c] : ClassValue(cloneSlot[c][n])
      /\ vptr[o] \in Hooks => vptr[o] = c
  BY <1>4, <1>5 DEF CInv, CloneOf
<1>7. ASSUME NEW p \in Objects, p # o, clones[p] # NoEntry PROVE clones[p].clone # c
  BY <1>6, <1>7 DEF CInv, CloneOf
<1>8. ASSUME NEW g \in Hooks, Place(g)' \in Instances, hook'[g].active
      PROVE  /\ g # h /\ hook[g].active /\ Place(g)' = Place(g) /\ Place(g) # Place(h)
             /\ hook'[g].clone = hook[g].clone /\ hook'[g].orig = hook[g].orig
             /\ Object(g)' = Object(g) /\ Method(g)' = Method(g)
             /\ Object(g) = o => Method(g) # m
             /\ clones[Object(g)] # NoEntry /\ hook[g].clone = clones[Object(g)].clone
             /\ Object(g) \in Objects
             /\ Method(g) \in owned[hook[g].clone] /\ ClassValue(hook[g].orig)'
             /\ \A f \in Hooks : hook'[f].active /\ Place(f)' = Place(g)' => f = g
  <2>1. /\ g # h /\ hook[g].active /\ Place(g)' = Place(g)
        /\ hook'[g].clone = hook[g].clone /\ hook'[g].orig = hook[g].orig
    BY <1>8 DEF GuardsKept, PlacesKept
  <2>2. /\ clones[Object(g)] # NoEntry /\ hook[g].clone = clones[Object(g)].clone
        /\ Method(g) \in owned[hook[g].clone] /\ ClassValue(hook[g].orig)
        /\ \A f \in Hooks : hook[f].active /\ Place(f) = Place(g) => f = g
    BY <1>8, <2>1 DEF CInv, ActiveOf
  <2>3. Place(g) # Place(h)
    BY <1>5, <2>1
  <2>4. /\ Place(g) = <<Object(g), Method(g)>> /\ Place(h) = <<o, m>> /\ Object(g) \in Objects
    BY <1>1, <1>2, <1>3, <1>8, <2>1, OnInstance DEF Types
  <2>5. PICK v : v = hook[g].orig
    OBVIOUS
  <2>6. ClassValue(v)'
    BY <2>2, <2>5, ClassValueKept
  <2>7. \A f \in Hooks : hook'[f].active /\ Place(f)' = Place(g)' => f = g
    BY <1>8, <2>1, <2>2 DEF GuardsKept, PlacesKept
  <2>8. Object(g)' = Object(g) /\ Method(g)' = Method(g)
    BY <2>1 DEF Object, Method
  <2>9. ClassValue(hook[g].orig)'
    BY <2>1, <2>5, <2>6 DEF ClassValue
  <2>10. Object(g) = o => Method(g) # m
    BY <2>3, <2>4
  <2>11. QED
    BY <2>1, <2>2, <2>3, <2>4, <2>7, <2>8, <2>9, <2>10
<1>9. ASSUME NEW p \in Objects, p # o,
             clones'[p] = clones[p] /\ vptr'[p] = vptr[p],
             \A d \in Hooks \ {c} : /\ d \in freed' => d \in freed
                                    /\ owned'[d] = owned[d] /\ cloneSlot'[d] = cloneSlot[d]
      PROVE  CloneOf(p)'
  <2>1. CloneOf(p)
    BY DEF CInv
  <2>2. SUFFICES ASSUME clones[p] # NoEntry, NEW d \in Hooks, d = clones[p].clone
                 PROVE  /\ d \notin freed' /\ clones[p].original = Original
                        /\ Place(d)' \in Instances /\ Object(d)' = p
                        /\ IsFiniteSet(owned'[d])
                        /\ clones[p].hooks = Cardinality(owned'[d])
                        /\ \A n \in Methods \ owned'[d] : ClassValue(cloneSlot[d][n])'
    BY <1>1, <1>9, <2>1 DEF CloneOf, EntryOK
  <2>3. d # c /\ Place(d) \in Instances /\ Object(d) = p
    BY <1>7, <1>9, <2>1, <2>2 DEF CloneOf
  <2>4. Place(d)' = Place(d)
    BY <2>3, PlacesAssumption DEF GuardsKept, PlacesKept
  <2>5. ASSUME NEW n \in Methods \ owned[d] PROVE ClassValue(cloneSlot[d][n])'
    <3>1. PICK v : v = cloneSlot[d][n]
      OBVIOUS
    <3>2. ClassValue(v)'
      BY <2>1, <2>2, <3>1, ClassValueKept DEF CloneOf
    <3>3. QED
      BY <1>9, <2>3, <3>1, <3>2 DEF ClassValue
  <2>6. QED
    BY <1>9, <2>1, <2>2, <2>3, <2>4, <2>5 DEF CloneOf, Object
<1>10. CASE LastOfClone(h)
  <2>1. /\ vptr' = [vptr EXCEPT ![o] = IF @ = c THEN Original ELSE @]
        /\ clones' = [clones EXCEPT ![o] = NoEntry]
        /\ freed' = freed \cup {c}
        /\ UNCHANGED <<cloneSlot, owned>>
    BY <1>2, <1>4, <1>6, <1>10 DEF restore_instance
  <2>2. owned[c] = {m}
    <3>1. Cardinality(owned[c]) = 1
      BY <1>2, <1>6, <1>10 DEF LastOfClone
    <3>2. \E x : owned[c] = {x}
      BY <1>6, <3>1, FS_Singleton
    <3>3. QED
      BY <1>5, <3>2
  <2>3. ASSUME NEW p \in Objects PROVE CloneOf(p)'
    <3>1. CASE p # o
      BY <1>1, <1>9, <2>1, <3>1 DEF Types, ObjType
    <3>2. CASE p = o
      <4>1. clones'[o] = NoEntry /\ vptr'[o] \notin Hooks
        BY <1>1, <1>6, <2>1, HooksAssumption DEF Types, ObjType
      <4>2. QED
        BY <3>2, <4>1 DEF CloneOf
    <3>3. QED
      BY <3>1, <3>2
  <2>4. ASSUME NEW g \in Hooks PROVE UsedOf(g)'
    <3>1. UsedClone(g)' => UsedClone(g)
      BY <1>1, <1>4, <2>1, NoEntryClone DEF UsedClone, Types, ObjType
    <3>2. QED
      BY <3>1, UsedKept DEF CInv, GuardsKept
  <2>5. ASSUME NEW g \in Hooks PROVE ActiveOf(g)'
    <3>1. SUFFICES ASSUME Place(g)' \in Instances, hook'[g].active PROVE ActiveOf(g)'
      BY DEF ActiveOf
    <3>2. Object(g) # o
      BY <1>4, <1>8, <2>2, <3>1
    <3>3. clones'[Object(g)] = clones[Object(g)] /\ owned' = owned
      BY <1>1, <1>8, <2>1, <3>1, <3>2 DEF Types, ObjType
    <3>4. QED
      BY <1>8, <3>1, <3>3 DEF ActiveOf
  <2>6. QED
    BY <2>3, <2>4, <2>5, ActiveListsKept DEF CInv
<1>11. CASE ~LastOfClone(h)
  <2>1. /\ cloneSlot' = [cloneSlot EXCEPT ![c][m] = hook[h].orig]
        /\ owned' = [owned EXCEPT ![c] = @ \ {m}]
        /\ clones' = [clones EXCEPT ![o].hooks = @ - 1]
        /\ UNCHANGED <<vptr, freed>>
    BY <1>2, <1>3, <1>4, <1>5, <1>11 DEF restore_instance
  <2>2. /\ owned'[c] = owned[c] \ {m} /\ cloneSlot'[c][m] = hook[h].orig
        /\ \A n \in Methods \ {m} : cloneSlot'[c][n] = cloneSlot[c][n]
        /\ \A d \in Hooks \ {c} : owned'[d] = owned[d] /\ cloneSlot'[d] = cloneSlot[d]
    BY <1>1, <2>1 DEF Types, ObjType
  <2>3. /\ clones'[o].clone = c /\ clones'[o].original = Original
        /\ clones'[o].hooks = clones[o].hooks - 1
        /\ \A p \in Objects \ {o} : clones'[p] = clones[p]
    BY <1>1, <1>4, <1>6, <2>1 DEF Types, ObjType
  <2>4. IsFiniteSet(owned'[c]) /\ clones'[o].hooks = Cardinality(owned'[c])
    <3>1. PICK S : S = owned[c]
      OBVIOUS
    <3>2. IsFiniteSet(S) /\ m \in S
      BY <1>5, <1>6, <3>1
    <3>3. IsFiniteSet(S \ {m}) /\ Cardinality(S \ {m}) = Cardinality(S) - 1
      BY <3>2, FS_RemoveElement
    <3>4. QED
      BY <1>6, <2>2, <2>3, <3>1, <3>3
  <2>5. clones'[o] # NoEntry
    BY <2>3, NoEntryClone
  <2>6. ASSUME NEW p \in Objects PROVE CloneOf(p)'
    <3>1. CASE p # o
      BY <1>1, <1>9, <2>1, <2>2, <2>3, <3>1
    <3>2. CASE p = o
      <4>1. Place(c)' = Place(c)
        BY <1>6, PlacesAssumption DEF GuardsKept, PlacesKept
      <4>2. ASSUME NEW n \in Methods \ owned'[c] PROVE ClassValue(cloneSlot[c][n])'
        <5>1. PICK v : v = cloneSlot'[c][n]
          OBVIOUS
        <5>2. ClassValue(v)
          BY <1>5, <1>6, <2>2, <5>1
        <5>3. ClassValue(v)'
          BY <5>2, ClassValueKept
        <5>4. QED
          BY <5>1, <5>3 DEF ClassValue
      <4>3. vptr'[o] \in Hooks => clones'[o].clone = vptr'[o]
        BY <1>6, <2>1, <2>3
      <4>4. Place(c)' \in Instances /\ Object(c)' = o /\ c \notin freed'
        BY <1>6, <2>1, <4>1 DEF Object
      <4>5. QED
        BY <2>3, <2>4, <3>2, <4>2, <4>3, <4>4 DEF CloneOf
    <3>3. QED
      BY <3>1, <3>2
  <2>7. ASSUME NEW g \in Hooks PROVE UsedOf(g)'
    <3>1. UsedClone(g)' => UsedClone(g)
      BY <1>4, <2>1, <2>3 DEF UsedClone
    <3>2. QED
      BY <3>1, UsedKept DEF CInv, GuardsKept
  <2>8. ASSUME NEW g \in Hooks PROVE ActiveOf(g)'
    <3>1. SUFFICES ASSUME Place(g)' \in Instances, hook'[g].active PROVE ActiveOf(g)'
      BY DEF ActiveOf
    <3>2. CASE Object(g) = o
      <4>1. hook[g].clone = c /\ Method(g) # m /\ Method(g) \in owned[c]
        BY <1>4, <1>8, <3>1, <3>2
      <4>2. Method(g) \in owned'[c]
        BY <2>2, <4>1
      <4>3. QED
        BY <1>8, <2>3, <2>5, <3>1, <3>2, <4>1, <4>2 DEF ActiveOf
    <3>3. CASE Object(g) # o
      <4>1. hook[g].clone \in Hooks \ {c} /\ clones'[Object(g)] = clones[Object(g)]
        BY <1>1, <1>7, <1>8, <2>3, <3>1, <3>3 DEF EntryOK
      <4>2. owned'[hook[g].clone] = owned[hook[g].clone]
        BY <2>2, <4>1
      <4>3. QED
        BY <1>8, <3>1, <4>1, <4>2 DEF ActiveOf
    <3>4. QED
      BY <3>2, <3>3
  <2>9. QED
    BY <2>6, <2>7, <2>8, ActiveListsKept DEF CInv
<1>12. QED
  BY <1>10, <1>11

(* A hook takes a slot of a clone: what the guards have to do with it.     *)
InstalledGuard(h, original, clone) ==
    /\ hook'[h] = [place |-> Place(h), orig |-> original, clone |-> clone,
                   claimed |-> Place(h) \in Slots, active |-> TRUE, enabled |-> TRUE]
    /\ \A g \in Hooks \ {h} : hook'[g] = hook[g]

LEMMA ShareKept ==
  ASSUME TInv, CInv, NEW t \in Threads, HandsKept(t), stage' = stage,
         NEW h \in Hooks, Place(h) \in Instances, ShareClone(t, h),
         ActiveList(t)'
  PROVE  CInv'
<1>1. Types /\ EntryOK
  BY DEF TInv
<1>2. PICK o \in Objects : o = Object(h)
  BY <1>1, OnInstance DEF Types
<1>3. PICK m \in Methods : m = Method(h)
  BY <1>1, OnInstance DEF Types
<1>4. clones[o] # NoEntry
  BY <1>2 DEF ShareClone
<1>5. PICK c \in Hooks : c = clones[o].clone
  BY <1>1, <1>4 DEF EntryOK
<1>6. PICK v : v = cloneSlot[c][m]
  OBVIOUS
<1>7. /\ vptr[o] = c /\ m \notin owned[c]
      /\ cloneSlot' = [cloneSlot EXCEPT ![c][m] = h]
      /\ owned' = [owned EXCEPT ![c] = @ \cup {m}]
      /\ clones' = [clones EXCEPT ![o].hooks = @ + 1]
      /\ UNCHANGED <<vptr, freed>>
      /\ Installed(t, h, v, c)
  BY <1>2, <1>3, <1>5, <1>6 DEF ShareClone
<1>8. InstalledGuard(h, v, c)
  BY <1>1, <1>7 DEF Installed, InstalledGuard, Types, HookType, Place
<1>9. \A g \in Hooks : Place(g)' = Place(g)
  BY <1>8 DEF InstalledGuard, Place
<1>10. \A w : ClassValue(w) => ClassValue(w)'
  BY <1>9 DEF ClassValue
<1>11. /\ c \notin freed /\ clones[o].original = Original /\ Place(c) \in Instances
       /\ Object(c) = o /\ IsFiniteSet(owned[c]) /\ clones[o].hooks = Cardinality(owned[c])
       /\ \A n \in Methods \ owned[c] : ClassValue(cloneSlot[c][n])
  BY <1>4, <1>5 DEF CInv, CloneOf
<1>12. /\ owned'[c] = owned[c] \cup {m}
       /\ \A n \in Methods \ {m} : cloneSlot'[c][n] = cloneSlot[c][n]
       /\ \A d \in Hooks \ {c} : owned'[d] = owned[d] /\ cloneSlot'[d] = cloneSlot[d]
  BY <1>1, <1>7 DEF Types, ObjType
<1>13. /\ clones'[o].clone = c /\ clones'[o].original = Original
       /\ clones'[o].hooks = clones[o].hooks + 1
       /\ \A p \in Objects \ {o} : clones'[p] = clones[p]
  BY <1>1, <1>5, <1>7, <1>11 DEF Types, ObjType
<1>14. IsFiniteSet(owned'[c]) /\ clones'[o].hooks = Cardinality(owned'[c])
  <2>1. PICK S : S = owned[c]
    OBVIOUS
  <2>2. IsFiniteSet(S) /\ m \notin S
    BY <1>7, <1>11, <2>1
  <2>3. IsFiniteSet(S \cup {m}) /\ Cardinality(S \cup {m}) = Cardinality(S) + 1
    BY <2>2, FS_AddElement
  <2>4. QED
    BY <1>11, <1>12, <1>13, <2>1, <2>3
<1>15. ASSUME NEW p \in Objects PROVE CloneOf(p)'
  <2>1. CloneOf(p)
    BY DEF CInv
  <2>2. CASE p = o
    <3>1. ASSUME NEW n \in Methods \ owned'[c] PROVE ClassValue(cloneSlot[c][n])'
      BY <1>10, <1>11, <1>12 DEF ClassValue
    <3>2. Place(c)' \in Instances /\ Object(c)' = o
      BY <1>9, <1>11 DEF Object
    <3>3. c \notin freed' /\ vptr'[o] = c
      BY <1>7, <1>11
    <3>4. QED
      BY <1>13, <1>14, <2>2, <3>1, <3>2, <3>3 DEF CloneOf
  <2>3. CASE p # o
    <3>1. SUFFICES ASSUME clones[p] # NoEntry, NEW d \in Hooks, d = clones[p].clone
                   PROVE  /\ d \notin freed' /\ clones[p].original = Original
                          /\ Place(d)' \in Instances /\ Object(d)' = p
                          /\ IsFiniteSet(owned'[d])
                          /\ clones[p].hooks = Cardinality(owned'[d])
                          /\ \A n \in Methods \ owned'[d] : ClassValue(cloneSlot[d][n])'
      BY <1>1, <1>7, <1>13, <2>1, <2>3 DEF CloneOf, EntryOK
    <3>2. d # c
      BY <1>11, <2>1, <2>3, <3>1 DEF CloneOf
    <3>3. ASSUME NEW n \in Methods \ owned[d] PROVE ClassValue(cloneSlot[d][n])'
      BY <1>10, <1>12, <2>1, <3>1, <3>2 DEF CloneOf, ClassValue
    <3>4. QED
      BY <1>7, <1>9, <1>12, <2>1, <3>1, <3>2, <3>3 DEF CloneOf, Object
  <2>4. QED
    BY <2>2, <2>3
<1>16. ASSUME NEW g \in Hooks PROVE UsedOf(g)'
  <2>1. UsedClone(g)' => UsedClone(g)
    BY <1>5, <1>7, <1>13 DEF UsedClone
  <2>2. QED
    BY <1>9, <2>1, UsedKept DEF CInv, PlacesKept
<1>17. ASSUME NEW g \in Hooks, hook[g].active, Place(g) \in Instances PROVE Place(g) # Place(h)
  <2>1. hook[g].clone = clones[Object(g)].clone /\ Method(g) \in owned[hook[g].clone]
    BY <1>17 DEF CInv, ActiveOf
  <2>2. QED
    BY <1>2, <1>3, <1>5, <1>7, <2>1 DEF Object, Method
<1>18. ASSUME NEW g \in Hooks PROVE ActiveOf(g)'
  <2>1. SUFFICES ASSUME Place(g) \in Instances, hook'[g].active PROVE ActiveOf(g)'
    BY <1>9 DEF ActiveOf
  <2>2. Object(g)' = Object(g) /\ Method(g)' = Method(g)
    BY <1>9 DEF Object, Method
  <2>3. CASE g = h
    <3>1. hook'[h].clone = c /\ hook'[h].orig = v
      BY <1>8 DEF InstalledGuard
    <3>2. clones'[o] # NoEntry
      BY <1>13, NoEntryClone
    <3>3. m \in owned'[c]
      BY <1>12
    <3>4. ClassValue(hook[h].orig)'
      BY <1>6, <1>7, <1>10, <1>11, <3>1 DEF ClassValue
    <3>5. \A f \in Hooks : hook'[f].active /\ Place(f)' = Place(h)' => f = h
      BY <1>8, <1>9, <1>17, <2>1, <2>3 DEF InstalledGuard
    <3>6. QED
      BY <1>2, <1>3, <1>13, <2>2, <2>3, <3>1, <3>2, <3>3, <3>4, <3>5 DEF ActiveOf
  <2>4. CASE g # h
    <3>1. hook'[g] = hook[g] /\ hook[g].active
      BY <1>8, <2>1, <2>4 DEF InstalledGuard
    <3>2. /\ clones[Object(g)] # NoEntry /\ hook[g].clone = clones[Object(g)].clone
          /\ Method(g) \in owned[hook[g].clone] /\ ClassValue(hook[g].orig)
          /\ \A f \in Hooks : hook[f].active /\ Place(f) = Place(g) => f = g
          /\ Object(g) \in Objects
      BY <1>1, <2>1, <3>1, OnInstance DEF CInv, ActiveOf, Types
    <3>3. ClassValue(hook[g].orig)'
      BY <1>10, <3>1, <3>2 DEF ClassValue
    <3>4. \A f \in Hooks : hook'[f].active /\ Place(f)' = Place(g)' => f = g
      BY <1>8, <1>9, <1>17, <2>1, <3>1, <3>2 DEF InstalledGuard
    <3>5. clones'[Object(g)] # NoEntry /\ clones'[Object(g)].clone = clones[Object(g)].clone
      BY <1>5, <1>13, <3>2, NoEntryClone
    <3>6. Method(g) \in owned'[hook[g].clone]
      <4>1. hook[g].clone \in Hooks
        BY <1>1, <3>2 DEF EntryOK
      <4>2. QED
        BY <1>12, <3>2, <4>1
    <3>7. QED
      BY <2>2, <3>1, <3>2, <3>3, <3>4, <3>5, <3>6 DEF ActiveOf
  <2>5. QED
    BY <2>3, <2>4
<1>19. \A g \in Hooks : EnabledOf(g)'
  BY <1>8, <1>9 DEF CInv, EnabledOf, InstalledGuard
<1>20. \A u \in Threads : ActiveList(u)'
  <2>1. \A u \in Threads : u # t => ActiveList(u)'
    <3>1. ASSUME NEW u \in Threads, u # t PROVE ActiveList(u)'
      <4>1. Same(u) /\ ActiveList(u) /\ \A k \in DOMAIN installed[u] : installed[u][k] \in Hooks
        BY <1>1, <3>1, InLists DEF HandsKept, CInv
      <4>2. \A g \in Hooks : hook[g].active => hook'[g].active
        BY <1>8 DEF InstalledGuard
      <4>3. QED
        BY <4>1, <4>2 DEF Same, ActiveList
    <3>2. QED
      BY <3>1
  <2>2. QED
    BY <2>1
<1>21. QED
  BY <1>15, <1>16, <1>18, <1>19, <1>20 DEF CInv

LEMMA NewKept ==
  ASSUME TInv, OInv, CInv, NEW t \in Threads, HandsKept(t), stage' = stage,
         NEW h \in Hooks, Place(h) \in Instances, ~UsedClone(h),
         stage[h] = "queued", NewClone(t, h), ActiveList(t)', Handed(h)'
  PROVE  CInv'
<1>1. Types /\ EntryOK
  BY DEF TInv
<1>2. PICK o \in Objects : o = Object(h)
  BY <1>1, OnInstance DEF Types
<1>3. PICK m \in Methods : m = Method(h)
  BY <1>1, OnInstance DEF Types
<1>4. clones[o] = NoEntry
  BY <1>2 DEF NewClone
<1>5. vptr[o] = Original
  BY <1>1, <1>4, NoEntryClone DEF CInv, CloneOf, Types, ObjType, Pointer
<1>6. PICK table : table = [n \in Methods |-> slot[n]]
  OBVIOUS
<1>7. /\ cloneSlot' = [cloneSlot EXCEPT ![h] = [table EXCEPT ![m] = h]]
      /\ owned' = [owned EXCEPT ![h] = {m}]
      /\ vptr' = [vptr EXCEPT ![o] = h]
      /\ clones' = [clones EXCEPT ![o] = [clone |-> h, original |-> Original, hooks |-> 1]]
      /\ UNCHANGED freed
      /\ Installed(t, h, table[m], h)
  BY <1>2, <1>3, <1>5, <1>6 DEF NewClone
<1>8. InstalledGuard(h, table[m], h)
  BY <1>1, <1>7 DEF Installed, InstalledGuard, Types, HookType, Place
<1>9. \A g \in Hooks : Place(g)' = Place(g)
  BY <1>8 DEF InstalledGuard, Place
<1>10. \A w : ClassValue(w) => ClassValue(w)'
  BY <1>9 DEF ClassValue
<1>11. \A n \in Methods : ClassValue(table[n])
  <2>1. ASSUME NEW n \in Methods, slot[n] \in Hooks PROVE Place(slot[n]) \in Slots
    BY <2>1, SlotKinds DEF OInv, OwnerOK, Owns
  <2>2. QED
    BY <1>6, <2>1 DEF ClassValue
<1>12. /\ owned'[h] = {m}
       /\ \A n \in Methods \ {m} : cloneSlot'[h][n] = table[n]
       /\ \A d \in Hooks \ {h} : owned'[d] = owned[d] /\ cloneSlot'[d] = cloneSlot[d]
  BY <1>1, <1>6, <1>7 DEF Types, ObjType
<1>13. /\ clones'[o].clone = h /\ clones'[o].original = Original
       /\ clones'[o].hooks = 1 /\ vptr'[o] = h
       /\ \A p \in Objects \ {o} : clones'[p] = clones[p] /\ vptr'[p] = vptr[p]
  BY <1>1, <1>7 DEF Types, ObjType
<1>14. IsFiniteSet(owned'[h]) /\ clones'[o].hooks = Cardinality(owned'[h])
  BY <1>12, <1>13, FS_Singleton
<1>15. h \notin freed /\ \A p \in Objects : clones[p].clone # h
  BY DEF UsedClone
<1>16. ASSUME NEW p \in Objects PROVE CloneOf(p)'
  <2>1. CloneOf(p)
    BY DEF CInv
  <2>2. CASE p = o
    <3>1. ASSUME NEW n \in Methods \ owned'[h] PROVE ClassValue(cloneSlot[h][n])'
      BY <1>10, <1>11, <1>12 DEF ClassValue
    <3>2. Place(h)' \in Instances /\ Object(h)' = o
      BY <1>2, <1>9 DEF Object
    <3>3. QED
      BY <1>7, <1>13, <1>14, <1>15, <2>2, <3>1, <3>2 DEF CloneOf
  <2>3. CASE p # o
    <3>1. SUFFICES ASSUME clones[p] # NoEntry, NEW d \in Hooks, d = clones[p].clone
                   PROVE  /\ d \notin freed' /\ clones[p].original = Original
                          /\ Place(d)' \in Instances /\ Object(d)' = p
                          /\ IsFiniteSet(owned'[d])
                          /\ clones[p].hooks = Cardinality(owned'[d])
                          /\ \A n \in Methods \ owned'[d] : ClassValue(cloneSlot[d][n])'
      BY <1>1, <1>13, <2>1, <2>3 DEF CloneOf, EntryOK
    <3>2. d # h
      BY <1>15, <3>1
    <3>3. ASSUME NEW n \in Methods \ owned[d] PROVE ClassValue(cloneSlot[d][n])'
      BY <1>10, <1>12, <2>1, <3>1, <3>2 DEF CloneOf, ClassValue
    <3>4. QED
      BY <1>7, <1>9, <1>12, <2>1, <3>1, <3>2, <3>3 DEF CloneOf, Object
  <2>4. QED
    BY <2>2, <2>3
<1>17. ASSUME NEW g \in Hooks PROVE UsedOf(g)'
  <2>1. UsedClone(g)' => UsedClone(g) \/ g = h
    BY <1>7, <1>13 DEF UsedClone
  <2>2. CASE g = h
    BY <1>9, <2>2 DEF UsedOf
  <2>3. CASE g # h
    BY <1>9, <2>1, <2>3, UsedKept DEF CInv, PlacesKept
  <2>4. QED
    BY <2>2, <2>3
<1>18. ASSUME NEW g \in Hooks, hook[g].active, Place(g) \in Instances
       PROVE  /\ Object(g) \in Objects \ {o} /\ Place(g) # Place(h)
              /\ clones[Object(g)] # NoEntry /\ hook[g].clone = clones[Object(g)].clone
              /\ hook[g].clone \in Hooks \ {h}
  <2>1. /\ clones[Object(g)] # NoEntry /\ hook[g].clone = clones[Object(g)].clone
        /\ Object(g) \in Objects
    BY <1>1, <1>18, OnInstance DEF CInv, ActiveOf, Types
  <2>2. Object(g) # o /\ hook[g].clone \in Hooks \ {h}
    BY <1>1, <1>4, <1>15, <2>1 DEF EntryOK
  <2>3. QED
    BY <1>2, <2>1, <2>2 DEF Object
<1>19. ASSUME NEW g \in Hooks PROVE ActiveOf(g)'
  <2>1. SUFFICES ASSUME Place(g) \in Instances, hook'[g].active PROVE ActiveOf(g)'
    BY <1>9 DEF ActiveOf
  <2>2. Object(g)' = Object(g) /\ Method(g)' = Method(g)
    BY <1>9 DEF Object, Method
  <2>3. CASE g = h
    <3>1. hook'[h].clone = h /\ hook'[h].orig = table[m]
      BY <1>8 DEF InstalledGuard
    <3>2. clones'[o] # NoEntry
      BY <1>13, NoEntryClone
    <3>3. m \in owned'[h]
      BY <1>12
    <3>4. ClassValue(hook[h].orig)'
      BY <1>10, <1>11, <3>1 DEF ClassValue
    <3>5. \A f \in Hooks : hook'[f].active /\ Place(f)' = Place(h)' => f = h
      BY <1>8, <1>9, <1>18, <2>1, <2>3 DEF InstalledGuard
    <3>6. QED
      BY <1>2, <1>3, <1>13, <2>2, <2>3, <3>1, <3>2, <3>3, <3>4, <3>5 DEF ActiveOf
  <2>4. CASE g # h
    <3>1. hook'[g] = hook[g] /\ hook[g].active
      BY <1>8, <2>1, <2>4 DEF InstalledGuard
    <3>2. /\ Method(g) \in owned[hook[g].clone] /\ ClassValue(hook[g].orig)
          /\ \A f \in Hooks : hook[f].active /\ Place(f) = Place(g) => f = g
      BY <2>1, <3>1 DEF CInv, ActiveOf
    <3>3. ClassValue(hook[g].orig)'
      BY <1>10, <3>1, <3>2 DEF ClassValue
    <3>4. \A f \in Hooks : hook'[f].active /\ Place(f)' = Place(g)' => f = g
      BY <1>8, <1>9, <1>18, <2>1, <3>1, <3>2 DEF InstalledGuard
    <3>5. clones'[Object(g)] = clones[Object(g)] /\ owned'[hook[g].clone] = owned[hook[g].clone]
      BY <1>12, <1>13, <1>18, <2>1, <3>1
    <3>6. QED
      BY <1>18, <2>1, <2>2, <3>1, <3>2, <3>3, <3>4, <3>5 DEF ActiveOf
  <2>5. QED
    BY <2>3, <2>4
<1>20. \A g \in Hooks : EnabledOf(g)'
  BY <1>8, <1>9 DEF CInv, EnabledOf, InstalledGuard
<1>21. \A u \in Threads : u # t => ActiveList(u)'
  <2>1. ASSUME NEW u \in Threads, u # t PROVE ActiveList(u)'
    <3>1. Same(u) /\ ActiveList(u) /\ \A k \in DOMAIN installed[u] : installed[u][k] \in Hooks
      BY <1>1, <2>1, InLists DEF HandsKept, CInv
    <3>2. \A g \in Hooks : hook[g].active => hook'[g].active
      BY <1>8 DEF InstalledGuard
    <3>3. QED
      BY <3>1, <3>2 DEF Same, ActiveList
  <2>2. QED
    BY <2>1
<1>22. QED
  BY <1>16, <1>17, <1>19, <1>20, <1>21 DEF CInv

-----------------------------------------------------------------------------
(* The stubs, when one hook or none changes its claim.                     *)
LEMMA StubsKept ==
  ASSUME TInv, OInv, SInv, NEW t \in Threads, HandsKept(t), PlacesKept,
         \A g \in Hooks : Met(g)' /\ Met(g) =>
             /\ stub'[g] \in {stub[g], "original"}
             /\ hook[g].claimed \/ Eats(t, g) \/ Retires(t, g) => Kept(g)',
         \A g \in Hooks : Met(g)' /\ ~Met(g) => StubOf(g)',
         \A g \in Hooks : stage[g] = "queued" /\ g \notin QueuedHooks(t) => stub'[g] = stub[g],
         PreparedOf(t)'
  PROVE  SInv'
<1>1. ASSUME NEW g \in Hooks PROVE StubOf(g)'
  <2>1. CASE Met(g)' /\ Met(g)
    <3>1. /\ Handed(g) /\ Place(g) \in Exports /\ stub[g] \in {"detour", "original"} /\ Kept(g)
      BY <2>1 DEF SInv, StubOf
    <3>2. Handed(g)'
      BY <3>1, HandedKept
    <3>3. Place(g)' \in Exports
      BY <3>1, SlotKinds, PlacesAssumption DEF PlacesKept
    <3>4. stub'[g] \in {"detour", "original"} /\ (stub[g] = "original" => stub'[g] = "original")
      BY <2>1, <3>1
    <3>5. Kept(g)'
      <4>1. CASE stub[g] = "original"
        BY <3>4, <4>1 DEF Kept
      <4>2. CASE hook[g].claimed \/ Eats(t, g) \/ Retires(t, g)
        BY <2>1, <4>2
      <4>3. ASSUME NEW u \in Threads, u # t, Eats(u, g) \/ Retires(u, g) PROVE Kept(g)'
        <5>1. Eats(u, g)' \/ Retires(u, g)'
          BY <4>3 DEF HandsKept, Same, Eats, Retires
        <5>2. QED
          BY <5>1 DEF Kept
      <4>4. QED
        BY <3>1, <4>1, <4>2, <4>3 DEF Kept
    <3>6. QED
      BY <3>2, <3>3, <3>4, <3>5 DEF StubOf
  <2>2. CASE ~Met(g)'
    BY <2>2 DEF StubOf
  <2>3. QED
    BY <2>1, <2>2
<1>2. ASSUME NEW u \in Threads, u # t PROVE PreparedOf(u)'
  <2>1. Same(u) /\ PreparedOf(u) /\ POf(u)
    BY <1>2 DEF HandsKept, SInv, TInv, PInv
  <2>2. SUFFICES ASSUME pc[u] \in {"lock", "apply", "eat_protect"}, NEW g \in NeedsStub(u)'
                 PROVE  stub'[g] = "detour"
    BY <2>1 DEF PreparedOf, Same
  <2>3. g \in QueuedHooks(u) /\ g \in Far /\ Place(g)' \in Exports
    BY <2>1, <2>2 DEF NeedsStub, QueuedHooks, Same
  <2>4. PICK i \in DOMAIN queue[u] : queue[u][i].op = "attach" /\ queue[u][i].hook = g
    BY <2>3 DEF QueuedHooks
  <2>5. g \in Hooks /\ queue[u][i] = Entry("attach", g) /\ stage[g] = "queued"
    <3>1. pc[u] # "finalize" /\ ~Dismantling(u)
      BY <2>2 DEF Dismantling, DropPcs
    <3>2. QED
      BY <2>1, <2>4, <3>1, InQueue DEF TInv, POf, QueueOf
  <2>6. g \notin QueuedHooks(t)
    <3>1. ASSUME NEW j \in DOMAIN queue[t], queue[t][j].op = "attach", queue[t][j].hook = g
          PROVE  FALSE
      <4>1. queue[t][j] = Entry("attach", g)
        BY <3>1, InQueue DEF TInv
      <4>2. QED
        BY <1>2, <2>5, <4>1 DEF TInv, PInv, QueueUnique
    <3>2. QED
      BY <3>1 DEF QueuedHooks
  <2>7. Place(g)' = Place(g)
    BY <2>5 DEF PlacesKept, OInv, GuardOf
  <2>8. g \in NeedsStub(u)
    BY <2>3, <2>7 DEF NeedsStub
  <2>9. QED
    BY <2>1, <2>2, <2>5, <2>6, <2>8 DEF PreparedOf
<1>3. QED
  BY <1>1, <1>2 DEF SInv

(* A hook of a queue that its commit has not got to, or has not installed. *)
LEMMA NotHanded ==
  ASSUME TInv, NEW t \in Threads, NEW h \in Hooks, stage[h] = "queued", h \in QueuedHooks(t),
         ~HeldBy(t, h)
  PROVE  ~Handed(h)
<1>1. SUFFICES ASSUME Handed(h) PROVE FALSE
  OBVIOUS
<1>2. PICK u \in Threads : HeldBy(u, h)
  BY <1>1 DEF Handed
<1>3. u # t /\ InHand(u, h)
  BY <1>2 DEF HeldBy, InHand
<1>4. Taken(t, h)
  BY DEF Taken, QueuedHooks
<1>5. QED
  BY <1>3, <1>4, OnlyHand DEF TInv

(* The guards stay as they are, and the stubs of all that anyone has met.  *)
LEMMA SameGuards ==
  ASSUME TInv, OInv, RInv, NEW t \in Threads, HandsKept(t),
         UNCHANGED <<vptr, clones, cloneSlot, owned, freed, hook, resolved>>,
         \A g \in Hooks : (Eats(t, g)' <=> Eats(t, g)) /\ (Retires(t, g)' <=> Retires(t, g)),
         \A g \in Hooks : stage'[g] \notin {"dropping", "gone"} => stage[g] \notin {"dropping", "gone"},
         ActiveList(t)',
         Retargetable /\ SInv =>
             /\ PreparedOf(t)'
             /\ \A g \in Hooks : stub'[g] = stub[g] \/ (~Met(g) /\ g \in QueuedHooks(t))
  PROVE  RInv'
<1>1. CInv /\ (Retargetable => SInv)
  BY DEF RInv
<1>2. \A g \in Hooks : Place(g)' = Place(g)
  BY DEF Place
<1>3. GuardsKept /\ ObjectsKept
  BY <1>2 DEF GuardsKept, PlacesKept, ObjectsKept
<1>4. \A g \in Hooks : EnabledOf(g)'
  BY <1>1, <1>2 DEF CInv, EnabledOf
<1>5. CInv'
  BY <1>1, <1>3, <1>4, ClonesKept
<1>6. ASSUME Retargetable PROVE SInv'
  <2>1. SInv /\ PreparedOf(t)'
        /\ \A g \in Hooks : stub'[g] = stub[g] \/ (~Met(g) /\ g \in QueuedHooks(t))
    BY <1>1, <1>6
  <2>2. \A u \in Threads : \A g \in Hooks :
            (Eats(u, g)' <=> Eats(u, g)) /\ (Retires(u, g)' <=> Retires(u, g))
    BY DEF HandsKept, Same, Eats, Retires
  <2>3. ASSUME NEW g \in Hooks PROVE Met(g)' <=> Met(g)
    BY <1>2, <2>2 DEF Met
  <2>4. ASSUME NEW g \in Hooks, hook[g].claimed \/ Eats(t, g) \/ Retires(t, g) PROVE Kept(g)'
    BY <2>2, <2>4 DEF Kept
  <2>5. QED
    BY <1>3, <2>1, <2>3, <2>4, StubsKept DEF GuardsKept
<1>7. QED
  BY <1>5, <1>6 DEF RInv

LEMMA EnqueueRoles ==
  ASSUME TInv, TInv', OInv, RInv, NEW t \in Threads, NEW h \in Hooks,
         NEW p \in Slots \cup Instances, Enqueue(t, h, p)
  PROVE  RInv'
<1>1. /\ Types /\ CInv /\ (Retargetable => SInv)
      /\ pc[t] = "ready" /\ stage[h] = "new"
      /\ hook' = [hook EXCEPT ![h].place = p]
      /\ stage' = [stage EXCEPT ![h] = "queued"]
      /\ queue' = [queue EXCEPT ![t] = Append(@, [op |-> "attach", hook |-> h])]
      /\ UNCHANGED <<vptr, clones, cloneSlot, owned, freed, stub, resolved, installed,
                     detached, idx, pc, arg, after>>
  BY DEF TInv, RInv, Enqueue, Idle, SetStage, Push, tableVars, objVars, callVars
<1>2. hook[h] = NoGuard /\ Place(h) = Original
  <2>1. hook[h] = NoGuard
    BY <1>1 DEF OInv, GuardOf
  <2>2. QED
    BY <2>1 DEF NoGuard, Place
<1>3. /\ \A g \in Hooks \ {h} : hook'[g] = hook[g] /\ stage'[g] = stage[g]
      /\ ~hook'[h].active /\ ~hook'[h].enabled /\ ~hook'[h].claimed /\ ~hook[h].claimed
      /\ ~hook[h].active
  BY <1>1, <1>2 DEF Types, HookType, Guard, NoGuard
<1>4. HandsKept(t)
  <2>1. \A u \in Threads \ {t} : Same(u)
    BY <1>1 DEF Same, Types, TxType
  <2>2. \A g \in Hooks : HeldBy(t, g)' <=> HeldBy(t, g)
    BY <1>1 DEF HeldBy, Eats
  <2>3. QED
    BY <1>1, <1>3, <2>1, <2>2 DEF HandsKept, Types, HookType
<1>5. GuardsKept /\ ObjectsKept
  BY <1>1, <1>2, <1>3 DEF GuardsKept, PlacesKept, ObjectsKept, Place
<1>6. \A g \in Hooks : EnabledOf(g)'
  BY <1>1, <1>3 DEF CInv, EnabledOf, Place
<1>7. ActiveList(t)'
  <2>1. installed[t] = << >>
    BY <1>1 DEF TInv, PInv, POf, CountOf, Outside
  <2>2. QED
    BY <1>1, <2>1 DEF ActiveList
<1>8. CInv'
  BY <1>1, <1>4, <1>5, <1>6, <1>7, ClonesKept
<1>9. ASSUME Retargetable PROVE SInv'
  <2>1. \A u \in Threads : \A g \in Hooks :
            (Eats(u, g)' <=> Eats(u, g)) /\ (Retires(u, g)' <=> Retires(u, g))
    BY <1>1, <1>4 DEF Eats, Retires, HandsKept, Same
  <2>2. ~Met(h)
    BY <1>1, <1>9 DEF SInv, StubOf, Handed
  <2>3. ASSUME NEW g \in Hooks PROVE Met(g)' => Met(g)
    <3>1. CASE g = h
      BY <1>1, <1>3, <2>1, <3>1 DEF Met
    <3>2. CASE g # h
      BY <1>1, <1>3, <2>1, <3>2 DEF Met, Place
    <3>3. QED
      BY <3>1, <3>2
  <2>4. ASSUME NEW g \in Hooks, hook[g].claimed \/ Eats(t, g) \/ Retires(t, g) PROVE Kept(g)'
    BY <1>3, <2>1, <2>4 DEF Kept
  <2>5. PreparedOf(t)'
    BY <1>1 DEF PreparedOf
  <2>6. QED
    BY <1>1, <1>4, <1>5, <1>9, <2>3, <2>4, <2>5, StubsKept DEF GuardsKept
<1>10. QED
  BY <1>8, <1>9 DEF RInv

LEMMA detachRoles ==
  ASSUME TInv, OInv, RInv, NEW t \in Threads, NEW h \in Hooks, detach(t, h)
  PROVE  RInv'
<1>1. /\ Types /\ pc[t] = "ready" /\ stage[h] = "live"
      /\ stage' = [stage EXCEPT ![h] = "borrowed"]
      /\ queue' = [queue EXCEPT ![t] = Append(@, [op |-> "detach", hook |-> h])]
      /\ UNCHANGED <<vptr, clones, cloneSlot, owned, freed, hook, stub, resolved, installed,
                     detached, idx, pc, arg, after>>
  BY DEF TInv, detach, Idle, SetStage, Push, tableVars, objVars, callVars
<1>2. \A g \in Hooks : /\ HeldBy(t, g)' <=> HeldBy(t, g)
                       /\ Eats(t, g)' <=> Eats(t, g)
                       /\ Retires(t, g)' <=> Retires(t, g)
                       /\ stage'[g] = stage[g] \/ (g = h /\ stage'[g] = "borrowed")
  BY <1>1 DEF HeldBy, Eats, Retires, Types, HookType
<1>3. HandsKept(t)
  <2>1. \A u \in Threads \ {t} : Same(u)
    BY <1>1 DEF Same, Types, TxType
  <2>2. QED
    BY <1>1, <1>2, <2>1 DEF HandsKept, Types, HookType
<1>4. ActiveList(t)' /\ PreparedOf(t)'
  BY <1>1 DEF RInv, CInv, ActiveList, PreparedOf
<1>5. QED
  BY <1>1, <1>2, <1>3, <1>4, SameGuards

LEMMA commitRoles ==
  ASSUME TInv, OInv, RInv, NEW t \in Threads, commit(t)
  PROVE  RInv'
<1>1. /\ Types /\ PInv /\ pc[t] = "ready"
      /\ UNCHANGED <<vptr, clones, cloneSlot, owned, freed, hook, resolved, installed,
                     detached, idx, arg, after>>
      /\ \/ /\ stub' = [h \in Hooks |-> IF h \in NeedsStub(t) THEN "detour" ELSE stub[h]]
            /\ pc' = [pc EXCEPT ![t] = "lock"] /\ UNCHANGED <<queue, stage>>
         \/ DropQueue(t) /\ UNCHANGED <<stub, pc>>
  BY DEF TInv, commit, Idle, Goto, objVars
<1>2. installed[t] = << >> /\ \A g \in Hooks : ~HeldBy(t, g) /\ ~Eats(t, g) /\ ~Retires(t, g)
  <2>1. installed[t] = << >>
    BY <1>1 DEF PInv, POf, CountOf, Outside
  <2>2. QED
    BY <1>1, <2>1 DEF HeldBy, Eats, Retires
<1>3. ActiveList(t)'
  BY <1>1, <1>2 DEF ActiveList
<1>4. CASE /\ stub' = [h \in Hooks |-> IF h \in NeedsStub(t) THEN "detour" ELSE stub[h]]
           /\ pc' = [pc EXCEPT ![t] = "lock"] /\ UNCHANGED <<queue, stage>>
  <2>1. pc'[t] = "lock" /\ \A u \in Threads \ {t} : Same(u)
    BY <1>1, <1>4 DEF Same, Types, CallType
  <2>2. HandsKept(t)
    BY <1>2, <1>4, <2>1 DEF HandsKept
  <2>3. \A g \in Hooks : ~Eats(t, g)' /\ ~Retires(t, g)'
    BY <2>1 DEF Eats, Retires
  <2>4. \A g \in QueuedHooks(t) : g \in Hooks /\ stage[g] = "queued"
    <3>1. POf(t) /\ ~Dismantling(t) /\ pc[t] # "finalize"
      BY <1>1 DEF PInv, Dismantling, DropPcs
    <3>2. QED
      BY <1>1, <3>1, InQueue DEF POf, QueueOf, QueuedHooks
  <2>5. ASSUME SInv, NEW g \in NeedsStub(t) PROVE g \in QueuedHooks(t) /\ ~Met(g)
    <3>1. g \in QueuedHooks(t) /\ g \in Hooks /\ stage[g] = "queued"
      BY <2>4 DEF NeedsStub
    <3>2. ~Handed(g)
      BY <1>2, <3>1, NotHanded
    <3>3. QED
      BY <2>5, <3>1, <3>2 DEF SInv, StubOf
  <2>6. PreparedOf(t)'
    <3>1. NeedsStub(t)' = NeedsStub(t) /\ NeedsStub(t) \subseteq Hooks
      BY <1>1, <1>4, <2>4 DEF NeedsStub, QueuedHooks, Place
    <3>2. QED
      BY <1>4, <3>1 DEF PreparedOf
  <2>7. ASSUME SInv, NEW g \in Hooks PROVE stub'[g] = stub[g] \/ (~Met(g) /\ g \in QueuedHooks(t))
    BY <1>4, <2>5, <2>7
  <2>8. QED
    BY <1>1, <1>2, <1>3, <1>4, <2>2, <2>3, <2>6, <2>7, SameGuards
<1>5. CASE DropQueue(t) /\ UNCHANGED <<stub, pc>>
  <2>1. \A g \in Hooks : \/ stage'[g] = stage[g]
                         \/ stage[g] = "queued" /\ stage'[g] = "gone"
                         \/ stage[g] = "borrowed" /\ stage'[g] = "live"
    BY <1>1, <1>5, DropQueueStages
  <2>2. \A u \in Threads \ {t} : Same(u)
    BY <1>1, <1>5, NoQueue DEF Same
  <2>3. HandsKept(t)
    BY <1>2, <2>1, <2>2 DEF HandsKept
  <2>4. \A g \in Hooks : ~Eats(t, g)' /\ ~Retires(t, g)'
    BY <1>1, <1>5 DEF Eats, Retires
  <2>5. PreparedOf(t)'
    BY <1>1, <1>5 DEF PreparedOf
  <2>6. QED
    BY <1>1, <1>2, <1>3, <1>5, <2>1, <2>3, <2>4, <2>5, SameGuards
<1>6. QED
  BY <1>1, <1>4, <1>5

LEMMA commit_lockRoles ==
  ASSUME TInv, OInv, RInv, NEW t \in Threads, commit_lock(t)
  PROVE  RInv'
<1>1. /\ Types /\ pc[t] = "lock" /\ pc' = [pc EXCEPT ![t] = "apply"]
      /\ idx' = [idx EXCEPT ![t] = 1]
      /\ UNCHANGED <<vptr, clones, cloneSlot, owned, freed, hook, stub, stage, resolved, queue,
                     installed, detached, arg, after>>
  BY DEF TInv, commit_lock, Goto, tableVars, objVars
<1>2. pc'[t] = "apply" /\ \A u \in Threads \ {t} : Same(u)
  BY <1>1 DEF Same, Types, CallType, TxType
<1>3. \A g \in Hooks : /\ HeldBy(t, g)' <=> HeldBy(t, g)
                       /\ ~Eats(t, g)' /\ ~Eats(t, g) /\ ~Retires(t, g)' /\ ~Retires(t, g)
  BY <1>1, <1>2 DEF HeldBy, Eats, Retires
<1>4. HandsKept(t)
  BY <1>1, <1>2, <1>3 DEF HandsKept
<1>5. ActiveList(t)'
  BY <1>1, <1>2 DEF RInv, CInv, ActiveList
<1>6. SInv => PreparedOf(t)'
  BY <1>1, <1>2 DEF SInv, PreparedOf, NeedsStub, QueuedHooks, Place
<1>7. QED
  BY <1>1, <1>3, <1>4, <1>5, <1>6, SameGuards

LEMMA commit_appliedRoles ==
  ASSUME TInv, OInv, RInv, NEW t \in Threads, commit_applied(t)
  PROVE  RInv'
<1>1. /\ Types /\ PInv /\ pc[t] = "apply" /\ pc' = [pc EXCEPT ![t] = "finalize"]
      /\ stage' = [h \in Hooks |-> IF h \in QueuedHooks(t) THEN "live" ELSE stage[h]]
      /\ UNCHANGED <<vptr, clones, cloneSlot, owned, freed, hook, stub, resolved, queue,
                     installed, detached, idx, arg, after>>
  BY DEF TInv, commit_applied, Goto, tableVars, objVars, txVars
<1>2. pc'[t] = "finalize" /\ \A u \in Threads \ {t} : Same(u)
  BY <1>1 DEF Same, Types, CallType
<1>3. \A g \in Hooks : ~Eats(t, g)' /\ ~Eats(t, g) /\ ~Retires(t, g)' /\ ~Retires(t, g)
  BY <1>1, <1>2 DEF Eats, Retires
<1>4. POf(t) /\ ~Dismantling(t)
  BY <1>1 DEF PInv, Dismantling, DropPcs
<1>5. \A g \in QueuedHooks(t) : stage[g] = "queued"
  BY <1>1, <1>4 DEF POf, QueueOf, QueuedHooks
<1>6. ASSUME NEW g \in Hooks, HeldBy(t, g) PROVE g \in QueuedHooks(t)
  <2>1. PICK k \in DOMAIN installed[t] : installed[t][k] = g
    BY <1>3, <1>6 DEF HeldBy
  <2>2. PICK i \in DOMAIN queue[t] : queue[t][i] = Entry("attach", g)
    BY <1>1, <1>4, <2>1 DEF POf, InstalledOf
  <2>3. QED
    BY <2>2 DEF QueuedHooks, Entry
<1>7. HandsKept(t)
  BY <1>1, <1>2, <1>6 DEF HandsKept
<1>8. ActiveList(t)' /\ PreparedOf(t)'
  BY <1>2 DEF ActiveList, PreparedOf
<1>9. \A g \in Hooks : stage'[g] \notin {"dropping", "gone"} => stage[g] \notin {"dropping", "gone"}
  BY <1>1, <1>5
<1>10. QED
  BY <1>1, <1>3, <1>7, <1>8, <1>9, SameGuards

LEMMA CommitEndsRoles ==
  ASSUME TInv, OInv, RInv, NEW t \in Threads, CommitEnds(t),
         pc[t] = "finalize" \/ (pc[t] = "dismantle" /\ installed[t] = << >>),
         UNCHANGED <<vptr, clones, cloneSlot, owned, freed, hook, resolved, detached, arg, after>>,
         \A g \in Hooks : \/ stub'[g] = stub[g]
                          \/ /\ pc[t] = "dismantle" /\ g \in QueuedHooks(t)
                             /\ stage[g] = "queued"
  PROVE  RInv'
<1>1. /\ Types /\ PInv /\ DropQueue(t)
      /\ installed' = [installed EXCEPT ![t] = << >>] /\ idx' = [idx EXCEPT ![t] = 0]
      /\ pc' = [pc EXCEPT ![t] = "ready"]
  BY DEF TInv, CommitEnds, Goto
<1>2. pc'[t] = "ready" /\ installed'[t] = << >> /\ \A u \in Threads \ {t} : Same(u)
  BY <1>1, NoQueue DEF Same, Types, CallType, TxType
<1>3. \A g \in Hooks : /\ ~Eats(t, g)' /\ ~Eats(t, g) /\ ~Retires(t, g)' /\ ~Retires(t, g)
                       /\ ~HeldBy(t, g)
  BY <1>2 DEF Eats, Retires, HeldBy
<1>4. \A g \in Hooks : \/ stage'[g] = stage[g]
                       \/ stage[g] = "queued" /\ stage'[g] = "gone"
                       \/ stage[g] = "borrowed" /\ stage'[g] = "live"
  BY <1>1, DropQueueStages
<1>5. HandsKept(t)
  BY <1>2, <1>3, <1>4 DEF HandsKept
<1>6. ActiveList(t)' /\ PreparedOf(t)'
  BY <1>2 DEF ActiveList, PreparedOf
<1>7. ASSUME SInv, NEW g \in Hooks PROVE stub'[g] = stub[g] \/ (~Met(g) /\ g \in QueuedHooks(t))
  <2>1. CASE g \in QueuedHooks(t) /\ stage[g] = "queued"
    <3>1. ~Handed(g)
      BY <1>3, <2>1, NotHanded
    <3>2. QED
      BY <1>7, <2>1, <3>1 DEF SInv, StubOf
  <2>2. QED
    BY <2>1
<1>8. QED
  BY <1>3, <1>4, <1>5, <1>6, <1>7, SameGuards

LEMMA commit_endRoles ==
  ASSUME TInv, OInv, RInv, NEW t \in Threads, commit_end(t) \/ dismantle_end(t)
  PROVE  RInv'
<1>1. CASE commit_end(t)
  BY <1>1, CommitEndsRoles DEF commit_end, tableVars, objVars
<1>2. CASE dismantle_end(t)
  <2>1. /\ pc[t] = "dismantle" /\ installed[t] = << >> /\ CommitEnds(t)
        /\ stub' = [h \in Hooks |-> IF h \in QueuedHooks(t) /\ stage[h] = "queued" /\ stub[h] = "detour"
                                    THEN "retired" ELSE stub[h]]
        /\ UNCHANGED <<vptr, clones, cloneSlot, owned, freed, hook, resolved, detached, arg, after>>
    BY <1>2 DEF dismantle_end, objVars
  <2>2. \A g \in Hooks : \/ stub'[g] = stub[g]
                         \/ /\ pc[t] = "dismantle" /\ g \in QueuedHooks(t)
                            /\ stage[g] = "queued"
    BY <2>1
  <2>3. QED
    BY <2>1, <2>2, CommitEndsRoles
<1>3. QED
  BY <1>1, <1>2

LEMMA dismantleRoles ==
  ASSUME TInv, OInv, RInv, NEW t \in Threads, dismantle(t)
  PROVE  RInv'
<1>1. PICK h : h = Head(installed[t])
  OBVIOUS
<1>2. /\ Types /\ pc[t] = "dismantle" /\ installed[t] # << >>
      /\ arg' = [arg EXCEPT ![t] = h] /\ after' = [after EXCEPT ![t] = "dismantle"]
      /\ pc' = [pc EXCEPT ![t] = "drop"] /\ stage' = [stage EXCEPT ![h] = "dropping"]
      /\ installed' = [installed EXCEPT ![t] = Tail(@)]
      /\ UNCHANGED <<vptr, clones, cloneSlot, owned, freed, stub, hook, resolved, queue,
                     detached, idx>>
  BY <1>1 DEF TInv, dismantle, DropNext, SetStage, Goto, tableVars, objVars
<1>3. PICK s \in Seq(Hooks) : s = installed[t]
  BY <1>2 DEF Types, TxType
<1>4. /\ h \in Hooks /\ s # << >> /\ h = s[1] /\ installed'[t] = Tail(s) /\ pc'[t] = "drop"
      /\ stage'[h] = "dropping" /\ \A g \in Hooks \ {h} : stage'[g] = stage[g]
      /\ \A u \in Threads \ {t} : Same(u)
  BY <1>1, <1>2, <1>3 DEF Types, CallType, TxType, HookType, Same
<1>5. \A k \in DOMAIN s : k # 1 => k - 1 \in DOMAIN Tail(s) /\ Tail(s)[k - 1] = s[k]
  BY <1>4
<1>6. \A k \in DOMAIN Tail(s) : \E l \in DOMAIN s : Tail(s)[k] = s[l]
  BY <1>4, TailOf
<1>7. \A g \in Hooks : ~Eats(t, g)' /\ ~Eats(t, g) /\ ~Retires(t, g)' /\ ~Retires(t, g)
  BY <1>2, <1>4 DEF Eats, Retires
<1>8. ASSUME NEW g \in Hooks \ {h}, HeldBy(t, g) PROVE HeldBy(t, g)'
  <2>1. PICK k \in DOMAIN s : s[k] = g /\ k # 1
    BY <1>3, <1>4, <1>7, <1>8 DEF HeldBy
  <2>2. QED
    BY <1>4, <1>5, <2>1 DEF HeldBy
<1>9. HandsKept(t)
  BY <1>4, <1>8 DEF HandsKept
<1>10. ActiveList(t)'
  <2>1. \A k \in DOMAIN s : hook[s[k]].active
    BY <1>2, <1>3 DEF RInv, CInv, ActiveList
  <2>2. QED
    BY <1>2, <1>4, <1>6, <2>1 DEF ActiveList
<1>11. PreparedOf(t)' /\ stub' = stub
  BY <1>2, <1>4 DEF PreparedOf
<1>12. \A g \in Hooks : stage'[g] \notin {"dropping", "gone"} => stage[g] \notin {"dropping", "gone"}
  BY <1>4
<1>13. QED
  BY <1>2, <1>7, <1>9, <1>10, <1>11, <1>12, SameGuards

LEMMA dropRoles ==
  ASSUME TInv, OInv, RInv, NEW t \in Threads, NEW h \in Hooks, drop(t, h)
  PROVE  RInv'
<1>1. /\ Types /\ PInv /\ pc[t] = "ready" /\ stage[h] = "live"
      /\ arg' = [arg EXCEPT ![t] = h] /\ after' = [after EXCEPT ![t] = "ready"]
      /\ pc' = [pc EXCEPT ![t] = "drop"] /\ stage' = [stage EXCEPT ![h] = "dropping"]
      /\ UNCHANGED <<vptr, clones, cloneSlot, owned, freed, stub, hook, resolved, queue,
                     installed, detached, idx>>
  BY DEF TInv, drop, Idle, DropNext, SetStage, Goto, tableVars, objVars, txVars
<1>2. /\ pc'[t] = "drop" /\ stage'[h] = "dropping" /\ \A g \in Hooks \ {h} : stage'[g] = stage[g]
      /\ \A u \in Threads \ {t} : Same(u)
  BY <1>1 DEF Types, CallType, HookType, Same
<1>3. \A g \in Hooks : /\ HeldBy(t, g)' <=> HeldBy(t, g)
                       /\ ~Eats(t, g)' /\ ~Eats(t, g) /\ ~Retires(t, g)' /\ ~Retires(t, g)
  BY <1>1, <1>2 DEF HeldBy, Eats, Retires
<1>4. HandsKept(t)
  BY <1>2, <1>3 DEF HandsKept
<1>5. ActiveList(t)' /\ PreparedOf(t)'
  BY <1>1, <1>2 DEF RInv, CInv, ActiveList, PreparedOf
<1>6. \A g \in Hooks : stage'[g] \notin {"dropping", "gone"} => stage[g] \notin {"dropping", "gone"}
  BY <1>2
<1>7. QED
  BY <1>1, <1>3, <1>4, <1>5, <1>6, SameGuards

-----------------------------------------------------------------------------
(* A store into a slot of a clone, by the hook that owns it.               *)
LEMMA WriteObjects ==
  ASSUME TInv, CInv, NEW h \in Hooks, NEW v \in Pointer, Write(h, v),
         Place(h) \in Instances => hook[h].active
  PROVE  ObjectsKept
<1>1. CASE Place(h) \in Slots /\ write_slot(h, v)
  BY <1>1 DEF write_slot, objVars, ObjectsKept
<1>2. CASE Place(h) \in Instances /\ write_clone_slot(h, v)
  <2>1. Method(h) \in owned[hook[h].clone]
    BY <1>2 DEF CInv, ActiveOf
  <2>2. /\ cloneSlot' = [cloneSlot EXCEPT ![hook[h].clone][Method(h)] = v]
        /\ UNCHANGED <<vptr, clones, owned, freed>>
    BY <1>2 DEF write_clone_slot
  <2>3. cloneSlot \in [Hooks -> [Methods -> Pointer]]
    BY DEF TInv, Types, ObjType
  <2>4. \A c \in Hooks : \A m \in Methods \ owned[c] : cloneSlot'[c][m] = cloneSlot[c][m]
    BY <2>1, <2>2, <2>3
  <2>5. QED
    BY <2>2, <2>4 DEF ObjectsKept
<1>3. QED
  BY <1>1, <1>2 DEF Write

(* A step that at most enables or disables hooks.                          *)
SwitchOnly ==
    \A g \in Hooks :
        /\ hook'[g].place = hook[g].place /\ hook'[g].orig = hook[g].orig
        /\ hook'[g].clone = hook[g].clone /\ hook'[g].claimed = hook[g].claimed
        /\ hook'[g].active = hook[g].active

LEMMA SwitchRoles ==
  ASSUME TInv, OInv, RInv, NEW t \in Threads, \A u \in Threads \ {t} : Same(u), ObjectsKept,
         UNCHANGED <<stage, stub, resolved, queue, installed>>,
         pc[t] \notin {"eat_protect", "retire_stub", "finalize"},
         pc'[t] \notin {"eat_protect", "retire_stub", "finalize"},
         pc'[t] \in {"lock", "apply"} => pc'[t] = pc[t],
         SwitchOnly, \A g \in Hooks : EnabledOf(g)'
  PROVE  RInv'
<1>1. CInv /\ (Retargetable => SInv) /\ Types
  BY DEF RInv, TInv
<1>2. \A g \in Hooks : /\ HeldBy(t, g)' <=> HeldBy(t, g) 
                       /\ ~Eats(t, g)' /\ ~Eats(t, g) /\ ~Retires(t, g)' /\ ~Retires(t, g)
  BY DEF HeldBy, Eats, Retires
<1>3. HandsKept(t)
  BY <1>1, <1>2 DEF HandsKept, Types, HookType
<1>4. \A g \in Hooks : Place(g)' = Place(g)
  BY DEF SwitchOnly, Place
<1>5. GuardsKept
  BY <1>4 DEF SwitchOnly, GuardsKept, PlacesKept
<1>6. ActiveList(t)'
  <2>1. \A k \in DOMAIN installed[t] : installed[t][k] \in Hooks
    BY <1>1, InLists
  <2>2. QED
    BY <1>1, <2>1 DEF CInv, ActiveList, SwitchOnly
<1>7. CInv'
  BY <1>1, <1>3, <1>5, <1>6, ClonesKept
<1>8. ASSUME Retargetable PROVE SInv'
  <2>1. \A u \in Threads : \A g \in Hooks :
            (Eats(u, g)' <=> Eats(u, g)) /\ (Retires(u, g)' <=> Retires(u, g))
    BY <1>2 DEF Same, Eats, Retires
  <2>2. ASSUME NEW g \in Hooks PROVE Met(g)' <=> Met(g)
    BY <1>4, <2>1 DEF Met, SwitchOnly
  <2>3. ASSUME NEW g \in Hooks, hook[g].claimed \/ Eats(t, g) \/ Retires(t, g) PROVE Kept(g)'
    BY <2>1, <2>3 DEF Kept, SwitchOnly
  <2>4. PreparedOf(t)'
    <3>1. QueuedHooks(t) \subseteq Hooks
      BY <1>1, InQueue DEF QueuedHooks
    <3>2. NeedsStub(t)' = NeedsStub(t)
      BY <1>4, <3>1 DEF NeedsStub, QueuedHooks
    <3>3. QED
      BY <1>1, <1>8, <3>2 DEF SInv, PreparedOf
  <2>5. QED
    BY <1>1, <1>3, <1>5, <1>8, <2>2, <2>3, <2>4, StubsKept DEF GuardsKept
<1>9. QED
  BY <1>7, <1>8 DEF RInv

(* A failed step, or the end of a part of the rollback.                    *)
LEMMA MoveRoles ==
  ASSUME TInv, OInv, RInv, NEW t \in Threads,
         UNCHANGED <<vptr, clones, cloneSlot, owned, freed, hook, stage, stub, resolved, queue,
                     installed, detached, arg, after>>,
         \A u \in Threads \ {t} : idx'[u] = idx[u],
         NEW to \in {"undo_detaches", "rollback", "dismantle"}, pc' = [pc EXCEPT ![t] = to],
         pc[t] \notin {"eat_protect", "retire_stub", "finalize"}
  PROVE  RInv'
<1>1. pc'[t] = to /\ \A u \in Threads \ {t} : Same(u)
  BY DEF Same, TInv, Types, CallType
<1>2. ObjectsKept /\ SwitchOnly
  BY DEF ObjectsKept, SwitchOnly
<1>3. \A g \in Hooks : EnabledOf(g)'
  BY DEF RInv, CInv, EnabledOf, Place
<1>4. QED
  BY <1>1, <1>2, <1>3, SwitchRoles

LEMMA Switch ==
  ASSUME HookType, NEW h \in Hooks, NEW b \in BOOLEAN, hook' = [hook EXCEPT ![h].enabled = b]
  PROVE  SwitchOnly /\ hook'[h].enabled = b /\ \A g \in Hooks \ {h} : hook'[g] = hook[g]
  BY DEF HookType, Guard, SwitchOnly

LEMMA StoreRoles ==
  ASSUME TInv, OInv, RInv, NEW t \in Threads, \A u \in Threads \ {t} : Same(u),
         UNCHANGED <<stage, stub, resolved, queue, installed, pc>>,
         pc[t] \notin {"eat_protect", "retire_stub", "finalize"},
         NEW h \in Hooks, NEW v \in Pointer, Write(h, v),
         NEW b \in BOOLEAN, hook' = [hook EXCEPT ![h].enabled = b],
         Place(h) \in Instances => hook[h].active
  PROVE  RInv'
<1>1. ObjectsKept
  BY WriteObjects DEF RInv
<1>2. SwitchOnly /\ \A g \in Hooks \ {h} : hook'[g] = hook[g]
  BY Switch DEF TInv, Types
<1>3. \A g \in Hooks : EnabledOf(g)'
  <2>1. ASSUME NEW g \in Hooks, g # h PROVE EnabledOf(g)'
    BY <1>2, <2>1 DEF RInv, CInv, EnabledOf, Place
  <2>2. EnabledOf(h)'
    BY <1>2 DEF EnabledOf, SwitchOnly, Place
  <2>3. QED
    BY <2>1, <2>2
<1>4. QED
  BY <1>1, <1>2, <1>3, SwitchRoles

LEMMA ToggleRoles ==
  ASSUME TInv, OInv, RInv, NEW t \in Threads, NEW h \in Hooks, enable(t, h) \/ disable(t, h)
  PROVE  RInv'
<1>1. PICK v \in Pointer : Toggle(t, h, v)
  BY DEF enable, disable, TInv, Types, HookType, Guard, Pointer
<1>2. /\ pc[t] = "ready" /\ stage[h] = "live" /\ Write(h, v)
      /\ hook' = [hook EXCEPT ![h].enabled = ~@]
      /\ UNCHANGED <<stage, stub, resolved, queue, installed, detached, idx, pc, arg, after>>
  BY <1>1 DEF Toggle, Idle, txVars, callVars
<1>3. Place(h) \in Instances => hook[h].active
  BY <1>2 DEF enable, disable, RInv, CInv, EnabledOf
<1>4. PICK b \in BOOLEAN : hook' = [hook EXCEPT ![h].enabled = b]
  BY <1>2
<1>5. \A u \in Threads \ {t} : Same(u)
  BY <1>2 DEF Same
<1>6. QED
  BY <1>2, <1>3, <1>4, <1>5, StoreRoles

LEMMA prepare_detachRoles ==
  ASSUME TInv, OInv, RInv, NEW t \in Threads, prepare_detach(t)
  PROVE  RInv'
<1>1. PICK h : h = queue[t][idx[t]].hook
  OBVIOUS
<1>2. /\ pc[t] = "apply" /\ idx[t] <= Len(queue[t]) /\ queue[t][idx[t]].op = "detach"
      /\ UNCHANGED <<stage, stub, resolved, queue, arg, after>>
  BY DEF prepare_detach, Applies
<1>3. Types /\ PInv /\ HookType
  BY DEF TInv, Types
<1>4. h \in Hooks /\ stage[h] = "borrowed"
  BY <1>1, <1>2, <1>3, AtOperation
<1>5. CASE /\ IF hook[h].enabled
              THEN Write(h, hook[h].orig) /\ hook' = [hook EXCEPT ![h].enabled = FALSE]
              ELSE UNCHANGED <<slot, objVars, hook>>
           /\ detached' = [detached EXCEPT
                              ![t] = Append(@, [hook |-> h, was_enabled |-> hook[h].enabled])]
           /\ idx' = [idx EXCEPT ![t] = @ + 1]
           /\ UNCHANGED <<installed, pc>>
  <2>1. \A u \in Threads \ {t} : Same(u)
    BY <1>2, <1>3, <1>5 DEF Same, Types, TxType
  <2>2. CASE hook[h].enabled
    <3>1. Write(h, hook[h].orig) /\ hook' = [hook EXCEPT ![h].enabled = FALSE]
      BY <1>5, <2>2
    <3>2. hook[h].orig \in Pointer
      BY <1>3, <1>4 DEF HookType, Guard
    <3>3. Place(h) \in Instances => hook[h].active
      BY <1>4, <2>2 DEF RInv, CInv, EnabledOf
    <3>4. QED
      BY <1>2, <1>4, <1>5, <2>1, <3>1, <3>2, <3>3, StoreRoles
  <2>3. CASE ~hook[h].enabled
    <3>1. ObjectsKept /\ SwitchOnly /\ hook' = hook
      BY <1>5, <2>3 DEF objVars, ObjectsKept, SwitchOnly
    <3>2. \A g \in Hooks : EnabledOf(g)'
      BY <1>2, <3>1 DEF RInv, CInv, EnabledOf, Place
    <3>3. QED
      BY <1>2, <1>5, <2>1, <3>1, <3>2, SwitchRoles
  <2>4. QED
    BY <2>2, <2>3
<1>6. CASE StepFails(t) /\ UNCHANGED detached
  BY <1>2, <1>6, MoveRoles DEF StepFails, Goto, objVars
<1>7. QED
  BY <1>1, <1>5, <1>6 DEF prepare_detach

LEMMA rollback_detachesRoles ==
  ASSUME TInv, OInv, RInv, NEW t \in Threads, rollback_detaches(t)
  PROVE  RInv'
<1>1. PICK d : d = detached[t][Len(detached[t])]
  OBVIOUS
<1>2. PICK h : h = d.hook
  OBVIOUS
<1>3. pc[t] = "undo_detaches" /\ UNCHANGED <<stage, stub, resolved, queue, installed, arg, after>>
  BY DEF rollback_detaches
<1>4. Types /\ PInv
  BY DEF TInv
<1>5. CASE detached[t] = << >>
  <2>1. /\ pc' = [pc EXCEPT ![t] = "rollback"]
        /\ idx' = [idx EXCEPT ![t] = Len(installed[t])]
        /\ UNCHANGED <<vptr, clones, cloneSlot, owned, freed, hook, detached>>
    BY <1>5 DEF rollback_detaches, Goto, objVars
  <2>2. \A u \in Threads \ {t} : idx'[u] = idx[u]
    BY <1>4, <2>1 DEF Types, TxType
  <2>3. QED
    BY <1>3, <2>1, <2>2, MoveRoles
<1>6. CASE detached[t] # << >>
  <2>1. /\ \/ /\ d.was_enabled /\ hook[h].active
              /\ Write(h, h) /\ hook' = [hook EXCEPT ![h].enabled = TRUE]
           \/ UNCHANGED <<slot, objVars, hook>>
        /\ detached' = [detached EXCEPT ![t] = SubSeq(@, 1, Len(@) - 1)]
        /\ UNCHANGED <<pc, idx>>
    BY <1>1, <1>2, <1>6 DEF rollback_detaches
  <2>2. \A u \in Threads \ {t} : Same(u)
    BY <1>3, <1>4, <2>1 DEF Same, Types, TxType
  <2>3. h \in Hooks
    <3>1. detached[t] \in Seq([hook : Hooks, was_enabled : BOOLEAN])
      BY <1>4 DEF Types, TxType
    <3>2. Len(detached[t]) \in DOMAIN detached[t]
      BY <1>6, <3>1
    <3>3. QED
      BY <1>1, <1>2, <1>4, <3>2, InLists
  <2>4. CASE /\ hook[h].active
             /\ Write(h, h) /\ hook' = [hook EXCEPT ![h].enabled = TRUE]
    <3>1. h \in Pointer
      BY <2>3 DEF Pointer
    <3>2. QED
      BY <1>3, <2>1, <2>2, <2>3, <2>4, <3>1, StoreRoles
  <2>5. CASE UNCHANGED <<slot, objVars, hook>>
    <3>1. ObjectsKept /\ SwitchOnly /\ hook' = hook
      BY <2>5 DEF objVars, ObjectsKept, SwitchOnly
    <3>2. \A g \in Hooks : EnabledOf(g)'
      BY <1>3, <3>1 DEF RInv, CInv, EnabledOf, Place
    <3>3. QED
      BY <1>3, <2>1, <2>2, <3>1, <3>2, SwitchRoles
  <2>6. QED
    BY <2>1, <2>4, <2>5
<1>7. QED
  BY <1>5, <1>6

LEMMA rollbackRoles ==
  ASSUME TInv, OInv, RInv, NEW t \in Threads, rollback(t)
  PROVE  RInv'
<1>1. PICK h : h = installed[t][idx[t]]
  OBVIOUS
<1>2. pc[t] = "rollback" /\ UNCHANGED <<stage, stub, resolved, queue, installed, detached, arg, after>>
  BY DEF rollback
<1>3. Types /\ PInv
  BY DEF TInv
<1>4. CASE idx[t] = 0
  <2>1. /\ pc' = [pc EXCEPT ![t] = "dismantle"]
        /\ UNCHANGED <<vptr, clones, cloneSlot, owned, freed, hook, idx>>
    BY <1>4 DEF rollback, Goto, objVars
  <2>2. QED
    BY <1>2, <2>1, MoveRoles
<1>5. CASE idx[t] # 0
  <2>1. /\ \/ Write(h, hook[h].orig) /\ hook' = [hook EXCEPT ![h].enabled = FALSE]
           \/ UNCHANGED <<slot, objVars, hook>>
        /\ idx' = [idx EXCEPT ![t] = @ - 1]
        /\ UNCHANGED pc
    BY <1>1, <1>5 DEF rollback
  <2>2. \A u \in Threads \ {t} : Same(u)
    BY <1>2, <1>3, <2>1 DEF Same, Types, TxType
  <2>3. idx[t] \in DOMAIN installed[t]
    <3>1. idx[t] <= Len(installed[t])
      BY <1>2, <1>3 DEF PInv, POf, CountOf
    <3>2. installed[t] \in Seq(Hooks) /\ idx[t] \in Nat
      BY <1>3 DEF Types, TxType
    <3>3. QED
      BY <1>5, <3>1, <3>2
  <2>4. h \in Hooks /\ hook[h].active
    BY <1>1, <1>2, <1>3, <2>3, InLists DEF RInv, CInv, ActiveList
  <2>5. CASE Write(h, hook[h].orig) /\ hook' = [hook EXCEPT ![h].enabled = FALSE]
    <3>1. hook[h].orig \in Pointer
      BY <1>3, <2>4 DEF Types, HookType, Guard
    <3>2. QED
      BY <1>2, <2>1, <2>2, <2>4, <2>5, <3>1, StoreRoles
  <2>6. CASE UNCHANGED <<slot, objVars, hook>>
    <3>1. ObjectsKept /\ SwitchOnly /\ hook' = hook
      BY <2>6 DEF objVars, ObjectsKept, SwitchOnly
    <3>2. \A g \in Hooks : EnabledOf(g)'
      BY <1>2, <3>1 DEF RInv, CInv, EnabledOf, Place
    <3>3. QED
      BY <1>2, <2>1, <2>2, <3>1, <3>2, SwitchRoles
  <2>7. QED
    BY <2>1, <2>5, <2>6
<1>6. QED
  BY <1>4, <1>5

-----------------------------------------------------------------------------
(* A commit installs a hook.                                               *)
LEMMA InstalledList ==
  ASSUME TInv, RInv, NEW t \in Threads, NEW h \in Hooks, h = queue[t][idx[t]].hook,
         queue[t][idx[t]].op = "attach", idx[t] <= Len(queue[t]),
         pc[t] \in {"apply", "eat_protect"}, pc' = [pc EXCEPT ![t] = "apply"],
         NEW orig, NEW c, Installed(t, h, orig, c),
         UNCHANGED <<stage, queue, detached, arg, after>>
  PROVE  /\ InstalledGuard(h, orig, c) /\ PlacesKept
         /\ stage[h] = "queued" /\ h \in QueuedHooks(t) /\ ~(\E k \in DOMAIN installed[t] : installed[t][k] = h)
         /\ HandsKept(t) /\ Handed(h)' /\ ActiveList(t)' /\ pc'[t] = "apply"
<1>1. Types /\ PInv
  BY DEF TInv
<1>2. InstalledGuard(h, orig, c)
  BY <1>1 DEF Installed, InstalledGuard, Types, HookType, Place
<1>3. PlacesKept
  BY <1>2 DEF InstalledGuard, PlacesKept, Place
<1>4. /\ stage[h] = "queued" /\ idx[t] \in DOMAIN queue[t]
      /\ ~(\E k \in DOMAIN installed[t] : installed[t][k] = h)
  BY <1>1, AtOperation
<1>5. h \in QueuedHooks(t)
  BY <1>4 DEF QueuedHooks
<1>6. PICK s \in Seq(Hooks) : s = installed[t]
  BY <1>1 DEF Types, TxType
<1>7. /\ installed'[t] = Append(s, h) /\ pc'[t] = "apply"
      /\ \A u \in Threads \ {t} : Same(u)
  BY <1>1, <1>6 DEF Installed, Types, TxType, CallType, Same
<1>8. /\ \A k \in DOMAIN s : k \in DOMAIN Append(s, h) /\ Append(s, h)[k] = s[k]
      /\ \E k \in DOMAIN Append(s, h) : Append(s, h)[k] = h
      /\ \A k \in DOMAIN Append(s, h) : Append(s, h)[k] = h \/ (k \in DOMAIN s /\ Append(s, h)[k] = s[k])
  <2>1. Len(s) + 1 \in DOMAIN Append(s, h) /\ Append(s, h)[Len(s) + 1] = h
    OBVIOUS
  <2>2. QED
    BY <2>1
<1>9. HeldBy(t, h)' /\ stage'[h] # "new"
  BY <1>4, <1>7, <1>8 DEF HeldBy
<1>10. ASSUME NEW g \in Hooks, HeldBy(t, g) PROVE HeldBy(t, g)'
  <2>1. CASE Eats(t, g)
    BY <1>9, <2>1 DEF Eats
  <2>2. CASE pc[t] # "finalize" /\ \E k \in DOMAIN installed[t] : installed[t][k] = g
    BY <1>6, <1>7, <1>8, <2>2 DEF HeldBy
  <2>3. QED
    BY <1>10, <2>1, <2>2 DEF HeldBy
<1>11. HandsKept(t)
  BY <1>7, <1>10 DEF HandsKept
<1>12. ActiveList(t)'
  <2>1. hook'[h].active /\ \A g \in Hooks : hook[g].active => hook'[g].active
    BY <1>2 DEF InstalledGuard
  <2>2. \A k \in DOMAIN s : s[k] \in Hooks /\ hook[s[k]].active
    BY <1>1, <1>6, InLists DEF RInv, CInv, ActiveList
  <2>3. QED
    BY <1>7, <1>8, <2>1, <2>2 DEF ActiveList
<1>13. QED
  BY <1>2, <1>3, <1>4, <1>5, <1>7, <1>9, <1>11, <1>12 DEF Handed

LEMMA InstalledStubs ==
  ASSUME TInv, OInv, SInv, RInv, NEW t \in Threads, NEW h \in Hooks, h = queue[t][idx[t]].hook,
         queue[t][idx[t]].op = "attach", idx[t] <= Len(queue[t]),
         pc[t] \in {"apply", "eat_protect"}, pc' = [pc EXCEPT ![t] = "apply"],
         NEW orig, NEW c, Installed(t, h, orig, c),
         pc[t] = "eat_protect" => Place(h) \in Slots,
         UNCHANGED <<stage, stub, resolved, queue, detached, arg, after>>
  PROVE  SInv'
<1>1. /\ InstalledGuard(h, orig, c) /\ PlacesKept
      /\ stage[h] = "queued" /\ h \in QueuedHooks(t)
      /\ HandsKept(t) /\ Handed(h)' /\ pc'[t] = "apply"
  BY InstalledList
<1>2. \A g \in Hooks : Place(g)' = Place(g)
  BY <1>1 DEF InstalledGuard, Place
<1>3. \A g \in Hooks : ~Eats(t, g)' /\ ~Retires(t, g)' /\ ~Retires(t, g) /\ (Eats(t, g) => g = h)
  BY <1>1 DEF Eats, Retires
<1>4. ASSUME NEW g \in Hooks \ {h} PROVE Met(g)' => Met(g)
  <2>1. hook'[g] = hook[g]
    BY <1>1 DEF InstalledGuard
  <2>2. \A u \in Threads : Eats(u, g)' => Eats(u, g)
    BY <1>1, <1>3 DEF HandsKept, Same, Eats
  <2>3. QED
    BY <1>2, <2>1, <2>2 DEF Met
<1>5. hook'[h].claimed <=> Place(h) \in Slots
  <2>1. PICK b \in BOOLEAN : b <=> Place(h) \in Slots
    BY Zenon
  <2>2. hook'[h].claimed = b
    <3>1. b = (Place(h) \in Slots)
      BY <2>1, Zenon
    <3>2. hook'[h] = [place |-> Place(h), orig |-> orig, clone |-> c,
                      claimed |-> b, active |-> TRUE, enabled |-> TRUE]
      BY <1>1, <3>1, Zenon DEF InstalledGuard
    <3>3. QED
      BY <3>2
  <2>3. QED
    BY <2>1, <2>2
<1>6. ASSUME NEW g \in Hooks, Met(g), hook[g].claimed \/ Eats(t, g) \/ Retires(t, g) PROVE Kept(g)'
  <2>1. CASE g = h
    <3>1. Place(h) \in Slots
      BY <1>6, <2>1, SlotKinds DEF SInv, StubOf
    <3>2. QED
      BY <1>5, <2>1, <3>1 DEF Kept
  <2>2. CASE g # h
    BY <1>1, <1>3, <1>6, <2>2 DEF InstalledGuard, Kept
  <2>3. QED
    BY <2>1, <2>2
<1>7. ASSUME Met(h)', ~Met(h) PROVE StubOf(h)'
  <2>1. \A u \in Threads : Eats(u, h)' => Eats(u, h)
    BY <1>1, <1>3 DEF HandsKept, Same, Eats
  <2>2. Place(h) \in Exports /\ hook'[h].claimed /\ h \in Far
    BY <1>2, <1>7, <2>1 DEF Met
  <2>3. h \in NeedsStub(t)
    BY <1>1, <2>2 DEF NeedsStub
  <2>4. stub[h] = "detour"
    BY <2>3 DEF SInv, PreparedOf
  <2>5. QED
    BY <1>1, <1>2, <2>2, <2>4 DEF StubOf, Kept
<1>8. PreparedOf(t)'
  <2>1. NeedsStub(t)' = NeedsStub(t)
    <3>1. QueuedHooks(t) \subseteq Hooks
      BY InQueue DEF QueuedHooks, TInv
    <3>2. QED
      BY <1>2, <3>1 DEF NeedsStub, QueuedHooks
  <2>2. QED
    BY <2>1 DEF SInv, PreparedOf
<1>9. QED
  BY <1>1, <1>4, <1>6, <1>7, <1>8, StubsKept

LEMMA InstalledSlotRoles ==
  ASSUME TInv, OInv, RInv, NEW t \in Threads, NEW h \in Hooks, h = queue[t][idx[t]].hook,
         queue[t][idx[t]].op = "attach", idx[t] <= Len(queue[t]),
         pc[t] \in {"apply", "eat_protect"}, pc' = [pc EXCEPT ![t] = "apply"],
         NEW orig, NEW c, Installed(t, h, orig, c), Place(h) \in Slots,
         UNCHANGED <<vptr, clones, cloneSlot, owned, freed, stage, stub, resolved, queue,
                     detached, arg, after>>
  PROVE  RInv'
<1>1. InstalledGuard(h, orig, c) /\ PlacesKept /\ HandsKept(t) /\ ActiveList(t)'
  BY InstalledList
<1>2. CInv /\ (Retargetable => SInv)
  BY DEF RInv
<1>3. /\ \A g \in Hooks : Place(g)' = Place(g)
      /\ \A g \in Hooks \ {h} : hook'[g] = hook[g]
      /\ Place(h) \notin Instances /\ hook'[h].active
  BY <1>1, PlacesAssumption DEF InstalledGuard, Place
<1>4. GuardsKept /\ ObjectsKept
  BY <1>1, <1>3 DEF GuardsKept, ObjectsKept
<1>5. \A g \in Hooks : EnabledOf(g)'
  BY <1>2, <1>3 DEF CInv, EnabledOf
<1>6. CInv'
  BY <1>1, <1>2, <1>4, <1>5, ClonesKept
<1>7. Retargetable => SInv'
  BY <1>2, InstalledStubs
<1>8. QED
  BY <1>6, <1>7 DEF RInv

LEMMA install_slotRoles ==
  ASSUME TInv, OInv, RInv, NEW t \in Threads, install_slot(t)
  PROVE  RInv'
<1>1. PICK h : h = queue[t][idx[t]].hook
  OBVIOUS
<1>2. /\ pc[t] = "apply" /\ idx[t] <= Len(queue[t]) /\ queue[t][idx[t]].op = "attach"
      /\ Place(h) \in Slots
      /\ UNCHANGED <<stage, stub, resolved, queue, detached, arg, after>>
  BY <1>1, SlotKinds DEF install_slot, Applies
<1>3. h \in Hooks
  BY <1>1, <1>2, AtOperation DEF TInv
<1>4. CASE /\ write_slot(h, h) /\ Installed(t, h, slot[Place(h)], Original) /\ UNCHANGED pc
  <2>1. UNCHANGED <<vptr, clones, cloneSlot, owned, freed>>
    BY <1>4 DEF write_slot, objVars
  <2>2. pc' = [pc EXCEPT ![t] = "apply"]
    BY <1>2, <1>4 DEF TInv, Types, CallType
  <2>3. QED
    BY <1>1, <1>2, <1>3, <1>4, <2>1, <2>2, InstalledSlotRoles
<1>5. CASE StepFails(t)
  BY <1>2, <1>5, MoveRoles DEF StepFails, Goto, objVars
<1>6. QED
  BY <1>1, <1>4, <1>5 DEF install_slot

LEMMA install_eatRoles ==
  ASSUME TInv, OInv, RInv, NEW t \in Threads, install_eat(t)
  PROVE  RInv'
<1>1. PICK h : h = queue[t][idx[t]].hook
  OBVIOUS
<1>2. /\ pc[t] = "apply" /\ idx[t] <= Len(queue[t]) /\ queue[t][idx[t]].op = "attach"
      /\ Place(h) \in Exports
      /\ UNCHANGED <<stage, stub, resolved, queue, detached, arg, after>>
  BY <1>1 DEF install_eat, Applies
<1>3. /\ h \in Hooks /\ stage[h] = "queued" /\ idx[t] \in DOMAIN queue[t]
      /\ CInv /\ (Retargetable => SInv) /\ Types
  BY <1>1, <1>2, AtOperation DEF TInv, RInv
<1>4. CASE /\ write_slot(h, h) /\ hook' = [hook EXCEPT ![h].orig = slot[Place(h)]]
           /\ Goto(t, "eat_protect") /\ UNCHANGED <<installed, idx>>
  <2>1. ObjectsKept
    BY <1>4 DEF write_slot, objVars, ObjectsKept
  <2>2. /\ pc'[t] = "eat_protect" /\ \A u \in Threads \ {t} : Same(u)
    BY <1>2, <1>3, <1>4 DEF Goto, Same, Types, CallType
  <2>3. /\ \A g \in Hooks \ {h} : hook'[g] = hook[g]
        /\ hook'[h].place = hook[h].place /\ hook'[h].claimed = hook[h].claimed
        /\ hook'[h].active = hook[h].active
    BY <1>3, <1>4 DEF Types, HookType, Guard
  <2>4. \A g \in Hooks : Place(g)' = Place(g)
    BY <2>3 DEF Place
  <2>5. Place(h) \in Slots /\ Place(h) \notin Instances
    BY <1>2, SlotKinds, PlacesAssumption
  <2>6. GuardsKept
    BY <2>3, <2>4, <2>5 DEF GuardsKept, PlacesKept
  <2>7. \A g \in Hooks : EnabledOf(g)'
    BY <1>2, <1>3, <2>3, <2>4, <2>5 DEF CInv, EnabledOf
  <2>8. /\ \A g \in Hooks : ~Eats(t, g) /\ ~Retires(t, g) /\ ~Retires(t, g)'
        /\ \A g \in Hooks : Eats(t, g)' <=> g = h
        /\ \A g \in Hooks : HeldBy(t, g) => HeldBy(t, g)'
    BY <1>1, <1>2, <1>4, <2>2 DEF Eats, Retires, HeldBy
  <2>9. HandsKept(t)
    BY <1>2, <2>2, <2>8 DEF HandsKept
  <2>10. ActiveList(t)'
    <3>1. \A k \in DOMAIN installed[t] : installed[t][k] \in Hooks
      BY <1>3, InLists
    <3>2. QED
      BY <1>2, <1>3, <1>4, <2>3, <3>1 DEF CInv, ActiveList
  <2>11. CInv'
    BY <1>3, <2>1, <2>6, <2>7, <2>9, <2>10, ClonesKept
  <2>12. ASSUME Retargetable PROVE SInv'
    <3>1. SInv
      BY <1>3, <2>12
    <3>2. ASSUME NEW g \in Hooks \ {h} PROVE Met(g)' => Met(g)
      <4>1. \A u \in Threads : Eats(u, g)' => Eats(u, g)
        BY <2>2, <2>8 DEF Same, Eats
      <4>2. QED
        BY <1>2, <2>3, <2>4, <4>1 DEF Met
    <3>3. Kept(h)' /\ Handed(h)'
      BY <1>2, <1>3, <2>8 DEF Kept, Handed, HeldBy
    <3>4. ASSUME NEW g \in Hooks, hook[g].claimed \/ Eats(t, g) \/ Retires(t, g) PROVE Kept(g)'
      BY <2>3, <2>8, <3>4 DEF Kept
    <3>5. ASSUME Met(h)', ~Met(h) PROVE StubOf(h)'
      <4>1. h \in Far /\ h \in QueuedHooks(t)
        <5>1. h \in QueuedHooks(t)
          BY <1>1, <1>2, <1>3 DEF QueuedHooks
        <5>2. h \in Far
          BY <3>5 DEF Met
        <5>3. QED
          BY <5>1, <5>2
      <4>2. stub[h] = "detour"
        BY <1>2, <3>1, <4>1 DEF SInv, PreparedOf, NeedsStub
      <4>3. QED
        BY <1>2, <1>3, <2>4, <3>3, <4>2 DEF StubOf
    <3>6. PreparedOf(t)'
      <4>1. NeedsStub(t)' = NeedsStub(t)
        <5>1. QueuedHooks(t) \subseteq Hooks
          BY <1>3, InQueue DEF QueuedHooks
        <5>2. QED
          BY <1>2, <2>4, <5>1 DEF NeedsStub, QueuedHooks
      <4>2. QED
        BY <1>2, <3>1, <4>1 DEF SInv, PreparedOf
    <3>7. QED
      BY <1>2, <2>6, <2>9, <3>1, <3>2, <3>4, <3>5, <3>6, StubsKept DEF GuardsKept
  <2>13. QED
    BY <2>11, <2>12 DEF RInv
<1>5. CASE StepFails(t)
  BY <1>2, <1>5, MoveRoles DEF StepFails, Goto, objVars
<1>6. QED
  BY <1>1, <1>4, <1>5 DEF install_eat

LEMMA eat_protectRoles ==
  ASSUME TInv, OInv, RInv, NEW t \in Threads, eat_protect(t)
  PROVE  RInv'
<1>1. PICK h : h = queue[t][idx[t]].hook
  OBVIOUS
<1>2. /\ pc[t] = "eat_protect" /\ Eats(t, h)
      /\ UNCHANGED <<vptr, clones, cloneSlot, owned, freed, stage, stub, resolved, queue,
                     detached, arg, after>>
  BY <1>1 DEF eat_protect, objVars, Eats
<1>3. /\ Types /\ CInv /\ idx[t] <= Len(queue[t]) /\ queue[t][idx[t]].op = "attach"
  BY <1>2 DEF TInv, PInv, POf, CountOf, RInv
<1>4. h \in Hooks
  BY <1>1, <1>2, <1>3, AtOperation DEF TInv
<1>5. Place(h) \in Exports /\ Place(h) \in Slots
  BY <1>2, <1>4, SlotKinds DEF OInv, EatOf
<1>6. CASE Installed(t, h, hook[h].orig, Original) /\ Goto(t, "apply")
  BY <1>1, <1>2, <1>3, <1>4, <1>5, <1>6, InstalledSlotRoles DEF Goto
<1>7. CASE /\ "reprotect" \in Faults /\ Goto(t, "undo_detaches")
           /\ UNCHANGED <<hook, installed, idx>>
  <2>1. ~Retargetable
    BY <1>7 DEF Retargetable
  <2>2. \A u \in Threads \ {t} : Same(u)
    BY <1>2, <1>3, <1>7 DEF Goto, Same, Types, CallType
  <2>3. pc'[t] = "undo_detaches"
    BY <1>3, <1>7 DEF Goto, Types, CallType
  <2>4. ASSUME NEW g \in Hooks PROVE ActiveOf(g)' /\ EnabledOf(g)'
    BY <1>2, <1>3, <1>7 DEF CInv, ActiveOf, EnabledOf, Place, Object, Method, ClassValue
  <2>5. ASSUME NEW o \in Objects PROVE CloneOf(o)'
    BY <1>2, <1>3, <1>7 DEF CInv, CloneOf, Place, Object, ClassValue
  <2>6. ASSUME NEW g \in Hooks PROVE UsedOf(g)'
    <3>1. SUFFICES ASSUME UsedClone(g) PROVE Handed(g)' /\ Place(g)' \in Instances
      BY <1>2 DEF UsedOf, UsedClone
    <3>2. Handed(g) /\ Place(g) \in Instances
      BY <1>3, <3>1 DEF CInv, UsedOf
    <3>3. g # h
      BY <1>5, <3>2, PlacesAssumption
    <3>4. \A u \in Threads : HeldBy(u, g) => HeldBy(u, g)'
      BY <1>1, <1>2, <1>7, <2>2, <2>3, <3>3 DEF HeldBy, Eats, Same
    <3>5. QED
      BY <1>2, <1>7, <3>2, <3>4 DEF Handed, Place
  <2>7. ASSUME NEW u \in Threads PROVE ActiveList(u)'
    <3>1. pc'[u] # "finalize" => pc[u] # "finalize"
      BY <1>2, <2>2 DEF Same
    <3>2. QED
      BY <1>3, <1>7, <3>1 DEF CInv, ActiveList
  <2>8. QED
    BY <2>1, <2>4, <2>5, <2>6, <2>7 DEF RInv, CInv
<1>8. QED
  BY <1>1, <1>6, <1>7 DEF eat_protect

LEMMA install_intoRoles ==
  ASSUME TInv, OInv, RInv, NEW t \in Threads, install_into(t)
  PROVE  RInv'
<1>1. PICK h : h = queue[t][idx[t]].hook
  OBVIOUS
<1>2. /\ pc[t] = "apply" /\ idx[t] <= Len(queue[t]) /\ queue[t][idx[t]].op = "attach"
      /\ Place(h) \in Instances
      /\ UNCHANGED <<stage, stub, resolved, queue, detached, arg, after>>
  BY <1>1 DEF install_into, Applies
<1>3. h \in Hooks /\ CInv /\ (Retargetable => SInv)
  BY <1>1, <1>2, AtOperation DEF TInv, RInv
<1>4. CASE (ShareClone(t, h) \/ NewClone(t, h)) /\ UNCHANGED pc
  <2>1. PICK orig, c : Installed(t, h, orig, c)
    BY <1>4 DEF ShareClone, NewClone
  <2>2. pc' = [pc EXCEPT ![t] = "apply"]
    BY <1>2, <1>4 DEF TInv, Types, CallType
  <2>3. /\ stage[h] = "queued" /\ h \in QueuedHooks(t)
        /\ ~(\E k \in DOMAIN installed[t] : installed[t][k] = h)
        /\ HandsKept(t) /\ Handed(h)' /\ ActiveList(t)'
    BY <1>1, <1>2, <1>3, <2>1, <2>2, InstalledList
  <2>4. ~Handed(h)
    <3>1. ~HeldBy(t, h)
      BY <1>2, <2>3 DEF HeldBy, Eats
    <3>2. QED
      BY <1>3, <2>3, <3>1, NotHanded
  <2>5. ~UsedClone(h)
    BY <1>3, <2>4 DEF CInv, UsedOf
  <2>6. CInv'
    BY <1>2, <1>3, <1>4, <2>3, <2>5, ShareKept, NewKept
  <2>7. Retargetable => SInv'
    BY <1>1, <1>2, <1>3, <2>1, <2>2, InstalledStubs
  <2>8. QED
    BY <2>6, <2>7 DEF RInv
<1>5. CASE StepFails(t)
  BY <1>2, <1>5, MoveRoles DEF StepFails, Goto, objVars
<1>6. QED
  BY <1>1, <1>4, <1>5 DEF install_into

-----------------------------------------------------------------------------
(* A guard ends: its hook is active no more, and was not being installed.  *)
Ended(h) ==
    /\ \A g \in Hooks \ {h} : hook'[g] = hook[g]
    /\ hook'[h].place = hook[h].place /\ ~hook'[h].active
    /\ ~hook'[h].enabled \/ stage'[h] \in {"dropping", "gone"}

LEMMA EndedKept ==
  ASSUME TInv, CInv, NEW t \in Threads, HandsKept(t), ActiveList(t)',
         NEW h \in Hooks, stage[h] # "queued", Ended(h),
         \A g \in Hooks \ {h} : stage'[g] = stage[g],
         \/ Place(h) \in Instances /\ hook[h].active /\ restore_instance(h)
         \/ ObjectsKept
  PROVE  CInv' /\ PlacesKept
<1>1. PlacesKept /\ \A g \in Hooks : Place(g)' = Place(g)
  BY DEF Ended, PlacesKept, Place
<1>2. GuardsKept
  BY <1>1 DEF Ended, GuardsKept
<1>3. \A g \in Hooks : EnabledOf(g)'
  BY <1>1 DEF CInv, EnabledOf, Ended
<1>4. CASE Place(h) \in Instances /\ hook[h].active /\ restore_instance(h)
  <2>1. ~hook'[h].active
    BY DEF Ended
  <2>2. QED
    BY <1>1, <1>2, <1>3, <1>4, <2>1, RestoreKept
<1>5. CASE ObjectsKept
  BY <1>1, <1>2, <1>3, <1>5, ClonesKept
<1>6. QED
  BY <1>4, <1>5

(* What is left of the stubs when one guard ends.                          *)
LEMMA EndedStubs ==
  ASSUME TInv, OInv, SInv, NEW t \in Threads, HandsKept(t), PlacesKept, NEW h \in Hooks,
         Ended(h), stage[h] # "queued", resolved' = resolved,
         \A g \in Hooks \ {h} : stub'[g] = stub[g],
         \A g \in Hooks : ~Eats(t, g) /\ ~Eats(t, g)',
         \A g \in Hooks \ {h} : ~Retires(t, g),
         hook'[h].claimed => hook[h].claimed,
         Met(h) => stub'[h] \in {stub[h], "original"} /\ Kept(h)',
         PreparedOf(t)'
  PROVE  SInv'
<1>1. \A g \in Hooks : Place(g)' = Place(g)
  BY DEF Ended, Place
<1>2. ASSUME NEW g \in Hooks PROVE Met(g)' => Met(g)
  <2>1. \A u \in Threads : Eats(u, g)' => Eats(u, g)
    BY DEF HandsKept, Same, Eats
  <2>2. hook'[g].claimed => hook[g].claimed
    BY DEF Ended
  <2>3. QED
    BY <1>1, <2>1, <2>2 DEF Met
<1>3. ASSUME NEW g \in Hooks, Met(g), hook[g].claimed \/ Eats(t, g) \/ Retires(t, g) PROVE Kept(g)'
  <2>1. CASE g = h
    BY <1>3, <2>1
  <2>2. CASE g # h
    BY <1>3, <2>2 DEF Kept, Ended
  <2>3. QED
    BY <2>1, <2>2
<1>4. QED
  BY <1>2, <1>3, StubsKept

LEMMA unhookRoles ==
  ASSUME TInv, OInv, RInv, NEW t \in Threads, NEW h \in Hooks, unhook(t, h)
  PROVE  RInv'
<1>1. /\ Types /\ PInv /\ CInv /\ (Retargetable => SInv)
      /\ pc[t] = "ready" /\ stage[h] = "live"
      /\ arg' = [arg EXCEPT ![t] = h] /\ after' = [after EXCEPT ![t] = "ready"]
      /\ pc' = [pc EXCEPT ![t] = "drop"] /\ stage' = [stage EXCEPT ![h] = "dropping"]
      /\ UNCHANGED <<stub, resolved, queue, installed, detached, idx>>
  BY DEF TInv, RInv, unhook, Idle, DropNext, SetStage, Goto, txVars
<1>2. /\ pc'[t] = "drop" /\ stage'[h] = "dropping" /\ \A g \in Hooks \ {h} : stage'[g] = stage[g]
      /\ \A u \in Threads \ {t} : Same(u)
  BY <1>1 DEF Types, CallType, HookType, Same
<1>3. /\ installed[t] = << >>
      /\ \A g \in Hooks : ~Eats(t, g)' /\ ~Eats(t, g) /\ ~Retires(t, g)' /\ ~Retires(t, g)
  BY <1>1, <1>2 DEF PInv, POf, CountOf, Outside, Eats, Retires
<1>4. \A g \in Hooks : ~HeldBy(t, g)
  BY <1>3 DEF HeldBy
<1>5. HandsKept(t) /\ ActiveList(t)' /\ PreparedOf(t)'
  BY <1>1, <1>2, <1>3, <1>4 DEF HandsKept, ActiveList, PreparedOf
<1>6. CASE hook[h].active /\ perform_unhook(h)
           /\ hook' = [hook EXCEPT ![h].active = FALSE, ![h].clone = Original]
  <2>1. Ended(h) /\ hook'[h].claimed = hook[h].claimed
    BY <1>1, <1>2, <1>6 DEF Ended, Types, HookType, Guard
  <2>2. \/ Place(h) \in Instances /\ hook[h].active /\ restore_instance(h)
        \/ ObjectsKept
    BY <1>6 DEF perform_unhook, write_slot, objVars, ObjectsKept
  <2>3. CInv' /\ PlacesKept
    BY <1>1, <1>2, <1>5, <2>1, <2>2, EndedKept
  <2>4. ASSUME Retargetable PROVE SInv'
    <3>1. SInv
      BY <1>1, <2>4
    <3>2. ASSUME Met(h) PROVE Kept(h)'
      <4>1. Kept(h)
        BY <3>1, <3>2 DEF SInv, StubOf
      <4>2. \A u \in Threads : (Eats(u, h) => Eats(u, h)') /\ (Retires(u, h) => Retires(u, h)')
        BY <1>2, <1>3 DEF Same, Eats, Retires
      <4>3. QED
        BY <1>1, <2>1, <4>1, <4>2 DEF Kept
    <3>3. QED
      BY <1>1, <1>3, <1>5, <2>1, <2>3, <3>1, <3>2, EndedStubs
  <2>5. QED
    BY <2>3, <2>4 DEF RInv
<1>7. CASE UNCHANGED <<slot, objVars, hook>>
  <2>1. UNCHANGED <<vptr, clones, cloneSlot, owned, freed, hook, resolved>>
    BY <1>1, <1>7 DEF objVars
  <2>2. \A g \in Hooks : stage'[g] \notin {"dropping", "gone"} => stage[g] \notin {"dropping", "gone"}
    BY <1>2
  <2>3. QED
    BY <1>1, <1>3, <1>5, <2>1, <2>2, SameGuards
<1>8. QED
  BY <1>6, <1>7 DEF unhook, Unrestored

(* The last step of a drop.                                                *)
LEMMA DropEndsRoles ==
  ASSUME TInv, OInv, RInv, NEW t \in Threads, NEW h \in Hooks, h = arg[t], pc[t] \in DropPcs,
         NEW c \in BOOLEAN, DropEnds(t, c), c => hook[h].claimed,
         UNCHANGED <<resolved, queue, installed, detached, idx, after>>,
         \A g \in Hooks \ {h} : stub'[g] = stub[g],
         \/ Place(h) \in Instances /\ hook[h].active /\ restore_instance(h)
         \/ ObjectsKept,
         Retargetable /\ SInv /\ Met(h) =>
             stub'[h] \in {stub[h], "original"} /\ (c \/ stub'[h] = "original")
  PROVE  RInv'
<1>1. /\ Types /\ PInv /\ CInv /\ (Retargetable => SInv) /\ stage[h] = "dropping"
      /\ stage' = [stage EXCEPT ![h] = "gone"]
      /\ hook' = [hook EXCEPT ![h] = [NoGuard EXCEPT !.place = Place(h), !.claimed = c]]
      /\ arg' = [arg EXCEPT ![t] = Original] /\ pc' = [pc EXCEPT ![t] = after[t]]
  BY DEF TInv, RInv, PInv, POf, DropOf, DropEnds, SetStage, Goto
<1>2. /\ stage'[h] = "gone" /\ \A g \in Hooks \ {h} : stage'[g] = stage[g]
      /\ pc'[t] \in {"ready", "dismantle"} /\ \A u \in Threads \ {t} : Same(u)
  BY <1>1 DEF Types, CallType, HookType, Same
<1>3. Ended(h) /\ hook'[h].claimed = c
  BY <1>1, <1>2 DEF Ended, NoGuard, Place, Types, HookType
<1>4. /\ \A g \in Hooks : ~Eats(t, g)' /\ ~Eats(t, g) /\ ~Retires(t, g)' 
      /\ \A g \in Hooks \ {h} : ~Retires(t, g)
      /\ \A g \in Hooks : HeldBy(t, g)' <=> HeldBy(t, g)
  BY <1>2 DEF Eats, Retires, HeldBy, DropPcs
<1>5. HandsKept(t) /\ PreparedOf(t)'
  BY <1>1, <1>2, <1>4 DEF HandsKept, PreparedOf
<1>6. ActiveList(t)'
  <2>1. \A k \in DOMAIN installed[t] : /\ installed[t][k] \in Hooks /\ hook[installed[t][k]].active
                                       /\ stage[installed[t][k]] = "queued"
    BY <1>1, InLists DEF CInv, ActiveList, DropPcs, PInv, POf, InstalledOf
  <2>2. QED
    BY <1>1, <1>3, <2>1 DEF ActiveList, Ended
<1>7. CInv' /\ PlacesKept
  BY <1>1, <1>2, <1>3, <1>5, <1>6, EndedKept
<1>8. ASSUME Retargetable PROVE SInv'
  <2>1. SInv
    BY <1>1, <1>8
  <2>2. ASSUME Met(h) PROVE stub'[h] \in {stub[h], "original"} /\ Kept(h)'
    BY <1>3, <1>8, <2>1, <2>2 DEF Kept
  <2>3. QED
    BY <1>1, <1>3, <1>4, <1>5, <1>7, <2>1, <2>2, EndedStubs
<1>9. QED
  BY <1>7, <1>8 DEF RInv

(* While a hook is dropped nobody installs it or retires its stub.         *)
LEMMA Dropped ==
  ASSUME TInv, SInv, NEW t \in Threads, NEW h \in Hooks, h = arg[t], pc[t] \in DropPcs, Met(h)
  PROVE  /\ Place(h) \in Exports /\ stub[h] \in {"detour", "original"}
         /\ hook[h].claimed \/ stub[h] = "original" \/ pc[t] = "retire_stub"
<1>1. Place(h) \in Exports /\ stub[h] \in {"detour", "original"} /\ Kept(h)
  BY DEF SInv, StubOf
<1>2. Taken(t, h) /\ stage[h] = "dropping"
  BY DEF Taken, TInv, PInv, POf, DropOf
<1>3. ASSUME NEW u \in Threads, Eats(u, h) PROVE FALSE
  <2>1. InHand(u, h)
    BY <1>3 DEF InHand
  <2>2. QED
    BY <1>2, <1>3, <2>1, OnlyHand DEF TInv, Eats, DropPcs
<1>4. ASSUME NEW u \in Threads, Retires(u, h) PROVE u = t
  BY <1>4 DEF TInv, PInv, DropUnique, Retires, DropPcs
<1>5. QED
  BY <1>1, <1>3, <1>4 DEF Kept, Retires

LEMMA drop_unhookRoles ==
  ASSUME TInv, OInv, RInv, NEW t \in Threads, drop_unhook(t)
  PROVE  RInv'
<1>1. PICK h : h = arg[t]
  OBVIOUS
<1>2. /\ Types /\ PInv /\ CInv /\ (Retargetable => SInv)
      /\ pc[t] = "drop" /\ h \in Hooks /\ stage[h] = "dropping"
      /\ UNCHANGED <<stub, resolved, queue, installed, detached, idx, after>>
  BY <1>1 DEF TInv, RInv, PInv, POf, DropOf, DropPcs, drop_unhook, txVars
<1>3. pc[t] \in DropPcs
  BY <1>2 DEF DropPcs
<1>4. CASE /\ Place(h) \in Slots /\ hook[h].claimed
           /\ IF hook[h].active THEN perform_unhook(h) ELSE UNCHANGED <<slot, objVars>>
           /\ Goto(t, "release") /\ UNCHANGED <<arg, stage, hook>>
  <2>1. ObjectsKept
    BY <1>4, PlacesAssumption DEF perform_unhook, write_slot, objVars, ObjectsKept
  <2>2. pc'[t] = "release" /\ \A u \in Threads \ {t} : Same(u)
    BY <1>2, <1>4 DEF Goto, Same, Types, CallType
  <2>3. SwitchOnly /\ \A g \in Hooks : EnabledOf(g)'
    BY <1>2, <1>4 DEF SwitchOnly, CInv, EnabledOf, Place
  <2>4. QED
    BY <1>2, <1>4, <2>1, <2>2, <2>3, SwitchRoles
<1>5. CASE /\ Place(h) \in Slots
           /\ ~hook[h].claimed \/ (hook[h].active /\ Unrestored(h))
           /\ UNCHANGED <<slot, objVars>> /\ DropEnds(t, hook[h].claimed)
  <2>1. ObjectsKept
    BY <1>5 DEF objVars, ObjectsKept
  <2>2. PICK c \in BOOLEAN : c = hook[h].claimed
    BY <1>2 DEF Types, HookType, Guard
  <2>3. ASSUME Retargetable, SInv, Met(h) PROVE c \/ stub[h] = "original"
    BY <1>1, <1>2, <1>3, <2>2, <2>3, Dropped
  <2>4. DropEnds(t, c)
    BY <1>5, <2>2
  <2>5. QED
    BY <1>1, <1>2, <1>3, <2>1, <2>2, <2>3, <2>4, DropEndsRoles
<1>6. CASE /\ Place(h) \in Instances
           /\ IF hook[h].active
              THEN perform_unhook(h) \/ Unrestored(h)
              ELSE UNCHANGED <<slot, objVars>>
           /\ DropEnds(t, FALSE)
  <2>1. \/ Place(h) \in Instances /\ hook[h].active /\ restore_instance(h)
        \/ ObjectsKept
    BY <1>6, PlacesAssumption DEF perform_unhook, Unrestored, objVars, ObjectsKept
  <2>2. ASSUME SInv, Met(h) PROVE FALSE
    <3>1. Place(h) \in Exports
      BY <1>1, <1>2, <1>3, <2>2, Dropped
    <3>2. QED
      BY <1>6, <3>1, SlotKinds, PlacesAssumption
  <2>3. QED
    BY <1>1, <1>2, <1>3, <1>6, <2>1, <2>2, DropEndsRoles
<1>7. QED
  BY <1>1, <1>4, <1>5, <1>6 DEF drop_unhook

LEMMA release_table_slotRoles ==
  ASSUME TInv, OInv, RInv, NEW t \in Threads, release_table_slot(t)
  PROVE  RInv'
<1>1. PICK h : h = arg[t]
  OBVIOUS
<1>2. /\ Types /\ PInv /\ CInv /\ (Retargetable => SInv)
      /\ pc[t] = "release" /\ h \in Hooks /\ stage[h] = "dropping"
      /\ UNCHANGED <<vptr, clones, cloneSlot, owned, freed, stub, resolved, queue, installed,
                     detached, idx, after>>
  BY <1>1 DEF TInv, RInv, PInv, POf, DropOf, DropPcs, release_table_slot, txVars, objVars
<1>3. pc[t] \in DropPcs /\ ObjectsKept
  BY <1>2 DEF DropPcs, ObjectsKept
<1>4. CASE /\ stub[h] = "detour" /\ Goto(t, "retire_stub")
           /\ hook' = [hook EXCEPT ![h].claimed = FALSE] /\ UNCHANGED <<stage, arg>>
  <2>1. pc'[t] = "retire_stub" /\ \A u \in Threads \ {t} : Same(u)
    BY <1>2, <1>4 DEF Goto, Same, Types, CallType
  <2>2. /\ \A g \in Hooks : ~Eats(t, g)' /\ ~Eats(t, g) /\ ~Retires(t, g)
        /\ \A g \in Hooks : HeldBy(t, g)' <=> HeldBy(t, g)
        /\ Retires(t, h)'
    BY <1>1, <1>2, <1>4, <2>1 DEF Eats, Retires, HeldBy
  <2>3. /\ \A g \in Hooks \ {h} : hook'[g] = hook[g]
        /\ hook'[h].place = hook[h].place /\ hook'[h].orig = hook[h].orig
        /\ hook'[h].clone = hook[h].clone /\ hook'[h].active = hook[h].active
        /\ hook'[h].enabled = hook[h].enabled /\ ~hook'[h].claimed
    BY <1>2, <1>4 DEF Types, HookType, Guard
  <2>4. \A g \in Hooks : Place(g)' = Place(g)
    BY <2>3 DEF Place
  <2>5. HandsKept(t) /\ GuardsKept /\ PreparedOf(t)'
    BY <1>2, <1>4, <2>1, <2>2, <2>3, <2>4
       DEF HandsKept, GuardsKept, PlacesKept, PreparedOf, Types, HookType
  <2>6. \A g \in Hooks : EnabledOf(g)'
    BY <1>2, <1>4, <2>3, <2>4 DEF CInv, EnabledOf
  <2>7. ActiveList(t)'
    <3>1. \A k \in DOMAIN installed[t] : installed[t][k] \in Hooks /\ hook[installed[t][k]].active
      BY <1>2, InLists DEF CInv, ActiveList
    <3>2. QED
      BY <1>2, <2>3, <3>1 DEF ActiveList
  <2>8. CInv'
    BY <1>2, <1>3, <2>5, <2>6, <2>7, ClonesKept
  <2>9. ASSUME Retargetable PROVE SInv'
    <3>1. SInv
      BY <1>2, <2>9
    <3>2. ASSUME NEW g \in Hooks PROVE Met(g)' => Met(g)
      <4>1. \A u \in Threads : Eats(u, g)' => Eats(u, g)
        BY <2>1, <2>2 DEF Same, Eats
      <4>2. QED
        BY <1>2, <2>3, <2>4, <4>1 DEF Met
    <3>3. ASSUME NEW g \in Hooks, hook[g].claimed PROVE Kept(g)'
      BY <2>2, <2>3, <3>3 DEF Kept
    <3>4. QED
      BY <1>2, <2>2, <2>5, <3>1, <3>2, <3>3, StubsKept DEF GuardsKept
  <2>10. QED
    BY <2>8, <2>9 DEF RInv
<1>5. CASE stub[h] # "detour" /\ DropEnds(t, FALSE)
  <2>1. ASSUME SInv, Met(h) PROVE stub[h] = "original"
    BY <1>1, <1>2, <1>3, <1>5, <2>1, Dropped
  <2>2. QED
    BY <1>1, <1>2, <1>3, <1>5, <2>1, DropEndsRoles
<1>6. QED
  BY <1>1, <1>4, <1>5 DEF release_table_slot

(* A stub that may be made writable is retargeted.                         *)
LEMMA Retargeted ==
  ASSUME TInv, Retargetable, NEW h \in Hooks, RetireStub(h), stub[h] \in {"detour", "original"}
  PROVE  stub'[h] = "original"
  BY DEF TInv, Types, StubType, Retargetable, RetireStub

LEMMA retire_stubRoles ==
  ASSUME TInv, OInv, RInv, NEW t \in Threads, retire_stub(t)
  PROVE  RInv'
<1>1. PICK h : h = arg[t]
  OBVIOUS
<1>2. /\ Types /\ pc[t] = "retire_stub" /\ h \in Hooks /\ RetireStub(h) /\ DropEnds(t, FALSE)
      /\ UNCHANGED <<vptr, clones, cloneSlot, owned, freed, resolved, queue, installed,
                     detached, idx, after>>
  BY <1>1 DEF TInv, PInv, POf, DropOf, DropPcs, retire_stub, txVars, objVars
<1>3. pc[t] \in DropPcs /\ ObjectsKept
  BY <1>2 DEF DropPcs, ObjectsKept
<1>4. \A g \in Hooks \ {h} : stub'[g] = stub[g]
  BY <1>2 DEF RetireStub, Types, StubType
<1>5. ASSUME Retargetable, SInv, Met(h) PROVE stub'[h] = "original"
  BY <1>1, <1>2, <1>3, <1>5, Dropped, Retargeted
<1>6. QED
  BY <1>1, <1>2, <1>3, <1>4, <1>5, DropEndsRoles

LEMMA detach_finalizeRoles ==
  ASSUME TInv, OInv, RInv, NEW t \in Threads, detach_finalize(t)
  PROVE  RInv'
<1>1. /\ Types /\ PInv /\ CInv /\ (Retargetable => SInv)
  BY DEF TInv, RInv
<1>2. PICK h : h = Head(detached[t]).hook
  OBVIOUS
<1>3. /\ pc[t] = "finalize" /\ detached[t] # << >>
      /\ detached' = [detached EXCEPT ![t] = Tail(@)]
      /\ UNCHANGED <<stage, resolved, queue, installed, idx, pc, arg, after>>
  BY DEF detach_finalize, callVars
<1>4. h \in Hooks /\ stage[h] = "borrowed"
  <2>1. detached[t] \in Seq([hook : Hooks, was_enabled : BOOLEAN])
    BY <1>1 DEF Types, TxType
  <2>2. 1 \in DOMAIN detached[t] /\ h = detached[t][1].hook
    BY <1>2, <1>3, <2>1
  <2>3. QED
    BY <1>1, <2>2, AtDetached
<1>5. \/ /\ Place(h) \in Slots /\ hook' = Inert(h) /\ RetireStub(h)
         /\ UNCHANGED objVars
      \/ /\ Place(h) \in Instances /\ hook[h].active /\ restore_instance(h) /\ hook' = Inert(h)
         /\ UNCHANGED stub
      \/ Place(h) \in Instances /\ UNCHANGED objVars /\ Unhooked(h) /\ UNCHANGED stub
      \/ UNCHANGED <<objVars, stub, hook>>
  BY <1>2 DEF detach_finalize, Unrestored
<1>6. \A u \in Threads \ {t} : Same(u)
  BY <1>1, <1>3 DEF Same, Types, TxType
<1>7. /\ \A g \in Hooks : ~Eats(t, g)' /\ ~Eats(t, g) /\ ~Retires(t, g)' /\ ~Retires(t, g)
      /\ \A g \in Hooks : ~HeldBy(t, g)
  BY <1>3 DEF Eats, Retires, HeldBy
<1>8. HandsKept(t) /\ ActiveList(t)' /\ PreparedOf(t)'
  BY <1>1, <1>3, <1>6, <1>7 DEF HandsKept, ActiveList, PreparedOf, Types, HookType
<1>9. CASE UNCHANGED <<objVars, stub, hook>>
  <2>1. UNCHANGED <<vptr, clones, cloneSlot, owned, freed, hook, resolved, stub>>
    BY <1>3, <1>9 DEF objVars
  <2>2. QED
    BY <1>3, <1>7, <1>8, <2>1, SameGuards
<1>10. ASSUME hook' = Inert(h) \/ Unhooked(h),
              \A g \in Hooks \ {h} : stub'[g] = stub[g],
              \/ Place(h) \in Instances /\ hook[h].active /\ restore_instance(h)
              \/ ObjectsKept,
              Retargetable /\ SInv /\ Met(h) => stub'[h] = "original"
       PROVE  RInv'
  <2>1. Ended(h) /\ (hook'[h].claimed => hook[h].claimed)
    <3>1. CASE hook' = Inert(h)
      BY <1>1, <1>4, <3>1, InertIs DEF Types, Ended
    <3>2. CASE Unhooked(h)
      BY <1>1, <1>4, <3>2 DEF Types, HookType, Guard, Unhooked, Ended
    <3>3. QED
      BY <1>10, <3>1, <3>2
  <2>2. CInv' /\ PlacesKept
    BY <1>1, <1>3, <1>4, <1>8, <1>10, <2>1, EndedKept
  <2>3. ASSUME Retargetable PROVE SInv'
    <3>1. SInv
      BY <1>1, <2>3
    <3>2. ASSUME Met(h) PROVE stub'[h] = "original" /\ Kept(h)'
      BY <1>10, <2>3, <3>1, <3>2 DEF Kept
    <3>3. QED
      BY <1>3, <1>4, <1>7, <1>8, <1>10, <2>1, <2>2, <3>1, <3>2, EndedStubs
  <2>4. QED
    BY <2>2, <2>3 DEF RInv
<1>11. CASE /\ Place(h) \in Slots /\ hook' = Inert(h) /\ RetireStub(h)
            /\ UNCHANGED objVars
  <2>1. ObjectsKept /\ \A g \in Hooks \ {h} : stub'[g] = stub[g]
    BY <1>1, <1>11 DEF objVars, ObjectsKept, RetireStub, Types, StubType
  <2>2. ASSUME Retargetable, SInv, Met(h) PROVE stub'[h] = "original"
    <3>1. stub[h] \in {"detour", "original"}
      BY <1>4, <2>2 DEF SInv, StubOf
    <3>2. QED
      BY <1>4, <1>11, <2>2, <3>1, Retargeted
  <2>3. QED
    BY <1>10, <1>11, <2>1, <2>2
<1>12. CASE Place(h) \in Instances /\ UNCHANGED stub
  <2>1. ASSUME SInv, Met(h) PROVE FALSE
    <3>1. Place(h) \in Exports
      BY <1>4, <2>1 DEF SInv, StubOf
    <3>2. QED
      BY <1>12, <3>1, SlotKinds, PlacesAssumption
  <2>2. CASE hook[h].active /\ restore_instance(h) /\ hook' = Inert(h)
    BY <1>10, <1>12, <2>1, <2>2
  <2>3. CASE UNCHANGED objVars /\ Unhooked(h)
    <3>1. ObjectsKept
      BY <2>3 DEF objVars, ObjectsKept
    <3>2. QED
      BY <1>10, <1>12, <2>1, <2>3, <3>1
  <2>4. CASE UNCHANGED <<objVars, stub, hook>>
    BY <1>9, <2>4
  <2>5. CASE Place(h) \in Slots
    BY <1>12, <2>5, PlacesAssumption
  <2>6. QED
    BY <1>5, <2>2, <2>3, <2>4, <2>5
<1>13. QED
  BY <1>5, <1>9, <1>11, <1>12

(* The steps of the program, which touch neither the guards nor a          *)
(* transaction: an object gets its class table back, an address is kept    *)
(* that some hook put into a slot it owns.                                 *)
LEMMA QuietRoles ==
  ASSUME TInv, OInv, RInv,
         UNCHANGED <<clones, cloneSlot, owned, freed, hook, stage, stub, txVars, callVars>>,
         \A o \in Objects : vptr'[o] \in {vptr[o], Original},
         \A h \in Hooks : h \in resolved' => h \in resolved \/ Met(h)
  PROVE  RInv'
<1>1. /\ CInv /\ (Retargetable => SInv)
      /\ UNCHANGED <<queue, installed, detached, idx, pc, arg, after>>
  BY DEF RInv, txVars, callVars
<1>2. \A h \in Hooks : /\ Place(h)' = Place(h) /\ (Handed(h)' <=> Handed(h))
                       /\ Object(h)' = Object(h) /\ Method(h)' = Method(h)
  BY <1>1 DEF Place, Object, Method, Handed, HeldBy, Eats
<1>3. \A v : ClassValue(v)' <=> ClassValue(v)
  BY <1>2 DEF ClassValue
<1>4. ASSUME NEW o \in Objects PROVE CloneOf(o)'
  <2>1. CloneOf(o) /\ vptr'[o] \in {vptr[o], Original} /\ clones'[o] = clones[o]
    BY <1>1 DEF CInv
  <2>2. vptr'[o] \in Hooks => clones'[o].clone = vptr'[o]
    BY <2>1, HooksAssumption DEF CloneOf
  <2>3. QED
    BY <1>3, <2>1, <2>2 DEF CloneOf, Place, Object, ClassValue
<1>5. ASSUME NEW h \in Hooks PROVE UsedOf(h)' /\ ActiveOf(h)' /\ EnabledOf(h)'
  <2>1. UsedOf(h) /\ ActiveOf(h) /\ EnabledOf(h)
    BY <1>1 DEF CInv
  <2>2. UsedOf(h)'
    BY <1>2, <2>1 DEF UsedOf, UsedClone
  <2>3. ActiveOf(h)'
    BY <1>2, <1>3, <2>1 DEF ActiveOf, ClassValue
  <2>4. QED
    BY <1>2, <2>1, <2>2, <2>3 DEF EnabledOf
<1>6. \A t \in Threads : ActiveList(t)'
  BY <1>1 DEF CInv, ActiveList
<1>7. ASSUME Retargetable PROVE SInv'
  <2>1. SInv /\ \A t \in Threads : \A h \in Hooks :
            (Eats(t, h)' <=> Eats(t, h)) /\ (Retires(t, h)' <=> Retires(t, h))
    BY <1>1, <1>7 DEF Eats, Retires
  <2>2. ASSUME NEW h \in Hooks PROVE StubOf(h)'
    <3>1. Met(h)' => Met(h)
      BY <1>2, <2>1 DEF Met
    <3>2. Kept(h) => Kept(h)'
      BY <2>1 DEF Kept
    <3>3. QED
      BY <1>2, <2>1, <3>1, <3>2 DEF SInv, StubOf
  <2>3. \A t \in Threads : PreparedOf(t)'
    BY <1>1, <2>1 DEF SInv, PreparedOf, NeedsStub, QueuedHooks, Place
  <2>4. QED
    BY <2>2, <2>3 DEF SInv
<1>8. QED
  BY <1>4, <1>5, <1>6, <1>7 DEF RInv, CInv

LEMMA GetProcAddressRoles ==
  ASSUME TInv, OInv, RInv, NEW e \in Exports, GetProcAddress(e)
  PROVE  RInv'
<1>1. /\ resolved' = resolved \cup ({slot[e]} \cap Far)
      /\ UNCHANGED <<vptr, clones, cloneSlot, owned, freed, hook, stage, stub, txVars, callVars>>
  BY DEF GetProcAddress, tableVars, objVars
<1>2. ASSUME NEW h \in Hooks, h \in resolved', h \notin resolved PROVE Met(h)
  <2>1. h = slot[e] /\ h \in Far /\ e \in Slots
    BY <1>1, <1>2, SlotKinds
  <2>2. Owns(h, e)
    BY <2>1 DEF OInv, OwnerOK
  <2>3. QED
    BY <2>1, <2>2 DEF Met, Owns, Eats
<1>3. QED
  BY <1>1, <1>2, QuietRoles

LEMMA InitRInv == Init => RInv
<1>1. SUFFICES ASSUME Init PROVE RInv
  OBVIOUS
<1>2. ASSUME NEW h \in Hooks
      PROVE  /\ ~hook[h].claimed /\ ~hook[h].active /\ ~hook[h].enabled
             /\ h \notin freed /\ h \notin resolved
  BY <1>1 DEF Init, NoGuard
<1>3. \A o \in Objects : clones[o] = NoEntry /\ vptr[o] \notin Hooks
  BY <1>1, HooksAssumption DEF Init
<1>4. \A t \in Threads : pc[t] = "ready" /\ installed[t] = << >>
  BY <1>1 DEF Init
<1>5. CInv
  <2>1. \A o \in Objects : CloneOf(o)
    BY <1>3 DEF CloneOf
  <2>2. \A h \in Hooks : UsedOf(h) /\ ActiveOf(h) /\ EnabledOf(h)
    BY <1>2, <1>3, NoEntryClone DEF UsedOf, UsedClone, ActiveOf, EnabledOf
  <2>3. \A t \in Threads : ActiveList(t)
    BY <1>4 DEF ActiveList
  <2>4. QED
    BY <2>1, <2>2, <2>3 DEF CInv
<1>6. SInv
  BY <1>2, <1>4 DEF SInv, StubOf, Met, Eats, PreparedOf
<1>7. QED
  BY <1>5, <1>6 DEF RInv

LEMMA ClientRoles ==
  ASSUME TInv, TInv', OInv, RInv, NEW t \in Threads, NEW h \in Hooks, Client(t, h)
  PROVE  RInv'
<1>1. ASSUME NEW p \in Slots \cup Instances, Enqueue(t, h, p) PROVE RInv'
  BY <1>1, EnqueueRoles
<1>2. CASE attach_iat(t, h) \/ attach_eat(t, h) \/ attach_vtable(t, h)
  BY <1>1, <1>2, SlotKinds DEF attach_iat, attach_eat, attach_vtable
<1>3. CASE attach_vtable_instance(t, h)
  BY <1>1, <1>3 DEF attach_vtable_instance
<1>4. CASE detach(t, h)
  BY <1>4, detachRoles
<1>5. CASE enable(t, h) \/ disable(t, h)
  BY <1>5, ToggleRoles
<1>6. CASE unhook(t, h)
  BY <1>6, unhookRoles
<1>7. CASE drop(t, h)
  BY <1>7, dropRoles
<1>8. QED
  BY <1>2, <1>3, <1>4, <1>5, <1>6, <1>7 DEF Client

LEMMA CommitRoles ==
  ASSUME TInv, OInv, RInv, NEW t \in Threads, Commit(t)
  PROVE  RInv'
<1>1. CASE commit_lock(t)
  BY <1>1, commit_lockRoles
<1>2. CASE install_slot(t)
  BY <1>2, install_slotRoles
<1>3. CASE install_eat(t)
  BY <1>3, install_eatRoles
<1>4. CASE eat_protect(t)
  BY <1>4, eat_protectRoles
<1>5. CASE install_into(t)
  BY <1>5, install_intoRoles
<1>6. CASE prepare_detach(t)
  BY <1>6, prepare_detachRoles
<1>7. CASE commit_applied(t)
  BY <1>7, commit_appliedRoles
<1>8. CASE detach_finalize(t)
  BY <1>8, detach_finalizeRoles
<1>9. CASE commit_end(t) \/ dismantle_end(t)
  BY <1>9, commit_endRoles
<1>10. CASE rollback_detaches(t)
  BY <1>10, rollback_detachesRoles
<1>11. CASE rollback(t)
  BY <1>11, rollbackRoles
<1>12. CASE dismantle(t)
  BY <1>12, dismantleRoles
<1>13. QED
  BY <1>1, <1>2, <1>3, <1>4, <1>5, <1>6, <1>7, <1>8, <1>9, <1>10, <1>11, <1>12 DEF Commit

LEMMA NextRoles ==
  ASSUME TInv, TInv', OInv, RInv, [Next]_vars
  PROVE  RInv'
<1>1. ASSUME NEW t \in Threads, commit(t) PROVE RInv'
  BY <1>1, commitRoles
<1>2. ASSUME NEW t \in Threads, Commit(t) PROVE RInv'
  BY <1>2, CommitRoles
<1>3. ASSUME NEW t \in Threads, Dropping(t) PROVE RInv'
  BY <1>3, drop_unhookRoles, release_table_slotRoles, retire_stubRoles DEF Dropping
<1>4. ASSUME NEW t \in Threads, NEW h \in Hooks, Client(t, h) PROVE RInv'
  BY <1>4, ClientRoles
<1>5. ASSUME NEW e \in Exports, GetProcAddress(e) PROVE RInv'
  BY <1>5, GetProcAddressRoles
<1>6. ASSUME NEW o \in Objects, construct(o) PROVE RInv'
  <2>1. \A p \in Objects : vptr'[p] \in {vptr[p], Original}
    BY <1>6 DEF construct, TInv, Types, ObjType
  <2>2. QED
    BY <1>6, <2>1, QuietRoles DEF construct
<1>7. CASE UNCHANGED vars
  BY <1>7, QuietRoles DEF vars, tableVars, objVars
<1>8. QED
  BY <1>1, <1>2, <1>3, <1>4, <1>5, <1>6, <1>7 DEF Next

(* A hook of a class slot is not one of an object.                         *)
LEMMA ClonesOfCInv == ASSUME TInv, CInv PROVE ClonesAreSafe
<1>1. ASSUME NEW o \in Objects
      PROVE  /\ vptr[o] \in Hooks => vptr[o] \notin freed /\ clones[o].clone = vptr[o]
             /\ clones[o] # NoEntry =>
                   /\ clones[o].clone \notin freed
                   /\ clones[o].hooks = Cardinality(owned[clones[o].clone])
  BY NoEntryClone DEF CInv, CloneOf
<1>2. ASSUME NEW h \in Hooks, Place(h) \in Instances, hook[h].active
      PROVE  /\ hook[h].clone = clones[Object(h)].clone
             /\ Method(h) \in owned[hook[h].clone]
             /\ \A g \in Hooks : Place(g) \in Instances => hook[h].orig # g
  BY <1>2, PlacesAssumption DEF CInv, ActiveOf, ClassValue
<1>3. QED
  BY <1>1, <1>2 DEF ClonesAreSafe

(* No hook that is gone is being installed, or has its stub retired.       *)
LEMMA StubsOfSInv == ASSUME TInv, SInv PROVE ResolvedAddressesWork
<1>1. SUFFICES ASSUME NEW h \in resolved
               PROVE  /\ stub[h] \in {"detour", "original"}
                      /\ stage[h] = "gone" /\ ~hook[h].claimed => stub[h] = "original"
  BY DEF ResolvedAddressesWork
<1>2. h \in Far /\ h \in Hooks
  BY FarAssumption DEF TInv, Types, StubType
<1>3. stub[h] \in {"detour", "original"} /\ Kept(h)
  BY <1>2 DEF SInv, StubOf, Met
<1>4. ASSUME stage[h] = "gone", NEW t \in Threads, Eats(t, h) \/ Retires(t, h) PROVE FALSE
  <2>1. InHand(t, h)
    BY <1>4 DEF InHand, Retires, DropPcs
  <2>2. QED
    BY <1>2, <1>4, <2>1, HandStage DEF TInv
<1>5. QED
  BY <1>3, <1>4 DEF Kept

(***************************************************************************)
(* No object dispatches through a freed clone or one that the registry     *)
(* (instance_clones) does not know, the count of a clone is the number of  *)
(* slots its hooks own, and an active hook restores what the class had:    *)
(* for any number of objects, methods and hooks, although the object may   *)
(* be rebuilt under its hooks, drops take the code lock anew for each of   *)
(* their steps and the write of the vtable pointer may be refused.         *)
(***************************************************************************)
THEOREM ClonesStaySafe == Spec => []ClonesAreSafe
<1>1. Init => TInv /\ OInv /\ RInv
  BY InitTInv, InitOInv, InitRInv
<1>2. TInv /\ OInv /\ RInv /\ [Next]_vars => TInv' /\ OInv' /\ RInv'
  BY NextKeeps, NextRoles
<1>3. TInv /\ RInv => ClonesAreSafe
  BY ClonesOfCInv DEF RInv
<1>4. QED
  BY <1>1, <1>2, <1>3, PTL DEF Spec

(***************************************************************************)
(* Where the page of an export table can be protected again and a stub     *)
(* made writable, an address that GetProcAddress gave out while an export  *)
(* was hooked stays good for ever: its stub is never given back, and it    *)
(* leads to the original once the hook that released its slot has gone.    *)
(* What the code does when one of the two is refused is excluded, and each *)
(* breaks the property: install_eat then gives back a stub whose address   *)
(* was readable for a moment, and a drop leaves the stub at the detour.    *)
(***************************************************************************)
THEOREM ResolvedAddressesStayGood ==
  ASSUME Retargetable
  PROVE  Spec => []ResolvedAddressesWork
<1>1. Init => TInv /\ OInv /\ RInv
  BY InitTInv, InitOInv, InitRInv
<1>2. TInv /\ OInv /\ RInv /\ [Next]_vars => TInv' /\ OInv' /\ RInv'
  BY NextKeeps, NextRoles
<1>3. TInv /\ RInv => ResolvedAddressesWork
  BY StubsOfSInv DEF RInv
<1>4. QED
  BY <1>1, <1>2, <1>3, PTL DEF Spec
=============================================================================
